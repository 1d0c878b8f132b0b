---------------------------- MODULE LinkingProofs ----------------------------
(***************************************************************************)
(* Theorems about Linking, for every set of names and types and every      *)
(* bound on the tree: the type invariant with the length of the chain of   *)
(* scopes, and that allocas come before uses but for unbraced arrays.      *)
(*                                                                         *)
(* The invariant gives every node the region in which its code will be,    *)
(* R, while the tree is still being made, and every frame of the           *)
(* typechecker's stack the number of scopes when it runs, g.  A variable   *)
(* may be used in a region (Usable) when its alloca is executed before     *)
(* it.  What the scopes bind is usable in all that runs before its scope   *)
(* is closed (Bound), since a declaration that is not a branch itself      *)
(* shares its region with the statement list around it (Stacked); so the   *)
(* links are right (LinksRight).  The code generator, in its own order,    *)
(* is always in the region of the node it visits (Leads).                  *)
(***************************************************************************)
EXTENDS Linking, SequenceTheorems, FiniteSetTheorems, WellFoundedInduction, TLAPS

-----------------------------------------------------------------------------
(* The syntax tree. *)

NodeForms == AllForms \cup ParamForms \cup {"hole", "lit"}
AllNames == Names \cup {""}
NodeRecs == [form : NodeForms, name : AllNames, ty : Types, kids : Seq(Nat)]

\* How many parts a node of some form may have.
Arity(form) ==
    CASE form \in {"access", "callexp", "call", "assign", "return"} -> {1}
      [] form \in {"arrayassign", "while"} -> {2}
      [] form = "arraydecl" -> {1, 2}
      [] form = "decl" -> {0, 1}
      [] form = "if" -> {2, 3}
      [] form = "for" -> {4}
      [] form = "seq" -> Nat
      [] OTHER -> {0}

Kids(n) == tree[n].kids

\* A node is made before its parts, and part of one other at most.
Shaped ==
    /\ tree \in Seq(NodeRecs) /\ Body \in Nodes /\ tree[Body].form = "seq"
    /\ \A n \in Nodes :
          /\ Len(Kids(n)) \in Arity(tree[n].form)
          /\ \A i \in DOMAIN Kids(n) : Kids(n)[i] \in Nodes /\ n < Kids(n)[i]
          /\ \A i \in DOMAIN Kids(n) : ~IsParam(Kids(n)[i])
    /\ \A m, n \in Nodes : \A i \in DOMAIN Kids(m), j \in DOMAIN Kids(n) :
          Kids(m)[i] = Kids(n)[j] => m = n /\ i = j

-----------------------------------------------------------------------------
(* The regions of the nodes. *)

\* What the generator enters between a node and its part i, 0 for nothing.
Entered(form, i) ==
    IF form \in {"if", "while"} /\ i # 1 THEN i
    ELSE IF form = "for" /\ i \in {3, 4} THEN 4 ELSE 0
Sub(r, form, n, i) ==
    IF Entered(form, i) = 0 THEN r ELSE Append(r, <<n, Entered(form, i)>>)

Regions == Seq(Nat \X Nat)
Regioned(R) ==
    /\ R \in [Nodes -> Regions] /\ R[Body] = <<>>
    /\ \A n \in Nodes : IsParam(n) => R[n] = <<>>
    /\ \A n \in Nodes : \A i \in DOMAIN Kids(n) :
          R[Kids(n)[i]] = Sub(R[n], tree[n].form, n, i)

Before(r, s) == Len(r) <= Len(s) /\ \A i \in 1 .. Len(r) : r[i] = s[i]

\* A variable may be used where its alloca was executed, ...
Exempt(n) == \E m \in Nodes : tree[m].form \in {"if", "while"} /\ n \in Range(Kids(m))
Usable(R, d, r) == tree[d].form # "arraydecl" \/ Exempt(d) \/ Before(R[d], r)

-----------------------------------------------------------------------------
(* The typechecker's stack. *)

\* The forms of nodes that frames of a kind are about.
Hosts(k) ==
    CASE k \in {"stmt", "exp"} -> {"hole"}
      [] k \in {"params", "seq"} -> {"seq"}
      [] k \in {"open", "close"} -> {"seq", "for"}
      [] k = "access" -> {"access"}
      [] k = "call" -> {"call", "callexp"}
      [] k = "assign" -> {"assign"}
      [] k = "arrayassign" -> {"arrayassign"}
      [] k = "insert" -> DeclForms
      [] OTHER -> {}
Kinds == {"stmt", "exp", "params", "seq", "open", "close", "access", "call", "assign",
          "arrayassign", "insert"}

Visits == {"stmt", "exp"}
Finders == {"access", "arrayassign"}
Linkers == {"access", "arrayassign", "assign"}

Fillers == {"stmt", "insert"}
Shift(k) == IF k = "open" THEN 1 ELSE IF k = "close" THEN -1 ELSE 0

\* The number of scopes when each frame runs.
Levelled(g, s, from, to) ==
    /\ g \in [1 .. Len(s) + 1 -> Nat \ {0}]
    /\ g[1] = from /\ g[Len(s) + 1] = to
    /\ \A i \in DOMAIN s : g[i + 1] = g[i] + Shift(s[i].k)

\* Between i and j the scope of level l is closed.
Closed(g, s, l, i, j) == \E c \in DOMAIN s : i <= c /\ c <= j /\ s[c].k = "close" /\ g[c] = l

Variable(d) == d \in Nodes /\ tree[d].form \in DeclForms \cup ParamForms

Hosted(f) ==
    /\ f.n \in Nodes /\ f.k \in Kinds /\ tree[f.n].form \in Hosts(f.k)
    /\ f.k \in Finders => f.d \in Nodes /\ IsArray(f.d)

Stacked(R, g) ==
    /\ \A i \in DOMAIN stack : Hosted(stack[i])
    /\ \A i, j \in DOMAIN stack :
          stack[i].k \in Visits /\ stack[j].k \in Visits /\ stack[i].n = stack[j].n => i = j
    /\ \A i \in DOMAIN stack : stack[i].k = "seq" =>
          i + 1 \in DOMAIN stack /\ stack[i + 1].k = "close"
    /\ \A i, j \in DOMAIN stack :
          stack[i].k \in Fillers /\ i < j /\ ~Closed(g, stack, g[i], i, j)
             => Exempt(stack[i].n) \/ Before(R[stack[i].n], R[stack[j].n])

\* What the scopes bind can be used as long as they are open.
Safe(R, g, l, d) ==
    /\ Variable(d)
    /\ \A i \in DOMAIN stack : ~Closed(g, stack, l, 1, i) => Usable(R, d, R[stack[i].n])
Bound(R, g) == \A l \in DOMAIN scopes : \A x \in DOMAIN scopes[l] : Safe(R, g, l, scopes[l][x])

Found(R) == \A i \in DOMAIN stack : stack[i].k \in Finders =>
                Usable(R, stack[i].d, R[stack[i].n])

LinksRight(R) ==
    \A u \in DOMAIN link :
        /\ u \in Uses /\ Variable(link[u])
        /\ tree[u].form \in {"access", "arrayassign"} => IsArray(link[u])
        /\ tree[u].form = "assign" => ~IsParam(link[u])
        /\ Usable(R, link[u], R[u])

UsesAwaited == \A u \in Uses : \/ u \in DOMAIN link
                            \/ \E i \in DOMAIN stack : stack[i].n = u /\ stack[i].k \in Linkers

Checking == phase = "check" =>
    \E R, g : /\ Regioned(R) /\ Levelled(g, stack, Len(scopes), 1)
              /\ Stacked(R, g) /\ Bound(R, g) /\ Found(R) /\ LinksRight(R) /\ UsesAwaited

-----------------------------------------------------------------------------
(* The generator's stack. *)

GenHosts(k) ==
    CASE k \in {"stmt", "exp"} -> NodeForms
      [] k = "seq" -> {"seq"}
      [] k = "element" -> {"arrayassign"}
      [] k = "alloca" -> {"arraydecl"}
      [] k \in {"enter", "leave"} -> {"if", "while", "for"}
      [] OTHER -> {}

\* A frame that is run in region r leaves the builder in region q.
Runs(f, r, q, R) ==
    /\ f.n \in Nodes /\ tree[f.n].form \in GenHosts(f.k)
    /\ CASE f.k = "enter" -> q = Append(r, <<f.n, f.d>>)
         [] f.k = "leave" -> r # <<>> /\ q = Front(r)
         [] OTHER -> q = r /\ R[f.n] = r
Follows(h, s, r, q, R) ==
    /\ h \in [1 .. Len(s) + 1 -> Regions] /\ h[1] = r /\ h[Len(s) + 1] = q
    /\ \A i \in DOMAIN s : Runs(s[i], h[i], h[i + 1], R)
Leads(s, r, q, R) == \E h : Follows(h, s, r, q, R)

Homes(R) == \A d \in symbols : d \in Nodes /\
                home[d] = IF tree[d].form = "arraydecl" THEN R[d] ELSE <<>>

Generating == phase = "gen" =>
    \E R : /\ Regioned(R) /\ Leads(stack, region, <<>>, R) /\ Homes(R) /\ LinksRight(R)
           /\ Uses \subseteq DOMAIN link

-----------------------------------------------------------------------------
(* Sequences. *)

\* Every set of numbers that is not empty has a least one.
LEMMA LeastNumber ==
    ASSUME NEW S \in SUBSET Nat, S # {}
    PROVE  \E x \in S : \A y \in S : x <= y
<1> DEFINE R == {ss \in Nat \X Nat : ss[1] < ss[2]}
<1>1. IsWellFoundedOn(R, Nat)
  BY NatLessThanWellFounded DEF OpToRel
<1>2. PICK x \in S : \A y \in S : <<y, x>> \notin R
  <2> HIDE DEF R
  <2> QED  BY <1>1, WFMin
<1>3. ASSUME NEW y \in S
      PROVE  x <= y
  <2>1. x \in Nat /\ y \in Nat /\ <<y, x>> \in Nat \X Nat
    OBVIOUS
  <2>2. ~(y < x)
    BY <1>2, <2>1
  <2> QED  BY <2>1, <2>2
<1> QED  BY <1>3

\* A set with 0 and the successor of every number in it has all the numbers.
LEMMA Induction ==
    ASSUME NEW S, 0 \in S, \A n \in Nat : n \in S => n + 1 \in S
    PROVE  Nat \subseteq S
<1> SUFFICES ASSUME Nat \ S # {}
             PROVE  FALSE
  OBVIOUS
<1>1. PICK x \in Nat \ S : \A y \in Nat \ S : x <= y
  BY LeastNumber
<1>2. PICK m \in Nat : m + 1 = x
  <2>1. x # 0 /\ x - 1 \in Nat /\ x - 1 + 1 = x
    BY <1>1
  <2> QED  BY <2>1
<1>3. m \in S
  BY <1>1, <1>2
<1> QED  BY <1>2, <1>3

\* What the stack is after the running frame was replaced by fs.
LEMMA Replaced ==
    ASSUME NEW F, NEW s \in Seq(F), s # <<>>, NEW G, NEW fs \in Seq(G)
    PROVE  LET t == fs \o Tail(s)
           IN  /\ Len(t) \in Nat /\ Len(s) \in Nat /\ Len(fs) \in Nat /\ Len(s) >= 1
               /\ Len(t) = Len(fs) + Len(s) - 1
               /\ DOMAIN t = 1 .. Len(t) /\ DOMAIN s = 1 .. Len(s) /\ DOMAIN fs = 1 .. Len(fs)
               /\ \A i \in DOMAIN fs : i \in DOMAIN t /\ t[i] = fs[i]
               /\ \A i \in 2 .. Len(s) : Len(fs) + i - 1 \in DOMAIN t /\ t[Len(fs) + i - 1] = s[i]
               /\ \A i \in DOMAIN t :
                     \/ i \in DOMAIN fs
                     \/ i > Len(fs) /\ i - Len(fs) + 1 \in 2 .. Len(s)
<1> DEFINE t == fs \o Tail(s)
<1>1. /\ Tail(s) \in Seq(F) /\ Len(Tail(s)) = Len(s) - 1 /\ Len(s) >= 1 /\ Len(s) \in Nat
      /\ \A i \in 1 .. Len(Tail(s)) : Tail(s)[i] = s[i + 1]
  BY EmptySeq, HeadTailProperties
<1>2. fs \in Seq(F \cup G) /\ Tail(s) \in Seq(F \cup G)
  BY <1>1, SeqMonotonic
<1>3. /\ t \in Seq(F \cup G) /\ Len(t) = Len(fs) + Len(Tail(s)) /\ Len(fs) \in Nat
      /\ \A i \in 1 .. Len(t) : t[i] = IF i <= Len(fs) THEN fs[i] ELSE Tail(s)[i - Len(fs)]
  BY <1>2, ConcatProperties, LenProperties
<1>4. /\ DOMAIN t = 1 .. Len(t) /\ DOMAIN fs = 1 .. Len(fs) /\ DOMAIN s = 1 .. Len(s)
  BY <1>3, LenProperties
<1> HIDE DEF t
<1>5. Len(t) = Len(fs) + Len(s) - 1 /\ Len(t) \in Nat
  BY <1>1, <1>3
<1>6. ASSUME NEW i \in DOMAIN fs
      PROVE  i \in DOMAIN t /\ t[i] = fs[i]
  <2>1. i \in Nat /\ i >= 1 /\ i <= Len(fs)
    BY <1>3, <1>4
  <2>2. i \in 1 .. Len(t)
    BY <2>1, <1>1, <1>3, <1>5
  <2> QED  BY <2>1, <2>2, <1>3, <1>4
<1>7. ASSUME NEW i \in 2 .. Len(s)
      PROVE  Len(fs) + i - 1 \in DOMAIN t /\ t[Len(fs) + i - 1] = s[i]
  <2>1. /\ i \in Nat /\ i - 1 \in 1 .. Len(Tail(s)) /\ i - 1 + 1 = i
    BY <1>1
  <2>2. Len(fs) + i - 1 \in 1 .. Len(t) /\ ~(Len(fs) + i - 1 <= Len(fs))
        /\ Len(fs) + i - 1 - Len(fs) = i - 1
    BY <2>1, <1>1, <1>3, <1>5
  <2>3. t[Len(fs) + i - 1] = Tail(s)[i - 1]
    BY <2>2, <1>3
  <2> QED  BY <2>1, <2>2, <2>3, <1>1, <1>4
<1>8. ASSUME NEW i \in DOMAIN t
      PROVE  \/ i \in DOMAIN fs
             \/ i > Len(fs) /\ i - Len(fs) + 1 \in 2 .. Len(s)
  BY <1>1, <1>3, <1>4, <1>5
<1> QED  BY <1>1, <1>3, <1>4, <1>5, <1>6, <1>7, <1>8 DEF t

-----------------------------------------------------------------------------
(* Regions. *)

\* Before is an order, with the region of the body below all others.
LEMMA BeforeRules ==
    /\ \A r \in Regions : Before(r, r)
    /\ \A r, s, t \in Regions : Before(r, s) /\ Before(s, t) => Before(r, t)
    /\ \A r \in Regions : Before(<<>>, r)
<1>1. \A r \in Regions : Len(r) \in Nat
  BY DEF Regions
<1>2. \A r \in Regions : Before(r, r)
  BY <1>1 DEF Before
<1>3. ASSUME NEW r \in Regions, NEW s \in Regions, NEW t \in Regions,
             Before(r, s), Before(s, t)
      PROVE  Before(r, t)
  <2>1. Len(r) \in Nat /\ Len(s) \in Nat /\ Len(t) \in Nat
    BY <1>1
  <2>2. Len(r) <= Len(t)
    BY <2>1, <1>3 DEF Before
  <2>3. ASSUME NEW i \in 1 .. Len(r)
        PROVE  r[i] = t[i]
    <3>1. i \in 1 .. Len(s)
      BY <2>1, <1>3 DEF Before
    <3> QED  BY <3>1, <1>3 DEF Before
  <2> QED  BY <2>2, <2>3 DEF Before
<1>4. \A r \in Regions : Before(<<>>, r)
  BY <1>1 DEF Before
<1> QED  BY <1>2, <1>3, <1>4

\* The region of a part is inside that of its node.
LEMMA SubRules ==
    ASSUME NEW r \in Regions, NEW form, NEW n \in Nat, NEW i \in Nat
    PROVE  Sub(r, form, n, i) \in Regions /\ Before(r, Sub(r, form, n, i))
<1>1. Entered(form, i) \in Nat
  BY DEF Entered
<1> DEFINE e == <<n, Entered(form, i)>>
<1>2. e \in Nat \X Nat
  BY <1>1
<1> HIDE DEF e
<1>3. /\ Append(r, e) \in Regions /\ Len(Append(r, e)) = Len(r) + 1 /\ Len(r) \in Nat
      /\ \A j \in 1 .. Len(r) : Append(r, e)[j] = r[j]
  BY <1>2, AppendProperties DEF Regions
<1>4. Before(r, Append(r, e))
  BY <1>3 DEF Before
<1>5. Before(r, r)
  BY BeforeRules
<1> QED  BY <1>3, <1>4, <1>5 DEF Sub, e

\* A prefix in the sense of the library.
LEMMA BeforeIsPrefix ==
    ASSUME NEW r \in Regions, NEW s \in Regions, Before(r, s)
    PROVE  IsPrefix(r, s)
<1>1. Len(r) \in Nat /\ Len(s) \in Nat /\ Len(r) <= Len(s)
  BY DEF Regions, Before
<1>2. SubSeq(r, 1, Len(r)) = [i \in 1 .. Len(r) |-> r[i]]
  BY <1>1 DEF Regions
<1>3. SubSeq(s, 1, Len(r)) = [i \in 1 .. Len(r) |-> s[i]]
  BY <1>1 DEF Regions
<1>4. \A i \in 1 .. Len(r) : r[i] = s[i]
  BY DEF Before
<1>5. [i \in 1 .. Len(r) |-> r[i]] = [i \in 1 .. Len(r) |-> s[i]]
  BY <1>4
<1> QED  BY <1>1, <1>2, <1>3, <1>5 DEF IsPrefix

-----------------------------------------------------------------------------
(* Levels. *)

\* The scopes there are, those to be closed and those to be opened.
LEMMA LevelsCount ==
    ASSUME NEW F, NEW s \in Seq(F), NEW g, NEW n \in Nat, Levelled(g, s, n, 1)
    PROVE  n = 1 + Cardinality({i \in DOMAIN s : s[i].k = "close"})
                 - Cardinality({i \in DOMAIN s : s[i].k = "open"})
<1> DEFINE C(k, m) == {i \in 1 .. m : s[i].k = k}
           P == {m \in Nat : m <= Len(s) => g[m + 1] = n - Cardinality(C("close", m))
                                                         + Cardinality(C("open", m))}
<1>1. Len(s) \in Nat /\ DOMAIN s = 1 .. Len(s)
  OBVIOUS
<1>2. ASSUME NEW k
      PROVE  /\ C(k, 0) = {}
             /\ \A m \in Nat : /\ IsFiniteSet(C(k, m)) /\ m + 1 \notin C(k, m)
                               /\ C(k, m + 1) = C(k, m) \cup (IF s[m + 1].k = k THEN {m + 1} ELSE {})
  <2>1. C(k, 0) = {}
    OBVIOUS
  <2>2. ASSUME NEW m \in Nat
        PROVE  /\ IsFiniteSet(C(k, m)) /\ m + 1 \notin C(k, m)
               /\ C(k, m + 1) = C(k, m) \cup (IF s[m + 1].k = k THEN {m + 1} ELSE {})
    <3>1. IsFiniteSet(1 .. m)
      BY FS_Interval
    <3>2. IsFiniteSet(C(k, m))
      BY <3>1, FS_Subset
    <3>3. 1 .. m + 1 = (1 .. m) \cup {m + 1} /\ m + 1 \notin 1 .. m
      OBVIOUS
    <3> QED  BY <3>2, <3>3
  <2> QED  BY <2>1, <2>2
<1>3. ASSUME NEW k
      PROVE  /\ Cardinality(C(k, 0)) = 0
             /\ \A m \in Nat : /\ Cardinality(C(k, m)) \in Nat
                               /\ Cardinality(C(k, m + 1)) = Cardinality(C(k, m))
                                     + (IF s[m + 1].k = k THEN 1 ELSE 0)
  <2>1. Cardinality(C(k, 0)) = 0
    BY <1>2, FS_EmptySet
  <2>2. ASSUME NEW m \in Nat
        PROVE  /\ Cardinality(C(k, m)) \in Nat
               /\ Cardinality(C(k, m + 1)) = Cardinality(C(k, m))
                     + (IF s[m + 1].k = k THEN 1 ELSE 0)
    <3> DEFINE D == C(k, m)
               E == C(k, m + 1)
    <3>1. IsFiniteSet(D) /\ m + 1 \notin D /\ E = D \cup (IF s[m + 1].k = k THEN {m + 1} ELSE {})
      BY <1>2
    <3> HIDE DEF D, E
    <3>2. Cardinality(D) \in Nat /\ Cardinality(D \cup {m + 1}) = Cardinality(D) + 1
      BY <3>1, FS_CardinalityType, FS_AddElement
    <3>3. Cardinality(E) = Cardinality(D) + (IF s[m + 1].k = k THEN 1 ELSE 0)
      <4>1. CASE s[m + 1].k = k
        BY <3>1, <3>2, <4>1
      <4>2. CASE s[m + 1].k # k
        <5>1. E = D
          BY <3>1, <4>2
        <5> QED  BY <3>2, <4>2, <5>1
      <4> QED  BY <4>1, <4>2
    <3> QED  BY <3>2, <3>3 DEF D, E
  <2> QED  BY <2>1, <2>2
<1> DEFINE co(m) == Cardinality(C("open", m))
           cc(m) == Cardinality(C("close", m))
<1>4. /\ co(0) = 0 /\ cc(0) = 0
      /\ \A m \in Nat : co(m) \in Nat /\ cc(m) \in Nat
      /\ \A m \in Nat : co(m + 1) = co(m) + (IF s[m + 1].k = "open" THEN 1 ELSE 0)
      /\ \A m \in Nat : cc(m + 1) = cc(m) + (IF s[m + 1].k = "close" THEN 1 ELSE 0)
  <2> HIDE DEF C
  <2>1. /\ co(0) = 0 /\ \A m \in Nat : co(m) \in Nat
        /\ \A m \in Nat : co(m + 1) = co(m) + (IF s[m + 1].k = "open" THEN 1 ELSE 0)
    BY <1>3, Zenon
  <2>2. /\ cc(0) = 0 /\ \A m \in Nat : cc(m) \in Nat
        /\ \A m \in Nat : cc(m + 1) = cc(m) + (IF s[m + 1].k = "close" THEN 1 ELSE 0)
    BY <1>3, Zenon
  <2> QED  BY <2>1, <2>2, Zenon
<1>5. /\ g[1] = n /\ g[Len(s) + 1] = 1
      /\ \A i \in 1 .. Len(s) : g[i + 1] = g[i] + Shift(s[i].k)
  BY <1>1 DEF Levelled
<1> DEFINE Q == {m \in Nat : m <= Len(s) => g[m + 1] = n - cc(m) + co(m)}
<1> HIDE DEF C, P, co, cc
<1>6. 0 \in Q
  <2>1. g[0 + 1] = g[1] /\ n - 0 + 0 = n
    OBVIOUS
  <2>2. g[0 + 1] = n - cc(0) + co(0)
    BY <2>1, <1>4, <1>5
  <2> QED  BY <2>2
<1>7. ASSUME NEW m \in Nat, m \in Q
      PROVE  m + 1 \in Q
  <2> SUFFICES ASSUME m + 1 <= Len(s)
               PROVE  g[m + 1 + 1] = n - cc(m + 1) + co(m + 1)
    OBVIOUS
  <2>1. m + 1 \in 1 .. Len(s) /\ m <= Len(s)
    BY <1>1
  <2>2. g[m + 1] = n - cc(m) + co(m) /\ g[m + 1 + 1] = g[m + 1] + Shift(s[m + 1].k)
    BY <2>1, <1>5, <1>7
  <2>3. co(m) \in Nat /\ cc(m) \in Nat
    BY <1>4
  <2>4. /\ co(m + 1) = co(m) + (IF s[m + 1].k = "open" THEN 1 ELSE 0)
        /\ cc(m + 1) = cc(m) + (IF s[m + 1].k = "close" THEN 1 ELSE 0)
    BY <1>4
  <2>5. CASE s[m + 1].k = "open"
    <3>1. co(m + 1) = co(m) + 1 /\ cc(m + 1) = cc(m) /\ Shift(s[m + 1].k) = 1
      BY <2>3, <2>4, <2>5 DEF Shift
    <3> QED  BY <2>2, <2>3, <3>1
  <2>6. CASE s[m + 1].k = "close"
    <3>1. co(m + 1) = co(m) /\ cc(m + 1) = cc(m) + 1 /\ Shift(s[m + 1].k) = -1
      BY <2>3, <2>4, <2>6 DEF Shift
    <3> QED  BY <2>2, <2>3, <3>1
  <2>7. CASE s[m + 1].k \notin {"open", "close"}
    <3>1. co(m + 1) = co(m) /\ cc(m + 1) = cc(m) /\ Shift(s[m + 1].k) = 0
      BY <2>3, <2>4, <2>7 DEF Shift
    <3> QED  BY <2>2, <2>3, <3>1
  <2> QED  BY <2>5, <2>6, <2>7
<1>8. Len(s) \in Q
  <2> HIDE DEF Q
  <2> QED  BY <1>1, <1>6, <1>7, Induction
<1>9. 1 = n - cc(Len(s)) + co(Len(s))
  BY <1>1, <1>5, <1>8
<1>10. n = 1 + cc(Len(s)) - co(Len(s))
  BY <1>1, <1>4, <1>9
<1> QED  BY <1>1, <1>10 DEF co, cc, C

-----------------------------------------------------------------------------
(* The tree grows. *)

\* The node h gets a form, unless it is a block already, and m parts more, holes.
Grows(h, m) ==
    LET c == Len(Kids(h))
    IN  /\ h \in Nodes /\ m \in Nat
        /\ tree' \in Seq(NodeRecs) /\ Len(tree') = Len(tree) + m
        /\ \A n \in Nodes : n # h => tree'[n] = tree[n]
        /\ \A i \in 1 .. m : tree'[Len(tree) + i] = Hole
        /\ Len(tree'[h].kids) = c + m
        /\ \A i \in 1 .. c : tree'[h].kids[i] = tree[h].kids[i]
        /\ \A i \in 1 .. m : tree'[h].kids[c + i] = Len(tree) + i
        /\ \/ tree[h].form = "hole" /\ tree'[h].form \notin ParamForms
           \/ tree[h].form = "seq" /\ tree'[h].form = "seq"
        /\ c + m \in Arity(tree'[h].form)

\* The nodes are numbers, and so are their parts.
LEMMA NodesAre ==
    ASSUME Shaped
    PROVE  /\ Len(tree) \in Nat /\ Nodes = 1 .. Len(tree)
           /\ \A n \in Nodes : /\ tree[n] \in NodeRecs /\ Kids(n) \in Seq(Nat)
                               /\ Len(Kids(n)) \in Nat /\ DOMAIN Kids(n) = 1 .. Len(Kids(n))
           /\ \A n \in Nodes : tree[n].form = "hole" => Len(Kids(n)) = 0 /\ n # Body
<1>1. tree \in Seq(NodeRecs)
  BY DEF Shaped
<1>2. Len(tree) \in Nat /\ Nodes = 1 .. Len(tree) /\ \A n \in Nodes : tree[n] \in NodeRecs
  BY <1>1 DEF Nodes
<1>3. \A n \in Nodes : Kids(n) \in Seq(Nat)
  BY <1>2 DEF NodeRecs, Kids
<1>4. ASSUME NEW n \in Nodes
      PROVE  Len(Kids(n)) \in Nat /\ DOMAIN Kids(n) = 1 .. Len(Kids(n))
  BY <1>3
<1>5. ASSUME NEW n \in Nodes, tree[n].form = "hole"
      PROVE  Len(Kids(n)) = 0 /\ n # Body
  <2>1. Arity("hole") = {0}
    BY DEF Arity
  <2> QED  BY <1>5, <2>1 DEF Shaped
<1> QED  BY <1>2, <1>3, <1>4, <1>5

\* A hole is a node.
LEMMA HoleIsNode ==
    /\ Hole \in NodeRecs /\ Hole.form = "hole" /\ Hole.kids = <<>>
<1>1. PICK e : e = ""
  OBVIOUS
<1>2. Hole = Node("hole", e, "int") /\ e \in AllNames
  BY <1>1, Zenon DEF Hole, AllNames
<1>3. Node("hole", e, "int") \in NodeRecs
  <2> HIDE <1>1
  <2>1. "hole" \in NodeForms /\ "int" \in Types /\ <<>> \in Seq(Nat)
    BY TypesAssumption DEF NodeForms
  <2> QED  BY <1>2, <2>1 DEF Node, NodeRecs
<1>4. Node("hole", e, "int").form = "hole" /\ Node("hole", e, "int").kids = <<>>
  BY DEF Node
<1> QED  BY <1>2, <1>3, <1>4, Zenon

\* The nodes after the step.
LEMMA GrownNodes ==
    ASSUME Shaped, NEW h, NEW m, Grows(h, m)
    PROVE  /\ Nodes \subseteq Nodes' /\ Nodes' = 1 .. Len(tree) + m
           /\ \A n \in Nodes' : n \in Nodes \/ \E i \in 1 .. m : n = Len(tree) + i
           /\ \A i \in 1 .. m : Len(tree) + i \in Nodes' /\ Len(tree) + i \notin Nodes
           /\ h < Len(tree) + 1
           /\ DOMAIN tree'[h].kids = 1 .. Len(Kids(h)) + m
           /\ \A i \in 1 .. Len(Kids(h)) + m :
                 i \in 1 .. Len(Kids(h)) \/ \E j \in 1 .. m : i = Len(Kids(h)) + j
<1>1. /\ Len(tree) \in Nat /\ Nodes = 1 .. Len(tree) /\ m \in Nat /\ h \in Nodes
      /\ Len(tree') = Len(tree) + m /\ tree' \in Seq(NodeRecs) /\ Len(Kids(h)) \in Nat
      /\ Len(tree'[h].kids) = Len(Kids(h)) + m
  BY NodesAre DEF Grows
<1>2. Nodes' = 1 .. Len(tree) + m
  BY <1>1 DEF Nodes
<1>3. Nodes \subseteq Nodes'
  BY <1>1, <1>2
<1>4. ASSUME NEW n \in Nodes', n \notin Nodes
      PROVE  \E i \in 1 .. m : n = Len(tree) + i
  <2>1. n - Len(tree) \in 1 .. m /\ n = Len(tree) + (n - Len(tree))
    BY <1>1, <1>2, <1>4
  <2> QED  BY <2>1
<1>5. \A i \in 1 .. m : Len(tree) + i \in Nodes' /\ Len(tree) + i \notin Nodes
  BY <1>1, <1>2
<1>6. ASSUME NEW i \in 1 .. Len(Kids(h)) + m, i \notin 1 .. Len(Kids(h))
      PROVE  \E j \in 1 .. m : i = Len(Kids(h)) + j
  <2>1. i - Len(Kids(h)) \in 1 .. m /\ i = Len(Kids(h)) + (i - Len(Kids(h)))
    BY <1>1, <1>6
  <2> QED  BY <2>1
<1>7. tree'[h].kids \in Seq(Nat)
  <2>1. tree'[h] \in NodeRecs
    BY <1>1, <1>3 DEF Nodes
  <2> QED  BY <2>1 DEF NodeRecs
<1>8. DOMAIN tree'[h].kids = 1 .. Len(tree'[h].kids)
  BY <1>7
<1>9. h < Len(tree) + 1
  BY <1>1
<1> QED  BY <1>1, <1>2, <1>3, <1>4, <1>5, <1>6, <1>8, <1>9

\* The new nodes are holes.
LEMMA GrownHoles ==
    ASSUME Shaped, NEW h, NEW m, Grows(h, m)
    PROVE  /\ \A i \in 1 .. m : Len(tree) + i \in Nodes' /\ Len(tree) + i \notin Nodes
                                /\ tree'[Len(tree) + i] = Hole
           /\ \A n \in Nodes' : n \notin Nodes => tree'[n] = Hole
<1>1. \A i \in 1 .. m : tree'[Len(tree) + i] = Hole
  BY DEF Grows
<1>2. \A i \in 1 .. m : Len(tree) + i \in Nodes' /\ Len(tree) + i \notin Nodes
  BY GrownNodes
<1>3. \A n \in Nodes' : n \in Nodes \/ \E i \in 1 .. m : n = Len(tree) + i
  BY GrownNodes
<1> QED  BY <1>1, <1>2, <1>3

\* The parts of the nodes after it.
LEMMA GrownKids ==
    ASSUME Shaped, NEW h, NEW m, Grows(h, m), NEW n \in Nodes', NEW i \in DOMAIN Kids(n)'
    PROVE  \/ n \in Nodes /\ i \in DOMAIN Kids(n) /\ Kids(n)'[i] = Kids(n)[i]
           \/ /\ n = h /\ i - Len(Kids(h)) \in 1 .. m
              /\ i = Len(Kids(h)) + (i - Len(Kids(h)))
              /\ Kids(n)'[i] = Len(tree) + (i - Len(Kids(h)))
<1>1. /\ Nodes' = 1 .. Len(tree) + m /\ h \in Nodes /\ Len(Kids(h)) \in Nat
      /\ DOMAIN tree'[h].kids = 1 .. Len(Kids(h)) + m
  BY GrownNodes, NodesAre DEF Grows
<1>2. Kids(n)' = tree'[n].kids
  BY DEF Kids
<1>6. \A k \in 1 .. Len(Kids(h)) + m :
         k \in 1 .. Len(Kids(h)) \/ \E j \in 1 .. m : k = Len(Kids(h)) + j
  BY GrownNodes
<1>3. CASE n \in Nodes /\ n # h
  BY <1>2, <1>3 DEF Grows, Kids
<1>4. CASE n = h
  <2>1. CASE i \in 1 .. Len(Kids(h))
    <3>1. tree'[h].kids[i] = tree[h].kids[i]
      BY <2>1 DEF Grows
    <3>2. DOMAIN Kids(h) = 1 .. Len(Kids(h))
      BY <1>1, NodesAre
    <3> QED  BY <1>1, <1>2, <1>4, <2>1, <3>1, <3>2 DEF Kids
  <2>2. ASSUME i \notin 1 .. Len(Kids(h))
        PROVE  /\ i - Len(Kids(h)) \in 1 .. m
               /\ i = Len(Kids(h)) + (i - Len(Kids(h)))
               /\ Kids(n)'[i] = Len(tree) + (i - Len(Kids(h)))
    <3>1. PICK j \in 1 .. m : i = Len(Kids(h)) + j
      BY <1>1, <1>2, <1>4, <1>6, <2>2
    <3>2. tree'[h].kids[Len(Kids(h)) + j] = Len(tree) + j
      BY <3>1 DEF Grows
    <3>3. i - Len(Kids(h)) = j
      BY <1>1, <3>1
    <3> QED  BY <1>2, <1>4, <3>1, <3>2, <3>3
  <2> QED  BY <1>4, <2>1, <2>2
<1>5. ASSUME n \notin Nodes
      PROVE  FALSE
  <2>1. PICK j \in 1 .. m : n = Len(tree) + j
    BY <1>5, GrownNodes
  <2>2. tree'[n] = Hole
    BY <2>1 DEF Grows
  <2>3. Kids(n)' = <<>>
    BY <1>2, <2>2, HoleIsNode
  <2>4. DOMAIN <<>> = {}
    OBVIOUS
  <2> QED  BY <2>3, <2>4
<1> QED  BY <1>3, <1>4, <1>5

\* The tree keeps its shape.
LEMMA ShapeGrows ==
    ASSUME Shaped, NEW h, NEW m, Grows(h, m)
    PROVE  Shaped'
<1>1. /\ Len(tree) \in Nat /\ Nodes = 1 .. Len(tree) /\ m \in Nat /\ h \in Nodes
      /\ Nodes \subseteq Nodes' /\ Len(Kids(h)) \in Nat
  BY NodesAre, GrownNodes DEF Grows
<1>2. tree' \in Seq(NodeRecs) /\ Body \in Nodes' /\ tree'[Body].form = "seq"
  BY <1>1, NodesAre DEF Grows, Shaped
<1>3. \A i \in 1 .. m : Len(tree) + i \in Nodes' /\ Len(tree) + i \notin Nodes
                        /\ tree'[Len(tree) + i] = Hole
  BY GrownHoles
<1>4. ASSUME NEW n \in Nodes'
      PROVE  Len(tree'[n].kids) \in Arity(tree'[n].form)
  <2>1. CASE n \in Nodes /\ n # h
    BY <2>1 DEF Grows, Shaped, Kids
  <2>2. CASE n = h
    BY <2>2 DEF Grows
  <2>3. CASE n \notin Nodes
    <3>1. tree'[n].kids = <<>> /\ tree'[n].form = "hole"
      BY <2>3, GrownHoles, HoleIsNode
    <3>2. 0 \in Arity("hole") /\ Len(<<>>) = 0
      BY DEF Arity
    <3> QED  BY <3>1, <3>2
  <2> QED  BY <2>1, <2>2, <2>3
<1>5. ASSUME NEW n \in Nodes', NEW i \in DOMAIN Kids(n)'
      PROVE  Kids(n)'[i] \in Nodes' /\ n < Kids(n)'[i] /\ tree'[Kids(n)'[i]].form \notin ParamForms
  <2>1. CASE n \in Nodes /\ i \in DOMAIN Kids(n) /\ Kids(n)'[i] = Kids(n)[i]
    <3>1. Kids(n)[i] \in Nodes /\ n < Kids(n)[i] /\ tree[Kids(n)[i]].form \notin ParamForms
      BY <2>1 DEF Shaped, IsParam
    <3>2. CASE Kids(n)[i] = h
      <4>1. tree'[h].form \notin ParamForms
        BY DEF Grows, ParamForms
      <4> QED  BY <1>1, <2>1, <3>1, <3>2, <4>1
    <3>3. CASE Kids(n)[i] # h
      BY <1>1, <2>1, <3>1, <3>3 DEF Grows
    <3> QED  BY <3>2, <3>3
  <2>2. CASE n = h /\ i - Len(Kids(h)) \in 1 .. m
             /\ Kids(n)'[i] = Len(tree) + (i - Len(Kids(h)))
    <3> DEFINE j == i - Len(Kids(h))
    <3>1. Len(tree) + j \in Nodes' /\ tree'[Len(tree) + j] = Hole
      BY <1>3, <2>2
    <3>2. h < Len(tree) + j
      BY <1>1, <2>2
    <3>3. tree'[Len(tree) + j].form \notin ParamForms
      BY <3>1, HoleIsNode DEF ParamForms
    <3> QED  BY <2>2, <3>1, <3>2, <3>3
  <2> QED  BY <2>1, <2>2, GrownKids
<1>6. ASSUME NEW a \in Nodes', NEW b \in Nodes', NEW i \in DOMAIN Kids(a)',
             NEW j \in DOMAIN Kids(b)', Kids(a)'[i] = Kids(b)'[j]
      PROVE  a = b /\ i = j
  <2> DEFINE Old(n, k) == n \in Nodes /\ k \in DOMAIN Kids(n) /\ Kids(n)'[k] = Kids(n)[k]
             Fresh(n, k) == /\ n = h /\ k - Len(Kids(h)) \in 1 .. m
                            /\ k = Len(Kids(h)) + (k - Len(Kids(h)))
                            /\ Kids(n)'[k] = Len(tree) + (k - Len(Kids(h)))
  <2>1. (Old(a, i) \/ Fresh(a, i)) /\ (Old(b, j) \/ Fresh(b, j))
    BY GrownKids
  <2>2. \A n, k : Old(n, k) => Kids(n)'[k] \in Nodes
    BY DEF Shaped
  <2>3. ASSUME NEW n, NEW k, Fresh(n, k)
        PROVE  Kids(n)'[k] \notin Nodes
    <3>1. Len(tree) + (k - Len(Kids(h))) \notin Nodes
      BY <1>3, <2>3
    <3> QED  BY <2>3, <3>1
  <2>4. CASE Old(a, i) /\ Old(b, j)
    <3>1. /\ a \in Nodes /\ b \in Nodes /\ i \in DOMAIN Kids(a) /\ j \in DOMAIN Kids(b)
          /\ Kids(a)[i] = Kids(b)[j]
      BY <1>6, <2>4
    <3>2. \A x, y \in Nodes : \A k \in DOMAIN Kids(x), l \in DOMAIN Kids(y) :
             Kids(x)[k] = Kids(y)[l] => x = y /\ k = l
      BY DEF Shaped
    <3> QED  BY <3>1, <3>2
  <2>5. CASE Fresh(a, i) /\ Fresh(b, j)
    <3>1. /\ a = h /\ b = h
          /\ i - Len(Kids(h)) \in Nat /\ j - Len(Kids(h)) \in Nat
          /\ i = Len(Kids(h)) + (i - Len(Kids(h)))
          /\ j = Len(Kids(h)) + (j - Len(Kids(h)))
          /\ Len(tree) + (i - Len(Kids(h))) = Len(tree) + (j - Len(Kids(h)))
      BY <1>6, <2>5
    <3>2. i - Len(Kids(h)) = j - Len(Kids(h))
      BY <1>1, <3>1
    <3> QED  BY <3>1, <3>2
  <2> HIDE DEF Old, Fresh
  <2> QED  BY <1>6, <2>1, <2>2, <2>3, <2>4, <2>5
<1> QED  BY <1>2, <1>4, <1>5, <1>6 DEF Shaped, Kids, IsParam

\* What was known of variables and of declarations without braces stays.
LEMMA GrownForms ==
    ASSUME Shaped, NEW h, NEW m, Grows(h, m)
    PROVE  /\ \A d : Variable(d) => /\ Variable(d)' /\ tree'[d].form = tree[d].form
                                    /\ tree'[d].name = tree[d].name /\ d # h
           /\ \A n \in Nodes : n # h => tree'[n] = tree[n]
           /\ \A n : Exempt(n) => Exempt(n)'
<1>1. /\ h \in Nodes /\ Nodes \subseteq Nodes' /\ \A n \in Nodes : n # h => tree'[n] = tree[n]
      /\ tree[h].form \in {"hole", "seq"}
  BY GrownNodes DEF Grows
<1>2. ASSUME NEW d, Variable(d)
      PROVE  Variable(d)' /\ tree'[d].form = tree[d].form /\ tree'[d].name = tree[d].name /\ d # h
  <2>1. d \in Nodes /\ d # h
    BY <1>1, <1>2 DEF Variable, DeclForms, ParamForms
  <2>2. tree'[d] = tree[d] /\ d \in Nodes'
    BY <1>1, <2>1
  <2> QED  BY <1>2, <2>1, <2>2 DEF Variable
<1>3. ASSUME NEW n, Exempt(n)
      PROVE  Exempt(n)'
  <2>1. PICK o \in Nodes : tree[o].form \in {"if", "while"} /\ n \in Range(Kids(o))
    BY <1>3 DEF Exempt
  <2>2. o # h /\ o \in Nodes'
    BY <1>1, <2>1
  <2>3. tree'[o] = tree[o]
    BY <1>1, <2>1, <2>2
  <2> QED  BY <2>1, <2>2, <2>3 DEF Exempt, Kids
<1> QED  BY <1>1, <1>2, <1>3

\* The regions of the new nodes.
LEMMA RegionsGrow ==
    ASSUME Shaped, NEW h, NEW m, Grows(h, m), NEW R, Regioned(R)
    PROVE  \E R2 : /\ Regioned(R2)'
                   /\ \A n \in Nodes : R2[n] = R[n]
                   /\ \A i \in 1 .. m :
                        R2[Len(tree) + i] = Sub(R[h], tree'[h].form, h, Len(Kids(h)) + i)
<1> DEFINE c == Len(Kids(h))
           New(n) == Sub(R[h], tree'[h].form, h, c + (n - Len(tree)))
<1>1. /\ Len(tree) \in Nat /\ Nodes = 1 .. Len(tree) /\ m \in Nat /\ h \in Nodes /\ h \in Nat
      /\ Nodes \subseteq Nodes' /\ c \in Nat
  <2>1. h \in Nodes /\ m \in Nat
    BY DEF Grows
  <2>2. Len(tree) \in Nat /\ Nodes = 1 .. Len(tree) /\ Len(Kids(h)) \in Nat
    BY <2>1, NodesAre
  <2>3. Nodes \subseteq Nodes'
    BY GrownNodes
  <2> QED  BY <2>1, <2>2, <2>3
<1>2. R \in [Nodes -> Regions]
  BY DEF Regioned
<1>10. PICK R2 : R2 = [n \in Nodes' |-> IF n \in Nodes THEN R[n] ELSE New(n)]
  OBVIOUS
<1>3. ASSUME NEW i \in 1 .. m
      PROVE  /\ Len(tree) + i \in Nodes' /\ Len(tree) + i \notin Nodes
             /\ R2[Len(tree) + i] = Sub(R[h], tree'[h].form, h, c + i)
             /\ R2[Len(tree) + i] \in Regions
  <2>1. Len(tree) + i \in Nodes' /\ Len(tree) + i \notin Nodes
    BY GrownNodes
  <2>2. Len(tree) + i - Len(tree) = i /\ c + i \in Nat
    BY <1>1
  <2>3. R2[Len(tree) + i] = New(Len(tree) + i)
    BY <1>10, <2>1
  <2>4. R[h] \in Regions
    BY <1>1, <1>2
  <2>5. Sub(R[h], tree'[h].form, h, c + i) \in Regions
    BY <1>1, <2>2, <2>4, SubRules
  <2> QED  BY <2>1, <2>2, <2>3, <2>5
<1>4. \A n \in Nodes : R2[n] = R[n] /\ R2[n] \in Regions
  BY <1>1, <1>2, <1>10
<1>5. R2 \in [Nodes' -> Regions]
  <2>1. \A n \in Nodes' : R2[n] \in Regions
    BY <1>3, <1>4, GrownNodes
  <2> QED  BY <1>10, <2>1
<1>6. R2[Body] = <<>>
  BY <1>4 DEF Regioned, Shaped
<1>7. ASSUME NEW n \in Nodes', tree'[n].form \in ParamForms
      PROVE  R2[n] = <<>>
  <2>1. CASE n \in Nodes /\ n # h
    <3>1. tree'[n] = tree[n]
      BY <2>1, GrownForms
    <3> QED  BY <1>4, <1>7, <2>1, <3>1 DEF Regioned, IsParam
  <2>2. CASE n = h
    BY <1>7, <2>2 DEF Grows, ParamForms
  <2>3. CASE n \notin Nodes
    <3>1. tree'[n] = Hole
      BY <2>3, GrownHoles
    <3> QED  BY <1>7, <3>1, HoleIsNode DEF ParamForms
  <2> QED  BY <2>1, <2>2, <2>3
<1>8. ASSUME NEW n \in Nodes', NEW i \in DOMAIN Kids(n)'
      PROVE  R2[Kids(n)'[i]] = Sub(R2[n], tree'[n].form, n, i)
  <2>1. CASE n \in Nodes /\ i \in DOMAIN Kids(n) /\ Kids(n)'[i] = Kids(n)[i]
    <3>1. R[Kids(n)[i]] = Sub(R[n], tree[n].form, n, i) /\ Kids(n)[i] \in Nodes
      BY <2>1 DEF Regioned, Shaped
    <3>2. tree'[n].form = tree[n].form
      <4>1. CASE n # h
        BY <2>1, <4>1 DEF Grows
      <4>2. CASE n = h
        <5>1. tree[h].form # "hole"
          BY <2>1, <4>2, <1>1, NodesAre
        <5> QED  BY <4>2, <5>1 DEF Grows
      <4> QED  BY <4>1, <4>2
    <3> QED  BY <1>4, <2>1, <3>1, <3>2
  <2>2. CASE n = h /\ i - c \in 1 .. m /\ i = c + (i - c)
             /\ Kids(n)'[i] = Len(tree) + (i - c)
    <3>1. R2[Len(tree) + (i - c)] = Sub(R[h], tree'[h].form, h, c + (i - c))
      BY <1>3, <2>2
    <3> QED  BY <1>1, <1>4, <2>2, <3>1
  <2> QED  BY <2>1, <2>2, GrownKids
<1>9. Regioned(R2)'
  BY <1>5, <1>6, <1>7, <1>8 DEF Regioned, IsParam, Kids
<1> QED  BY <1>3, <1>4, <1>9

-----------------------------------------------------------------------------
(* The stack. *)

\* The levels after the running frame was replaced by k frames.
Merged(gf, g, k, n) == [i \in 1 .. n |-> IF i <= k THEN gf[i] ELSE g[i - k + 1]]
Replaces(g2, gf, g, fs, s, m) ==
    /\ Levelled(g2, fs \o Tail(s), m, 1)
    /\ \A i \in DOMAIN fs : g2[i] = gf[i]
    /\ \A i \in 2 .. Len(s) : g2[Len(fs) + i - 1] = g[i]

\* The levels of the new stack.
LEMMA LevelsReplaced ==
    ASSUME NEW F, NEW s \in Seq(F), s # <<>>, NEW G, NEW fs \in Seq(G),
           NEW g, NEW n, NEW m, NEW gf, Levelled(g, s, n, 1), Levelled(gf, fs, m, g[2])
    PROVE  Replaces(Merged(gf, g, Len(fs), Len(fs \o Tail(s)) + 1), gf, g, fs, s, m)
<1> DEFINE t == fs \o Tail(s)
           g2 == [i \in 1 .. Len(t) + 1 |-> IF i <= Len(fs) THEN gf[i] ELSE g[i - Len(fs) + 1]]
<1>1. /\ Len(t) \in Nat /\ Len(s) \in Nat /\ Len(fs) \in Nat /\ Len(s) >= 1
      /\ Len(t) = Len(fs) + Len(s) - 1
      /\ DOMAIN t = 1 .. Len(t) /\ DOMAIN s = 1 .. Len(s) /\ DOMAIN fs = 1 .. Len(fs)
      /\ \A i \in DOMAIN fs : i \in DOMAIN t /\ t[i] = fs[i]
      /\ \A i \in 2 .. Len(s) : Len(fs) + i - 1 \in DOMAIN t /\ t[Len(fs) + i - 1] = s[i]
      /\ \A i \in DOMAIN t : \/ i \in DOMAIN fs
                             \/ i > Len(fs) /\ i - Len(fs) + 1 \in 2 .. Len(s)
  BY Replaced
<1>2. /\ g \in [1 .. Len(s) + 1 -> Nat \ {0}] /\ g[Len(s) + 1] = 1
      /\ \A i \in 1 .. Len(s) : g[i + 1] = g[i] + Shift(s[i].k)
      /\ gf \in [1 .. Len(fs) + 1 -> Nat \ {0}] /\ gf[1] = m /\ gf[Len(fs) + 1] = g[2]
      /\ \A i \in 1 .. Len(fs) : gf[i + 1] = gf[i] + Shift(fs[i].k)
  BY <1>1 DEF Levelled
<1> HIDE DEF t
<1>3. ASSUME NEW i \in 1 .. Len(fs) + 1
      PROVE  i \in 1 .. Len(t) + 1 /\ g2[i] = gf[i]
  <2>1. i \in 1 .. Len(t) + 1
    BY <1>1
  <2>2. CASE i <= Len(fs)
    BY <2>1, <2>2
  <2>3. CASE i = Len(fs) + 1
    <3>1. i - Len(fs) + 1 = 2 /\ ~(i <= Len(fs))
      BY <1>1, <2>3
    <3> QED  BY <1>2, <2>1, <2>3, <3>1
  <2> QED  BY <1>1, <2>1, <2>2, <2>3
<1>4. ASSUME NEW i \in 2 .. Len(s) + 1
      PROVE  /\ Len(fs) + i - 1 \in 1 .. Len(t) + 1
             /\ g2[Len(fs) + i - 1] = g[i]
  <2>1. /\ Len(fs) + i - 1 \in 1 .. Len(t) + 1 /\ ~(Len(fs) + i - 1 <= Len(fs))
        /\ Len(fs) + i - 1 - Len(fs) + 1 = i
    BY <1>1
  <2> QED  BY <2>1
<1>5. ASSUME NEW i \in 1 .. Len(t) + 1
      PROVE  i \in 1 .. Len(fs) \/ \E j \in 2 .. Len(s) + 1 : i = Len(fs) + j - 1
  <2>1. CASE i <= Len(fs)
    BY <1>1, <2>1
  <2>2. CASE ~(i <= Len(fs))
    <3>1. i - Len(fs) + 1 \in 2 .. Len(s) + 1 /\ i = Len(fs) + (i - Len(fs) + 1) - 1
      BY <1>1, <2>2
    <3> QED  BY <3>1
  <2> QED  BY <2>1, <2>2
<1>6. DOMAIN g2 = 1 .. Len(t) + 1
  OBVIOUS
<1> HIDE DEF g2
<1>7. \A i \in 1 .. Len(t) + 1 : g2[i] \in Nat \ {0}
  <2> TAKE i \in 1 .. Len(t) + 1
  <2>1. CASE i \in 1 .. Len(fs)
    <3>1. i \in 1 .. Len(fs) + 1
      BY <1>1, <2>1
    <3> QED  BY <1>2, <1>3, <3>1
  <2>2. ASSUME NEW j \in 2 .. Len(s) + 1, i = Len(fs) + j - 1
        PROVE  g2[i] \in Nat \ {0}
    <3>1. j \in 1 .. Len(s) + 1
      BY <1>1
    <3> QED  BY <1>2, <1>4, <2>2, <3>1
  <2> QED  BY <1>5, <2>1, <2>2
<1>8. g2 \in [1 .. Len(t) + 1 -> Nat \ {0}]
  <2>1. g2 = [i \in 1 .. Len(t) + 1 |-> g2[i]]
    BY <1>6 DEF g2
  <2> QED  BY <1>7, <2>1
<1>9. g2[1] = m /\ g2[Len(t) + 1] = 1
  <2>1. 1 \in 1 .. Len(fs) + 1
    BY <1>1
  <2>2. Len(s) + 1 \in 2 .. Len(s) + 1 /\ Len(fs) + (Len(s) + 1) - 1 = Len(t) + 1
    BY <1>1
  <2>3. g2[Len(fs) + (Len(s) + 1) - 1] = g[Len(s) + 1]
    BY <1>4, <2>2
  <2> QED  BY <1>2, <1>3, <2>1, <2>2, <2>3
<1>10. ASSUME NEW i \in DOMAIN t
       PROVE  g2[i + 1] = g2[i] + Shift(t[i].k)
  <2>1. CASE i \in DOMAIN fs
    <3>1. i \in 1 .. Len(fs) + 1 /\ i + 1 \in 1 .. Len(fs) + 1 /\ i \in 1 .. Len(fs)
      BY <1>1, <2>1
    <3>2. g2[i] = gf[i] /\ g2[i + 1] = gf[i + 1]
      BY <1>3, <3>1
    <3>3. t[i] = fs[i] /\ gf[i + 1] = gf[i] + Shift(fs[i].k)
      BY <1>1, <1>2, <2>1, <3>1
    <3> QED  BY <3>2, <3>3
  <2>2. CASE i > Len(fs) /\ i - Len(fs) + 1 \in 2 .. Len(s)
    <3> DEFINE j == i - Len(fs) + 1
    <3>1. /\ j \in 2 .. Len(s) /\ j \in 2 .. Len(s) + 1 /\ j + 1 \in 2 .. Len(s) + 1
          /\ j \in 1 .. Len(s)
          /\ i = Len(fs) + j - 1 /\ i + 1 = Len(fs) + (j + 1) - 1
      <4>1. PICK a, b : a = Len(fs) /\ b = Len(s)
        OBVIOUS
      <4>2. a \in Nat /\ b \in Nat /\ i \in Nat
        BY <1>1, <4>1
      <4>3. j = i - a + 1 /\ j \in 2 .. b
        BY <2>2, <4>1
      <4>4. j \in 2 .. b + 1 /\ j + 1 \in 2 .. b + 1 /\ j \in 1 .. b
        BY <4>2, <4>3
      <4>5. i = a + j - 1
        BY <4>2, <4>3
      <4>6. i + 1 = a + (j + 1) - 1
        BY <4>2, <4>4, <4>5
      <4> QED  BY <4>1, <4>3, <4>4, <4>5, <4>6
    <3> HIDE DEF j
    <3>2. g2[i] = g[j] /\ g2[i + 1] = g[j + 1]
      BY <1>4, <3>1
    <3>3. t[i] = s[j] /\ g[j + 1] = g[j] + Shift(s[j].k)
      BY <1>1, <1>2, <3>1
    <3> QED  BY <3>2, <3>3
  <2> QED  BY <1>1, <2>1, <2>2
<1>11. Levelled(g2, t, m, 1)
  BY <1>8, <1>9, <1>10 DEF Levelled
<1>12. \A i \in DOMAIN fs : g2[i] = gf[i]
  <2>1. \A i \in DOMAIN fs : i \in 1 .. Len(fs) + 1
    BY <1>1
  <2> QED  BY <1>3, <2>1
<1>13. \A i \in 2 .. Len(s) : g2[Len(fs) + i - 1] = g[i]
  <2>1. \A i \in 2 .. Len(s) : i \in 2 .. Len(s) + 1
    BY <1>1
  <2> QED  BY <1>4, <2>1
<1> QED  BY <1>11, <1>12, <1>13 DEF t, g2, Merged, Replaces

\* What was closed in the old part of the stack still is.
LEMMA ClosedReplaced ==
    ASSUME NEW F, NEW s \in Seq(F), s # <<>>, NEW G, NEW fs \in Seq(G), NEW g, NEW g2,
           \A i \in 2 .. Len(s) : g2[Len(fs) + i - 1] = g[i],
           NEW l, NEW j \in 2 .. Len(s)
    PROVE  /\ \A i \in 2 .. Len(s) : Closed(g, s, l, i, j) =>
                 Closed(g2, fs \o Tail(s), l, Len(fs) + i - 1, Len(fs) + j - 1)
           /\ Closed(g, s, l, 1, j) /\ (s[1].k # "close" \/ g[1] # l) =>
                 \A i \in 1 .. Len(fs) + 1 :
                    Closed(g2, fs \o Tail(s), l, i, Len(fs) + j - 1)
<1> DEFINE t == fs \o Tail(s)
<1>1. /\ Len(s) \in Nat /\ Len(fs) \in Nat /\ DOMAIN s = 1 .. Len(s)
      /\ \A i \in 2 .. Len(s) : Len(fs) + i - 1 \in DOMAIN t /\ t[Len(fs) + i - 1] = s[i]
  BY Replaced
<1> HIDE DEF t
<1>2. ASSUME NEW i \in 2 .. Len(s), Closed(g, s, l, i, j)
      PROVE  Closed(g2, t, l, Len(fs) + i - 1, Len(fs) + j - 1)
  <2>1. PICK c \in DOMAIN s : i <= c /\ c <= j /\ s[c].k = "close" /\ g[c] = l
    BY <1>2 DEF Closed
  <2>2. c \in 2 .. Len(s) /\ Len(fs) + i - 1 <= Len(fs) + c - 1
        /\ Len(fs) + c - 1 <= Len(fs) + j - 1
    BY <1>1, <2>1
  <2>3. Len(fs) + c - 1 \in DOMAIN t /\ t[Len(fs) + c - 1] = s[c] /\ g2[Len(fs) + c - 1] = g[c]
    BY <1>1, <2>2
  <2>4. t[Len(fs) + c - 1].k = "close" /\ g2[Len(fs) + c - 1] = l
    BY <2>1, <2>3
  <2> QED  BY <2>2, <2>3, <2>4 DEF Closed
<1>3. ASSUME Closed(g, s, l, 1, j), s[1].k # "close" \/ g[1] # l, NEW i \in 1 .. Len(fs) + 1
      PROVE  Closed(g2, t, l, i, Len(fs) + j - 1)
  <2>1. PICK c \in DOMAIN s : c <= j /\ s[c].k = "close" /\ g[c] = l
    BY <1>3 DEF Closed
  <2>2. c # 1
    BY <1>3, <2>1
  <2>3. c \in 2 .. Len(s) /\ i <= Len(fs) + c - 1 /\ Len(fs) + c - 1 <= Len(fs) + j - 1
    BY <1>1, <2>1, <2>2
  <2>4. Len(fs) + c - 1 \in DOMAIN t /\ t[Len(fs) + c - 1] = s[c] /\ g2[Len(fs) + c - 1] = g[c]
    BY <1>1, <2>3
  <2>5. t[Len(fs) + c - 1].k = "close" /\ g2[Len(fs) + c - 1] = l
    BY <2>1, <2>4
  <2> QED  BY <2>3, <2>4, <2>5 DEF Closed
<1> QED  BY <1>2, <1>3 DEF t

\* The tree after a step: regions go on, variables and holes stay, but for the node that
\* is visited.
Continues(R, R2) ==
    /\ Regioned(R) /\ Regioned(R2)' /\ Nodes \subseteq Nodes'
    /\ \A n \in Nodes : R2[n] = R[n]
    /\ \A n \in Nodes : n # Here => tree'[n] = tree[n]
    /\ \A d : Variable(d) => Variable(d)' /\ tree'[d].form = tree[d].form
    /\ \A n : Exempt(n) => Exempt(n)'
    /\ tree[Here].form = "hole" \/ tree'[Here].form = tree[Here].form

\* The frames that are put in place of the running one.
Fits(fs, gf, g, R2) ==
    /\ \A i \in DOMAIN fs : Hosted(fs[i])' /\ Before(R2[Here], R2[fs[i].n])
    /\ \A i \in DOMAIN fs : fs[i].k \in Visits => fs[i].n \notin Nodes
    /\ \A i, j \in DOMAIN fs :
          fs[i].k \in Visits /\ fs[j].k \in Visits /\ fs[i].n = fs[j].n => i = j
    /\ \A i \in DOMAIN fs : fs[i].k = "seq" =>
          IF i = Len(fs) THEN 2 \in DOMAIN stack /\ stack[2].k = "close"
          ELSE i + 1 \in DOMAIN fs /\ fs[i + 1].k = "close"
    /\ \A i \in DOMAIN fs : fs[i].k \in Finders => Usable(R2, fs[i].d, R2[fs[i].n])'
    /\ \A i \in DOMAIN fs : fs[i].k \in Fillers =>
          \/ Exempt(fs[i].n)'
          \/ /\ \A j \in DOMAIN fs : i < j /\ ~Closed(gf, fs, gf[i], i, j) =>
                   Before(R2[fs[i].n], R2[fs[j].n])
             /\ \/ Closed(gf, fs, gf[i], i, Len(fs))
                \/ 2 \in DOMAIN stack /\ stack[2].k = "close" /\ g[2] = gf[i]
                \/ stack[1].k \in Fillers /\ fs[i].n = Here /\ gf[i] = g[1]

\* What could be used in a region still can.
LEMMA UsableStays ==
    ASSUME NEW R, NEW R2, Continues(R, R2), NEW d, Variable(d), NEW r, Usable(R, d, r)
    PROVE  Usable(R2, d, r)'
<1>1. d \in Nodes /\ R2[d] = R[d] /\ tree'[d].form = tree[d].form /\ (Exempt(d) => Exempt(d)')
  BY DEF Continues, Variable
<1> QED  BY <1>1 DEF Usable

\* What can be used in a region can be used in those inside.
LEMMA UsableInside ==
    ASSUME NEW R2, Regioned(R2)', NEW d, NEW r \in Regions, NEW q \in Regions,
           Variable(d)', Usable(R2, d, r)', Before(r, q)
    PROVE  Usable(R2, d, q)'
<1>1. R2[d] \in Regions
  BY DEF Regioned, Variable
<1>2. Before(R2[d], r) => Before(R2[d], q)
  BY <1>1, BeforeRules
<1> QED  BY <1>2 DEF Usable

\* Only a visit is about a hole.
LEMMA HolesAreVisited ==
    ASSUME NEW f, Hosted(f), tree[f.n].form = "hole"
    PROVE  f.k \in Visits
BY DEF Hosted, Hosts, Kinds, Visits, DeclForms

\* Frames that wait stay where they belong.
LEMMA HostedStays ==
    ASSUME NEW R, NEW R2, NEW g, Continues(R, R2), Stacked(R, g), 1 \in DOMAIN stack,
           NEW i \in DOMAIN stack, i # 1, NEW f, f = stack[i]
    PROVE  Hosted(f)' /\ R2[f.n] = R[f.n]
<1>1. Hosted(f) /\ f.n \in Nodes
  BY DEF Stacked, Hosted
<1>2. tree'[f.n].form = tree[f.n].form
  <2>1. CASE f.n # Here
    BY <1>1, <2>1 DEF Continues
  <2>2. CASE f.n = Here /\ tree[Here].form = "hole"
    <3>1. f.k \in Visits
      BY <1>1, <2>2, HolesAreVisited
    <3>2. \A j \in DOMAIN stack : Hosted(stack[j])
      BY DEF Stacked
    <3>3. stack[1].k \in Visits
      <4>1. PICK e : e = stack[1]
        OBVIOUS
      <4>2. Hosted(e) /\ tree[e.n].form = "hole"
        BY <2>2, <3>2, <4>1 DEF Here
      <4>3. e.k \in Visits
        BY <4>2, HolesAreVisited
      <4> QED  BY <4>1, <4>3
    <3>4. \A a, b \in DOMAIN stack :
             stack[a].k \in Visits /\ stack[b].k \in Visits /\ stack[a].n = stack[b].n => a = b
      BY DEF Stacked
    <3>5. stack[i].n = stack[1].n
      BY <2>2 DEF Here
    <3> QED  BY <3>1, <3>3, <3>4, <3>5
  <2>3. CASE f.n = Here /\ tree[Here].form # "hole"
    BY <2>3 DEF Continues
  <2> QED  BY <2>1, <2>2, <2>3
<1>3. f.n \in Nodes' /\ R2[f.n] = R[f.n]
  BY <1>1 DEF Continues
<1>4. ASSUME f.k \in Finders
      PROVE  f.d \in Nodes' /\ tree'[f.d].form \in ArrayForms
  <2>1. f.d \in Nodes /\ tree[f.d].form \in ArrayForms
    BY <1>1, <1>4 DEF Hosted, IsArray
  <2>2. Variable(f.d)
    BY <2>1 DEF Variable, ArrayForms, DeclForms, ParamForms
  <2> QED  BY <2>1, <2>2 DEF Continues, Variable
<1> QED  BY <1>1, <1>2, <1>3, <1>4 DEF Hosted, IsArray

\* The running frame is about a node of its kind.
LEMMA HereIsHosted ==
    ASSUME NEW R, NEW g, Stacked(R, g), 1 \in DOMAIN stack
    PROVE  Hosted(stack[1]) /\ Here \in Nodes /\ tree[Here].form \in Hosts(stack[1].k)
<1>1. \A i \in DOMAIN stack : Hosted(stack[i])
  BY DEF Stacked
<1>2. Hosted(stack[1])
  BY <1>1
<1> QED  BY <1>2 DEF Hosted, Here

\* The running frame is replaced by frames that fit.
LEMMA FramesStay ==
    ASSUME NEW F, stack \in Seq(F), stack # <<>>, NEW G, NEW fs \in Seq(G), Become(fs),
           NEW R, NEW R2, NEW g, NEW n, NEW m, NEW gf,
           Continues(R, R2), Stacked(R, g), Found(R),
           Levelled(g, stack, n, 1), Levelled(gf, fs, m, g[2]), Fits(fs, gf, g, R2)
    PROVE  \E g2 : /\ Levelled(g2, stack', m, 1)
                   /\ Stacked(R2, g2)' /\ Found(R2)'
                   /\ \A l, d : Safe(R, g, l, d) /\ (stack[1].k # "close" \/ g[1] # l)
                         => Safe(R2, g2, l, d)'
<1> DEFINE o(i) == Len(fs) + i - 1
<1>0. PICK t : t = fs \o Tail(stack)
  OBVIOUS
<1>1. /\ Len(t) \in Nat /\ Len(stack) \in Nat /\ Len(fs) \in Nat /\ Len(stack) >= 1
      /\ Len(t) = Len(fs) + Len(stack) - 1
      /\ DOMAIN t = 1 .. Len(t) /\ DOMAIN stack = 1 .. Len(stack) /\ DOMAIN fs = 1 .. Len(fs)
      /\ \A i \in DOMAIN fs : i \in DOMAIN t /\ t[i] = fs[i]
      /\ \A i \in 2 .. Len(stack) : o(i) \in DOMAIN t /\ t[o(i)] = stack[i]
      /\ \A i \in DOMAIN t : \/ i \in DOMAIN fs
                             \/ i > Len(fs) /\ i - Len(fs) + 1 \in 2 .. Len(stack)
  BY <1>0, Replaced
<1>2. PICK g2 : /\ Levelled(g2, t, m, 1)
                /\ \A i \in DOMAIN fs : g2[i] = gf[i]
                /\ \A i \in 2 .. Len(stack) : g2[o(i)] = g[i]
  <2> DEFINE g2 == Merged(gf, g, Len(fs), Len(fs \o Tail(stack)) + 1)
  <2>1. Replaces(g2, gf, g, fs, stack, m)
    BY LevelsReplaced, Zenon
  <2> HIDE DEF g2
  <2> QED  BY <1>0, <2>1 DEF Replaces
<1>3. stack' = t
  BY <1>0 DEF Become
<1>4. ASSUME NEW i \in DOMAIN t
      PROVE  \/ i \in DOMAIN fs /\ t[i] = fs[i] /\ g2[i] = gf[i]
             \/ \E j \in 2 .. Len(stack) : i = o(j) /\ t[i] = stack[j] /\ g2[i] = g[j] /\ i > Len(fs)
  <2>1. CASE i \in DOMAIN fs
    BY <1>1, <1>2, <2>1
  <2>2. CASE i > Len(fs) /\ i - Len(fs) + 1 \in 2 .. Len(stack)
    <3>1. i = o(i - Len(fs) + 1)
      BY <1>1, <2>2
    <3> QED  BY <1>1, <1>2, <2>2, <3>1
  <2> QED  BY <1>1, <2>1, <2>2
<1>5. /\ \A i \in 2 .. Len(stack) : i \in DOMAIN stack /\ i # 1
      /\ 1 \in DOMAIN stack
      /\ \A i, j \in 2 .. Len(stack) : o(i) \in Int /\ (o(i) = o(j) => i = j) /\ (o(i) < o(j) => i < j)
      /\ \A i \in DOMAIN fs : i \in 1 .. Len(fs) + 1 /\ i <= Len(fs) /\ i \in Int
  BY <1>1
<1>6. /\ \A l : \A i, j \in 2 .. Len(stack) :
           Closed(g, stack, l, i, j) => Closed(g2, t, l, o(i), o(j))
      /\ \A l : \A j \in 2 .. Len(stack) :
           Closed(g, stack, l, 1, j) /\ (stack[1].k # "close" \/ g[1] # l) =>
              \A i \in 1 .. Len(fs) + 1 : Closed(g2, t, l, i, o(j))
  BY <1>0, <1>2, ClosedReplaced
<1>7. \A l : \A i, j \in DOMAIN fs : Closed(gf, fs, l, i, j) => Closed(g2, t, l, i, j)
  BY <1>1, <1>2 DEF Closed
<1> HIDE DEF o
<1>8. ASSUME NEW i \in 2 .. Len(stack)
      PROVE  Hosted(stack[i])
  BY <1>5 DEF Stacked
<1>9. \A i \in 2 .. Len(stack) : \A f : f = stack[i] => Hosted(f)' /\ R2[f.n] = R[f.n]
  BY <1>5, HostedStays
<1>10. \A i \in DOMAIN t : \A f : f = t[i] => Hosted(f)'
  BY <1>4, <1>9 DEF Fits
<1>11. ASSUME NEW i \in DOMAIN t, NEW j \in DOMAIN t, t[i].k \in Visits, t[j].k \in Visits,
              t[i].n = t[j].n
       PROVE  i = j
  <2>1. CASE i \in DOMAIN fs /\ j \in DOMAIN fs /\ t[i] = fs[i] /\ t[j] = fs[j]
    BY <1>11, <2>1 DEF Fits
  <2>2. \A k \in 2 .. Len(stack) : stack[k].n \in Nodes
    BY <1>8 DEF Hosted
  <2>3. \A k \in DOMAIN fs : fs[k].k \in Visits => fs[k].n \notin Nodes
    BY DEF Fits
  <2>4. ASSUME NEW a \in 2 .. Len(stack), NEW b \in 2 .. Len(stack),
               i = o(a) /\ t[i] = stack[a], j = o(b) /\ t[j] = stack[b]
        PROVE  i = j
    <3>1. a = b
      BY <1>5, <1>11, <2>4 DEF Stacked
    <3> QED  BY <2>4, <3>1
  <2> QED  BY <1>4, <1>11, <2>1, <2>2, <2>3, <2>4
<1>12. ASSUME NEW i \in DOMAIN t, t[i].k = "seq"
       PROVE  i + 1 \in DOMAIN t /\ t[i + 1].k = "close"
  <2>1. CASE i \in DOMAIN fs /\ t[i] = fs[i] /\ i # Len(fs)
    <3>1. i + 1 \in DOMAIN fs /\ fs[i + 1].k = "close"
      BY <1>12, <2>1 DEF Fits
    <3> QED  BY <1>1, <3>1
  <2>2. CASE i \in DOMAIN fs /\ t[i] = fs[i] /\ i = Len(fs)
    <3>1. 2 \in DOMAIN stack /\ stack[2].k = "close"
      BY <1>12, <2>2 DEF Fits
    <3>2. 2 \in 2 .. Len(stack) /\ o(2) = i + 1
      BY <1>1, <2>2, <3>1 DEF o
    <3> QED  BY <1>1, <3>1, <3>2
  <2>3. ASSUME NEW j \in 2 .. Len(stack), i = o(j), t[i] = stack[j]
        PROVE  i + 1 \in DOMAIN t /\ t[i + 1].k = "close"
    <3>1. j + 1 \in DOMAIN stack /\ stack[j + 1].k = "close"
      BY <1>5, <1>12, <2>3 DEF Stacked
    <3>2. j + 1 \in 2 .. Len(stack) /\ o(j + 1) = i + 1
      BY <1>1, <2>3, <3>1 DEF o
    <3> QED  BY <1>1, <3>1, <3>2
  <2> QED  BY <1>4, <2>1, <2>2, <2>3
<1>13. ASSUME NEW i \in DOMAIN t, NEW j \in DOMAIN t, t[i].k \in Fillers, i < j,
              ~Closed(g2, t, g2[i], i, j)
       PROVE  Exempt(t[i].n)' \/ Before(R2[t[i].n], R2[t[j].n])
  <2>1. ASSUME NEW a \in 2 .. Len(stack), i = o(a), t[i] = stack[a], g2[i] = g[a],
               NEW b \in 2 .. Len(stack), j = o(b), t[j] = stack[b]
        PROVE  Exempt(t[i].n)' \/ Before(R2[t[i].n], R2[t[j].n])
    <3>1. a < b
      BY <1>5, <1>13, <2>1
    <3>2. ~Closed(g, stack, g[a], a, b)
      <4>1. Closed(g, stack, g[a], a, b) => Closed(g2, t, g[a], o(a), o(b))
        BY <1>6
      <4>2. ~Closed(g2, t, g[a], o(a), o(b))
        BY <1>13, <2>1
      <4> QED  BY <4>1, <4>2
    <3>3. Exempt(stack[a].n) \/ Before(R[stack[a].n], R[stack[b].n])
      <4>1. \A k, l \in DOMAIN stack :
              stack[k].k \in Fillers /\ k < l /\ ~Closed(g, stack, g[k], k, l)
                => Exempt(stack[k].n) \/ Before(R[stack[k].n], R[stack[l].n])
        BY DEF Stacked
      <4>2. a \in DOMAIN stack /\ b \in DOMAIN stack /\ stack[a].k \in Fillers
        BY <1>5, <1>13, <2>1
      <4> QED  BY <3>1, <3>2, <4>1, <4>2
    <3>4. \A x : Exempt(x) => Exempt(x)'
      BY DEF Continues
    <3>5. PICK x, y : x = stack[a] /\ y = stack[b]
      OBVIOUS
    <3>6. R2[x.n] = R[x.n] /\ R2[y.n] = R[y.n]
      BY <1>9, <3>5
    <3>7. Exempt(x.n) => Exempt(x.n)'
      BY <3>4
    <3>8. x = t[i] /\ y = t[j]
      BY <2>1, <3>5
    <3>9. Exempt(x.n)' \/ Before(R2[x.n], R2[y.n])
      BY <3>3, <3>5, <3>6, <3>7
    <3> QED  BY <3>8, <3>9
  <2>2. ASSUME i \in DOMAIN fs, t[i] = fs[i], g2[i] = gf[i], j \in DOMAIN fs, t[j] = fs[j]
        PROVE  Exempt(t[i].n)' \/ Before(R2[t[i].n], R2[t[j].n])
    <3>1. ~Closed(gf, fs, gf[i], i, j)
      BY <1>7, <1>13, <2>2
    <3>2. fs[i].k \in Fillers
      BY <1>13, <2>2
    <3>3. \/ Exempt(fs[i].n)'
          \/ \A k \in DOMAIN fs : i < k /\ ~Closed(gf, fs, gf[i], i, k) =>
                Before(R2[fs[i].n], R2[fs[k].n])
      BY <2>2, <3>2 DEF Fits
    <3> QED  BY <1>13, <2>2, <3>1, <3>3
  <2>3. ASSUME i \in DOMAIN fs, t[i] = fs[i], g2[i] = gf[i],
               NEW b \in 2 .. Len(stack), j = o(b), t[j] = stack[b], j > Len(fs)
        PROVE  Exempt(t[i].n)' \/ Before(R2[t[i].n], R2[t[j].n])
    <3>1. CASE Closed(gf, fs, gf[i], i, Len(fs))
      <4>1. PICK c \in DOMAIN fs : i <= c /\ fs[c].k = "close" /\ gf[c] = gf[i]
        BY <3>1 DEF Closed
      <4>2. c \in DOMAIN t /\ t[c] = fs[c] /\ g2[c] = gf[c]
        BY <1>1, <1>2, <4>1
      <4>3. c <= j
        BY <1>1, <1>5, <2>3, <4>1
      <4>4. t[c].k = "close" /\ g2[c] = g2[i]
        BY <2>3, <4>1, <4>2
      <4>5. Closed(g2, t, g2[i], i, j)
        BY <4>1, <4>2, <4>3, <4>4 DEF Closed
      <4> QED  BY <1>13, <4>5
    <3>2. CASE 2 \in DOMAIN stack /\ stack[2].k = "close" /\ g[2] = gf[i]
      <4>1. 2 \in 2 .. Len(stack)
        BY <1>1, <3>2
      <4>2. o(2) \in DOMAIN t /\ t[o(2)].k = "close" /\ g2[o(2)] = g2[i]
        BY <1>1, <1>2, <2>3, <3>2, <4>1
      <4>3. i <= o(2) /\ o(2) <= j
        BY <1>1, <1>5, <2>3, <4>1 DEF o
      <4>4. Closed(g2, t, g2[i], i, j)
        BY <4>2, <4>3 DEF Closed
      <4> QED  BY <1>13, <4>4
    <3>3. CASE stack[1].k \in Fillers /\ fs[i].n = Here /\ gf[i] = g[1]
      <4>1. stack[1].k # "close"
        BY <3>3 DEF Fillers
      <4>2. ~Closed(g, stack, g[1], 1, b)
        BY <1>5, <1>6, <1>13, <2>3, <3>3, <4>1
      <4>3. 1 < b /\ b \in DOMAIN stack
        BY <1>1, <1>5
      <4>4. Exempt(stack[1].n) \/ Before(R[stack[1].n], R[stack[b].n])
        <5>1. \A k, l \in DOMAIN stack :
                stack[k].k \in Fillers /\ k < l /\ ~Closed(g, stack, g[k], k, l)
                  => Exempt(stack[k].n) \/ Before(R[stack[k].n], R[stack[l].n])
          BY DEF Stacked
        <5> QED  BY <1>5, <3>3, <4>2, <4>3, <5>1
      <4>5. PICK x, y : x = fs[i] /\ y = stack[b]
        OBVIOUS
      <4>6. x.n = stack[1].n /\ x.n \in Nodes
        BY <1>5, <3>3, <4>5, HereIsHosted DEF Here
      <4>7. (Exempt(x.n) => Exempt(x.n)') /\ R2[x.n] = R[x.n]
        BY <4>6 DEF Continues
      <4>8. R2[y.n] = R[y.n]
        BY <1>9, <4>5
      <4>9. Exempt(x.n)' \/ Before(R2[x.n], R2[y.n])
        BY <4>4, <4>5, <4>6, <4>7, <4>8
      <4> QED  BY <2>3, <4>5, <4>9
    <3>4. fs[i].k \in Fillers
      BY <1>13, <2>3
    <3>5. \/ Exempt(fs[i].n)'
          \/ Closed(gf, fs, gf[i], i, Len(fs))
          \/ 2 \in DOMAIN stack /\ stack[2].k = "close" /\ g[2] = gf[i]
          \/ stack[1].k \in Fillers /\ fs[i].n = Here /\ gf[i] = g[1]
      BY <2>3, <3>4 DEF Fits
    <3> QED  BY <2>3, <3>1, <3>2, <3>3, <3>5
  <2>4. ASSUME NEW a \in 2 .. Len(stack), i = o(a), i > Len(fs), j \in DOMAIN fs
        PROVE  FALSE
    BY <1>5, <1>13, <2>4
  <2> QED  BY <1>4, <2>1, <2>2, <2>3, <2>4
<1>14. Stacked(R2, g2)'
  <2>1. \A i \in DOMAIN t : Hosted(t[i])'
    BY <1>10
  <2>2. \A i, j \in DOMAIN t :
           t[i].k \in Visits /\ t[j].k \in Visits /\ t[i].n = t[j].n => i = j
    BY <1>11
  <2>3. \A i \in DOMAIN t : t[i].k = "seq" => i + 1 \in DOMAIN t /\ t[i + 1].k = "close"
    BY <1>12
  <2>4. \A i, j \in DOMAIN t : t[i].k \in Fillers /\ i < j /\ ~Closed(g2, t, g2[i], i, j)
           => Exempt(t[i].n)' \/ Before(R2[t[i].n], R2[t[j].n])
    BY <1>13
  <2> QED  BY <1>3, <2>1, <2>2, <2>3, <2>4 DEF Stacked
<1>15. Found(R2)'
  <2>1. ASSUME NEW i \in DOMAIN t, NEW f, f = t[i], f.k \in Finders
        PROVE  Usable(R2, f.d, R2[f.n])'
    <3>1. CASE i \in DOMAIN fs /\ t[i] = fs[i]
      BY <2>1, <3>1 DEF Fits
    <3>2. ASSUME NEW j \in 2 .. Len(stack), t[i] = stack[j]
          PROVE  Usable(R2, f.d, R2[f.n])'
      <4>1. Usable(R, f.d, R[f.n]) /\ R2[f.n] = R[f.n]
        BY <1>5, <1>9, <2>1, <3>2 DEF Found
      <4>2. Variable(f.d)
        BY <1>8, <2>1, <3>2 DEF Hosted, IsArray, Variable, ArrayForms, DeclForms, ParamForms
      <4> QED  BY <4>1, <4>2, UsableStays
    <3> QED  BY <1>4, <3>1, <3>2
  <2> QED  BY <1>3, <2>1 DEF Found
<1>16. ASSUME NEW l, NEW d, Safe(R, g, l, d), stack[1].k # "close" \/ g[1] # l
       PROVE  Safe(R2, g2, l, d)'
  <2>1. Variable(d) /\ Variable(d)'
    BY <1>16 DEF Safe, Continues
  <2>2. ASSUME NEW i \in DOMAIN t, NEW f, f = t[i], ~Closed(g2, t, l, 1, i)
        PROVE  Usable(R2, d, R2[f.n])'
    <3>1. CASE i \in DOMAIN fs /\ t[i] = fs[i]
      <4>1. ~Closed(g, stack, l, 1, 1)
        <5> SUFFICES ASSUME NEW c \in DOMAIN stack, 1 <= c, c <= 1, stack[c].k = "close", g[c] = l
                     PROVE  FALSE
          BY DEF Closed
        <5>1. c = 1
          BY <1>1
        <5> QED  BY <1>16, <5>1
      <4>2. Usable(R, d, R[Here]) /\ Here \in Nodes
        <5>1. Usable(R, d, R[stack[1].n])
          BY <1>5, <1>16, <4>1 DEF Safe
        <5> QED  BY <1>5, <5>1, HereIsHosted DEF Here
      <4>3. R2[Here] = R[Here] /\ Regioned(R2)' /\ R2[Here] \in Regions
        BY <4>2 DEF Continues, Regioned
      <4>4. \A r : r = R2[Here] => Usable(R2, d, r)'
        BY <2>1, <4>2, <4>3, UsableStays
      <4>5. Before(R2[Here], R2[f.n]) /\ f.n \in Nodes'
        BY <2>2, <3>1 DEF Fits, Hosted
      <4>6. R2[f.n] \in Regions
        BY <4>3, <4>5 DEF Regioned
      <4> QED  BY <2>1, <4>3, <4>4, <4>5, <4>6, UsableInside
    <3>2. ASSUME NEW j \in 2 .. Len(stack), i = o(j), t[i] = stack[j]
          PROVE  Usable(R2, d, R2[f.n])'
      <4>1. 1 \in 1 .. Len(fs) + 1
        BY <1>1
      <4>2. ~Closed(g, stack, l, 1, j)
        BY <1>6, <1>16, <2>2, <3>2, <4>1
      <4>3. Usable(R, d, R[f.n]) /\ R2[f.n] = R[f.n]
        BY <1>5, <1>9, <1>16, <2>2, <3>2, <4>2 DEF Safe
      <4> QED  BY <2>1, <4>3, UsableStays
    <3> QED  BY <1>4, <3>1, <3>2
  <2> QED  BY <1>3, <2>1, <2>2 DEF Safe
<1> QED  BY <1>2, <1>3, <1>14, <1>15, <1>16

\* What the step makes of the scopes, the links and the uses.
Rebinds(g) ==
    \A l \in DOMAIN scopes' : \A x \in DOMAIN scopes'[l] : \A d : d = scopes'[l][x] =>
        \/ /\ l \in DOMAIN scopes /\ x \in DOMAIN scopes[l] /\ d = scopes[l][x]
           /\ stack[1].k # "close" \/ g[1] # l
        \/ Variable(d)' /\ tree'[d].form # "arraydecl"
        \/ stack[1].k = "insert" /\ d = Here /\ l = g[1]

Relinks(R2) ==
    /\ \A u \in DOMAIN link : u \in DOMAIN link'
    /\ \A u \in DOMAIN link' : \A d : d = link'[u] =>
          \/ u \in DOMAIN link /\ d = link[u]
          \/ /\ u = Here /\ u \in Uses' /\ Variable(d)' /\ Usable(R2, d, R2[u])'
             /\ tree'[u].form \in {"access", "arrayassign"} => tree'[d].form \in ArrayForms
             /\ tree'[u].form = "assign" => tree'[d].form \notin ParamForms

Reuses(fs) ==
    /\ stack[1].k \in Linkers => Here \in DOMAIN link'
    /\ \A u \in Uses' : \/ u \in Uses \/ u \in DOMAIN link'
                        \/ \E i \in DOMAIN fs : fs[i].n = u /\ fs[i].k \in Linkers

\* Uses stay uses.
LEMMA UsesStay ==
    ASSUME NEW R, NEW R2, Continues(R, R2), NEW u \in Uses
    PROVE  u \in Uses' /\ tree'[u].form = tree[u].form /\ R2[u] = R[u]
<1>1. u \in Nodes /\ tree[u].form # "hole" /\ tree[u].form \in {"var", "access", "assign", "arrayassign"}
  BY DEF Uses
<1>2. tree'[u].form = tree[u].form
  <2>1. CASE u # Here
    BY <1>1, <2>1 DEF Continues
  <2>2. CASE u = Here
    BY <1>1, <2>2 DEF Continues
  <2> QED  BY <2>1, <2>2
<1>3. u \in Nodes' /\ R2[u] = R[u]
  BY <1>1 DEF Continues
<1> QED  BY <1>1, <1>2, <1>3 DEF Uses

\* A declaration that is inserted can be used in what is left of its scope.
LEMMA InsertedIsSafe ==
    ASSUME NEW R, NEW g, Regioned(R), Stacked(R, g), 1 \in DOMAIN stack,
           \A i \in DOMAIN stack : i # 1 => 1 < i, stack[1].k = "insert"
    PROVE  Safe(R, g, g[1], Here)
<1>1. Hosted(stack[1]) /\ Here \in Nodes /\ tree[Here].form \in Hosts("insert")
  BY HereIsHosted
<1>2. Variable(Here)
  BY <1>1 DEF Variable, Hosts
<1>3. ASSUME NEW i \in DOMAIN stack, ~Closed(g, stack, g[1], 1, i)
      PROVE  Usable(R, Here, R[stack[i].n])
  <2>1. CASE i = 1
    <3>1. R[Here] \in Regions
      BY <1>1 DEF Regioned
    <3>2. Before(R[Here], R[Here])
      BY <3>1, BeforeRules
    <3> QED  BY <2>1, <3>2 DEF Usable, Here
  <2>2. CASE i # 1
    <3>1. \A a, b \in DOMAIN stack :
             stack[a].k \in Fillers /\ a < b /\ ~Closed(g, stack, g[a], a, b)
               => Exempt(stack[a].n) \/ Before(R[stack[a].n], R[stack[b].n])
      BY DEF Stacked
    <3>2. stack[1].k \in Fillers /\ 1 < i
      BY <2>2 DEF Fillers
    <3>3. Exempt(stack[1].n) \/ Before(R[stack[1].n], R[stack[i].n])
      BY <1>3, <3>1, <3>2
    <3> QED  BY <3>3 DEF Usable, Here
  <2> QED  BY <2>1, <2>2
<1> QED  BY <1>2, <1>3 DEF Safe

\* The typechecker's part of the invariant, after a step that goes on with fs.
LEMMA CheckKept ==
    ASSUME NEW F, stack \in Seq(F), stack # <<>>, NEW G, NEW fs \in Seq(G), Become(fs),
           NEW R, NEW R2, NEW g, NEW gf, NEW m, m = Len(scopes'),
           Continues(R, R2), Levelled(g, stack, Len(scopes), 1), Stacked(R, g), Bound(R, g),
           Found(R), LinksRight(R), UsesAwaited,
           Levelled(gf, fs, m, g[2]), Fits(fs, gf, g, R2), Rebinds(g), Relinks(R2), Reuses(fs)
    PROVE  Checking'
<1>1. PICK g2 : /\ Levelled(g2, stack', m, 1)
                /\ Stacked(R2, g2)' /\ Found(R2)'
                /\ \A l, d : Safe(R, g, l, d) /\ (stack[1].k # "close" \/ g[1] # l)
                      => Safe(R2, g2, l, d)'
  <2>1. PICK n : n = Len(scopes)
    OBVIOUS
  <2>2. Levelled(g, stack, n, 1)
    BY <2>1
  <2> QED  BY <2>2, FramesStay
<1>2. Regioned(R2)' /\ Regioned(R)
  BY DEF Continues
<1>3. Levelled(g2, stack, Len(scopes), 1)'
  BY <1>1
<1>4. 1 \in DOMAIN stack /\ \A i \in DOMAIN stack : i # 1 => 1 < i
  <2>1. DOMAIN stack = 1 .. Len(stack) /\ Len(stack) \in Nat /\ Len(stack) # 0
    BY EmptySeq
  <2> QED  BY <2>1
<1>5. Bound(R2, g2)'
  <2>1. ASSUME NEW l \in DOMAIN scopes', NEW x \in DOMAIN scopes'[l], NEW d, d = scopes'[l][x]
        PROVE  Safe(R2, g2, l, d)'
    <3>1. CASE /\ l \in DOMAIN scopes /\ x \in DOMAIN scopes[l] /\ d = scopes[l][x]
               /\ stack[1].k # "close" \/ g[1] # l
      <4>1. Safe(R, g, l, d)
        BY <3>1 DEF Bound
      <4> QED  BY <1>1, <3>1, <4>1
    <3>2. CASE Variable(d)' /\ tree'[d].form # "arraydecl"
      BY <3>2 DEF Safe, Usable
    <3>3. CASE stack[1].k = "insert" /\ d = Here /\ l = g[1]
      <4>1. Safe(R, g, l, d)
        BY <1>2, <1>4, <3>3, InsertedIsSafe
      <4> QED  BY <1>1, <3>3, <4>1
    <3> QED  BY <2>1, <3>1, <3>2, <3>3 DEF Rebinds
  <2> QED  BY <2>1 DEF Bound
<1>6. LinksRight(R2)'
  <2>1. ASSUME NEW u \in DOMAIN link', NEW d, d = link'[u]
        PROVE  /\ u \in Uses' /\ Variable(d)' /\ Usable(R2, d, R2[u])'
               /\ tree'[u].form \in {"access", "arrayassign"} => tree'[d].form \in ArrayForms
               /\ tree'[u].form = "assign" => tree'[d].form \notin ParamForms
    <3>1. CASE u \in DOMAIN link /\ d = link[u]
      <4>1. /\ u \in Uses /\ Variable(d) /\ Usable(R, d, R[u])
            /\ tree[u].form \in {"access", "arrayassign"} => tree[d].form \in ArrayForms
            /\ tree[u].form = "assign" => tree[d].form \notin ParamForms
        BY <3>1 DEF LinksRight, IsArray, IsParam
      <4>2. u \in Uses' /\ tree'[u].form = tree[u].form /\ R2[u] = R[u]
        BY <4>1, UsesStay
      <4>3. Variable(d)' /\ tree'[d].form = tree[d].form
        BY <4>1 DEF Continues
      <4>4. Usable(R2, d, R[u])'
        BY <4>1, UsableStays
      <4> QED  BY <4>1, <4>2, <4>3, <4>4
    <3>2. CASE ~(u \in DOMAIN link /\ d = link[u])
      BY <2>1, <3>2 DEF Relinks
    <3> QED  BY <3>1, <3>2
  <2> QED  BY <2>1 DEF LinksRight, IsArray, IsParam
<1>7. UsesAwaited'
  <2>1. ASSUME NEW u \in Uses', u \notin DOMAIN link'
        PROVE  \E i \in DOMAIN stack' : stack'[i].n = u /\ stack'[i].k \in Linkers
    <3> DEFINE t == fs \o Tail(stack)
    <3>1. /\ \A i \in DOMAIN fs : i \in DOMAIN t /\ t[i] = fs[i]
          /\ \A i \in 2 .. Len(stack) : Len(fs) + i - 1 \in DOMAIN t /\ t[Len(fs) + i - 1] = stack[i]
          /\ Len(stack) \in Nat /\ DOMAIN stack = 1 .. Len(stack)
      BY Replaced
    <3>2. stack' = t
      BY DEF Become
    <3> HIDE DEF t
    <3>3. CASE \E i \in DOMAIN fs : fs[i].n = u /\ fs[i].k \in Linkers
      BY <3>1, <3>2, <3>3
    <3>4. CASE u \in Uses
      <4>1. u \notin DOMAIN link
        BY <2>1 DEF Relinks
      <4>2. PICK i \in DOMAIN stack : stack[i].n = u /\ stack[i].k \in Linkers
        BY <3>4, <4>1 DEF UsesAwaited
      <4>3. i # 1
        BY <2>1, <4>2 DEF Reuses, Here
      <4>4. i \in 2 .. Len(stack)
        BY <3>1, <4>3
      <4> QED  BY <3>1, <3>2, <4>2, <4>4
    <3> QED  BY <2>1, <3>3, <3>4 DEF Reuses
  <2> QED  BY <2>1 DEF UsesAwaited
<1> QED  BY <1>1, <1>2, <1>3, <1>5, <1>6, <1>7 DEF Checking

-----------------------------------------------------------------------------
(* The invariant. *)

Phases == {"check", "gen", "done", "rejected", "asserted", "crashed"}
Errors == {"none", "undefined", "redeclared", "type", "param", "nomatch"}
Frames == [k : Kinds \cup {"element", "alloca", "enter", "leave"}, n : Nat,
           want : SUBSET AllTypes, d : Nat]
Bindings == UNION {[D -> Nat] : D \in SUBSET AllNames}

Typed ==
    /\ fuel \in 0 .. MaxNodes /\ phase \in Phases /\ err \in Errors /\ ty \in Types
    /\ stack \in Seq(Frames) /\ \A i \in DOMAIN stack : stack[i].n \in Nodes
    /\ phase = "check" => scopes \in Seq(Bindings) /\ region = <<>>
    /\ DOMAIN link \subseteq Uses /\ \A u \in DOMAIN link : link[u] \in Nodes
    /\ DOMAIN home = symbols

LinkingInv == Typed /\ Shaped /\ Checking /\ Generating

-----------------------------------------------------------------------------
(* Steps of the typechecker. *)

\* The running frame and its scope.
LEMMA Running ==
    ASSUME NEW F, NEW s \in Seq(F), s # <<>>, NEW n, NEW g, Levelled(g, s, n, 1)
    PROVE  /\ 1 \in DOMAIN s /\ Len(s) >= 1 /\ Len(s) \in Nat /\ DOMAIN s = 1 .. Len(s)
           /\ g[1] = n /\ n \in Nat \ {0} /\ g[2] = n + Shift(s[1].k) /\ g[2] \in Nat \ {0}
<1>1. DOMAIN s = 1 .. Len(s) /\ Len(s) \in Nat /\ Len(s) >= 1
  BY EmptySeq
<1>2. 1 \in DOMAIN s /\ 1 \in 1 .. Len(s) + 1 /\ 2 \in 1 .. Len(s) + 1 /\ 1 + 1 = 2
  BY <1>1
<1>3. /\ g[1] \in Nat \ {0} /\ g[2] \in Nat \ {0} /\ g[1] = n
      /\ \A i \in DOMAIN s : g[i + 1] = g[i] + Shift(s[i].k)
  BY <1>2 DEF Levelled
<1>4. g[1 + 1] = g[1] + Shift(s[1].k)
  BY <1>2, <1>3
<1> QED  BY <1>1, <1>2, <1>3, <1>4

\* The frame of kind k that runs.
LEMMA TopFrame ==
    ASSUME LinkingInv, NEW k, Top("check", k)
    PROVE  /\ stack \in Seq(Frames) /\ stack # <<>> /\ stack[1].k = k /\ phase = "check"
           /\ stack[1] \in Frames /\ Here \in Nodes /\ Here \in Nat
           /\ tree[Here].form \in Hosts(k) /\ scopes \in Seq(Bindings)
           /\ Len(stack) \in Nat /\ Len(stack) >= 1 /\ DOMAIN stack = 1 .. Len(stack)
<1>1. stack \in Seq(Frames) /\ stack # <<>> /\ stack[1].k = k /\ phase = "check"
      /\ scopes \in Seq(Bindings) /\ \A i \in DOMAIN stack : stack[i].n \in Nodes
  BY DEF LinkingInv, Typed, Top
<1>2. Len(stack) \in Nat /\ Len(stack) >= 1 /\ DOMAIN stack = 1 .. Len(stack) /\ 1 \in 1 .. Len(stack)
  BY <1>1, EmptySeq
<1>3. stack[1] \in Frames /\ Here \in Nodes
  BY <1>1, <1>2 DEF Here
<1>4. Here \in Nat
  BY <1>3, NodesAre DEF LinkingInv
<1>5. PICK R, g : Stacked(R, g)
  BY <1>1 DEF LinkingInv, Checking
<1>6. tree[Here].form \in Hosts(k)
  <2>1. \A i \in DOMAIN stack : Hosted(stack[i])
    BY <1>5 DEF Stacked
  <2>2. Hosted(stack[1])
    BY <1>2, <2>1
  <2> QED  BY <1>1, <2>2 DEF Hosted, Here
<1> QED  BY <1>1, <1>2, <1>3, <1>4, <1>6

\* Facts of the state before the step.
Held(R, g) ==
    /\ Regioned(R) /\ Levelled(g, stack, Len(scopes), 1) /\ Stacked(R, g) /\ Bound(R, g)
    /\ Found(R) /\ LinksRight(R) /\ UsesAwaited

\* The step goes on with the frames fs.
LEMMA Accepts ==
    ASSUME LinkingInv, phase = "check", stack # <<>>, NEW fs \in Seq(Frames), Become(fs),
           NEW R, NEW R2, NEW g, NEW gf, Held(R, g), Continues(R, R2), Shaped',
           Levelled(gf, fs, Len(scopes'), g[2]), Fits(fs, gf, g, R2),
           Rebinds(g), Relinks(R2), Reuses(fs),
           fuel' \in 0 .. MaxNodes, ty' \in Types, scopes' \in Seq(Bindings),
           UNCHANGED <<phase, err, symbols, region, home>>
    PROVE  LinkingInv'
<1>1. /\ stack \in Seq(Frames) /\ err \in Errors /\ phase \in Phases /\ DOMAIN home = symbols
      /\ region' = <<>>
  BY DEF LinkingInv, Typed
<1>2. Checking'
  <2>1. PICK m : m = Len(scopes')
    OBVIOUS
  <2>2. Levelled(gf, fs, m, g[2])
    BY <2>1
  <2>3. /\ Levelled(g, stack, Len(scopes), 1) /\ Stacked(R, g) /\ Bound(R, g)
        /\ Found(R) /\ LinksRight(R) /\ UsesAwaited
    BY DEF Held
  <2> QED  BY <1>1, <2>1, <2>2, <2>3, CheckKept
<1>3. stack' \in Seq(Frames)
  <2>1. Tail(stack) \in Seq(Frames)
    BY <1>1, HeadTailProperties
  <2> QED  BY <2>1, ConcatProperties DEF Become
<1>4. PICK R3, g3 : Stacked(R3, g3)' /\ LinksRight(R3)'
  BY <1>2 DEF Checking
<1>5. \A i \in DOMAIN stack' : stack'[i].n \in Nodes'
  BY <1>4 DEF Stacked, Hosted
<1>6. DOMAIN link' \subseteq Uses' /\ \A u \in DOMAIN link' : link'[u] \in Nodes'
  <2>1. \A u \in DOMAIN link' : u \in Uses' /\ link'[u] \in Nodes'
    BY <1>4 DEF LinksRight, Variable
  <2> QED  BY <2>1
<1>7. Typed'
  BY <1>1, <1>3, <1>5, <1>6 DEF Typed
<1>8. Generating'
  BY DEF Generating
<1> QED  BY <1>2, <1>7, <1>8 DEF LinkingInv

\* The step throws a TypeError.
LEMMA Rejects ==
    ASSUME LinkingInv, NEW R, NEW R2, Continues(R, R2), Shaped', fuel' \in 0 .. MaxNodes,
           phase' = "rejected", err' \in Errors, Relinks(R2),
           UNCHANGED <<stack, scopes, ty, symbols, region, home>>
    PROVE  LinkingInv'
<1>1. /\ stack \in Seq(Frames) /\ \A i \in DOMAIN stack : stack[i].n \in Nodes
      /\ ty \in Types
      /\ DOMAIN link \subseteq Uses /\ \A u \in DOMAIN link : link[u] \in Nodes
      /\ DOMAIN home = symbols
  BY DEF LinkingInv, Typed
<1>2. Nodes \subseteq Nodes'
  BY DEF Continues
<1>3. DOMAIN link' \subseteq Uses' /\ \A u \in DOMAIN link' : link'[u] \in Nodes'
  <2>1. \A u \in DOMAIN link : u \in Uses'
    BY <1>1, UsesStay
  <2>2. ASSUME NEW u \in DOMAIN link', NEW d, d = link'[u]
        PROVE  u \in Uses' /\ d \in Nodes'
    <3>1. CASE u \in DOMAIN link /\ d = link[u]
      BY <1>1, <1>2, <2>1, <3>1
    <3>2. CASE u \in Uses' /\ Variable(d)'
      BY <3>2 DEF Variable
    <3> QED  BY <2>2, <3>1, <3>2 DEF Relinks
  <2> QED  BY <2>2
<1>4. "rejected" \in Phases
  BY DEF Phases
<1>5. Typed'
  BY <1>1, <1>2, <1>3, <1>4 DEF Typed
<1>6. Checking' /\ Generating'
  BY DEF Checking, Generating
<1> QED  BY <1>5, <1>6 DEF LinkingInv

\* The tree stays as it is.
LEMMA TreeStays ==
    ASSUME NEW R, Regioned(R), UNCHANGED tree
    PROVE  Continues(R, R) /\ (Shaped => Shaped') /\ Nodes' = Nodes /\ Uses' = Uses
<1>1. Nodes' = Nodes /\ Uses' = Uses
  BY DEF Nodes, Uses
<1>2. Regioned(R)'
  BY DEF Regioned, Nodes, IsParam, Kids
<1>3. \A d : Variable(d) => Variable(d)'
  BY DEF Variable, Nodes
<1>4. \A n : Exempt(n) => Exempt(n)'
  BY DEF Exempt, Kids, Nodes
<1>5. Shaped => Shaped'
  BY DEF Shaped, Nodes, Kids, IsParam
<1> QED  BY <1>1, <1>2, <1>3, <1>4, <1>5 DEF Continues

\* The node under visit grows.
LEMMA TreeGoesOn ==
    ASSUME Shaped, NEW R, Regioned(R), NEW m, Grows(Here, m)
    PROVE  /\ Shaped'
           /\ \E R2 : /\ Continues(R, R2)
                      /\ \A i \in 1 .. m : R2[Len(tree) + i] =
                            Sub(R[Here], tree'[Here].form, Here, Len(Kids(Here)) + i)
           /\ \A u \in Uses' : u \in Uses \/ u = Here
<1>1. PICK h : h = Here
  OBVIOUS
<1>2. Grows(h, m)
  BY <1>1
<1>3. Shaped'
  BY <1>2, ShapeGrows
<1>4. PICK R2 : /\ Regioned(R2)' /\ \A n \in Nodes : R2[n] = R[n]
                /\ \A i \in 1 .. m :
                     R2[Len(tree) + i] = Sub(R[h], tree'[h].form, h, Len(Kids(h)) + i)
  BY <1>2, RegionsGrow
<1>5. /\ \A d : Variable(d) => Variable(d)' /\ tree'[d].form = tree[d].form
      /\ \A n \in Nodes : n # h => tree'[n] = tree[n]
      /\ \A n : Exempt(n) => Exempt(n)'
  BY <1>2, GrownForms
<1>6. Nodes \subseteq Nodes' /\ (tree[h].form = "hole" \/ tree'[h].form = tree[h].form)
  BY <1>2, GrownNodes DEF Grows
<1>7. Continues(R, R2)
  BY <1>1, <1>4, <1>5, <1>6 DEF Continues
<1>8. ASSUME NEW u \in Uses'
      PROVE  u \in Uses \/ u = h
  <2>1. u \in Nodes' /\ tree'[u].form \in {"var", "access", "assign", "arrayassign"}
    BY DEF Uses
  <2>2. u \in Nodes
    <3>1. u \notin Nodes => tree'[u] = Hole
      BY <1>2, <2>1, GrownHoles
    <3> QED  BY <2>1, <3>1, HoleIsNode
  <2> QED  BY <1>5, <2>1, <2>2 DEF Uses
<1> QED  BY <1>1, <1>3, <1>4, <1>7, <1>8

\* Fill makes the node grow.
LEMMA FillGrows ==
    ASSUME Shaped, Here \in Nodes, tree[Here].form = "hole", fuel \in 0 .. MaxNodes,
           NEW form, NEW name \in AllNames, NEW t \in Types, NEW m \in Nat,
           Fill(form, name, t, m), m \in Arity(form)
    PROVE  /\ Grows(Here, m) /\ fuel' \in 0 .. MaxNodes
           /\ tree'[Here].form = form /\ tree'[Here].name = name /\ tree'[Here].ty = t
           /\ Len(Kids(Here)) = 0
<1>1. /\ Len(tree) \in Nat /\ Nodes = 1 .. Len(tree) /\ tree \in Seq(NodeRecs)
      /\ Len(Kids(Here)) = 0 /\ Here \in Nat
  BY NodesAre DEF Shaped
<1>2. PICK h : h = Here
  OBVIOUS
<1>3. PICK r : r = [Node(form, name, t) EXCEPT !.kids = [i \in 1 .. m |-> Kid(i)]]
  OBVIOUS
<1>4. /\ r.form = form /\ r.name = name /\ r.ty = t /\ r.kids = [i \in 1 .. m |-> Len(tree) + i]
      /\ r = [form |-> form, name |-> name, ty |-> t, kids |-> r.kids]
  BY <1>3 DEF Node, Kid
<1>5. r.kids \in Seq(Nat) /\ Len(r.kids) = m
  <2>1. [i \in 1 .. m |-> Len(tree) + i] \in [1 .. m -> Nat]
    BY <1>1
  <2> QED  BY <1>4, <2>1
<1>6. r \in NodeRecs
  <2>1. form \in NodeForms
    BY FormsAssumption DEF Fill, NodeForms
  <2> QED  BY <1>4, <1>5, <2>1 DEF NodeRecs
<1>7. PICK a, b : a = [tree EXCEPT ![h] = r] /\ b = [i \in 1 .. m |-> Hole]
  OBVIOUS
<1>8. tree' = a \o b
  BY <1>2, <1>3, <1>7 DEF Fill
<1>9. /\ a \in Seq(NodeRecs) /\ Len(a) = Len(tree) /\ a[h] = r
      /\ \A n \in Nodes : n # h => a[n] = tree[n]
  BY <1>1, <1>2, <1>6, <1>7
<1>10. b \in Seq(NodeRecs) /\ Len(b) = m /\ \A i \in 1 .. m : b[i] = Hole
  <2>1. b \in [1 .. m -> NodeRecs]
    BY <1>7, HoleIsNode
  <2> QED  BY <1>7, <2>1
<1>11. /\ tree' \in Seq(NodeRecs) /\ Len(tree') = Len(tree) + m
       /\ \A i \in 1 .. Len(tree) + m :
             tree'[i] = IF i <= Len(tree) THEN a[i] ELSE b[i - Len(tree)]
  <2>1. PICK c : c = a \o b
    OBVIOUS
  <2>2. /\ c \in Seq(NodeRecs) /\ Len(c) = Len(a) + Len(b)
        /\ \A i \in 1 .. Len(c) : c[i] = IF i <= Len(a) THEN a[i] ELSE b[i - Len(a)]
    <3>1. a \in Seq(NodeRecs) /\ b \in Seq(NodeRecs)
      BY <1>9, <1>10
    <3>2. /\ a \o b \in Seq(NodeRecs) /\ Len(a \o b) = Len(a) + Len(b)
          /\ \A i \in 1 .. Len(a \o b) :
                (a \o b)[i] = IF i <= Len(a) THEN a[i] ELSE b[i - Len(a)]
      BY <3>1, ConcatProperties
    <3> QED  BY <2>1, <3>2
  <2> QED  BY <1>8, <1>9, <1>10, <2>1, <2>2
<1>12. \A n \in Nodes : tree'[n] = a[n]
  BY <1>1, <1>11
<1>13. ASSUME NEW i \in 1 .. m
       PROVE  tree'[Len(tree) + i] = Hole
  <2>1. /\ Len(tree) + i \in 1 .. Len(tree) + m /\ ~(Len(tree) + i <= Len(tree))
        /\ Len(tree) + i - Len(tree) = i
    BY <1>1
  <2> QED  BY <1>10, <1>11, <2>1
<1>14. tree'[h] = r
  BY <1>2, <1>9, <1>12
<1>15. form \notin ParamForms
  BY FormsAssumption DEF Fill, AllForms, ParamForms
<1>16. ASSUME NEW i \in 1 .. m
       PROVE  r.kids[0 + i] = Len(tree) + i
  BY <1>4
<1>17. Grows(h, m)
  <2>1. 0 + m = m /\ 1 .. 0 = {}
    OBVIOUS
  <2>2. /\ Len(tree'[h].kids) = 0 + m
        /\ \A i \in 1 .. 0 : tree'[h].kids[i] = tree[h].kids[i]
        /\ \A i \in 1 .. m : tree'[h].kids[0 + i] = Len(tree) + i
    BY <1>5, <1>14, <1>16, <2>1
  <2>3. /\ tree[h].form = "hole" /\ tree'[h].form \notin ParamForms
        /\ 0 + m \in Arity(tree'[h].form)
    BY <1>2, <1>4, <1>14, <1>15, <2>1
  <2>4. h \in Nodes /\ Len(Kids(h)) = 0 /\ \A n \in Nodes : n # h => tree'[n] = tree[n]
    BY <1>1, <1>2, <1>9, <1>12
  <2> QED  BY <1>11, <1>13, <2>2, <2>3, <2>4 DEF Grows
<1>18. fuel' \in 0 .. MaxNodes
  BY BoundsAssumption DEF Fill
<1> QED  BY <1>1, <1>2, <1>4, <1>14, <1>17, <1>18

\* A node that gets a form, but no parts.
LEMMA LeafGrows ==
    ASSUME Shaped, Here \in Nodes, tree[Here].form = "hole",
           NEW form \in {"lit", "seq"}, NEW name \in AllNames, NEW t \in Types,
           tree' = [tree EXCEPT ![Here] = Node(form, name, t)]
    PROVE  Grows(Here, 0) /\ tree'[Here].form = form
<1>1. /\ Len(tree) \in Nat /\ Nodes = 1 .. Len(tree) /\ tree \in Seq(NodeRecs)
      /\ Len(Kids(Here)) = 0 /\ Here \in Nat
  BY NodesAre DEF Shaped
<1>2. PICK h : h = Here
  OBVIOUS
<1>3. PICK r : r = Node(form, name, t)
  OBVIOUS
<1>4. r \in NodeRecs /\ r.form = form /\ r.kids = <<>>
  <2>1. form \in NodeForms /\ <<>> \in Seq(Nat)
    BY DEF NodeForms, AllForms
  <2> QED  BY <1>3, <2>1 DEF NodeRecs, Node
<1>5. /\ tree' \in Seq(NodeRecs) /\ Len(tree') = Len(tree) /\ tree'[h] = r
      /\ \A n \in Nodes : n # h => tree'[n] = tree[n]
  BY <1>1, <1>2, <1>3, <1>4
<1>6. 0 \in Arity(form) /\ form \notin ParamForms
  BY DEF Arity, ParamForms
<1>7. Grows(h, 0)
  <2>1. 0 + 0 = 0 /\ 1 .. 0 = {} /\ Len(<<>>) = 0 /\ Len(tree) + 0 = Len(tree) /\ 0 \in Nat
    BY <1>1
  <2>2. h \in Nodes /\ Len(Kids(h)) = 0 /\ tree[h].form = "hole"
    BY <1>1, <1>2
  <2>3. Len(tree'[h].kids) = 0 /\ tree'[h].form = form
    BY <1>4, <1>5, <2>1
  <2> QED  BY <1>5, <1>6, <2>1, <2>2, <2>3 DEF Grows
<1> QED  BY <1>2, <1>4, <1>5, <1>7

\* A block that gets one more statement.
LEMMA SeqGrows ==
    ASSUME Shaped, Here \in Nodes, tree[Here].form = "seq",
           tree' = Append([tree EXCEPT ![Here].kids = Append(@, Kid(1))], Hole)
    PROVE  Grows(Here, 1) /\ tree'[Here].form = "seq"
<1>1. /\ Len(tree) \in Nat /\ Nodes = 1 .. Len(tree) /\ tree \in Seq(NodeRecs)
      /\ Len(Kids(Here)) \in Nat /\ Kids(Here) \in Seq(Nat) /\ tree[Here] \in NodeRecs
  BY NodesAre DEF Shaped
<1>2. PICK h : h = Here
  OBVIOUS
<1>3. PICK ks : ks = Append(tree[h].kids, Len(tree) + 1)
  OBVIOUS
<1>4. /\ ks \in Seq(Nat) /\ Len(ks) = Len(Kids(h)) + 1 /\ ks[Len(Kids(h)) + 1] = Len(tree) + 1
      /\ \A i \in 1 .. Len(Kids(h)) : ks[i] = tree[h].kids[i]
  <2>1. Kids(h) \in Seq(Nat) /\ Len(tree) + 1 \in Nat
    BY <1>1, <1>2
  <2> QED  BY <1>3, <2>1, AppendProperties DEF Kids
<1>5. PICK a : a = [tree EXCEPT ![h].kids = ks]
  OBVIOUS
<1>6. tree' = Append(a, Hole)
  BY <1>2, <1>3, <1>5 DEF Kid
<1>7. PICK r : r = [tree[h] EXCEPT !.kids = ks]
  OBVIOUS
<1>8. r \in NodeRecs /\ r.form = "seq" /\ r.kids = ks
  <2>1. tree[h] \in NodeRecs /\ tree[h].form = "seq"
    BY <1>1, <1>2
  <2> QED  BY <1>4, <1>7, <2>1 DEF NodeRecs
<1>9. /\ a \in Seq(NodeRecs) /\ Len(a) = Len(tree) /\ a[h] = r
      /\ \A n \in Nodes : n # h => a[n] = tree[n]
  <2>1. a = [tree EXCEPT ![h] = r]
    BY <1>5, <1>7
  <2> QED  BY <1>1, <1>2, <1>8, <2>1
<1>10. /\ tree' \in Seq(NodeRecs) /\ Len(tree') = Len(tree) + 1
       /\ \A n \in 1 .. Len(tree) : tree'[n] = a[n]
       /\ tree'[Len(tree) + 1] = Hole
  <2>1. Hole \in NodeRecs
    BY HoleIsNode
  <2>2. PICK c : c = Append(a, Hole)
    OBVIOUS
  <2>3. /\ c \in Seq(NodeRecs) /\ Len(c) = Len(a) + 1
        /\ \A n \in 1 .. Len(a) : c[n] = a[n]
        /\ c[Len(a) + 1] = Hole
    BY <1>9, <2>1, <2>2, AppendProperties
  <2> QED  BY <1>6, <1>9, <2>2, <2>3
<1>11. Grows(h, 1)
  <2>1. h \in Nodes /\ 1 \in Nat /\ tree[h].form = "seq"
    BY <1>2
  <2>2. tree'[h] = r
    BY <1>1, <1>9, <1>10, <2>1
  <2>3. \A n \in Nodes : n # h => tree'[n] = tree[n]
    BY <1>1, <1>9, <1>10
  <2>4. \A i \in 1 .. 1 : tree'[Len(tree) + i] = Hole /\ tree'[h].kids[Len(Kids(h)) + i] = Len(tree) + i
    <3>1. \A i \in 1 .. 1 : i = 1
      OBVIOUS
    <3> QED  BY <1>4, <1>8, <1>10, <2>2, <3>1
  <2>5. Len(Kids(h)) + 1 \in Arity("seq")
    BY <1>1, <1>2 DEF Arity
  <2> QED  BY <1>4, <1>8, <1>10, <2>1, <2>2, <2>3, <2>4, <2>5 DEF Grows
<1> QED  BY <1>1, <1>2, <1>8, <1>9, <1>10, <1>11

\* Names for the regions and the levels.
LEMMA IsHeld ==
    ASSUME LinkingInv, phase = "check"
    PROVE  \E R, g : Held(R, g)
BY DEF LinkingInv, Checking, Held

\* The links, the scopes, the uses stay as they are.
LEMMA LinksStay == ASSUME NEW R2, UNCHANGED link PROVE Relinks(R2)
BY DEF Relinks

\* No scope is closed, and no name bound.
LEMMA ScopesStay ==
    ASSUME NEW g, UNCHANGED scopes, stack[1].k # "close"
    PROVE  Rebinds(g)
BY DEF Rebinds

\* No node becomes a use.
LEMMA UsesSame ==
    ASSUME NEW fs, \A u \in Uses' : u \in Uses, stack[1].k \notin Linkers
    PROVE  Reuses(fs)
BY DEF Reuses

\* The levels of frames that open and close nothing.
LEMMA FlatLevels ==
    ASSUME NEW G, NEW fs \in Seq(G), NEW v \in Nat \ {0}, \A i \in DOMAIN fs : Shift(fs[i].k) = 0
    PROVE  Levelled([i \in 1 .. Len(fs) + 1 |-> v], fs, v, v)
<1>1. Len(fs) \in Nat /\ DOMAIN fs = 1 .. Len(fs)
  OBVIOUS
<1> DEFINE gf == [i \in 1 .. Len(fs) + 1 |-> v]
<1>2. gf \in [1 .. Len(fs) + 1 -> Nat \ {0}]
  OBVIOUS
<1>3. 1 \in 1 .. Len(fs) + 1 /\ Len(fs) + 1 \in 1 .. Len(fs) + 1
  BY <1>1
<1>4. ASSUME NEW i \in DOMAIN fs
      PROVE  gf[i + 1] = gf[i] + Shift(fs[i].k)
  <2>1. i \in 1 .. Len(fs) + 1 /\ i + 1 \in 1 .. Len(fs) + 1
    BY <1>1
  <2>2. v + 0 = v
    OBVIOUS
  <2> QED  BY <2>1, <2>2
<1> QED  BY <1>2, <1>3, <1>4 DEF Levelled

\* The running frame is done.
LEMMA Pops ==
    ASSUME LinkingInv, phase = "check", stack # <<>>, Become(<<>>),
           NEW R, NEW R2, NEW g, Held(R, g), Continues(R, R2), Shaped',
           Len(scopes') = g[2], Rebinds(g), Relinks(R2), Reuses(<<>>),
           fuel' \in 0 .. MaxNodes, ty' \in Types, scopes' \in Seq(Bindings),
           UNCHANGED <<phase, err, symbols, region, home>>
    PROVE  LinkingInv'
<1>1. PICK fs : fs = <<>> /\ fs \in Seq(Frames)
  <2>1. <<>> \in Seq(Frames)
    OBVIOUS
  <2> QED  BY <2>1
<1>2. DOMAIN fs = {} /\ Len(fs) = 0
  BY <1>1
<1>3. stack \in Seq(Frames)
  BY DEF LinkingInv, Typed
<1>4. g[2] \in Nat \ {0}
  <2>1. PICK n : n = Len(scopes)
    OBVIOUS
  <2>2. Levelled(g, stack, n, 1)
    BY <2>1 DEF Held
  <2> QED  BY <1>3, <2>2, Running
<1>5. PICK gf : gf = [i \in 1 .. Len(fs) + 1 |-> g[2]]
  OBVIOUS
<1>6. Levelled(gf, fs, g[2], g[2])
  <2>1. \A i \in DOMAIN fs : Shift(fs[i].k) = 0
    BY <1>2
  <2>2. Levelled([i \in 1 .. Len(fs) + 1 |-> g[2]], fs, g[2], g[2])
    BY <1>1, <1>4, <2>1, FlatLevels
  <2> QED  BY <1>5, <2>2
<1>7. Fits(fs, gf, g, R2)
  BY <1>2 DEF Fits
<1>8. Become(fs) /\ Reuses(fs)
  BY <1>1
<1>9. Levelled(gf, fs, Len(scopes'), g[2])
  BY <1>6
<1> QED  BY <1>1, <1>7, <1>8, <1>9, Accepts

\* The running frame is replaced by frames that open and close no scopes.
LEMMA Pushes ==
    ASSUME LinkingInv, phase = "check", stack # <<>>, NEW fs \in Seq(Frames), Push(fs),
           NEW R, NEW R2, NEW g, Held(R, g), Continues(R, R2), Shaped',
           stack[1].k \notin {"open", "close"}, \A i \in DOMAIN fs : Shift(fs[i].k) = 0,
           Fits(fs, [i \in 1 .. Len(fs) + 1 |-> g[1]], g, R2), Relinks(R2), Reuses(fs),
           fuel' \in 0 .. MaxNodes, UNCHANGED <<symbols, region, home>>
    PROVE  LinkingInv'
<1>1. stack \in Seq(Frames) /\ ty \in Types /\ scopes \in Seq(Bindings)
  BY DEF LinkingInv, Typed
<1>2. g[2] \in Nat \ {0} /\ g[1] = Len(scopes) /\ g[2] = g[1]
  <2>1. PICK n : n = Len(scopes)
    OBVIOUS
  <2>2. Levelled(g, stack, n, 1)
    BY <2>1 DEF Held
  <2>3. g[1] = n /\ n \in Nat \ {0} /\ g[2] = n + Shift(stack[1].k) /\ g[2] \in Nat \ {0}
    BY <1>1, <2>2, Running
  <2>4. Shift(stack[1].k) = 0
    BY DEF Shift
  <2> QED  BY <2>1, <2>3, <2>4
<1>3. PICK gf : gf = [i \in 1 .. Len(fs) + 1 |-> g[1]]
  OBVIOUS
<1>4. Levelled(gf, fs, g[1], g[1])
  <2>1. Levelled([i \in 1 .. Len(fs) + 1 |-> g[1]], fs, g[1], g[1])
    BY <1>2, FlatLevels
  <2> QED  BY <1>3, <2>1
<1>5. Become(fs) /\ UNCHANGED <<phase, err, scopes, ty>>
  BY DEF Push
<1>6. Levelled(gf, fs, Len(scopes'), g[2])
  BY <1>2, <1>4, <1>5
<1>7. Rebinds(g)
  BY <1>5, ScopesStay
<1>8. Fits(fs, gf, g, R2)
  BY <1>3
<1>9. ty' \in Types /\ scopes' \in Seq(Bindings)
  BY <1>1, <1>5
<1> QED  BY <1>5, <1>6, <1>7, <1>8, <1>9, Accepts

\* The running frame is done, and nothing else happens.
LEMMA PushesNothing ==
    ASSUME LinkingInv, phase = "check", stack # <<>>, Push(<<>>),
           NEW R, NEW R2, NEW g, Held(R, g), Continues(R, R2), Shaped',
           stack[1].k \notin {"open", "close"}, Relinks(R2), Reuses(<<>>),
           fuel' \in 0 .. MaxNodes, UNCHANGED <<symbols, region, home>>
    PROVE  LinkingInv'
<1>1. PICK fs : fs = <<>> /\ fs \in Seq(Frames)
  <2>1. <<>> \in Seq(Frames)
    OBVIOUS
  <2> QED  BY <2>1
<1>2. DOMAIN fs = {}
  BY <1>1
<1>3. Fits(fs, [i \in 1 .. Len(fs) + 1 |-> g[1]], g, R2)
  BY <1>2 DEF Fits
<1>4. Push(fs) /\ Reuses(fs) /\ \A i \in DOMAIN fs : Shift(fs[i].k) = 0
  BY <1>1, <1>2
<1> QED  BY <1>1, <1>3, <1>4, Pushes

\* An expression is done.
LEMMA Yields ==
    ASSUME LinkingInv, phase = "check", stack # <<>>, NEW t \in Types, NEW want, Yield(t, want),
           NEW R, NEW R2, NEW g, Held(R, g), Continues(R, R2), Shaped',
           stack[1].k \notin {"open", "close"}, Relinks(R2), Reuses(<<>>),
           fuel' \in 0 .. MaxNodes, UNCHANGED <<symbols, region, home>>
    PROVE  LinkingInv'
<1>1. stack \in Seq(Frames) /\ scopes \in Seq(Bindings)
  BY DEF LinkingInv, Typed
<1>2. CASE t \in want
  <2>1. ty' = t /\ Become(<<>>) /\ UNCHANGED <<phase, err, scopes>>
    BY <1>2 DEF Yield
  <2>2. g[2] = Len(scopes)
    <3>1. PICK n : n = Len(scopes)
      OBVIOUS
    <3>2. Levelled(g, stack, n, 1)
      BY <3>1 DEF Held
    <3>3. n \in Nat \ {0} /\ g[2] = n + Shift(stack[1].k)
      BY <1>1, <3>2, Running
    <3>4. Shift(stack[1].k) = 0
      BY DEF Shift
    <3> QED  BY <3>1, <3>3, <3>4
  <2>3. Rebinds(g)
    BY <2>1, ScopesStay
  <2>4. Len(scopes') = g[2] /\ ty' \in Types /\ scopes' \in Seq(Bindings)
    BY <1>1, <2>1, <2>2
  <2> QED  BY <2>1, <2>3, <2>4, Pops
<1>3. CASE t \notin want
  <2>1. phase' = "rejected" /\ err' = "type" /\ UNCHANGED <<stack, scopes, ty>>
    BY <1>3 DEF Yield, Reject
  <2>2. err' \in Errors
    BY <2>1 DEF Errors
  <2> QED  BY <2>1, <2>2, Rejects
<1> QED  BY <1>2, <1>3

\* Every bounded set of numbers that is not empty has a greatest one.
LEMMA GreatestNumber ==
    ASSUME NEW n \in Nat, NEW S \in SUBSET (1 .. n), S # {}
    PROVE  \E x \in S : \A y \in S : y <= x
<1> DEFINE T == {k \in Nat : n - k \in S}
<1>1. PICK z : z \in S
  OBVIOUS
<1>2. n - z \in Nat /\ n - (n - z) = z
  BY <1>1
<1>3. n - z \in T
  BY <1>1, <1>2
<1>4. PICK x \in T : \A y \in T : x <= y
  <2>1. T \in SUBSET Nat /\ T # {}
    BY <1>3
  <2> HIDE DEF T
  <2> QED  BY <2>1, LeastNumber
<1>5. ASSUME NEW y \in S
      PROVE  y <= n - x
  <2>1. y \in Nat /\ n - y \in Nat /\ n - (n - y) = y
    OBVIOUS
  <2>2. n - y \in T
    BY <2>1
  <2>3. x <= n - y
    BY <1>4, <2>2
  <2> QED  BY <2>1, <2>3
<1> QED  BY <1>4, <1>5

\* What a lookup finds can be used here.
LEMMA FindFindsSafe ==
    ASSUME LinkingInv, phase = "check", stack # <<>>, stack[1].k # "close",
           NEW R, NEW g, Held(R, g), NEW name, NEW d, d = Find(name), d # 0
    PROVE  Variable(d) /\ Usable(R, d, R[Here])
<1>1. scopes \in Seq(Bindings) /\ stack \in Seq(Frames)
  BY DEF LinkingInv, Typed
<1> DEFINE has == {i \in DOMAIN scopes : name \in DOMAIN scopes[i]}
<1>2. has # {} /\ d = scopes[CHOOSE i \in has : \A j \in has : j <= i][name]
  BY DEF Find, FindIn
<1>3. Len(scopes) \in Nat /\ DOMAIN scopes = 1 .. Len(scopes)
  BY <1>1
<1>4. \E i \in has : \A j \in has : j <= i
  <2>1. has \in SUBSET (1 .. Len(scopes))
    BY <1>3
  <2> HIDE DEF has
  <2> QED  BY <1>2, <1>3, <2>1, GreatestNumber
<1>5. PICK l \in has : d = scopes[l][name]
  <2> HIDE DEF has
  <2> QED  BY <1>2, <1>4
<1>6. l \in DOMAIN scopes /\ name \in DOMAIN scopes[l]
  OBVIOUS
<1>7. Safe(R, g, l, d)
  <2> HIDE DEF has
  <2> QED  BY <1>5, <1>6 DEF Held, Bound
<1>8. DOMAIN stack = 1 .. Len(stack) /\ 1 \in DOMAIN stack
  <2>1. Len(stack) \in Nat /\ Len(stack) # 0 /\ DOMAIN stack = 1 .. Len(stack)
    BY <1>1, EmptySeq
  <2> QED  BY <2>1
<1>9. ~Closed(g, stack, l, 1, 1)
  <2> SUFFICES ASSUME NEW c \in DOMAIN stack, 1 <= c, c <= 1, stack[c].k = "close"
               PROVE  FALSE
    BY DEF Closed
  <2>1. c = 1
    BY <1>8
  <2> QED  BY <2>1
<1>10. Variable(d) /\ Usable(R, d, R[stack[1].n])
  BY <1>7, <1>8, <1>9 DEF Safe
<1> QED  BY <1>10 DEF Here

\* The node under visit is linked to d.
LEMMA LinksHere ==
    ASSUME NEW R2, NEW h, h = Here, NEW d, link' = Linked(h, d), h \in Uses', Variable(d)',
           Usable(R2, d, R2[h])',
           tree'[h].form \in {"access", "arrayassign"} => tree'[d].form \in ArrayForms,
           tree'[h].form = "assign" => tree'[d].form \notin ParamForms
    PROVE  Relinks(R2) /\ h \in DOMAIN link'
<1>1. /\ DOMAIN link' = DOMAIN link \cup {h}
      /\ \A v \in DOMAIN link' : link'[v] = IF v = h THEN d ELSE link[v]
  BY DEF Linked
<1>2. ASSUME NEW v \in DOMAIN link', NEW e, e = link'[v]
      PROVE  \/ v \in DOMAIN link /\ e = link[v]
             \/ /\ v = Here /\ v \in Uses' /\ Variable(e)' /\ Usable(R2, e, R2[v])'
                /\ tree'[v].form \in {"access", "arrayassign"} => tree'[e].form \in ArrayForms
                /\ tree'[v].form = "assign" => tree'[e].form \notin ParamForms
  <2>1. CASE v = h
    <3>1. e = d
      BY <1>1, <1>2, <2>1
    <3> QED  BY <2>1, <3>1
  <2>2. CASE v # h
    BY <1>1, <1>2, <2>2
  <2> QED  BY <2>1, <2>2
<1> QED  BY <1>1, <1>2 DEF Relinks

-----------------------------------------------------------------------------
(* Steps that leave the tree as it is. *)

\* No frame takes the place of this one.
LEMMA ParamsEndKeeps ==
    ASSUME LinkingInv, ParamsEnd
    PROVE  LinkingInv'
<1>1. stack # <<>> /\ stack[1].k = "params" /\ phase = "check"
  BY TopFrame DEF ParamsEnd
<1>2. PICK R, g : Held(R, g)
  BY <1>1, IsHeld
<1>3. Shaped /\ fuel \in 0 .. MaxNodes
  BY DEF LinkingInv, Typed
<1>4. UNCHANGED <<tree, fuel, link, symbols, region, home>> /\ Push(<<>>)
  BY DEF ParamsEnd, treeVars, genVars
<1>5. Continues(R, R) /\ Shaped' /\ Uses' = Uses
  BY <1>2, <1>3, <1>4, TreeStays DEF Held
<1>6. Relinks(R) /\ Reuses(<<>>)
  BY <1>1, <1>4, <1>5, LinksStay, UsesSame DEF Linkers
<1> QED  BY <1>1, <1>2, <1>3, <1>4, <1>5, <1>6, PushesNothing

\* No frame takes the place of this one.
LEMMA SeqEndKeeps ==
    ASSUME LinkingInv, SeqEnd
    PROVE  LinkingInv'
<1>1. stack # <<>> /\ stack[1].k = "seq" /\ phase = "check"
  BY TopFrame DEF SeqEnd
<1>2. PICK R, g : Held(R, g)
  BY <1>1, IsHeld
<1>3. Shaped /\ fuel \in 0 .. MaxNodes
  BY DEF LinkingInv, Typed
<1>4. UNCHANGED <<tree, fuel, link, symbols, region, home>> /\ Push(<<>>)
  BY DEF SeqEnd, treeVars, genVars
<1>5. Continues(R, R) /\ Shaped' /\ Uses' = Uses
  BY <1>2, <1>3, <1>4, TreeStays DEF Held
<1>6. Relinks(R) /\ Reuses(<<>>)
  BY <1>1, <1>4, <1>5, LinksStay, UsesSame DEF Linkers
<1> QED  BY <1>1, <1>2, <1>3, <1>4, <1>5, <1>6, PushesNothing

\* The new scope is empty.
LEMMA OpenScopeKeeps ==
    ASSUME LinkingInv, OpenScope
    PROVE  LinkingInv'
<1>1. stack # <<>> /\ stack[1].k = "open" /\ phase = "check" /\ scopes \in Seq(Bindings)
      /\ stack \in Seq(Frames)
  BY TopFrame DEF OpenScope
<1>2. PICK R, g : Held(R, g)
  BY <1>1, IsHeld
<1>3. Shaped /\ fuel \in 0 .. MaxNodes /\ ty \in Types
  BY DEF LinkingInv, Typed
<1>4. /\ UNCHANGED <<tree, fuel, phase, err, ty, link, symbols, region, home>> /\ Become(<<>>)
      /\ scopes' = Append(scopes, NoLinks)
  BY DEF OpenScope, treeVars, genVars
<1>5. Continues(R, R) /\ Shaped' /\ Uses' = Uses
  BY <1>2, <1>3, <1>4, TreeStays DEF Held
<1>6. Relinks(R) /\ Reuses(<<>>)
  BY <1>1, <1>4, <1>5, LinksStay, UsesSame DEF Linkers
<1>7. NoLinks \in Bindings /\ DOMAIN NoLinks = {}
  <2>1. {} \in SUBSET AllNames /\ NoLinks \in [{} -> Nat]
    BY DEF NoLinks
  <2> QED  BY <2>1 DEF Bindings, NoLinks
<1>8. /\ scopes' \in Seq(Bindings) /\ Len(scopes') = Len(scopes) + 1 /\ Len(scopes) \in Nat
      /\ \A l \in 1 .. Len(scopes) : scopes'[l] = scopes[l]
      /\ scopes'[Len(scopes) + 1] = NoLinks
  BY <1>1, <1>4, <1>7, AppendProperties
<1>9. DOMAIN scopes' = 1 .. Len(scopes) + 1 /\ DOMAIN scopes = 1 .. Len(scopes)
  BY <1>1, <1>8
<1>10. Rebinds(g)
  <2>1. \A l \in DOMAIN scopes' : l \in DOMAIN scopes \/ l = Len(scopes) + 1
    BY <1>8, <1>9
  <2>2. stack[1].k # "close"
    BY <1>1
  <2> QED  BY <1>7, <1>8, <1>9, <2>1, <2>2 DEF Rebinds
<1>11. Len(scopes') = g[2]
  <2>1. PICK n : n = Len(scopes)
    OBVIOUS
  <2>2. Levelled(g, stack, n, 1)
    BY <1>2, <2>1 DEF Held
  <2>3. n \in Nat \ {0} /\ g[2] = n + Shift(stack[1].k)
    BY <1>1, <2>2, Running
  <2> QED  BY <1>1, <1>8, <2>1, <2>3 DEF Shift
<1> QED  BY <1>1, <1>2, <1>3, <1>4, <1>5, <1>6, <1>8, <1>10, <1>11, Pops

\* What the closed scope bound can no longer be found.
LEMMA CloseScopeKeeps ==
    ASSUME LinkingInv, CloseScope
    PROVE  LinkingInv'
<1>1. stack # <<>> /\ stack[1].k = "close" /\ phase = "check" /\ scopes \in Seq(Bindings)
      /\ stack \in Seq(Frames)
  BY TopFrame DEF CloseScope
<1>2. PICK R, g : Held(R, g)
  BY <1>1, IsHeld
<1>3. Shaped /\ fuel \in 0 .. MaxNodes /\ ty \in Types
  BY DEF LinkingInv, Typed
<1>4. /\ UNCHANGED <<tree, fuel, phase, err, ty, link, symbols, region, home>> /\ Become(<<>>)
      /\ scopes' = Front(scopes)
  BY DEF CloseScope, treeVars, genVars
<1>5. Continues(R, R) /\ Shaped' /\ Uses' = Uses
  BY <1>2, <1>3, <1>4, TreeStays DEF Held
<1>6. Relinks(R) /\ Reuses(<<>>)
  BY <1>1, <1>4, <1>5, LinksStay, UsesSame DEF Linkers
<1>7. PICK n : n = Len(scopes)
  OBVIOUS
<1>8. g[1] = n /\ n \in Nat \ {0} /\ g[2] = n - 1 /\ g[2] \in Nat \ {0}
  <2>1. Levelled(g, stack, n, 1)
    BY <1>2, <1>7 DEF Held
  <2>2. g[1] = n /\ n \in Nat \ {0} /\ g[2] = n + Shift(stack[1].k) /\ g[2] \in Nat \ {0}
    BY <1>1, <2>1, Running
  <2>3. Shift(stack[1].k) = -1
    BY <1>1 DEF Shift
  <2> QED  BY <2>2, <2>3
<1>9. /\ scopes' \in Seq(Bindings) /\ Len(scopes') = n - 1 /\ DOMAIN scopes' = 1 .. n - 1
      /\ \A l \in 1 .. n - 1 : scopes'[l] = scopes[l]
      /\ DOMAIN scopes = 1 .. n
  <2>1. scopes' = [l \in 1 .. n - 1 |-> scopes[l]]
    BY <1>1, <1>4, <1>7, <1>8 DEF Front
  <2>2. \A l \in 1 .. n - 1 : scopes[l] \in Bindings
    BY <1>1, <1>7, <1>8
  <2>3. n - 1 \in Nat /\ DOMAIN scopes = 1 .. n
    BY <1>1, <1>7, <1>8
  <2>4. [l \in 1 .. n - 1 |-> scopes[l]] \in [1 .. n - 1 -> Bindings]
    BY <2>2
  <2> QED  BY <2>1, <2>3, <2>4
<1>10. Rebinds(g)
  <2>1. \A l \in 1 .. n - 1 : l \in 1 .. n /\ l # n
    BY <1>8
  <2> QED  BY <1>8, <1>9, <2>1 DEF Rebinds
<1> QED  BY <1>1, <1>2, <1>3, <1>4, <1>5, <1>6, <1>8, <1>9, <1>10, Pops

\* A frame that found a declaration can link to it.
LEMMA FoundIsRight ==
    ASSUME LinkingInv, NEW k \in Finders, Top("check", k), NEW R, NEW g, Held(R, g),
           NEW d, d = stack[1].d
    PROVE  Variable(d) /\ tree[d].form \in ArrayForms /\ Usable(R, d, R[Here])
<1>1. 1 \in DOMAIN stack /\ stack[1].k = k
  BY TopFrame
<1>2. Hosted(stack[1]) /\ Usable(R, d, R[Here])
  <2>1. Stacked(R, g) /\ Found(R)
    BY DEF Held
  <2>2. Hosted(stack[1])
    BY <1>1, <2>1, HereIsHosted
  <2> QED  BY <1>1, <2>1, <2>2 DEF Found, Here
<1>3. d \in Nodes /\ tree[d].form \in ArrayForms
  BY <1>1, <1>2 DEF Hosted, IsArray
<1> QED  BY <1>2, <1>3 DEF Variable, ArrayForms, DeclForms, ParamForms

\* The running frame links its node to d, in a tree that stays.
LEMMA LinksInPlace ==
    ASSUME LinkingInv, NEW R, Regioned(R), UNCHANGED tree, NEW d, Variable(d), Usable(R, d, R[Here]),
           link' = Linked(Here, d), Here \in Uses,
           tree[Here].form \in {"access", "arrayassign"} => tree[d].form \in ArrayForms,
           tree[Here].form = "assign" => tree[d].form \notin ParamForms
    PROVE  Continues(R, R) /\ Shaped' /\ Relinks(R) /\ Reuses(<<>>)
<1>1. PICK h : h = Here
  OBVIOUS
<1>2. Continues(R, R) /\ Shaped' /\ Uses' = Uses
  BY TreeStays DEF LinkingInv
<1>3. Variable(d)' /\ Usable(R, d, R[h])'
  <2>1. Usable(R, d, R[h])
    BY <1>1
  <2> QED  BY <1>2, <2>1, UsableStays DEF Continues
<1>4. tree' = tree
  OBVIOUS
<1>5. Relinks(R) /\ h \in DOMAIN link'
  <2>1. link' = Linked(h, d) /\ h \in Uses'
    BY <1>1, <1>2
  <2>2. tree'[h].form \in {"access", "arrayassign"} => tree'[d].form \in ArrayForms
    BY <1>1, <1>4
  <2>3. tree'[h].form = "assign" => tree'[d].form \notin ParamForms
    BY <1>1, <1>4
  <2> QED  BY <1>1, <1>3, <2>1, <2>2, <2>3, LinksHere
<1>6. Reuses(<<>>)
  BY <1>1, <1>2, <1>5 DEF Reuses
<1> QED  BY <1>2, <1>5, <1>6

\* The declaration found before the index can be used still.
LEMMA ArrayAccessEndKeeps ==
    ASSUME LinkingInv, ArrayAccessEnd
    PROVE  LinkingInv'
<1>1. /\ stack # <<>> /\ stack[1].k = "access" /\ phase = "check" /\ Top("check", "access")
      /\ Here \in Nodes /\ tree[Here].form = "access"
  BY TopFrame DEF ArrayAccessEnd, Hosts
<1>2. PICK R, g : Held(R, g)
  BY <1>1, IsHeld
<1>3. Shaped /\ fuel \in 0 .. MaxNodes
  BY DEF LinkingInv, Typed
<1>4. PICK d : d = stack[1].d
  OBVIOUS
<1>5. /\ UNCHANGED <<tree, fuel, symbols, region, home>>
      /\ Yield(tree[d].ty, stack[1].want) /\ link' = Linked(Here, d)
  BY <1>4 DEF ArrayAccessEnd, treeVars, genVars
<1>6. Variable(d) /\ tree[d].form \in ArrayForms /\ Usable(R, d, R[Here])
  BY <1>1, <1>2, <1>4, FoundIsRight DEF Finders
<1>7. Regioned(R) /\ Here \in Uses
  BY <1>1, <1>2 DEF Held, Uses
<1>8. Continues(R, R) /\ Shaped' /\ Relinks(R) /\ Reuses(<<>>)
  <2>1. tree[Here].form # "assign"
    BY <1>1
  <2> QED  BY <1>5, <1>6, <1>7, <2>1, LinksInPlace
<1>9. tree[d].ty \in Types
  <2>1. tree[d] \in NodeRecs
    BY <1>3, <1>6, NodesAre DEF Variable
  <2> QED  BY <2>1 DEF NodeRecs
<1>10. fuel' \in 0 .. MaxNodes /\ stack[1].k \notin {"open", "close"}
  BY <1>1, <1>3, <1>5
<1>11. PICK t, w : t = tree[d].ty /\ w = stack[1].want
  OBVIOUS
<1>12. Yield(t, w) /\ t \in Types /\ UNCHANGED <<symbols, region, home>>
  BY <1>5, <1>9, <1>11
<1> QED  BY <1>1, <1>2, <1>8, <1>10, <1>12, Yields

\* The declaration found before index and value can be used still.
LEMMA ArrayAssignStmtEndKeeps ==
    ASSUME LinkingInv, ArrayAssignStmtEnd
    PROVE  LinkingInv'
<1>1. /\ stack # <<>> /\ stack[1].k = "arrayassign" /\ phase = "check" /\ Top("check", "arrayassign")
      /\ Here \in Nodes /\ tree[Here].form = "arrayassign"
  BY TopFrame DEF ArrayAssignStmtEnd, Hosts
<1>2. PICK R, g : Held(R, g)
  BY <1>1, IsHeld
<1>3. Shaped /\ fuel \in 0 .. MaxNodes
  BY DEF LinkingInv, Typed
<1>4. PICK d : d = stack[1].d
  OBVIOUS
<1>5. UNCHANGED <<tree, fuel, symbols, region, home>> /\ Push(<<>>) /\ link' = Linked(Here, d)
  BY <1>4 DEF ArrayAssignStmtEnd, treeVars, genVars
<1>6. Variable(d) /\ tree[d].form \in ArrayForms /\ Usable(R, d, R[Here])
  BY <1>1, <1>2, <1>4, FoundIsRight DEF Finders
<1>7. Regioned(R) /\ Here \in Uses
  BY <1>1, <1>2 DEF Held, Uses
<1>8. Continues(R, R) /\ Shaped' /\ Relinks(R) /\ Reuses(<<>>)
  <2>1. tree[Here].form # "assign"
    BY <1>1
  <2> QED  BY <1>5, <1>6, <1>7, <2>1, LinksInPlace
<1>10. fuel' \in 0 .. MaxNodes /\ stack[1].k \notin {"open", "close"}
       /\ UNCHANGED <<symbols, region, home>>
  BY <1>1, <1>3, <1>5
<1> QED  BY <1>1, <1>2, <1>5, <1>8, <1>10, PushesNothing

\* What the scopes bind can be used here.
LEMMA AssignStmtEndKeeps ==
    ASSUME LinkingInv, AssignStmtEnd
    PROVE  LinkingInv'
<1>1. /\ stack # <<>> /\ stack[1].k = "assign" /\ phase = "check"
      /\ Here \in Nodes /\ tree[Here].form = "assign"
  BY TopFrame DEF AssignStmtEnd, Hosts
<1>2. PICK R, g : Held(R, g)
  BY <1>1, IsHeld
<1>3. Shaped /\ fuel \in 0 .. MaxNodes
  BY DEF LinkingInv, Typed
<1>4. PICK d : d = Find(tree[Here].name)
  OBVIOUS
<1>5. UNCHANGED <<tree, fuel, symbols, region, home>>
  BY DEF AssignStmtEnd, treeVars, genVars
<1>6. \/ \E why \in {"undefined", "type", "param"} : Reject(why) /\ UNCHANGED link
      \/ d # 0 /\ ~IsParam(d) /\ Push(<<>>) /\ link' = Linked(Here, d)
  BY <1>4 DEF AssignStmtEnd
<1>7. Regioned(R) /\ Here \in Uses
  BY <1>1, <1>2 DEF Held, Uses
<1>8. fuel' \in 0 .. MaxNodes /\ stack[1].k \notin {"open", "close"}
  BY <1>1, <1>3, <1>5
<1>9. ASSUME NEW why \in {"undefined", "type", "param"}, Reject(why), UNCHANGED link
      PROVE  LinkingInv'
  <2>1. Continues(R, R) /\ Shaped' /\ Relinks(R)
    BY <1>3, <1>5, <1>7, <1>9, TreeStays, LinksStay
  <2>2. phase' = "rejected" /\ err' \in Errors /\ UNCHANGED <<stack, scopes, ty>>
    BY <1>9 DEF Reject, Errors
  <2> QED  BY <1>5, <1>8, <2>1, <2>2, Rejects
<1>10. ASSUME d # 0, ~IsParam(d), Push(<<>>), link' = Linked(Here, d)
       PROVE  LinkingInv'
  <2>1. Variable(d) /\ Usable(R, d, R[Here])
    <3>1. PICK name : name = tree[Here].name
      OBVIOUS
    <3>2. stack[1].k # "close"
      BY <1>1
    <3> QED  BY <1>1, <1>2, <1>4, <1>10, <3>1, <3>2, FindFindsSafe
  <2>2. Continues(R, R) /\ Shaped' /\ Relinks(R) /\ Reuses(<<>>)
    <3>1. /\ tree[Here].form \notin {"access", "arrayassign"} /\ tree[d].form \notin ParamForms
      BY <1>1, <1>10 DEF IsParam
    <3> QED  BY <1>5, <1>7, <1>10, <2>1, <3>1, LinksInPlace
  <2> QED  BY <1>1, <1>2, <1>5, <1>8, <1>10, <2>2, PushesNothing
<1> QED  BY <1>6, <1>9, <1>10

\* No frame takes the place of this one.
LEMMA CallExpEndKeeps ==
    ASSUME LinkingInv, CallExpEnd
    PROVE  LinkingInv'
<1>1. stack # <<>> /\ stack[1].k = "call" /\ phase = "check"
  BY TopFrame DEF CallExpEnd
<1>2. PICK R, g : Held(R, g)
  BY <1>1, IsHeld
<1>3. Shaped /\ fuel \in 0 .. MaxNodes
  BY DEF LinkingInv, Typed
<1>4. UNCHANGED <<tree, fuel, link, symbols, region, home>>
  BY DEF CallExpEnd, treeVars, genVars
<1>5. PICK w : w = stack[1].want
  OBVIOUS
<1>6. Reject("nomatch") \/ \E t \in Types : Yield(t, w)
  BY <1>5 DEF CallExpEnd
<1>7. Continues(R, R) /\ Shaped' /\ Uses' = Uses
  BY <1>2, <1>3, <1>4, TreeStays DEF Held
<1>8. Relinks(R) /\ Reuses(<<>>)
  BY <1>1, <1>4, <1>7, LinksStay, UsesSame DEF Linkers
<1>9. fuel' \in 0 .. MaxNodes /\ stack[1].k \notin {"open", "close"}
  BY <1>1, <1>3, <1>4
<1>10. CASE Reject("nomatch")
  <2>1. phase' = "rejected" /\ err' \in Errors /\ UNCHANGED <<stack, scopes, ty>>
    BY <1>10 DEF Reject, Errors
  <2> QED  BY <1>4, <1>7, <1>8, <1>9, <2>1, Rejects
<1>11. ASSUME NEW t \in Types, Yield(t, w)
       PROVE  LinkingInv'
  BY <1>1, <1>2, <1>4, <1>7, <1>8, <1>9, <1>11, Yields
<1> QED  BY <1>6, <1>10, <1>11

\* The innermost scope gets a binding.
LEMMA Binds ==
    ASSUME scopes \in Seq(Bindings), NEW n, n = Len(scopes), n \in Nat \ {0},
           NEW name \in AllNames, NEW d \in Nat, scopes' = WithBinding(name, d)
    PROVE  /\ scopes' \in Seq(Bindings) /\ Len(scopes') = n
           /\ \A l \in DOMAIN scopes' : \A x \in DOMAIN scopes'[l] : \A e : e = scopes'[l][x] =>
                 \/ l \in DOMAIN scopes /\ x \in DOMAIN scopes[l] /\ e = scopes[l][x]
                 \/ e = d /\ l = n
<1>1. DOMAIN scopes = 1 .. n /\ n \in 1 .. n /\ \A l \in 1 .. n : scopes[l] \in Bindings
  OBVIOUS
<1>2. PICK b : b = [m \in DOMAIN scopes[n] \cup {name} |-> IF m = name THEN d ELSE scopes[n][m]]
  OBVIOUS
<1>3. scopes' = [scopes EXCEPT ![n] = b]
  BY <1>2 DEF WithBinding
<1>4. PICK D \in SUBSET AllNames : scopes[n] \in [D -> Nat]
  BY <1>1 DEF Bindings
<1>5. b \in [D \cup {name} -> Nat]
  BY <1>2, <1>4
<1>6. b \in Bindings
  <2>1. D \cup {name} \in SUBSET AllNames
    OBVIOUS
  <2> QED  BY <1>5, <2>1 DEF Bindings
<1>7. scopes' \in Seq(Bindings) /\ Len(scopes') = n /\ DOMAIN scopes' = 1 .. n
  BY <1>1, <1>3, <1>6
<1>8. ASSUME NEW l \in DOMAIN scopes', NEW x \in DOMAIN scopes'[l], NEW e, e = scopes'[l][x]
      PROVE  \/ l \in DOMAIN scopes /\ x \in DOMAIN scopes[l] /\ e = scopes[l][x]
             \/ e = d /\ l = n
  <2>1. CASE l # n
    BY <1>1, <1>3, <1>7, <1>8, <2>1
  <2>2. CASE l = n
    <3>1. scopes'[l] = b
      BY <1>1, <1>3, <2>2
    <3> QED  BY <1>1, <1>2, <1>8, <2>2, <3>1
  <2> QED  BY <2>1, <2>2
<1> QED  BY <1>7, <1>8

\* The frames that run before its scope is closed are inside the region of the declaration.
LEMMA InsertDeclKeeps ==
    ASSUME LinkingInv, InsertDecl
    PROVE  LinkingInv'
<1>1. /\ stack # <<>> /\ stack[1].k = "insert" /\ phase = "check" /\ Here \in Nodes /\ Here \in Nat
      /\ scopes \in Seq(Bindings) /\ stack \in Seq(Frames)
  BY TopFrame DEF InsertDecl
<1>2. PICK R, g : Held(R, g)
  BY <1>1, IsHeld
<1>3. Shaped /\ fuel \in 0 .. MaxNodes /\ ty \in Types
  BY DEF LinkingInv, Typed
<1>4. PICK name : name = tree[Here].name
  OBVIOUS
<1>5. UNCHANGED <<tree, fuel, link, symbols, region, home>>
  BY DEF InsertDecl, treeVars, genVars
<1>6. \/ scopes' = WithBinding(name, Here) /\ Become(<<>>) /\ UNCHANGED <<phase, err, ty>>
      \/ Reject("redeclared")
  BY <1>4 DEF InsertDecl
<1>7. Continues(R, R) /\ Shaped' /\ Uses' = Uses
  BY <1>2, <1>3, <1>5, TreeStays DEF Held
<1>8. Relinks(R) /\ Reuses(<<>>)
  BY <1>1, <1>5, <1>7, LinksStay, UsesSame DEF Linkers
<1>9. fuel' \in 0 .. MaxNodes
  BY <1>3, <1>5
<1>10. CASE Reject("redeclared")
  <2>1. phase' = "rejected" /\ err' \in Errors /\ UNCHANGED <<stack, scopes, ty>>
    BY <1>10 DEF Reject, Errors
  <2> QED  BY <1>5, <1>7, <1>8, <1>9, <2>1, Rejects
<1>11. CASE scopes' = WithBinding(name, Here) /\ Become(<<>>) /\ UNCHANGED <<phase, err, ty>>
  <2>1. PICK n, h : n = Len(scopes) /\ h = Here
    OBVIOUS
  <2>2. n \in Nat \ {0} /\ g[1] = n /\ g[2] = n
    <3>1. Levelled(g, stack, n, 1)
      BY <1>2, <2>1 DEF Held
    <3>2. n \in Nat \ {0} /\ g[1] = n /\ g[2] = n + Shift(stack[1].k)
      BY <1>1, <3>1, Running
    <3>3. Shift(stack[1].k) = 0
      BY <1>1 DEF Shift
    <3> QED  BY <3>2, <3>3
  <2>3. name \in AllNames
    <3>1. tree[Here] \in NodeRecs
      BY <1>1, <1>3, NodesAre
    <3> QED  BY <1>4, <3>1 DEF NodeRecs
  <2>4. /\ scopes' \in Seq(Bindings) /\ Len(scopes') = n
        /\ \A l \in DOMAIN scopes' : \A x \in DOMAIN scopes'[l] : \A e : e = scopes'[l][x] =>
              \/ l \in DOMAIN scopes /\ x \in DOMAIN scopes[l] /\ e = scopes[l][x]
              \/ e = h /\ l = n
    <3>1. scopes' = WithBinding(name, h) /\ h \in Nat
      BY <1>1, <1>11, <2>1
    <3> QED  BY <1>1, <2>1, <2>2, <2>3, <3>1, Binds
  <2>5. Rebinds(g)
    BY <1>1, <2>1, <2>2, <2>4 DEF Rebinds
  <2>6. Len(scopes') = g[2] /\ ty' \in Types
    BY <1>3, <1>11, <2>2, <2>4
  <2> QED  BY <1>1, <1>2, <1>5, <1>7, <1>8, <1>9, <1>11, <2>4, <2>5, <2>6, Pops
<1> QED  BY <1>6, <1>10, <1>11

\* The tree gets one more parameter.
LEMMA ParamGrows ==
    ASSUME Shaped, NEW R, Regioned(R), Here \in Nodes,
           NEW form \in ParamForms, NEW name \in AllNames, NEW t \in Types,
           tree' = Append(tree, Node(form, name, t))
    PROVE  /\ Shaped' /\ \A u \in Uses' : u \in Uses
           /\ \E R2 : Continues(R, R2)
           /\ Len(tree) + 1 \in Nat /\ Len(tree) + 1 \in Nodes'
           /\ tree'[Len(tree) + 1].form = form
           /\ tree'[Here] = tree[Here]
<1>1. /\ Len(tree) \in Nat /\ Nodes = 1 .. Len(tree) /\ tree \in Seq(NodeRecs)
      /\ \A n \in Nodes : Kids(n) \in Seq(Nat) /\ DOMAIN Kids(n) = 1 .. Len(Kids(n))
  BY NodesAre DEF Shaped
<1>2. PICK r, k : r = Node(form, name, t) /\ k = Len(tree) + 1
  OBVIOUS
<1>3. r \in NodeRecs /\ r.form = form /\ r.kids = <<>>
  <2>1. form \in NodeForms /\ <<>> \in Seq(Nat)
    BY DEF NodeForms
  <2> QED  BY <1>2, <2>1 DEF Node, NodeRecs
<1>4. /\ tree' \in Seq(NodeRecs) /\ Len(tree') = k /\ tree'[k] = r /\ k \in Nat
      /\ \A n \in Nodes : tree'[n] = tree[n]
  <2>1. PICK c : c = Append(tree, r)
    OBVIOUS
  <2>2. /\ c \in Seq(NodeRecs) /\ Len(c) = Len(tree) + 1 /\ c[Len(tree) + 1] = r
        /\ \A n \in 1 .. Len(tree) : c[n] = tree[n]
    BY <1>1, <1>3, <2>1, AppendProperties
  <2> QED  BY <1>1, <1>2, <2>1, <2>2
<1>5. Nodes' = 1 .. k /\ Nodes \subseteq Nodes' /\ k \in Nodes' /\ k \notin Nodes
      /\ \A n \in Nodes' : n \in Nodes \/ n = k
  BY <1>1, <1>2, <1>4 DEF Nodes
<1>6. \A n \in Nodes' : n = k => Kids(n)' = <<>> /\ tree'[n].form = form
  BY <1>3, <1>4 DEF Kids
<1>7. \A n \in Nodes : tree'[n] = tree[n] /\ Kids(n)' = Kids(n)
  BY <1>4 DEF Kids
<1>8. form \in {"param", "arrayparam"}
  BY DEF ParamForms
<1>9. Shaped'
  <2>1. Body \in Nodes' /\ tree'[Body].form = "seq"
    BY <1>5, <1>7 DEF Shaped
  <2>2. ASSUME NEW n \in Nodes'
        PROVE  /\ Len(Kids(n)') \in Arity(tree'[n].form)
               /\ \A i \in DOMAIN Kids(n)' : /\ Kids(n)'[i] \in Nodes' /\ n < Kids(n)'[i]
                                             /\ tree'[Kids(n)'[i]].form \notin ParamForms
    <3>1. CASE n \in Nodes
      <4>1. /\ Len(Kids(n)) \in Arity(tree[n].form)
            /\ \A i \in DOMAIN Kids(n) : /\ Kids(n)[i] \in Nodes /\ n < Kids(n)[i]
                                         /\ tree[Kids(n)[i]].form \notin ParamForms
        BY <3>1 DEF Shaped, IsParam
      <4> QED  BY <1>5, <1>7, <3>1, <4>1
    <3>2. CASE n = k
      <4>1. 0 \in Arity(form) /\ Len(<<>>) = 0 /\ DOMAIN <<>> = {}
        BY <1>8 DEF Arity
      <4> QED  BY <1>6, <3>2, <4>1
    <3> QED  BY <1>5, <3>1, <3>2
  <2>3. ASSUME NEW a \in Nodes', NEW b \in Nodes', NEW i \in DOMAIN Kids(a)',
               NEW j \in DOMAIN Kids(b)', Kids(a)'[i] = Kids(b)'[j]
        PROVE  a = b /\ i = j
    <3>1. DOMAIN <<>> = {}
      OBVIOUS
    <3>2. a \in Nodes /\ b \in Nodes
      BY <1>5, <1>6, <3>1
    <3>3. i \in DOMAIN Kids(a) /\ j \in DOMAIN Kids(b) /\ Kids(a)[i] = Kids(b)[j]
      BY <1>7, <2>3, <3>2
    <3>4. \A x, y \in Nodes : \A p \in DOMAIN Kids(x), q \in DOMAIN Kids(y) :
             Kids(x)[p] = Kids(y)[q] => x = y /\ p = q
      BY DEF Shaped
    <3> QED  BY <3>2, <3>3, <3>4
  <2> QED  BY <1>4, <2>1, <2>2, <2>3 DEF Shaped, Kids, IsParam
<1>10. \A u \in Uses' : u \in Uses
  <2>1. form \notin {"var", "access", "assign", "arrayassign"}
    BY <1>8
  <2> QED  BY <1>5, <1>6, <1>7, <2>1 DEF Uses
<1>11. PICK R2 : R2 = [n \in Nodes' |-> IF n \in Nodes THEN R[n] ELSE <<>>]
  OBVIOUS
<1>12. R \in [Nodes -> Regions] /\ <<>> \in Regions
  BY DEF Regioned, Regions
<1>13. R2 \in [Nodes' -> Regions] /\ (\A n \in Nodes : R2[n] = R[n]) /\ R2[k] = <<>>
  BY <1>5, <1>11, <1>12
<1>14. Regioned(R2)'
  <2>1. R2[Body] = <<>>
    BY <1>13 DEF Regioned, Shaped
  <2>2. \A n \in Nodes' : tree'[n].form \in ParamForms => R2[n] = <<>>
    BY <1>5, <1>7, <1>13 DEF Regioned, IsParam
  <2>3. ASSUME NEW n \in Nodes', NEW i \in DOMAIN Kids(n)'
        PROVE  R2[Kids(n)'[i]] = Sub(R2[n], tree'[n].form, n, i)
    <3>1. DOMAIN <<>> = {}
      OBVIOUS
    <3>2. n \in Nodes /\ i \in DOMAIN Kids(n) /\ Kids(n)'[i] = Kids(n)[i]
      BY <1>5, <1>6, <1>7, <3>1
    <3>3. Kids(n)[i] \in Nodes /\ R[Kids(n)[i]] = Sub(R[n], tree[n].form, n, i)
      BY <3>2 DEF Shaped, Regioned
    <3> QED  BY <1>7, <1>13, <3>2, <3>3
  <2> QED  BY <1>13, <2>1, <2>2, <2>3 DEF Regioned, IsParam, Kids
<1>15. \A d : Variable(d) => Variable(d)' /\ tree'[d].form = tree[d].form
  BY <1>5, <1>7 DEF Variable
<1>16. \A n : Exempt(n) => Exempt(n)'
  BY <1>5, <1>7 DEF Exempt
<1>17. Continues(R, R2)
  BY <1>5, <1>7, <1>13, <1>14, <1>15, <1>16 DEF Continues
<1> QED  BY <1>2, <1>3, <1>4, <1>5, <1>7, <1>9, <1>10, <1>17

\* The frame goes on.
LEMMA FrameStays ==
    ASSUME NEW F, NEW s \in Seq(F), s # <<>>
    PROVE  <<s[1]>> \o Tail(s) = s
<1>1. /\ Tail(s) \in Seq(F) /\ Len(Tail(s)) = Len(s) - 1 /\ Len(s) >= 1 /\ Len(s) \in Nat
      /\ \A i \in 1 .. Len(Tail(s)) : Tail(s)[i] = s[i + 1]
  BY EmptySeq, HeadTailProperties
<1>2. s[1] \in F
  BY <1>1
<1>3. PICK a : a = <<s[1]>>
  OBVIOUS
<1>4. a \in Seq(F) /\ Len(a) = 1 /\ a[1] = s[1]
  BY <1>2, <1>3
<1>5. PICK c : c = a \o Tail(s)
  OBVIOUS
<1>6. /\ c \in Seq(F) /\ Len(c) = Len(a) + Len(Tail(s))
      /\ \A i \in 1 .. Len(c) : c[i] = IF i <= Len(a) THEN a[i] ELSE Tail(s)[i - Len(a)]
  BY <1>1, <1>4, <1>5, ConcatProperties
<1>7. Len(c) = Len(s)
  BY <1>1, <1>4, <1>6
<1>8. ASSUME NEW i \in 1 .. Len(s)
      PROVE  c[i] = s[i]
  <2>1. CASE i = 1
    BY <1>1, <1>4, <1>6, <1>7, <2>1
  <2>2. CASE i # 1
    <3>1. ~(i <= 1) /\ i - 1 \in 1 .. Len(Tail(s)) /\ i - 1 + 1 = i
      BY <1>1, <2>2
    <3>2. c[i] = Tail(s)[i - 1]
      BY <1>4, <1>6, <1>7, <3>1
    <3> QED  BY <1>1, <3>1, <3>2
  <2> QED  BY <2>1, <2>2
<1>9. c = s
  <2>1. c = [i \in 1 .. Len(s) |-> c[i]] /\ s = [i \in 1 .. Len(s) |-> s[i]]
    BY <1>6, <1>7
  <2> QED  BY <1>8, <2>1
<1> QED  BY <1>3, <1>5, <1>9

\* A parameter can be used everywhere.
LEMMA BindParamKeeps ==
    ASSUME LinkingInv, BindParam
    PROVE  LinkingInv'
<1>1. /\ stack # <<>> /\ stack[1].k = "params" /\ phase = "check" /\ Here \in Nodes
      /\ tree[Here].form = "seq" /\ stack[1] \in Frames
      /\ scopes \in Seq(Bindings) /\ stack \in Seq(Frames)
  BY TopFrame DEF BindParam, Hosts
<1>2. PICK R, g : Held(R, g)
  BY <1>1, IsHeld
<1>3. Shaped /\ fuel \in 0 .. MaxNodes /\ ty \in Types
  BY DEF LinkingInv, Typed
<1>4. PICK name \in Names, t \in Types, form \in ParamForms :
         /\ tree' = Append(tree, Node(form, name, t))
         /\ \/ scopes' = WithBinding(name, Len(tree) + 1) /\ UNCHANGED <<phase, err, stack, ty>>
            \/ Reject("redeclared")
  BY DEF BindParam
<1>5. UNCHANGED <<fuel, link, symbols, region, home>>
  BY DEF BindParam, genVars
<1>6. name \in AllNames
  BY DEF AllNames
<1>7. PICK k, n, h : k = Len(tree) + 1 /\ n = Len(scopes) /\ h = Here
  OBVIOUS
<1>8. /\ Shaped' /\ \A u \in Uses' : u \in Uses
      /\ \E R2 : Continues(R, R2)
      /\ k \in Nat /\ k \in Nodes' /\ tree'[k].form = form /\ tree'[Here] = tree[Here]
  <2>1. Regioned(R)
    BY <1>2 DEF Held
  <2> QED  BY <1>1, <1>3, <1>4, <1>6, <1>7, <2>1, ParamGrows
<1>9. PICK R2 : Continues(R, R2)
  BY <1>8
<1>10. Relinks(R2) /\ fuel' \in 0 .. MaxNodes
  BY <1>3, <1>5, LinksStay
<1>11. CASE Reject("redeclared")
  <2>1. phase' = "rejected" /\ err' \in Errors /\ UNCHANGED <<stack, scopes, ty>>
    BY <1>11 DEF Reject, Errors
  <2> QED  BY <1>5, <1>8, <1>9, <1>10, <2>1, Rejects
<1>12. CASE scopes' = WithBinding(name, k) /\ UNCHANGED <<phase, err, stack, ty>>
  <2>1. n \in Nat \ {0} /\ g[1] = n /\ g[2] = n
    <3>1. Levelled(g, stack, n, 1)
      BY <1>2, <1>7 DEF Held
    <3>2. n \in Nat \ {0} /\ g[1] = n /\ g[2] = n + Shift(stack[1].k)
      BY <1>1, <3>1, Running
    <3>3. Shift(stack[1].k) = 0
      BY <1>1 DEF Shift
    <3> QED  BY <3>2, <3>3
  <2>2. /\ scopes' \in Seq(Bindings) /\ Len(scopes') = n
        /\ \A l \in DOMAIN scopes' : \A x \in DOMAIN scopes'[l] : \A e : e = scopes'[l][x] =>
              \/ l \in DOMAIN scopes /\ x \in DOMAIN scopes[l] /\ e = scopes[l][x]
              \/ e = k /\ l = n
    BY <1>1, <1>6, <1>7, <1>8, <1>12, <2>1, Binds
  <2>3. Rebinds(g)
    <3>1. Variable(k)' /\ tree'[k].form # "arraydecl"
      BY <1>8 DEF Variable, ParamForms
    <3>2. stack[1].k # "close"
      BY <1>1
    <3> QED  BY <2>2, <3>1, <3>2 DEF Rebinds
  <2>4. PICK fs : fs = <<stack[1]>>
    OBVIOUS
  <2>5. fs \in Seq(Frames) /\ Len(fs) = 1 /\ DOMAIN fs = {1} /\ fs[1] = stack[1]
    BY <1>1, <2>4
  <2>6. Become(fs)
    BY <1>1, <1>12, <2>4, FrameStays DEF Become
  <2>7. Fits(fs, [i \in 1 .. Len(fs) + 1 |-> g[1]], g, R2)
    <3>1. PICK f : f = stack[1]
      OBVIOUS
    <3>2. f.n \in Nodes' /\ f.k = "params" /\ tree'[f.n].form = "seq" /\ f.n = Here
      BY <1>1, <1>8, <1>9, <3>1 DEF Here, Continues
    <3>3. Hosted(f)'
      BY <3>2 DEF Hosted, Hosts, Kinds, Finders
    <3>4. R2[Here] \in Regions
      BY <1>9, <3>2 DEF Continues, Regioned
    <3>5. Before(R2[Here], R2[f.n])
      BY <3>2, <3>4, BeforeRules
    <3>6. \A i \in DOMAIN fs : i = 1 /\ fs[i] = f
      BY <2>5, <3>1
    <3>7. f.k \notin Visits /\ f.k # "seq" /\ f.k \notin Finders /\ f.k \notin Fillers
      BY <3>2 DEF Visits, Finders, Fillers
    <3> QED  BY <3>3, <3>5, <3>6, <3>7 DEF Fits
  <2>8. Levelled([i \in 1 .. Len(fs) + 1 |-> g[1]], fs, Len(scopes'), g[2])
    <3>1. \A i \in DOMAIN fs : Shift(fs[i].k) = 0
      BY <1>1, <2>5 DEF Shift
    <3>2. Levelled([i \in 1 .. Len(fs) + 1 |-> n], fs, n, n)
      BY <2>1, <2>5, <3>1, FlatLevels
    <3> QED  BY <2>1, <2>2, <3>2
  <2>9. Reuses(fs)
    BY <1>1, <1>8, UsesSame DEF Linkers
  <2>10. ty' \in Types /\ UNCHANGED <<phase, err, symbols, region, home>>
    BY <1>3, <1>5, <1>12
  <2>11. PICK gf : gf = [i \in 1 .. Len(fs) + 1 |-> g[1]]
    OBVIOUS
  <2>12. Levelled(gf, fs, Len(scopes'), g[2]) /\ Fits(fs, gf, g, R2)
    BY <2>7, <2>8, <2>11
  <2> QED  BY <1>1, <1>2, <1>8, <1>9, <1>10, <2>2, <2>3, <2>5, <2>6, <2>9, <2>10, <2>12, Accepts
<1> QED  BY <1>4, <1>7, <1>11, <1>12

-----------------------------------------------------------------------------
(* Steps that give the node under visit its form. *)

\* Part i of a node that got its form.
NewPart(n, i, form, R2) ==
    /\ n \in Nodes' /\ n \notin Nodes /\ tree'[n].form = "hole"
    /\ R2[n] = Sub(R2[Here], form, Here, i) /\ Before(R2[Here], R2[n])
    /\ form \in {"if", "while"} => Exempt(n)'

\* The parts of a node that got its form.
LEMMA NewParts ==
    ASSUME Shaped, NEW R, Regioned(R), NEW m, Grows(Here, m), Len(Kids(Here)) = 0,
           NEW form, tree'[Here].form = form
    PROVE  /\ Shaped' /\ \A u \in Uses' : u \in Uses \/ u = Here
           /\ \E R2 : /\ Continues(R, R2)
                      /\ \A i \in 1 .. m : \A n : n = Len(tree) + i => NewPart(n, i, form, R2)
<1>1. /\ Shaped' /\ \A u \in Uses' : u \in Uses \/ u = Here
      /\ \E R2 : /\ Continues(R, R2)
                 /\ \A i \in 1 .. m : R2[Len(tree) + i] =
                       Sub(R[Here], tree'[Here].form, Here, Len(Kids(Here)) + i)
  BY TreeGoesOn
<1>2. PICK R2 : /\ Continues(R, R2)
                /\ \A i \in 1 .. m : R2[Len(tree) + i] =
                      Sub(R[Here], tree'[Here].form, Here, Len(Kids(Here)) + i)
  BY <1>1
<1>3. PICK h : h = Here
  OBVIOUS
<1>4. h \in Nodes /\ h \in Nat /\ m \in Nat /\ Grows(h, m) /\ R2[h] = R[h] /\ R2[h] \in Regions
  <2>1. h \in Nodes /\ m \in Nat /\ Grows(h, m)
    BY <1>3 DEF Grows
  <2>2. h \in Nat
    BY <2>1, NodesAre
  <2>3. R[h] \in Regions
    BY <2>1 DEF Regioned
  <2> QED  BY <1>2, <2>1, <2>2, <2>3 DEF Continues
<1>5. ASSUME NEW i \in 1 .. m, NEW n, n = Len(tree) + i
      PROVE  NewPart(n, i, form, R2)
  <2>1. n \in Nodes' /\ n \notin Nodes /\ tree'[n] = Hole
    BY <1>4, <1>5, GrownHoles
  <2>2. tree'[n].form = "hole"
    BY <2>1, HoleIsNode
  <2>3. R2[n] = Sub(R2[h], form, h, i)
    <3>1. 0 + i = i
      OBVIOUS
    <3>2. R2[n] = Sub(R[h], form, h, Len(Kids(h)) + i)
      BY <1>2, <1>3, <1>5
    <3> QED  BY <1>3, <1>4, <3>1, <3>2
  <2>4. Before(R2[h], R2[n])
    BY <1>4, <2>3, SubRules
  <2>5. ASSUME form \in {"if", "while"}
        PROVE  Exempt(n)'
    <3>1. Len(Kids(h)) = 0 /\ tree'[h].kids[Len(Kids(h)) + i] = n /\ h \in Nodes'
          /\ DOMAIN tree'[h].kids = 1 .. Len(Kids(h)) + m
      BY <1>2, <1>3, <1>4, <1>5, GrownNodes DEF Grows, Continues
    <3>2. 0 + i = i /\ 0 + m = m
      BY <1>4
    <3>3. i \in DOMAIN tree'[h].kids /\ tree'[h].kids[i] = n
      BY <3>1, <3>2
    <3>4. n \in Range(tree'[h].kids)
      BY <3>3 DEF Range
    <3> QED  BY <1>3, <2>5, <3>1, <3>4 DEF Exempt, Kids
  <2> QED  BY <1>3, <2>1, <2>2, <2>3, <2>4, <2>5 DEF NewPart
<1> QED  BY <1>1, <1>2, <1>5

\* What a Fill of the running visit brings.
LEMMA Fills ==
    ASSUME LinkingInv, NEW k \in Visits, Top("check", k), NEW R, NEW g, Held(R, g),
           NEW form, NEW name \in AllNames, NEW t \in Types, NEW m \in Nat,
           Fill(form, name, t, m), m \in Arity(form)
    PROVE  /\ Shaped' /\ fuel' \in 0 .. MaxNodes /\ tree'[Here].form = form
           /\ \A u \in Uses' : u \in Uses \/ u = Here
           /\ \E R2 : /\ Continues(R, R2)
                      /\ \A i \in 1 .. m : \A n : n = Len(tree) + i => NewPart(n, i, form, R2)
<1>1. /\ Shaped /\ fuel \in 0 .. MaxNodes /\ Regioned(R) /\ Here \in Nodes
      /\ tree[Here].form = "hole"
  BY TopFrame DEF LinkingInv, Typed, Held, Hosts, Visits
<1>2. Grows(Here, m) /\ fuel' \in 0 .. MaxNodes /\ tree'[Here].form = form /\ Len(Kids(Here)) = 0
  BY <1>1, FillGrows
<1> QED  BY <1>1, <1>2, NewParts

\* Frames for new parts and for the node itself.
Offers(fs, m, R) ==
    /\ \A i \in DOMAIN fs :
          \/ fs[i].k \in Visits /\ \E j \in 1 .. m : fs[i].n = Len(tree) + j
          \/ /\ fs[i].n = Here /\ fs[i].k \in Kinds \ Visits /\ tree'[Here].form \in Hosts(fs[i].k)
             /\ fs[i].k \in Finders => /\ Variable(fs[i].d) /\ tree[fs[i].d].form \in ArrayForms
                                       /\ Usable(R, fs[i].d, R[Here])
    /\ \A i, j \in DOMAIN fs :
          fs[i].k \in Visits /\ fs[j].k \in Visits /\ fs[i].n = fs[j].n => i = j
    /\ \A i \in DOMAIN fs : fs[i].k = "seq" =>
          i # Len(fs) /\ i + 1 \in DOMAIN fs /\ fs[i + 1].k = "close"

\* What declarations among them may bind can be used in the frames after them.
FillersFit(fs, gf, g, R2) ==
    \A i \in DOMAIN fs : fs[i].k \in Fillers =>
        \/ Exempt(fs[i].n)'
        \/ /\ \A j \in DOMAIN fs : i < j /\ ~Closed(gf, fs, gf[i], i, j) =>
                 Before(R2[fs[i].n], R2[fs[j].n])
           /\ \/ Closed(gf, fs, gf[i], i, Len(fs))
              \/ 2 \in DOMAIN stack /\ stack[2].k = "close" /\ g[2] = gf[i]
              \/ stack[1].k \in Fillers /\ fs[i].n = Here /\ gf[i] = g[1]

\* Frames about the new parts, each part once.
LEMMA OffersFit ==
    ASSUME NEW fs \in Seq(Frames), NEW m, NEW R, NEW R2, NEW g, NEW gf, NEW form,
           Continues(R, R2), Here \in Nodes,
           \A i \in 1 .. m : \A n : n = Len(tree) + i => NewPart(n, i, form, R2),
           Offers(fs, m, R), FillersFit(fs, gf, g, R2)
    PROVE  Fits(fs, gf, g, R2)
<1>1. PICK h : h = Here
  OBVIOUS
<1>2. h \in Nodes /\ h \in Nodes' /\ R2[h] = R[h] /\ R2[h] \in Regions /\ Before(R2[h], R2[h])
  <2>1. h \in Nodes /\ h \in Nodes' /\ R2[h] = R[h] /\ R[h] \in Regions
    BY <1>1 DEF Continues, Regioned
  <2> QED  BY <2>1, BeforeRules
<1>3. ASSUME NEW i \in DOMAIN fs, NEW f, f = fs[i]
      PROVE  /\ Hosted(f)' /\ Before(R2[h], R2[f.n])
             /\ f.k \in Visits => f.n \notin Nodes
             /\ f.k \in Finders => Usable(R2, f.d, R2[f.n])'
  <2>1. CASE f.k \in Visits /\ \E j \in 1 .. m : f.n = Len(tree) + j
    <3>1. PICK j \in 1 .. m : f.n = Len(tree) + j
      BY <2>1
    <3>2. NewPart(f.n, j, form, R2)
      BY <3>1
    <3>3. f.n \in Nodes' /\ f.n \notin Nodes /\ tree'[f.n].form = "hole" /\ Before(R2[h], R2[f.n])
      BY <1>1, <3>2 DEF NewPart
    <3>4. f.k \in Kinds /\ f.k \notin Finders /\ Hosts(f.k) = {"hole"}
      BY <2>1 DEF Kinds, Finders, Hosts, Visits
    <3> QED  BY <3>3, <3>4 DEF Hosted
  <2>2. CASE /\ f.n = h /\ f.k \in Kinds \ Visits /\ tree'[h].form \in Hosts(f.k)
             /\ f.k \in Finders => /\ Variable(f.d) /\ tree[f.d].form \in ArrayForms
                                   /\ Usable(R, f.d, R[h])
    <3>1. ASSUME f.k \in Finders
          PROVE  f.d \in Nodes' /\ tree'[f.d].form \in ArrayForms /\ Usable(R2, f.d, R2[f.n])'
      <4>1. Variable(f.d) /\ tree[f.d].form \in ArrayForms /\ Usable(R, f.d, R[f.n])
        BY <2>2, <3>1
      <4>2. f.d \in Nodes' /\ tree'[f.d].form \in ArrayForms
        BY <4>1 DEF Continues, Variable
      <4>3. Usable(R2, f.d, R[f.n])'
        BY <4>1, UsableStays
      <4> QED  BY <1>2, <2>2, <4>2, <4>3
    <3>2. Hosted(f)'
      BY <1>2, <2>2, <3>1 DEF Hosted, IsArray
    <3> QED  BY <1>2, <2>2, <3>1, <3>2
  <2> QED  BY <1>1, <1>3, <2>1, <2>2 DEF Offers
<1>4. \A i \in DOMAIN fs : Hosted(fs[i])' /\ Before(R2[Here], R2[fs[i].n])
  BY <1>1, <1>3
<1>5. \A i \in DOMAIN fs : fs[i].k \in Visits => fs[i].n \notin Nodes
  BY <1>3
<1>6. \A i \in DOMAIN fs : fs[i].k \in Finders => Usable(R2, fs[i].d, R2[fs[i].n])'
  BY <1>3
<1>7. /\ \A i, j \in DOMAIN fs :
            fs[i].k \in Visits /\ fs[j].k \in Visits /\ fs[i].n = fs[j].n => i = j
      /\ \A i \in DOMAIN fs : fs[i].k = "seq" =>
            i # Len(fs) /\ i + 1 \in DOMAIN fs /\ fs[i + 1].k = "close"
  BY DEF Offers
<1> QED  BY <1>4, <1>5, <1>6, <1>7 DEF Fits, FillersFit

\* A frame and its fields.
LEMMA FrameIs ==
    ASSUME NEW k \in Kinds, NEW n \in Nat, NEW want \in SUBSET AllTypes, NEW d \in Nat
    PROVE  LET f == Frame(k, n, want, d)
           IN  f \in Frames /\ f.k = k /\ f.n = n /\ f.want = want /\ f.d = d
BY DEF Frame, Frames

\* The visit is over when frames of one level are, and no declaration is left in them
\* but one of the node itself or without braces.
LEMMA OffersKeep ==
    ASSUME LinkingInv, NEW k \in Visits, Top("check", k), NEW R, NEW g, Held(R, g),
           NEW form, NEW name \in AllNames, NEW t \in Types, NEW m \in Nat,
           Fill(form, name, t, m), m \in Arity(form),
           NEW fs \in Seq(Frames), Push(fs), UNCHANGED <<link, symbols, region, home>>,
           Offers(fs, m, R), \A i \in DOMAIN fs : Shift(fs[i].k) = 0,
           \A i \in DOMAIN fs : fs[i].k \in Fillers =>
              (form \in {"if", "while"} /\ fs[i].k = "stmt") \/ (k = "stmt" /\ fs[i].n = Here),
           \/ form \notin {"var", "access", "assign", "arrayassign"}
           \/ \E i \in DOMAIN fs : fs[i].n = Here /\ fs[i].k \in Linkers
    PROVE  LinkingInv'
<1>1. stack # <<>> /\ stack[1].k = k /\ phase = "check" /\ Here \in Nodes
  BY TopFrame
<1>2. /\ Shaped' /\ fuel' \in 0 .. MaxNodes /\ tree'[Here].form = form
      /\ \A u \in Uses' : u \in Uses \/ u = Here
  BY Fills
<1>3. PICK R2 : /\ Continues(R, R2)
                /\ \A i \in 1 .. m : \A n : n = Len(tree) + i => NewPart(n, i, form, R2)
  BY Fills
<1>4. PICK gf : gf = [i \in 1 .. Len(fs) + 1 |-> g[1]]
  OBVIOUS
<1>5. ASSUME NEW i \in DOMAIN fs
      PROVE  gf[i] = g[1] /\ Before(R2[Here], R2[fs[i].n])
  <2>1. i \in 1 .. Len(fs) + 1
    BY DEF Frames
  <2>2. CASE fs[i].n = Here
    <3>1. R2[Here] \in Regions
      BY <1>1, <1>3 DEF Continues, Regioned
    <3> QED  BY <1>4, <2>1, <2>2, <3>1, BeforeRules
  <2>3. ASSUME NEW j \in 1 .. m, fs[i].n = Len(tree) + j
        PROVE  Before(R2[Here], R2[fs[i].n])
    BY <1>3, <2>3 DEF NewPart
  <2> QED  BY <1>4, <2>1, <2>2, <2>3 DEF Offers
<1>6. FillersFit(fs, gf, g, R2)
  <2> SUFFICES ASSUME NEW i \in DOMAIN fs, fs[i].k \in Fillers
               PROVE  \/ Exempt(fs[i].n)'
                      \/ /\ \A j \in DOMAIN fs : Before(R2[fs[i].n], R2[fs[j].n])
                         /\ stack[1].k \in Fillers /\ fs[i].n = Here /\ gf[i] = g[1]
    BY DEF FillersFit
  <2>1. CASE form \in {"if", "while"} /\ fs[i].k = "stmt"
    <3>1. PICK f : f = fs[i]
      OBVIOUS
    <3>2. PICK j \in 1 .. m : f.n = Len(tree) + j
      BY <2>1, <3>1 DEF Offers, Visits
    <3>3. NewPart(f.n, j, form, R2)
      BY <1>3, <3>2
    <3>4. Exempt(f.n)'
      BY <2>1, <3>3 DEF NewPart
    <3> QED  BY <3>1, <3>4
  <2>2. CASE k = "stmt" /\ fs[i].n = Here
    BY <1>1, <1>5, <2>2 DEF Fillers
  <2> QED  BY <2>1, <2>2
<1>7. Fits(fs, gf, g, R2)
  BY <1>1, <1>3, <1>6, OffersFit
<1>8. Reuses(fs)
  <2>1. stack[1].k \notin Linkers
    BY <1>1 DEF Visits, Linkers
  <2>2. ASSUME NEW u \in Uses', u \notin Uses
        PROVE  \E i \in DOMAIN fs : fs[i].n = u /\ fs[i].k \in Linkers
    <3>1. u = Here
      BY <1>2, <2>2
    <3>2. form \in {"var", "access", "assign", "arrayassign"}
      BY <1>2, <3>1 DEF Uses
    <3> QED  BY <3>1, <3>2
  <2> QED  BY <2>1, <2>2 DEF Reuses
<1>9. Relinks(R2) /\ stack[1].k \notin {"open", "close"}
  BY <1>1, LinksStay DEF Visits
<1> QED  BY <1>1, <1>2, <1>3, <1>4, <1>7, <1>8, <1>9, Pushes

\* A name for the empty name.
LEMMA NoName == \E e \in AllNames : e = ""
BY Zenon DEF AllNames

\* One part is visited, then the node itself.
LEMMA ExpThen ==
    ASSUME LinkingInv, NEW q \in Visits, Top("check", q), NEW R, NEW g, Held(R, g),
           NEW form, NEW name \in AllNames, NEW t \in Types, Fill(form, name, t, 1),
           1 \in Arity(form),
           NEW w \in SUBSET AllTypes, NEW v \in SUBSET AllTypes, NEW d \in Nat,
           NEW k \in {"access", "call", "assign"}, form \in Hosts(k),
           k \in Finders => Variable(d) /\ tree[d].form \in ArrayForms /\ Usable(R, d, R[Here]),
           Push(<<Exp(Kid(1), w), Frame(k, Here, v, d)>>),
           UNCHANGED <<link, symbols, region, home>>
    PROVE  LinkingInv'
<1>1. Here \in Nat /\ Kid(1) \in Nat /\ Kid(1) = Len(tree) + 1
  <2>1. Len(tree) \in Nat
    BY NodesAre DEF LinkingInv
  <2> QED  BY <2>1, TopFrame DEF Kid
<1>2. PICK a, b, h : a = Exp(Kid(1), w) /\ b = Frame(k, Here, v, d) /\ h = Here
  OBVIOUS
<1>3. a \in Frames /\ a.k = "exp" /\ a.n = Len(tree) + 1
  <2>1. "exp" \in Kinds /\ 0 \in Nat
    BY DEF Kinds
  <2> QED  BY <1>1, <1>2, <2>1, FrameIs DEF Exp
<1>4. b \in Frames /\ b.k = k /\ b.n = Here /\ b.d = d
  <2>1. k \in Kinds
    BY DEF Kinds
  <2> QED  BY <1>1, <1>2, <2>1, FrameIs
<1>5. PICK fs : fs = <<a, b>>
  OBVIOUS
<1>6. fs \in Seq(Frames) /\ Len(fs) = 2 /\ DOMAIN fs = {1, 2} /\ fs[1] = a /\ fs[2] = b
  BY <1>3, <1>4, <1>5
<1>7. Push(fs)
  BY <1>2, <1>5
<1>8. tree'[Here].form = form
  BY Fills
<1>9. k \in Kinds \ Visits /\ k \notin Fillers /\ k # "seq" /\ Shift(k) = 0 /\ Shift("exp") = 0
      /\ "exp" \in Visits /\ "exp" \notin Fillers
  BY DEF Kinds, Visits, Fillers, Shift
<1>10. Offers(fs, 1, R)
  <2>1. 1 \in 1 .. 1
    OBVIOUS
  <2>2. a.k \in Visits /\ \E j \in 1 .. 1 : a.n = Len(tree) + j
    BY <1>3, <1>9, <2>1
  <2>3. /\ b.n = Here /\ b.k \in Kinds \ Visits /\ tree'[Here].form \in Hosts(b.k)
        /\ b.k \in Finders => /\ Variable(b.d) /\ tree[b.d].form \in ArrayForms
                              /\ Usable(R, b.d, R[Here])
    BY <1>4, <1>8, <1>9
  <2>4. a.k # "seq" /\ b.k # "seq" /\ b.k \notin Visits
    BY <1>3, <1>4, <1>9
  <2>5. \A i \in DOMAIN fs : (i = 1 /\ fs[i] = a) \/ (i = 2 /\ fs[i] = b)
    BY <1>6
  <2>6. \A i \in DOMAIN fs :
          \/ fs[i].k \in Visits /\ \E j \in 1 .. 1 : fs[i].n = Len(tree) + j
          \/ /\ fs[i].n = Here /\ fs[i].k \in Kinds \ Visits /\ tree'[Here].form \in Hosts(fs[i].k)
             /\ fs[i].k \in Finders => /\ Variable(fs[i].d) /\ tree[fs[i].d].form \in ArrayForms
                                       /\ Usable(R, fs[i].d, R[Here])
    BY <2>2, <2>3, <2>5
  <2>7. \A i, j \in DOMAIN fs :
          fs[i].k \in Visits /\ fs[j].k \in Visits /\ fs[i].n = fs[j].n => i = j
    BY <2>4, <2>5
  <2> QED  BY <2>4, <2>5, <2>6, <2>7 DEF Offers
<1>11. \A i \in DOMAIN fs : Shift(fs[i].k) = 0 /\ fs[i].k \notin Fillers
  BY <1>3, <1>4, <1>6, <1>9
<1>12. \/ form \notin {"var", "access", "assign", "arrayassign"}
       \/ \E i \in DOMAIN fs : fs[i].n = Here /\ fs[i].k \in Linkers
  <2>1. CASE k = "call"
    BY <2>1 DEF Hosts
  <2>2. CASE k # "call"
    BY <1>4, <1>6, <2>2 DEF Linkers
  <2> QED  BY <2>1, <2>2
<1>13. 1 \in Nat
  OBVIOUS
<1> QED  BY <1>6, <1>7, <1>10, <1>11, <1>12, <1>13, OffersKeep

\* Types are among all types.
LEMMA TypesAre ==
    /\ Types \in SUBSET AllTypes /\ "int" \in Types /\ "int" \in AllTypes /\ RetType \in Types
    /\ {"int"} \in SUBSET AllTypes /\ {RetType} \in SUBSET AllTypes
    /\ {} \in SUBSET AllTypes /\ {"bool", "int"} \in SUBSET AllTypes
BY TypesAssumption, RetTypeAssumption DEF AllTypes

\* The argument, then the call.
LEMMA CheckCallExpKeeps ==
    ASSUME LinkingInv, CheckCallExp
    PROVE  LinkingInv'
<1>1. Top("check", "exp") /\ "exp" \in Visits /\ UNCHANGED <<link, symbols, region, home>>
  BY DEF CheckCallExp, Visits, genVars
<1>2. phase = "check" /\ stack[1] \in Frames
  BY <1>1, TopFrame
<1>3. PICK R, g : Held(R, g)
  BY <1>2, IsHeld
<1>4. PICK e \in AllNames : e = ""
  BY NoName
<1>5. Fill("callexp", e, "int", 1)
  BY <1>4, Zenon DEF CheckCallExp
<1>6. PICK v : v = stack[1].want
  OBVIOUS
<1>7. v \in SUBSET AllTypes
  BY <1>2, <1>6 DEF Frames
<1>8. Push(<<Exp(Kid(1), Types), Frame("call", Here, v, 0)>>)
  BY <1>6, Zenon DEF CheckCallExp
<1>9. 1 \in Arity("callexp") /\ "callexp" \in Hosts("call") /\ "call" \notin Finders /\ 0 \in Nat
  BY DEF Arity, Hosts, Finders
<1> QED  BY <1>1, <1>3, <1>5, <1>7, <1>8, <1>9, TypesAre, ExpThen

\* The argument, then the call.
LEMMA CheckCallStmtKeeps ==
    ASSUME LinkingInv, CheckCallStmt
    PROVE  LinkingInv'
<1>1. Top("check", "stmt") /\ "stmt" \in Visits /\ UNCHANGED <<link, symbols, region, home>>
  BY DEF CheckCallStmt, Visits, genVars
<1>2. phase = "check"
  BY <1>1, TopFrame
<1>3. PICK R, g : Held(R, g)
  BY <1>2, IsHeld
<1>4. PICK e \in AllNames : e = ""
  BY NoName
<1>5. Fill("call", e, "int", 1)
  BY <1>4, Zenon DEF CheckCallStmt
<1>8. Push(<<Exp(Kid(1), Types), Frame("call", Here, Types, 0)>>)
  BY Zenon DEF CheckCallStmt
<1>9. 1 \in Arity("call") /\ "call" \in Hosts("call") /\ "call" \notin Finders /\ 0 \in Nat
  BY DEF Arity, Hosts, Finders
<1> QED  BY <1>1, <1>3, <1>5, <1>8, <1>9, TypesAre, ExpThen

\* The value, then the variable.
LEMMA CheckAssignStmtKeeps ==
    ASSUME LinkingInv, CheckAssignStmt
    PROVE  LinkingInv'
<1>1. Top("check", "stmt") /\ "stmt" \in Visits /\ UNCHANGED <<link, symbols, region, home>>
  BY DEF CheckAssignStmt, Visits, genVars
<1>2. phase = "check"
  BY <1>1, TopFrame
<1>3. PICK R, g : Held(R, g)
  BY <1>2, IsHeld
<1>4. PICK e \in AllNames : Fill("assign", e, "int", 1)
  BY DEF CheckAssignStmt, AllNames
<1>8. Push(<<Exp(Kid(1), Types), Frame("assign", Here, {}, 0)>>)
  BY DEF CheckAssignStmt, Do
<1>9. 1 \in Arity("assign") /\ "assign" \in Hosts("assign") /\ "assign" \notin Finders /\ 0 \in Nat
  BY DEF Arity, Hosts, Finders
<1> QED  BY <1>1, <1>3, <1>4, <1>8, <1>9, TypesAre, ExpThen

\* The index, then the link to an array that was found in scope.
LEMMA CheckArrayAccessExpKeeps ==
    ASSUME LinkingInv, CheckArrayAccessExp
    PROVE  LinkingInv'
<1>1. Top("check", "exp") /\ "exp" \in Visits /\ UNCHANGED <<link, symbols, region, home>>
  BY DEF CheckArrayAccessExp, Visits, genVars
<1>2. phase = "check" /\ stack[1] \in Frames /\ stack # <<>> /\ stack[1].k = "exp"
  BY <1>1, TopFrame
<1>3. PICK R, g : Held(R, g)
  BY <1>2, IsHeld
<1>4. PICK v : v = stack[1].want
  OBVIOUS
<1>12. PICK name \in Names :
          /\ Fill("access", name, "int", 1)
          /\ IF Find(name) = 0 \/ ~IsArray(Find(name)) THEN Reject("undefined")
             ELSE Push(<<Exp(Kid(1), {"int"}), Frame("access", Here, v, Find(name))>>)
  BY <1>4, Zenon DEF CheckArrayAccessExp
<1>13. PICK d : d = Find(name)
  OBVIOUS
<1>5. /\ d = Find(name) /\ Fill("access", name, "int", 1)
      /\ \/ Reject("undefined")
         \/ d # 0 /\ IsArray(d) /\ Push(<<Exp(Kid(1), {"int"}), Frame("access", Here, v, d)>>)
  BY <1>12, <1>13
<1>6. name \in AllNames /\ v \in SUBSET AllTypes
  BY <1>2, <1>4 DEF AllNames, Frames
<1>7. 1 \in Arity("access") /\ "access" \in Hosts("access")
  BY DEF Arity, Hosts
<1>8. Shaped' /\ fuel' \in 0 .. MaxNodes /\ \E R2 : Continues(R, R2)
  BY <1>1, <1>3, <1>5, <1>6, <1>7, TypesAre, Fills
<1>9. PICK R2 : Continues(R, R2)
  BY <1>8
<1>10. CASE Reject("undefined")
  <2>1. phase' = "rejected" /\ err' \in Errors /\ UNCHANGED <<stack, scopes, ty>>
    BY <1>10 DEF Reject, Errors
  <2>2. Relinks(R2)
    BY <1>1, LinksStay
  <2> QED  BY <1>1, <1>8, <1>9, <2>1, <2>2, Rejects
<1>11. CASE d # 0 /\ IsArray(d) /\ Push(<<Exp(Kid(1), {"int"}), Frame("access", Here, v, d)>>)
  <2>1. Variable(d) /\ Usable(R, d, R[Here])
    <3>1. stack[1].k # "close"
      BY <1>2
    <3> QED  BY <1>2, <1>3, <1>5, <1>11, <3>1, FindFindsSafe
  <2>2. tree[d].form \in ArrayForms /\ d \in Nat
    BY <1>11, <2>1, NodesAre DEF IsArray, Variable, LinkingInv
  <2>3. PICK w : w = {"int"}
    OBVIOUS
  <2>4. w \in SUBSET AllTypes /\ Push(<<Exp(Kid(1), w), Frame("access", Here, v, d)>>)
    BY <1>11, <2>3, TypesAre
  <2> QED  BY <1>1, <1>3, <1>5, <1>6, <1>7, <2>1, <2>2, <2>4, TypesAre, ExpThen
<1> QED  BY <1>5, <1>10, <1>11

\* What a literal or a variable leaves.
LEMMA CheckLiteralKeeps ==
    ASSUME LinkingInv, CheckLiteral
    PROVE  LinkingInv'
<1>1. Top("check", "exp") /\ UNCHANGED <<fuel, link, symbols, region, home>>
  BY Zenon DEF CheckLiteral, genVars
<1>2. /\ phase = "check" /\ stack # <<>> /\ stack[1].k = "exp" /\ Here \in Nodes
      /\ tree[Here].form = "hole"
  BY <1>1, TopFrame DEF Hosts
<1>3. PICK R, g : Held(R, g)
  BY <1>2, IsHeld
<1>4. PICK w : w = stack[1].want
  OBVIOUS
<1>0. PICK e \in AllNames : e = ""
  BY NoName
<1>5. PICK t \in Types : tree' = [tree EXCEPT ![Here] = Node("lit", e, t)] /\ Yield(t, w)
  BY <1>0, <1>4, Zenon DEF CheckLiteral
<1>6. Shaped /\ fuel \in 0 .. MaxNodes /\ Regioned(R)
  BY <1>3 DEF LinkingInv, Typed, Held
<1>7. Grows(Here, 0) /\ tree'[Here].form = "lit"
  BY <1>2, <1>5, <1>6, LeafGrows
<1>8. Shaped' /\ (\E R2 : Continues(R, R2)) /\ \A u \in Uses' : u \in Uses \/ u = Here
  BY <1>6, <1>7, TreeGoesOn
<1>9. PICK R2 : Continues(R, R2)
  BY <1>8
<1>10. \A u \in Uses' : u \in Uses
  BY <1>7, <1>8 DEF Uses
<1>11. Relinks(R2) /\ Reuses(<<>>)
  BY <1>1, <1>2, <1>10, LinksStay, UsesSame DEF Linkers
<1>12. fuel' \in 0 .. MaxNodes /\ stack[1].k \notin {"open", "close"}
  BY <1>1, <1>2, <1>6
<1> QED  BY <1>1, <1>2, <1>3, <1>5, <1>8, <1>9, <1>11, <1>12, Yields

\* The link is to what was found in scope.
LEMMA CheckVarExpKeeps ==
    ASSUME LinkingInv, CheckVarExp
    PROVE  LinkingInv'
<1>1. Top("check", "exp") /\ "exp" \in Visits /\ UNCHANGED <<symbols, region, home>>
  BY DEF CheckVarExp, Visits, genVars
<1>2. phase = "check" /\ Here \in Nodes /\ stack # <<>> /\ stack[1].k = "exp"
  BY <1>1, TopFrame
<1>3. PICK R, g : Held(R, g)
  BY <1>2, IsHeld
<1>4. PICK w : w = stack[1].want
  OBVIOUS
<1>11. PICK name \in Names :
          /\ Fill("var", name, "int", 0)
          /\ IF Find(name) = 0 THEN Reject("undefined") /\ UNCHANGED link
             ELSE Yield(tree[Find(name)].ty, w) /\ link' = Linked(Here, Find(name))
  BY <1>4, Zenon DEF CheckVarExp
<1>12. PICK d : d = Find(name)
  OBVIOUS
<1>5. /\ d = Find(name) /\ Fill("var", name, "int", 0)
      /\ \/ Reject("undefined") /\ UNCHANGED link
         \/ d # 0 /\ Yield(tree[d].ty, w) /\ link' = Linked(Here, d)
  BY <1>11, <1>12
<1>6. name \in AllNames /\ 0 \in Arity("var") /\ 0 \in Nat
  BY DEF AllNames, Arity
<1>7. /\ Shaped' /\ fuel' \in 0 .. MaxNodes /\ tree'[Here].form = "var"
      /\ \A u \in Uses' : u \in Uses \/ u = Here
      /\ \E R2 : Continues(R, R2)
  BY <1>1, <1>3, <1>5, <1>6, TypesAre, Fills
<1>8. PICK R2 : Continues(R, R2)
  BY <1>7
<1>9. CASE Reject("undefined") /\ UNCHANGED link
  <2>1. phase' = "rejected" /\ err' \in Errors /\ UNCHANGED <<stack, scopes, ty>>
    BY <1>9 DEF Reject, Errors
  <2>2. Relinks(R2)
    BY <1>9, LinksStay
  <2> QED  BY <1>1, <1>7, <1>8, <2>1, <2>2, Rejects
<1>10. CASE d # 0 /\ Yield(tree[d].ty, w) /\ link' = Linked(Here, d)
  <2>1. Variable(d) /\ Usable(R, d, R[Here])
    <3>1. stack[1].k # "close"
      BY <1>2
    <3> QED  BY <1>2, <1>3, <1>5, <1>10, <3>1, FindFindsSafe
  <2>2. PICK t : t = tree[d].ty
    OBVIOUS
  <2>3. t \in Types
    <3>1. tree[d] \in NodeRecs
      BY <2>1, NodesAre DEF LinkingInv, Variable
    <3> QED  BY <2>2, <3>1 DEF NodeRecs
  <2>4. PICK h : h = Here
    OBVIOUS
  <2>5. h \in Uses' /\ R2[h] = R[h]
    BY <1>2, <1>7, <1>8, <2>4 DEF Uses, Continues
  <2>6. Variable(d)' /\ Usable(R2, d, R2[h])'
    <3>1. Usable(R, d, R[h])
      BY <2>1, <2>4
    <3>2. Usable(R2, d, R[h])'
      BY <1>8, <2>1, <3>1, UsableStays
    <3> QED  BY <1>8, <2>1, <2>5, <3>2 DEF Continues
  <2>7. Relinks(R2) /\ h \in DOMAIN link'
    <3>1. link' = Linked(h, d) /\ tree'[h].form = "var"
      BY <1>7, <1>10, <2>4
    <3>2. tree'[h].form \notin {"access", "arrayassign", "assign"}
      BY <3>1
    <3> QED  BY <2>4, <2>5, <2>6, <3>1, <3>2, LinksHere
  <2>8. Reuses(<<>>)
    BY <1>2, <1>7, <2>4, <2>7 DEF Reuses
  <2>9. Yield(t, w) /\ stack[1].k \notin {"open", "close"}
    BY <1>2, <1>10, <2>2
  <2> QED  BY <1>1, <1>2, <1>3, <1>7, <1>8, <2>3, <2>7, <2>8, <2>9, Yields
<1> QED  BY <1>5, <1>9, <1>10

\* The parts are visited in their order, and nothing else.
LEMMA PartsKeep ==
    ASSUME LinkingInv, NEW k \in Visits, Top("check", k), NEW R, NEW g, Held(R, g),
           NEW form, NEW name \in AllNames, NEW t \in Types, NEW m \in Nat,
           Fill(form, name, t, m), m \in Arity(form),
           NEW fs \in Seq(Frames), Push(fs), UNCHANGED <<link, symbols, region, home>>,
           \A i \in DOMAIN fs : i \in 1 .. m /\ fs[i].k \in Visits /\ fs[i].n = Len(tree) + i,
           form \in {"if", "while"} \/ \A i \in DOMAIN fs : fs[i].k = "exp",
           form \notin {"var", "access", "assign", "arrayassign"}
    PROVE  LinkingInv'
<1>1. Len(tree) \in Nat
  BY NodesAre DEF LinkingInv
<1>2. Offers(fs, m, R)
  <2>1. \A i \in DOMAIN fs : fs[i].k # "seq"
    BY DEF Visits
  <2>2. ASSUME NEW i \in DOMAIN fs, NEW j \in DOMAIN fs, fs[i].n = fs[j].n
        PROVE  i = j
    <3>1. i \in Nat /\ j \in Nat /\ Len(tree) + i = Len(tree) + j
      BY <2>2
    <3> QED  BY <1>1, <3>1
  <2> QED  BY <2>1, <2>2 DEF Offers
<1>3. ASSUME NEW i \in DOMAIN fs
      PROVE  Shift(fs[i].k) = 0 /\ (fs[i].k \in Fillers => fs[i].k = "stmt")
  BY DEF Visits, Shift, Fillers
<1>4. \A i \in DOMAIN fs : fs[i].k \in Fillers => form \in {"if", "while"} /\ fs[i].k = "stmt"
  BY <1>3 DEF Fillers
<1> QED  BY <1>2, <1>3, <1>4, OffersKeep

\* A frame that visits a part.
LEMMA VisitIs ==
    ASSUME LinkingInv, NEW w \in SUBSET AllTypes, NEW i \in Nat
    PROVE  /\ Exp(Kid(i), w) \in Frames /\ Exp(Kid(i), w).k = "exp" /\ Exp(Kid(i), w).n = Len(tree) + i
           /\ Stmt(Kid(i)) \in Frames /\ Stmt(Kid(i)).k = "stmt" /\ Stmt(Kid(i)).n = Len(tree) + i
           /\ Kid(i) = Len(tree) + i /\ Kid(i) \in Nat
<1>1. Len(tree) \in Nat
  BY NodesAre DEF LinkingInv
<1>2. Kid(i) \in Nat /\ Kid(i) = Len(tree) + i
  BY <1>1 DEF Kid
<1>3. "exp" \in Kinds /\ "stmt" \in Kinds /\ 0 \in Nat /\ {} \in SUBSET AllTypes
  BY DEF Kinds
<1> QED  BY <1>2, <1>3, FrameIs DEF Exp, Stmt

\* The value.
LEMMA CheckReturnStmtKeeps ==
    ASSUME LinkingInv, CheckReturnStmt
    PROVE  LinkingInv'
<1>1. Top("check", "stmt") /\ "stmt" \in Visits /\ UNCHANGED <<link, symbols, region, home>>
  BY DEF CheckReturnStmt, Visits, genVars
<1>2. phase = "check"
  BY <1>1, TopFrame
<1>3. PICK R, g : Held(R, g)
  BY <1>2, IsHeld
<1>4. PICK e \in AllNames : e = ""
  BY NoName
<1>5. Fill("return", e, "int", 1)
  BY <1>4, Zenon DEF CheckReturnStmt
<1>6. PICK a : a = Exp(Kid(1), {RetType})
  OBVIOUS
<1>7. a \in Frames /\ a.k = "exp" /\ a.n = Len(tree) + 1
  <2>1. PICK w, i : w = {RetType} /\ i = 1
    OBVIOUS
  <2>2. w \in SUBSET AllTypes /\ i \in Nat
    BY <2>1, TypesAre
  <2>3. Exp(Kid(i), w) \in Frames /\ Exp(Kid(i), w).k = "exp" /\ Exp(Kid(i), w).n = Len(tree) + i
    BY <2>2, VisitIs
  <2> QED  BY <1>6, <2>1, <2>3
<1>8. PICK fs : fs = <<a>>
  OBVIOUS
<1>9. fs \in Seq(Frames) /\ DOMAIN fs = {1} /\ fs[1] = a
  BY <1>7, <1>8
<1>10. Push(fs)
  BY <1>6, <1>8 DEF CheckReturnStmt
<1>11. 1 \in Arity("return") /\ 1 \in Nat /\ 1 \in 1 .. 1 /\ "exp" \in Visits
  BY DEF Arity, Visits
<1>12. \A i \in DOMAIN fs : i \in 1 .. 1 /\ fs[i].k = "exp" /\ fs[i].k \in Visits /\ fs[i].n = Len(tree) + i
  BY <1>7, <1>9, <1>11
<1> QED  BY <1>1, <1>3, <1>5, <1>9, <1>10, <1>11, <1>12, TypesAre, PartsKeep

\* The condition, then the body.
LEMMA CheckWhileStmtKeeps ==
    ASSUME LinkingInv, CheckWhileStmt
    PROVE  LinkingInv'
<1>1. Top("check", "stmt") /\ "stmt" \in Visits /\ UNCHANGED <<link, symbols, region, home>>
  BY DEF CheckWhileStmt, Visits, genVars
<1>2. phase = "check"
  BY <1>1, TopFrame
<1>3. PICK R, g : Held(R, g)
  BY <1>2, IsHeld
<1>4. PICK e \in AllNames : e = ""
  BY NoName
<1>5. Fill("while", e, "int", 2)
  BY <1>4, Zenon DEF CheckWhileStmt
<1>6. PICK a, b : a = Exp(Kid(1), CondTypes) /\ b = Stmt(Kid(2))
  OBVIOUS
<1>7. CondTypes \in SUBSET AllTypes
  BY TypesAre DEF CondTypes
<1>8. a \in Frames /\ a.k = "exp" /\ a.n = Len(tree) + 1
      /\ b \in Frames /\ b.k = "stmt" /\ b.n = Len(tree) + 2
  <2>1. PICK w, i, j : w = CondTypes /\ i = 1 /\ j = 2
    OBVIOUS
  <2>2. w \in SUBSET AllTypes /\ i \in Nat /\ j \in Nat
    BY <1>7, <2>1
  <2>3. Exp(Kid(i), w) \in Frames /\ Exp(Kid(i), w).k = "exp" /\ Exp(Kid(i), w).n = Len(tree) + i
    BY <2>2, VisitIs
  <2>4. Stmt(Kid(j)) \in Frames /\ Stmt(Kid(j)).k = "stmt" /\ Stmt(Kid(j)).n = Len(tree) + j
    BY <2>2, VisitIs
  <2> QED  BY <1>6, <2>1, <2>3, <2>4
<1>9. PICK fs : fs = <<a, b>>
  OBVIOUS
<1>10. fs \in Seq(Frames) /\ DOMAIN fs = {1, 2} /\ fs[1] = a /\ fs[2] = b
  BY <1>8, <1>9
<1>11. Push(fs)
  BY <1>6, <1>9 DEF CheckWhileStmt
<1>12. 2 \in Arity("while") /\ 2 \in Nat /\ 1 \in 1 .. 2 /\ 2 \in 1 .. 2 /\ "exp" \in Visits
  BY DEF Arity, Visits
<1>13. \A i \in DOMAIN fs : i \in 1 .. 2 /\ fs[i].k \in Visits /\ fs[i].n = Len(tree) + i
  BY <1>1, <1>8, <1>10, <1>12
<1> QED  BY <1>1, <1>3, <1>5, <1>10, <1>11, <1>12, <1>13, TypesAre, PartsKeep

\* The condition, then one or two branches.
LEMMA CheckIfStmtKeeps ==
    ASSUME LinkingInv, CheckIfStmt
    PROVE  LinkingInv'
<1>1. Top("check", "stmt") /\ "stmt" \in Visits /\ UNCHANGED <<link, symbols, region, home>>
  BY DEF CheckIfStmt, Visits, genVars
<1>2. phase = "check"
  BY <1>1, TopFrame
<1>3. PICK R, g : Held(R, g)
  BY <1>2, IsHeld
<1>4. PICK e \in AllNames : e = ""
  BY NoName
<1>5. PICK n \in {1, 2} : /\ Fill("if", e, "int", 1 + n)
                          /\ Push(<<Exp(Kid(1), CondTypes)>> \o [i \in 1 .. n |-> Stmt(Kid(1 + i))])
  BY <1>4, Zenon DEF CheckIfStmt
<1>6. PICK a, b, fs : a = <<Exp(Kid(1), CondTypes)>> /\ b = [i \in 1 .. n |-> Stmt(Kid(1 + i))]
                      /\ fs = a \o b
  OBVIOUS
<1>7. a \in Seq(Frames) /\ Len(a) = 1 /\ a[1].k = "exp" /\ a[1].n = Len(tree) + 1
  <2>1. PICK w, i : w = CondTypes /\ i = 1
    OBVIOUS
  <2>2. w \in SUBSET AllTypes /\ i \in Nat
    BY <2>1, TypesAre DEF CondTypes
  <2>3. Exp(Kid(i), w) \in Frames /\ Exp(Kid(i), w).k = "exp" /\ Exp(Kid(i), w).n = Len(tree) + i
    BY <2>2, VisitIs
  <2>4. PICK x : x = Exp(Kid(i), w)
    OBVIOUS
  <2>5. a = <<x>> /\ x \in Frames /\ x.k = "exp" /\ x.n = Len(tree) + 1
    BY <1>6, <2>1, <2>3, <2>4
  <2> QED  BY <2>5
<1>8. /\ b \in Seq(Frames) /\ Len(b) = n
      /\ \A i \in 1 .. n : b[i].k = "stmt" /\ b[i].n = Len(tree) + (1 + i)
  <2>1. \A i \in 1 .. n : /\ Stmt(Kid(1 + i)) \in Frames /\ Stmt(Kid(1 + i)).k = "stmt"
                          /\ Stmt(Kid(1 + i)).n = Len(tree) + (1 + i)
    <3>1. PICK w : w = CondTypes
      OBVIOUS
    <3>2. w \in SUBSET AllTypes
      BY <3>1, TypesAre DEF CondTypes
    <3> TAKE i \in 1 .. n
    <3>3. 1 + i \in Nat
      OBVIOUS
    <3> QED  BY <3>2, <3>3, VisitIs
  <2>2. b \in [1 .. n -> Frames]
    BY <1>6, <2>1
  <2>3. n \in Nat
    OBVIOUS
  <2> QED  BY <1>6, <2>1, <2>2, <2>3
<1>9. /\ fs \in Seq(Frames) /\ Len(fs) = 1 + n
      /\ \A i \in 1 .. 1 + n : fs[i] = IF i <= 1 THEN a[i] ELSE b[i - 1]
  <2>1. /\ a \o b \in Seq(Frames) /\ Len(a \o b) = Len(a) + Len(b)
        /\ \A i \in 1 .. Len(a \o b) :
              (a \o b)[i] = IF i <= Len(a) THEN a[i] ELSE b[i - Len(a)]
    <3>1. a \in Seq(Frames) /\ b \in Seq(Frames)
      BY <1>7, <1>8
    <3> QED  BY <3>1, ConcatProperties
  <2> QED  BY <1>6, <1>7, <1>8, <2>1
<1>10. ASSUME NEW i \in DOMAIN fs
       PROVE  i \in 1 .. 1 + n /\ fs[i].k \in Visits /\ fs[i].n = Len(tree) + i
  <2>1. i \in 1 .. 1 + n
    BY <1>9
  <2>2. CASE i = 1
    BY <1>7, <1>9, <2>1, <2>2 DEF Visits
  <2>3. CASE i # 1
    <3>1. ~(i <= 1) /\ i - 1 \in 1 .. n /\ 1 + (i - 1) = i
      BY <2>1, <2>3
    <3> QED  BY <1>8, <1>9, <2>1, <3>1 DEF Visits
  <2> QED  BY <2>1, <2>2, <2>3
<1>11. Push(fs)
  BY <1>5, <1>6
<1>12. 1 + n \in Arity("if") /\ 1 + n \in Nat
  BY DEF Arity
<1>13. PICK m : m = 1 + n
  OBVIOUS
<1>14. Fill("if", e, "int", m)
  BY <1>5, <1>13
<1> QED  BY <1>1, <1>3, <1>9, <1>10, <1>11, <1>12, <1>13, <1>14, TypesAre, PartsKeep

\* Index and value, then the link to an array that was found in scope.
LEMMA CheckArrayAssignStmtKeeps ==
    ASSUME LinkingInv, CheckArrayAssignStmt
    PROVE  LinkingInv'
<1>1. Top("check", "stmt") /\ "stmt" \in Visits /\ UNCHANGED <<link, symbols, region, home>>
  BY DEF CheckArrayAssignStmt, Visits, genVars
<1>2. /\ phase = "check" /\ stack[1] \in Frames /\ stack # <<>> /\ stack[1].k = "stmt"
      /\ Here \in Nat
  BY <1>1, TopFrame
<1>3. PICK R, g : Held(R, g)
  BY <1>2, IsHeld
<1>4. PICK name \in Names :
          /\ Fill("arrayassign", name, "int", 2)
          /\ IF Find(name) = 0 \/ ~IsArray(Find(name)) THEN Reject("undefined")
             ELSE Push(<<Exp(Kid(1), {"int"}), Exp(Kid(2), {tree[Find(name)].ty}),
                         Frame("arrayassign", Here, {}, Find(name))>>)
  BY Zenon DEF CheckArrayAssignStmt
<1>5. PICK d : d = Find(name)
  OBVIOUS
<1>6. name \in AllNames /\ 2 \in Nat /\ 2 \in Arity("arrayassign") /\ "arrayassign" \in Hosts("arrayassign")
  BY DEF AllNames, Arity, Hosts
<1>7. /\ Shaped' /\ fuel' \in 0 .. MaxNodes /\ tree'[Here].form = "arrayassign"
      /\ \E R2 : Continues(R, R2)
  BY <1>1, <1>3, <1>4, <1>6, TypesAre, Fills
<1>8. PICK R2 : Continues(R, R2)
  BY <1>7
<1>9. CASE Reject("undefined")
  <2>1. phase' = "rejected" /\ err' \in Errors /\ UNCHANGED <<stack, scopes, ty>>
    BY <1>9 DEF Reject, Errors
  <2>2. Relinks(R2)
    BY <1>1, LinksStay
  <2> QED  BY <1>1, <1>7, <1>8, <2>1, <2>2, Rejects
<1>10. CASE d # 0 /\ IsArray(d) /\ Push(<<Exp(Kid(1), {"int"}), Exp(Kid(2), {tree[d].ty}),
                                         Frame("arrayassign", Here, {}, d)>>)
  <2>1. Variable(d) /\ Usable(R, d, R[Here])
    <3>1. stack[1].k # "close"
      BY <1>2
    <3> QED  BY <1>2, <1>3, <1>5, <1>10, <3>1, FindFindsSafe
  <2>2. tree[d].form \in ArrayForms /\ d \in Nat
    BY <1>10, <2>1, NodesAre DEF IsArray, Variable, LinkingInv
  <2>3. PICK w, v : w = {"int"} /\ v = {tree[d].ty}
    OBVIOUS
  <2>4. w \in SUBSET AllTypes /\ v \in SUBSET AllTypes
    <3>1. tree[d] \in NodeRecs
      BY <2>1, NodesAre DEF LinkingInv, Variable
    <3>2. tree[d].ty \in Types
      BY <3>1 DEF NodeRecs
    <3> QED  BY <2>3, <3>2, TypesAre
  <2>5. PICK a, b, c : a = Exp(Kid(1), w) /\ b = Exp(Kid(2), v) /\ c = Frame("arrayassign", Here, {}, d)
    OBVIOUS
  <2>6. /\ a \in Frames /\ a.k = "exp" /\ a.n = Len(tree) + 1
        /\ b \in Frames /\ b.k = "exp" /\ b.n = Len(tree) + 2
    <3>1. PICK i, j : i = 1 /\ j = 2
      OBVIOUS
    <3>2. i \in Nat /\ j \in Nat
      BY <3>1
    <3>3. Exp(Kid(i), w) \in Frames /\ Exp(Kid(i), w).k = "exp" /\ Exp(Kid(i), w).n = Len(tree) + i
      BY <2>4, <3>2, VisitIs
    <3>4. Exp(Kid(j), v) \in Frames /\ Exp(Kid(j), v).k = "exp" /\ Exp(Kid(j), v).n = Len(tree) + j
      BY <2>4, <3>2, VisitIs
    <3> QED  BY <2>5, <3>1, <3>3, <3>4
  <2>7. c \in Frames /\ c.k = "arrayassign" /\ c.n = Here /\ c.d = d
    <3>1. "arrayassign" \in Kinds /\ {} \in SUBSET AllTypes
      BY DEF Kinds
    <3> QED  BY <1>2, <2>2, <2>5, <3>1, FrameIs
  <2>8. PICK fs : fs = <<a, b, c>>
    OBVIOUS
  <2>9. /\ fs \in Seq(Frames) /\ Len(fs) = 3 /\ DOMAIN fs = {1, 2, 3}
        /\ fs[1] = a /\ fs[2] = b /\ fs[3] = c
    BY <2>6, <2>7, <2>8
  <2>10. \A i \in DOMAIN fs : (i = 1 /\ fs[i] = a) \/ (i = 2 /\ fs[i] = b) \/ (i = 3 /\ fs[i] = c)
    BY <2>9
  <2>11. Push(fs)
    BY <1>10, <2>3, <2>5, <2>8
  <2>12. /\ "arrayassign" \in Kinds \ Visits /\ "arrayassign" \notin Fillers
         /\ Shift("arrayassign") = 0 /\ Shift("exp") = 0 /\ "arrayassign" \in Linkers
         /\ "exp" \in Visits /\ "exp" \notin Fillers /\ 1 \in 1 .. 2 /\ 2 \in 1 .. 2
    BY DEF Kinds, Visits, Fillers, Shift, Linkers
  <2>13. Offers(fs, 2, R)
    <3>1. a.k \in Visits /\ \E j \in 1 .. 2 : a.n = Len(tree) + j
      BY <2>6, <2>12
    <3>2. b.k \in Visits /\ \E j \in 1 .. 2 : b.n = Len(tree) + j
      BY <2>6, <2>12
    <3>3. /\ c.n = Here /\ c.k \in Kinds \ Visits /\ tree'[Here].form \in Hosts(c.k)
          /\ Variable(c.d) /\ tree[c.d].form \in ArrayForms /\ Usable(R, c.d, R[Here])
      BY <1>6, <1>7, <2>1, <2>2, <2>7, <2>12
    <3>4. a.k # "seq" /\ b.k # "seq" /\ c.k # "seq" /\ c.k \notin Visits /\ a.n # b.n
      <4>1. Len(tree) \in Nat
        BY NodesAre DEF LinkingInv
      <4> QED  BY <2>6, <2>7, <2>12, <4>1
    <3>5. \A i \in DOMAIN fs :
            \/ fs[i].k \in Visits /\ \E j \in 1 .. 2 : fs[i].n = Len(tree) + j
            \/ /\ fs[i].n = Here /\ fs[i].k \in Kinds \ Visits /\ tree'[Here].form \in Hosts(fs[i].k)
               /\ Variable(fs[i].d) /\ tree[fs[i].d].form \in ArrayForms
               /\ Usable(R, fs[i].d, R[Here])
      BY <2>10, <3>1, <3>2, <3>3
    <3>6. \A i, j \in DOMAIN fs :
            fs[i].k \in Visits /\ fs[j].k \in Visits /\ fs[i].n = fs[j].n => i = j
      BY <2>10, <3>4
    <3>7. \A i \in DOMAIN fs : fs[i].k # "seq"
      BY <2>10, <3>4
    <3> QED  BY <3>5, <3>6, <3>7 DEF Offers
  <2>14. \A i \in DOMAIN fs : Shift(fs[i].k) = 0 /\ fs[i].k \notin Fillers
    BY <2>6, <2>7, <2>10, <2>12
  <2>15. \E i \in DOMAIN fs : fs[i].n = Here /\ fs[i].k \in Linkers
    BY <2>7, <2>9, <2>12
  <2> QED  BY <1>1, <1>3, <1>4, <1>6, <2>9, <2>11, <2>13, <2>14, <2>15, TypesAre, OffersKeep
<1> QED  BY <1>4, <1>5, <1>9, <1>10

\* The size comes before the declaration is inserted, the initializer after it.
LEMMA CheckDeclStmtKeeps ==
    ASSUME LinkingInv, CheckDeclStmt
    PROVE  LinkingInv'
<1>1. Top("check", "stmt") /\ "stmt" \in Visits /\ UNCHANGED <<link, symbols, region, home>>
  BY DEF CheckDeclStmt, Visits, genVars
<1>2. phase = "check" /\ Here \in Nat
  BY <1>1, TopFrame
<1>3. PICK R, g : Held(R, g)
  BY <1>2, IsHeld
<1>4. PICK name \in Names, t \in Types, form \in DeclForms, init \in {0, 1} :
         LET size == IF form = "arraydecl" THEN 1 ELSE 0
         IN  /\ Fill(form, name, t, size + init)
             /\ Push([i \in 1 .. size |-> Exp(Kid(1), {"int"})]
                        \o <<Do("insert", Here)>>
                        \o [i \in 1 .. init |-> Exp(Kid(size + 1), {t})])
  BY DEF CheckDeclStmt
<1>5. PICK size, w, v, m : /\ size = (IF form = "arraydecl" THEN 1 ELSE 0) /\ w = {"int"} /\ v = {t}
                           /\ m = size + init
  OBVIOUS
<1>6. /\ size \in {0, 1} /\ m \in Nat /\ m = size + init /\ m \in Arity(form)
      /\ form \in Hosts("insert")
      /\ form \notin {"var", "access", "assign", "arrayassign"} /\ name \in AllNames
      /\ w \in SUBSET AllTypes /\ v \in SUBSET AllTypes
  <2>1. w \in SUBSET AllTypes /\ v \in SUBSET AllTypes
    BY <1>5, TypesAre
  <2>2. size \in {0, 1} /\ m = size + init /\ m \in Nat
    BY <1>5
  <2>3. form \in Hosts("insert") /\ form \notin {"var", "access", "assign", "arrayassign"}
    BY DEF Hosts, DeclForms
  <2>4. m \in Arity(form)
    <3>1. CASE form = "arraydecl"
      <4>1. m = 1 \/ m = 2
        BY <1>5, <3>1
      <4> QED  BY <3>1, <4>1 DEF Arity
    <3>2. CASE form = "decl"
      <4>1. m = 0 \/ m = 1
        BY <1>5, <3>2
      <4> QED  BY <3>2, <4>1 DEF Arity
    <3> QED  BY <3>1, <3>2 DEF DeclForms
  <2>5. name \in AllNames
    BY DEF AllNames
  <2> QED  BY <2>1, <2>2, <2>3, <2>4, <2>5
<1>7. PICK x, y, a, b, c, fs : /\ x = Exp(Kid(1), w) /\ y = Exp(Kid(size + 1), v)
                               /\ a = [i \in 1 .. size |-> x] /\ b = <<Do("insert", Here)>>
                               /\ c = [i \in 1 .. init |-> y] /\ fs = a \o b \o c
  OBVIOUS
<1>8. Fill(form, name, t, m) /\ Push(fs)
  BY <1>4, <1>5, <1>7, Zenon
<1>9. tree'[Here].form = form
  BY <1>1, <1>3, <1>6, <1>8, Fills
<1>10. /\ x \in Frames /\ x.k = "exp" /\ x.n = Len(tree) + 1
       /\ y \in Frames /\ y.k = "exp" /\ y.n = Len(tree) + (size + 1)
  <2>1. PICK i, j : i = 1 /\ j = size + 1
    OBVIOUS
  <2>2. i \in Nat /\ j \in Nat
    BY <1>6, <2>1
  <2>3. Exp(Kid(i), w) \in Frames /\ Exp(Kid(i), w).k = "exp" /\ Exp(Kid(i), w).n = Len(tree) + i
    BY <1>6, <2>2, VisitIs
  <2>4. Exp(Kid(j), v) \in Frames /\ Exp(Kid(j), v).k = "exp" /\ Exp(Kid(j), v).n = Len(tree) + j
    BY <1>6, <2>2, VisitIs
  <2> QED  BY <1>7, <2>1, <2>3, <2>4
<1>11. /\ a \in Seq(Frames) /\ Len(a) = size /\ c \in Seq(Frames) /\ Len(c) = init
       /\ \A i \in 1 .. size : a[i] = x
       /\ \A i \in 1 .. init : c[i] = y
  <2>1. a \in [1 .. size -> Frames] /\ c \in [1 .. init -> Frames]
    BY <1>7, <1>10
  <2>2. size \in Nat /\ init \in Nat
    BY <1>6
  <2>3. a \in Seq(Frames) /\ Len(a) = size
    BY <2>1, <2>2
  <2>4. c \in Seq(Frames) /\ Len(c) = init
    BY <2>1, <2>2
  <2>5. (\A i \in 1 .. size : a[i] = x) /\ (\A i \in 1 .. init : c[i] = y)
    BY <1>7
  <2> QED  BY <2>3, <2>4, <2>5
<1>12. PICK z : z = Do("insert", Here)
  OBVIOUS
<1>13. z \in Frames /\ z.k = "insert" /\ z.n = Here
  <2>1. "insert" \in Kinds /\ {} \in SUBSET AllTypes /\ 0 \in Nat
    BY DEF Kinds
  <2> QED  BY <1>2, <1>12, <2>1, FrameIs DEF Do
<1>14. b \in Seq(Frames) /\ Len(b) = 1 /\ b[1] = z
  BY <1>7, <1>12, <1>13
<1>15. /\ fs \in Seq(Frames) /\ Len(fs) = size + 1 + init
       /\ \A i \in 1 .. size + 1 + init :
             fs[i] = IF i <= size THEN x ELSE IF i <= size + 1 THEN z ELSE y
  <2>1. a \in Seq(Frames) /\ b \in Seq(Frames)
    BY <1>11, <1>14
  <2>2. PICK ab : ab = a \o b
    OBVIOUS
  <2>3. /\ ab \in Seq(Frames) /\ Len(ab) = Len(a) + Len(b)
        /\ \A i \in 1 .. Len(ab) : ab[i] = IF i <= Len(a) THEN a[i] ELSE b[i - Len(a)]
    <3>1. /\ a \o b \in Seq(Frames) /\ Len(a \o b) = Len(a) + Len(b)
          /\ \A i \in 1 .. Len(a \o b) : (a \o b)[i] = IF i <= Len(a) THEN a[i] ELSE b[i - Len(a)]
      BY <2>1, ConcatProperties
    <3> QED  BY <2>2, <3>1
  <2>4. ab \in Seq(Frames) /\ c \in Seq(Frames)
    BY <1>11, <2>3
  <2>5. /\ fs \in Seq(Frames) /\ Len(fs) = Len(ab) + Len(c)
        /\ \A i \in 1 .. Len(fs) : fs[i] = IF i <= Len(ab) THEN ab[i] ELSE c[i - Len(ab)]
    <3>1. /\ ab \o c \in Seq(Frames) /\ Len(ab \o c) = Len(ab) + Len(c)
          /\ \A i \in 1 .. Len(ab \o c) : (ab \o c)[i] = IF i <= Len(ab) THEN ab[i] ELSE c[i - Len(ab)]
      BY <2>4, ConcatProperties
    <3> QED  BY <1>7, <2>2, <3>1
  <2>6. Len(a) = size /\ Len(b) = 1 /\ Len(c) = init /\ Len(ab) = size + 1
        /\ Len(fs) = size + 1 + init /\ size \in Nat /\ init \in Nat
    BY <1>6, <1>11, <1>14, <2>3, <2>5
  <2>7. ASSUME NEW i \in 1 .. size + 1 + init
        PROVE  fs[i] = IF i <= size THEN x ELSE IF i <= size + 1 THEN z ELSE y
    <3>1. CASE i <= size
      <4>1. i \in 1 .. size /\ i <= size + 1 /\ i \in 1 .. size + 1
        BY <2>6, <3>1
      <4> QED  BY <1>11, <2>3, <2>5, <2>6, <3>1, <4>1
    <3>2. CASE i = size + 1
      <4>1. ~(i <= size) /\ i <= size + 1 /\ i \in 1 .. size + 1 /\ i - size = 1
        BY <2>6, <3>2
      <4> QED  BY <1>14, <2>3, <2>5, <2>6, <4>1
    <3>3. CASE i > size + 1
      <4>1. ~(i <= size) /\ ~(i <= size + 1) /\ i - (size + 1) \in 1 .. init
        BY <2>6, <3>3
      <4> QED  BY <1>11, <2>5, <2>6, <4>1
    <3> QED  BY <2>6, <3>1, <3>2, <3>3
  <2> QED  BY <2>5, <2>6, <2>7
<1>16. \A i \in DOMAIN fs : /\ i \in Nat
                            /\ \/ fs[i] = x /\ i = 1 /\ size = 1
                               \/ fs[i] = z /\ i = size + 1
                               \/ fs[i] = y /\ i = size + 2 /\ init = 1
  <2>1. DOMAIN fs = 1 .. size + 1 + init
    BY <1>15
  <2>2. ASSUME NEW i \in 1 .. size + 1 + init
        PROVE  /\ i \in Nat
               /\ \/ fs[i] = x /\ i = 1 /\ size = 1
                  \/ fs[i] = z /\ i = size + 1
                  \/ fs[i] = y /\ i = size + 2 /\ init = 1
    <3>1. CASE i <= size
      <4>1. i = 1 /\ size = 1
        BY <1>6, <3>1
      <4> QED  BY <1>15, <3>1, <4>1
    <3>2. CASE ~(i <= size) /\ i <= size + 1
      <4>1. i = size + 1
        BY <1>6, <3>2
      <4> QED  BY <1>15, <3>2, <4>1
    <3>3. CASE ~(i <= size) /\ ~(i <= size + 1)
      <4>1. i = size + 2 /\ init = 1
        BY <1>6, <3>3
      <4> QED  BY <1>15, <3>3, <4>1
    <3> QED  BY <3>1, <3>2, <3>3
  <2> QED  BY <2>1, <2>2
<1>17. /\ "insert" \in Kinds \ Visits /\ "insert" \notin Finders
       /\ Shift("insert") = 0 /\ Shift("exp") = 0
       /\ "exp" \in Visits /\ "exp" \notin Fillers
  BY DEF Kinds, Visits, Fillers, Shift, Finders
<1>18. Offers(fs, m, R)
  <2>1. size = 1 => x.k \in Visits /\ \E j \in 1 .. m : x.n = Len(tree) + j
    <3>1. size = 1 => 1 \in 1 .. m
      BY <1>6
    <3> QED  BY <1>10, <1>17, <3>1
  <2>2. init = 1 => y.k \in Visits /\ \E j \in 1 .. m : y.n = Len(tree) + j
    <3>1. init = 1 => size + 1 \in 1 .. m
      BY <1>6
    <3> QED  BY <1>10, <1>17, <3>1
  <2>3. z.n = Here /\ z.k \in Kinds \ Visits /\ tree'[Here].form \in Hosts(z.k) /\ z.k \notin Finders
    BY <1>6, <1>9, <1>13, <1>17
  <2>4. \A i \in DOMAIN fs :
          \/ fs[i].k \in Visits /\ \E j \in 1 .. m : fs[i].n = Len(tree) + j
          \/ /\ fs[i].n = Here /\ fs[i].k \in Kinds \ Visits /\ tree'[Here].form \in Hosts(fs[i].k)
             /\ fs[i].k \notin Finders
    BY <1>16, <2>1, <2>2, <2>3
  <2>5. size = 1 => x.n # y.n
    <3>1. Len(tree) \in Nat
      BY NodesAre DEF LinkingInv
    <3> QED  BY <1>10, <3>1
  <2>6. \A i, j \in DOMAIN fs :
          fs[i].k \in Visits /\ fs[j].k \in Visits /\ fs[i].n = fs[j].n => i = j
    BY <1>16, <2>3, <2>5
  <2>7. \A i \in DOMAIN fs : fs[i].k # "seq"
    BY <1>10, <1>13, <1>16
  <2> QED  BY <2>4, <2>6, <2>7 DEF Offers
<1>19. \A i \in DOMAIN fs : Shift(fs[i].k) = 0 /\ (fs[i].k \in Fillers => fs[i].n = Here)
  BY <1>10, <1>13, <1>16, <1>17
<1> QED  BY <1>1, <1>3, <1>6, <1>8, <1>15, <1>18, <1>19, OffersKeep

\* The visit is over when frames are that open a scope and close it.
LEMMA BlockKeeps ==
    ASSUME LinkingInv, Top("check", "stmt"), NEW R, NEW R2, NEW g, NEW gf, Held(R, g),
           Continues(R, R2), Shaped', NEW fs \in Seq(Frames), Push(fs), NEW m, NEW form,
           \A i \in 1 .. m : \A n : n = Len(tree) + i => NewPart(n, i, form, R2),
           Offers(fs, m, R), FillersFit(fs, gf, g, R2), Levelled(gf, fs, g[1], g[1]),
           \A u \in Uses' : u \in Uses \/ u = Here, tree'[Here].form \in {"seq", "for"},
           fuel' \in 0 .. MaxNodes, UNCHANGED <<link, symbols, region, home>>
    PROVE  LinkingInv'
<1>1. /\ stack # <<>> /\ stack[1].k = "stmt" /\ phase = "check" /\ Here \in Nodes
      /\ stack \in Seq(Frames) /\ scopes \in Seq(Bindings)
  BY TopFrame
<1>2. Become(fs) /\ UNCHANGED <<phase, err, scopes, ty>>
  BY DEF Push
<1>3. g[2] = g[1] /\ g[1] = Len(scopes)
  <2>1. PICK n : n = Len(scopes)
    OBVIOUS
  <2>2. Levelled(g, stack, n, 1)
    BY <2>1 DEF Held
  <2>3. n \in Nat \ {0} /\ g[1] = n /\ g[2] = n + Shift(stack[1].k)
    BY <1>1, <2>2, Running
  <2>4. Shift(stack[1].k) = 0
    BY <1>1 DEF Shift
  <2> QED  BY <2>1, <2>3, <2>4
<1>4. Levelled(gf, fs, Len(scopes'), g[2])
  BY <1>2, <1>3
<1>5. Fits(fs, gf, g, R2)
  BY <1>1, OffersFit
<1>6. \A u \in Uses' : u \in Uses
  BY DEF Uses
<1>7. stack[1].k \notin Linkers /\ stack[1].k # "close"
  BY <1>1 DEF Linkers
<1>8. Rebinds(g) /\ Relinks(R2) /\ Reuses(fs)
  BY <1>2, <1>6, <1>7, ScopesStay, LinksStay, UsesSame
<1>9. ty' \in Types /\ scopes' \in Seq(Bindings)
  BY <1>1, <1>2 DEF LinkingInv, Typed
<1> QED  BY <1>1, <1>2, <1>4, <1>5, <1>8, <1>9, Accepts

\* A scope is opened and closed.
LEMMA CheckSeqStmtKeeps ==
    ASSUME LinkingInv, CheckSeqStmt
    PROVE  LinkingInv'
<1>1. Top("check", "stmt") /\ UNCHANGED <<link, symbols, region, home>>
  BY DEF CheckSeqStmt, genVars
<1>2. /\ phase = "check" /\ Here \in Nodes /\ Here \in Nat /\ stack # <<>>
      /\ stack \in Seq(Frames)
      /\ tree[Here].form = "hole"
  BY <1>1, TopFrame DEF Hosts
<1>3. PICK R, g : Held(R, g)
  BY <1>2, IsHeld
<1>4. PICK e \in AllNames : e = ""
  BY NoName
<1>5. Shaped /\ fuel \in 0 .. MaxNodes /\ Regioned(R)
  BY <1>3 DEF LinkingInv, Typed, Held
<1>6. Grows(Here, 0) /\ tree'[Here].form = "seq" /\ Len(Kids(Here)) = 0
  <2>1. tree' = [tree EXCEPT ![Here] = Node("seq", e, "int")]
    BY <1>4, Zenon DEF CheckSeqStmt
  <2>2. Grows(Here, 0) /\ tree'[Here].form = "seq"
    BY <1>2, <1>5, <2>1, TypesAre, LeafGrows
  <2> QED  BY <1>2, <1>5, <2>2, NodesAre
<1>7. PICK m : m = 0
  OBVIOUS
<1>8. /\ Shaped' /\ \A u \in Uses' : u \in Uses \/ u = Here
      /\ \E R2 : /\ Continues(R, R2)
                 /\ \A i \in 1 .. m : \A n : n = Len(tree) + i => NewPart(n, i, "seq", R2)
  BY <1>5, <1>6, <1>7, NewParts
<1>9. PICK R2 : /\ Continues(R, R2)
                /\ \A i \in 1 .. m : \A n : n = Len(tree) + i => NewPart(n, i, "seq", R2)
  BY <1>8
<1>10. fuel' \in 0 .. MaxNodes
  <2>1. fuel' = IF fuel = 0 THEN 0 ELSE fuel - 1
    BY DEF CheckSeqStmt
  <2> QED  BY <1>5, <2>1, BoundsAssumption
<1>11. PICK a, b, c : a = Do("open", Here) /\ b = Do("seq", Here) /\ c = Do("close", Here)
  OBVIOUS
<1>12. /\ a \in Frames /\ a.k = "open" /\ a.n = Here
       /\ b \in Frames /\ b.k = "seq" /\ b.n = Here
       /\ c \in Frames /\ c.k = "close" /\ c.n = Here
  <2>1. "open" \in Kinds /\ "seq" \in Kinds /\ "close" \in Kinds /\ {} \in SUBSET AllTypes /\ 0 \in Nat
    BY DEF Kinds
  <2>2. a \in Frames /\ a.k = "open" /\ a.n = Here
    BY <1>2, <1>11, <2>1, FrameIs DEF Do
  <2>3. b \in Frames /\ b.k = "seq" /\ b.n = Here
    BY <1>2, <1>11, <2>1, FrameIs DEF Do
  <2>4. c \in Frames /\ c.k = "close" /\ c.n = Here
    BY <1>2, <1>11, <2>1, FrameIs DEF Do
  <2> QED  BY <2>2, <2>3, <2>4
<1>13. PICK fs : fs = <<a, b, c>>
  OBVIOUS
<1>14. /\ fs \in Seq(Frames) /\ Len(fs) = 3 /\ DOMAIN fs = {1, 2, 3}
       /\ fs[1] = a /\ fs[2] = b /\ fs[3] = c
  BY <1>12, <1>13
<1>15. \A i \in DOMAIN fs : (i = 1 /\ fs[i] = a) \/ (i = 2 /\ fs[i] = b) \/ (i = 3 /\ fs[i] = c)
  BY <1>14
<1>16. Push(fs)
  BY <1>11, <1>13 DEF CheckSeqStmt
<1>17. Offers(fs, m, R)
  <2>1. /\ {"open", "seq", "close"} \cap Visits = {} /\ {"open", "seq", "close"} \subseteq Kinds
        /\ {"open", "seq", "close"} \cap Finders = {}
    BY DEF Visits, Kinds, Finders
  <2>2. "seq" \in Hosts("open") /\ "seq" \in Hosts("seq") /\ "seq" \in Hosts("close")
    BY DEF Hosts
  <2>3. \A i \in DOMAIN fs : /\ fs[i].n = Here /\ fs[i].k \in Kinds \ Visits
                             /\ tree'[Here].form \in Hosts(fs[i].k) /\ fs[i].k \notin Finders
    BY <1>6, <1>12, <1>15, <2>1, <2>2
  <2>4. \A i \in DOMAIN fs : fs[i].k = "seq" =>
          i # Len(fs) /\ i + 1 \in DOMAIN fs /\ fs[i + 1].k = "close"
    BY <1>12, <1>14, <1>15
  <2> QED  BY <2>3, <2>4 DEF Offers
<1>18. PICK l, gf : l = g[1] /\ gf = <<l, l + 1, l + 1, l>>
  OBVIOUS
<1>19. Levelled(gf, fs, g[1], g[1])
  <2>1. l \in Nat \ {0}
    <3>1. PICK n : n = Len(scopes)
      OBVIOUS
    <3>2. Levelled(g, stack, n, 1)
      BY <1>3, <3>1 DEF Held
    <3> QED  BY <1>2, <1>18, <3>2, Running
  <2>2. Shift("open") = 1 /\ Shift("seq") = 0 /\ Shift("close") = -1
    BY DEF Shift
  <2>3. l + 1 = l + 1 + 0 /\ l = l + 1 + (-1) /\ l + 1 \in Nat \ {0}
    BY <2>1
  <2>4. gf[1] = l /\ gf[2] = l + 1 /\ gf[3] = l + 1 /\ gf[4] = l /\ DOMAIN gf = 1 .. 4
    BY <1>18
  <2>5. gf \in [1 .. 3 + 1 -> Nat \ {0}]
    BY <1>18, <2>1, <2>3
  <2>6. \A i \in DOMAIN fs : gf[i + 1] = gf[i] + Shift(fs[i].k)
    <3>1. gf[1 + 1] = gf[1] + Shift(a.k)
      BY <1>12, <2>2, <2>4
    <3>2. gf[2 + 1] = gf[2] + Shift(b.k)
      BY <1>12, <2>2, <2>3, <2>4
    <3>3. gf[3 + 1] = gf[3] + Shift(c.k)
      BY <1>12, <2>2, <2>3, <2>4
    <3> QED  BY <1>15, <3>1, <3>2, <3>3
  <2>7. gf[3 + 1] = l
    BY <2>4
  <2> QED  BY <1>14, <1>18, <2>4, <2>5, <2>6, <2>7 DEF Levelled
<1>20. FillersFit(fs, gf, g, R2)
  <2>1. \A i \in DOMAIN fs : fs[i].k \notin Fillers
    BY <1>12, <1>15 DEF Fillers
  <2> QED  BY <2>1 DEF FillersFit
<1> QED  BY <1>1, <1>3, <1>6, <1>8, <1>9, <1>10, <1>14, <1>16, <1>17, <1>19, <1>20, BlockKeeps

\* A scope is opened and closed around the four parts.
LEMMA CheckForStmtKeeps ==
    ASSUME LinkingInv, CheckForStmt
    PROVE  LinkingInv'
<1>1. Top("check", "stmt") /\ UNCHANGED <<link, symbols, region, home>> /\ "stmt" \in Visits
  BY DEF CheckForStmt, genVars, Visits
<1>2. /\ phase = "check" /\ Here \in Nodes /\ Here \in Nat /\ stack # <<>>
      /\ stack \in Seq(Frames)
  BY <1>1, TopFrame
<1>3. PICK R, g : Held(R, g)
  BY <1>2, IsHeld
<1>4. PICK e \in AllNames : e = ""
  BY NoName
<1>5. Fill("for", e, "int", 4)
  BY <1>4, Zenon DEF CheckForStmt
<1>6. 4 \in Arity("for") /\ 4 \in Nat /\ 1 \in 1 .. 4 /\ 2 \in 1 .. 4 /\ 3 \in 1 .. 4 /\ 4 \in 1 .. 4
  BY DEF Arity
<1>7. /\ Shaped' /\ fuel' \in 0 .. MaxNodes /\ tree'[Here].form = "for"
      /\ \A u \in Uses' : u \in Uses \/ u = Here
      /\ \E R2 : /\ Continues(R, R2)
                 /\ \A i \in 1 .. 4 : \A n : n = Len(tree) + i => NewPart(n, i, "for", R2)
  BY <1>1, <1>3, <1>5, <1>6, TypesAre, Fills
<1>8. PICK R2 : /\ Continues(R, R2)
                /\ \A i \in 1 .. 4 : \A n : n = Len(tree) + i => NewPart(n, i, "for", R2)
  BY <1>7
<1>9. PICK a, b, c, d, f, h : /\ a = Do("open", Here) /\ b = Stmt(Kid(1)) /\ c = Exp(Kid(2), Types)
                              /\ d = Stmt(Kid(3)) /\ f = Stmt(Kid(4)) /\ h = Do("close", Here)
  OBVIOUS
<1>10. /\ a \in Frames /\ a.k = "open" /\ a.n = Here
       /\ h \in Frames /\ h.k = "close" /\ h.n = Here
  <2>1. "open" \in Kinds /\ "close" \in Kinds /\ {} \in SUBSET AllTypes /\ 0 \in Nat
    BY DEF Kinds
  <2>2. a \in Frames /\ a.k = "open" /\ a.n = Here
    BY <1>2, <1>9, <2>1, FrameIs DEF Do
  <2>3. h \in Frames /\ h.k = "close" /\ h.n = Here
    BY <1>2, <1>9, <2>1, FrameIs DEF Do
  <2> QED  BY <2>2, <2>3
<1>11. /\ b \in Frames /\ b.k = "stmt" /\ b.n = Len(tree) + 1
       /\ c \in Frames /\ c.k = "exp" /\ c.n = Len(tree) + 2
       /\ d \in Frames /\ d.k = "stmt" /\ d.n = Len(tree) + 3
       /\ f \in Frames /\ f.k = "stmt" /\ f.n = Len(tree) + 4
  <2>1. PICK i, j, k, l : i = 1 /\ j = 2 /\ k = 3 /\ l = 4
    OBVIOUS
  <2>2. i \in Nat /\ j \in Nat /\ k \in Nat /\ l \in Nat
    BY <2>1
  <2>3. Types \in SUBSET AllTypes
    BY TypesAre
  <2>4. Stmt(Kid(i)) \in Frames /\ Stmt(Kid(i)).k = "stmt" /\ Stmt(Kid(i)).n = Len(tree) + i
    BY <2>2, <2>3, VisitIs
  <2>5. Exp(Kid(j), Types) \in Frames /\ Exp(Kid(j), Types).k = "exp" /\ Exp(Kid(j), Types).n = Len(tree) + j
    BY <2>2, <2>3, VisitIs
  <2>6. Stmt(Kid(k)) \in Frames /\ Stmt(Kid(k)).k = "stmt" /\ Stmt(Kid(k)).n = Len(tree) + k
    BY <2>2, <2>3, VisitIs
  <2>7. Stmt(Kid(l)) \in Frames /\ Stmt(Kid(l)).k = "stmt" /\ Stmt(Kid(l)).n = Len(tree) + l
    BY <2>2, <2>3, VisitIs
  <2> QED  BY <1>9, <2>1, <2>4, <2>5, <2>6, <2>7
<1>12. PICK fs : fs = <<a, b, c, d, f, h>>
  OBVIOUS
<1>13. /\ fs \in Seq(Frames) /\ Len(fs) = 6 /\ DOMAIN fs = {1, 2, 3, 4, 5, 6}
       /\ fs[1] = a /\ fs[2] = b /\ fs[3] = c /\ fs[4] = d /\ fs[5] = f /\ fs[6] = h
  BY <1>10, <1>11, <1>12
<1>14. \A i \in DOMAIN fs :
          \/ i = 1 /\ fs[i] = a
          \/ i = 2 /\ fs[i] = b
          \/ i = 3 /\ fs[i] = c
          \/ i = 4 /\ fs[i] = d
          \/ i = 5 /\ fs[i] = f
          \/ i = 6 /\ fs[i] = h
  BY <1>13
<1>15. Push(fs)
  BY <1>9, <1>12 DEF CheckForStmt
<1>16. Offers(fs, 4, R)
  <2>1. /\ {"open", "close"} \cap Visits = {} /\ {"open", "close"} \subseteq Kinds
        /\ {"open", "close"} \cap Finders = {} /\ {"stmt", "exp"} \subseteq Visits
    BY DEF Visits, Kinds, Finders
  <2>2. "for" \in Hosts("open") /\ "for" \in Hosts("close")
    BY DEF Hosts
  <2>3. /\ b.k \in Visits /\ \E j \in 1 .. 4 : b.n = Len(tree) + j
        /\ c.k \in Visits /\ \E j \in 1 .. 4 : c.n = Len(tree) + j
        /\ d.k \in Visits /\ \E j \in 1 .. 4 : d.n = Len(tree) + j
        /\ f.k \in Visits /\ \E j \in 1 .. 4 : f.n = Len(tree) + j
    <3>1. b.k \in Visits /\ \E j \in 1 .. 4 : b.n = Len(tree) + j
      BY <1>6, <1>11, <2>1
    <3>2. c.k \in Visits /\ \E j \in 1 .. 4 : c.n = Len(tree) + j
      BY <1>6, <1>11, <2>1
    <3>3. d.k \in Visits /\ \E j \in 1 .. 4 : d.n = Len(tree) + j
      BY <1>6, <1>11, <2>1
    <3>4. f.k \in Visits /\ \E j \in 1 .. 4 : f.n = Len(tree) + j
      BY <1>6, <1>11, <2>1
    <3> QED  BY <3>1, <3>2, <3>3, <3>4
  <2>4. \A i \in DOMAIN fs :
          \/ fs[i].k \in Visits /\ \E j \in 1 .. 4 : fs[i].n = Len(tree) + j
          \/ /\ fs[i].n = Here /\ fs[i].k \in Kinds \ Visits
             /\ tree'[Here].form \in Hosts(fs[i].k) /\ fs[i].k \notin Finders
    BY <1>7, <1>10, <1>14, <2>1, <2>2, <2>3
  <2>5. a.k \notin Visits /\ h.k \notin Visits /\ b.n # c.n /\ b.n # d.n /\ b.n # f.n
        /\ c.n # d.n /\ c.n # f.n /\ d.n # f.n
    <3>1. Len(tree) \in Nat
      BY NodesAre DEF LinkingInv
    <3> QED  BY <1>10, <1>11, <2>1, <3>1
  <2>6. \A i, j \in DOMAIN fs :
          fs[i].k \in Visits /\ fs[j].k \in Visits /\ fs[i].n = fs[j].n => i = j
    BY <1>14, <2>5
  <2>7. \A i \in DOMAIN fs : fs[i].k # "seq"
    BY <1>10, <1>11, <1>14
  <2> QED  BY <2>4, <2>6, <2>7 DEF Offers
<1>17. PICK l, gf : l = g[1] /\ gf = <<l, l + 1, l + 1, l + 1, l + 1, l + 1, l>>
  OBVIOUS
<1>18. l \in Nat \ {0}
  <2>1. PICK n : n = Len(scopes)
    OBVIOUS
  <2>2. Levelled(g, stack, n, 1)
    BY <1>3, <2>1 DEF Held
  <2> QED  BY <1>2, <1>17, <2>2, Running
<1>19. /\ gf[1] = l /\ gf[2] = l + 1 /\ gf[3] = l + 1 /\ gf[4] = l + 1 /\ gf[5] = l + 1
       /\ gf[6] = l + 1 /\ gf[7] = l
  BY <1>17
<1>20. Levelled(gf, fs, g[1], g[1])
  <2>1. Shift("open") = 1 /\ Shift("stmt") = 0 /\ Shift("exp") = 0 /\ Shift("close") = -1
    BY DEF Shift
  <2>2. l + 1 = l + 1 + 0 /\ l = l + 1 + (-1) /\ l + 1 \in Nat \ {0}
    BY <1>18
  <2>3. gf \in [1 .. 6 + 1 -> Nat \ {0}]
    BY <1>17, <1>18, <2>2
  <2>4. \A i \in DOMAIN fs : gf[i + 1] = gf[i] + Shift(fs[i].k)
    <3>1. gf[1 + 1] = gf[1] + Shift(a.k)
      BY <1>10, <1>19, <2>1
    <3>2. gf[2 + 1] = gf[2] + Shift(b.k)
      BY <1>11, <1>19, <2>1, <2>2
    <3>3. gf[3 + 1] = gf[3] + Shift(c.k)
      BY <1>11, <1>19, <2>1, <2>2
    <3>4. gf[4 + 1] = gf[4] + Shift(d.k)
      BY <1>11, <1>19, <2>1, <2>2
    <3>5. gf[5 + 1] = gf[5] + Shift(f.k)
      BY <1>11, <1>19, <2>1, <2>2
    <3>6. gf[6 + 1] = gf[6] + Shift(h.k)
      BY <1>10, <1>19, <2>1, <2>2
    <3> QED  BY <1>14, <3>1, <3>2, <3>3, <3>4, <3>5, <3>6
  <2>5. gf[6 + 1] = l
    BY <1>19
  <2> QED  BY <1>13, <1>17, <1>19, <2>3, <2>4, <2>5 DEF Levelled
<1>21. FillersFit(fs, gf, g, R2)
  <2>1. /\ NewPart(b.n, 1, "for", R2) /\ NewPart(c.n, 2, "for", R2)
        /\ NewPart(d.n, 3, "for", R2) /\ NewPart(f.n, 4, "for", R2)
    BY <1>6, <1>8, <1>11
  <2>2. PICK r : r = R2[Here]
    OBVIOUS
  <2>3. r \in Regions
    BY <1>2, <1>8, <2>2 DEF Continues, Regioned
  <2>4. R2[b.n] = r /\ R2[f.n] = R2[d.n] /\ R2[d.n] \in Regions
    <3>1. Entered("for", 1) = 0 /\ Entered("for", 3) = 4 /\ Entered("for", 4) = 4
      BY DEF Entered
    <3>2. R2[b.n] = r
      BY <2>1, <2>2, <3>1 DEF NewPart, Sub
    <3>3. R2[d.n] = Sub(r, "for", Here, 3) /\ R2[f.n] = Sub(r, "for", Here, 4)
      BY <2>1, <2>2 DEF NewPart
    <3>4. Sub(r, "for", Here, 3) = Sub(r, "for", Here, 4)
      BY <3>1 DEF Sub
    <3>5. Sub(r, "for", Here, 3) \in Regions
      BY <1>2, <2>3, SubRules
    <3> QED  BY <3>2, <3>3, <3>4, <3>5
  <2>5. /\ Before(r, R2[a.n]) /\ Before(r, R2[b.n]) /\ Before(r, R2[c.n])
        /\ Before(r, R2[d.n]) /\ Before(r, R2[f.n]) /\ Before(R2[d.n], R2[f.n])
        /\ Before(R2[d.n], R2[d.n])
    <3>1. Before(r, r) /\ Before(R2[d.n], R2[d.n])
      BY <2>3, <2>4, BeforeRules
    <3>2. Before(r, R2[b.n]) /\ Before(r, R2[c.n]) /\ Before(r, R2[d.n]) /\ Before(r, R2[f.n])
      BY <2>1, <2>2 DEF NewPart
    <3>3. a.n = Here
      BY <1>10
    <3> QED  BY <2>2, <2>4, <3>1, <3>2, <3>3
  <2>6. ASSUME NEW i \in {2, 4, 5}
        PROVE  Closed(gf, fs, gf[i], i, 6)
    <3>1. i <= 6 /\ gf[i] = l + 1
      BY <1>19
    <3>2. fs[6].k = "close" /\ gf[6] = l + 1 /\ 6 \in DOMAIN fs /\ 6 <= 6
      BY <1>10, <1>13, <1>19
    <3> QED  BY <3>1, <3>2 DEF Closed
  <2>7. \A i \in DOMAIN fs : fs[i].k \in Fillers => i \in {2, 4, 5}
    BY <1>10, <1>11, <1>14 DEF Fillers
  <2>8. ASSUME NEW i \in {2, 4, 5}, NEW j \in DOMAIN fs, i < j, ~Closed(gf, fs, gf[i], i, j)
        PROVE  Before(R2[fs[i].n], R2[fs[j].n])
    <3>1. j # 6
      BY <2>6, <2>8
    <3>2. CASE i = 2
      <4>1. j = 3 \/ j = 4 \/ j = 5
        BY <1>13, <2>8, <3>1, <3>2
      <4> QED  BY <1>13, <2>4, <2>5, <3>2, <4>1
    <3>3. CASE i = 4
      <4>1. j = 5
        BY <1>13, <2>8, <3>1, <3>3
      <4> QED  BY <1>13, <2>5, <3>3, <4>1
    <3>4. CASE i = 5
      BY <1>13, <2>8, <3>1, <3>4
    <3> QED  BY <3>2, <3>3, <3>4
  <2> QED  BY <1>13, <2>6, <2>7, <2>8 DEF FillersFit
<1>22. tree'[Here].form \in {"seq", "for"}
  BY <1>7
<1> QED  BY <1>1, <1>3, <1>7, <1>8, <1>13, <1>15, <1>16, <1>20, <1>21, <1>22, BlockKeeps

\* One more statement, then the rest of the block.
LEMMA SeqNextKeeps ==
    ASSUME LinkingInv, SeqNext
    PROVE  LinkingInv'
<1>1. Top("check", "seq") /\ UNCHANGED <<fuel, link, symbols, region, home>>
  BY DEF SeqNext, genVars
<1>2. /\ phase = "check" /\ Here \in Nodes /\ Here \in Nat /\ stack # <<>> /\ stack[1] \in Frames
      /\ stack \in Seq(Frames) /\ stack[1].k = "seq" /\ tree[Here].form = "seq"
      /\ DOMAIN stack = 1 .. Len(stack) /\ Len(stack) \in Nat /\ Len(stack) >= 1
  BY <1>1, TopFrame DEF Hosts
<1>3. PICK R, g : Held(R, g)
  BY <1>2, IsHeld
<1>4. Shaped /\ fuel' \in 0 .. MaxNodes /\ Regioned(R) /\ Stacked(R, g)
  BY <1>1, <1>3 DEF LinkingInv, Typed, Held
<1>5. Grows(Here, 1) /\ tree'[Here].form = "seq"
  <2>1. tree' = Append([tree EXCEPT ![Here].kids = Append(@, Kid(1))], Hole)
    BY DEF SeqNext
  <2> QED  BY <1>2, <1>4, <2>1, SeqGrows
<1>6. PICK h, c : h = Here /\ c = Len(Kids(Here))
  OBVIOUS
<1>7. /\ Shaped' /\ \A u \in Uses' : u \in Uses \/ u = Here
      /\ \E R2 : /\ Continues(R, R2)
                 /\ \A i \in 1 .. 1 : R2[Len(tree) + i] =
                       Sub(R[Here], tree'[Here].form, Here, Len(Kids(Here)) + i)
  BY <1>4, <1>5, TreeGoesOn
<1>8. PICK R2 : /\ Continues(R, R2)
                /\ \A i \in 1 .. 1 : R2[Len(tree) + i] =
                      Sub(R[h], "seq", h, c + i)
  BY <1>5, <1>6, <1>7
<1>9. PICK n : n = Len(tree) + 1
  OBVIOUS
<1>10. n \in Nodes' /\ n \notin Nodes /\ tree'[n].form = "hole"
  <2>1. 1 \in 1 .. 1 /\ Grows(h, 1)
    BY <1>5, <1>6
  <2>2. n \in Nodes' /\ n \notin Nodes /\ tree'[n] = Hole
    BY <1>4, <1>9, <2>1, GrownHoles
  <2> QED  BY <2>2, HoleIsNode
<1>11. R2[n] = R[h] /\ R2[h] = R[h] /\ R2[h] \in Regions /\ Before(R2[h], R2[h]) /\ h \in Nodes'
  <2>1. \A i : Entered("seq", i) = 0
    BY DEF Entered
  <2>2. 1 \in 1 .. 1
    OBVIOUS
  <2>3. R2[n] = Sub(R[h], "seq", h, c + 1)
    BY <1>8, <1>9, <2>2
  <2>4. R2[n] = R[h]
    BY <2>1, <2>3 DEF Sub
  <2>5. R2[h] = R[h] /\ R2[h] \in Regions /\ h \in Nodes'
    BY <1>2, <1>4, <1>6, <1>8 DEF Continues, Regioned
  <2> QED  BY <2>4, <2>5, BeforeRules
<1>12. PICK a, b : a = Stmt(Kid(1)) /\ b = stack[1]
  OBVIOUS
<1>13. a \in Frames /\ a.k = "stmt" /\ a.n = n
  <2>1. PICK i : i = 1
    OBVIOUS
  <2>2. i \in Nat /\ Types \in SUBSET AllTypes
    BY <2>1, TypesAre
  <2>3. Stmt(Kid(i)) \in Frames /\ Stmt(Kid(i)).k = "stmt" /\ Stmt(Kid(i)).n = Len(tree) + i
    BY <2>2, VisitIs
  <2> QED  BY <1>9, <1>12, <2>1, <2>3
<1>14. b \in Frames /\ b.k = "seq" /\ b.n = h
  BY <1>2, <1>6, <1>12 DEF Here
<1>15. PICK fs : fs = <<a, b>>
  OBVIOUS
<1>16. fs \in Seq(Frames) /\ Len(fs) = 2 /\ DOMAIN fs = {1, 2} /\ fs[1] = a /\ fs[2] = b
  BY <1>13, <1>14, <1>15
<1>17. Push(fs)
  BY <1>12, <1>15 DEF SeqNext
<1>18. 2 \in DOMAIN stack /\ stack[2].k = "close"
  <2>1. \A i \in DOMAIN stack : stack[i].k = "seq" =>
          i + 1 \in DOMAIN stack /\ stack[i + 1].k = "close"
    BY <1>4 DEF Stacked
  <2>2. 1 \in DOMAIN stack
    BY <1>2
  <2>3. 1 + 1 \in DOMAIN stack /\ stack[1 + 1].k = "close"
    BY <1>2, <2>1, <2>2
  <2> QED  BY <2>3
<1>19. g[2] = g[1]
  <2>1. PICK l : l = Len(scopes)
    OBVIOUS
  <2>2. Levelled(g, stack, l, 1)
    BY <1>3, <2>1 DEF Held
  <2>3. l \in Nat \ {0} /\ g[1] = l /\ g[2] = l + Shift(stack[1].k)
    BY <1>2, <2>2, Running
  <2>4. Shift(stack[1].k) = 0
    BY <1>2 DEF Shift
  <2> QED  BY <2>3, <2>4
<1>20. PICK gf : gf = [i \in 1 .. Len(fs) + 1 |-> g[1]]
  OBVIOUS
<1>21. gf[1] = g[1] /\ gf[2] = g[1]
  BY <1>16, <1>20
<1>22. Fits(fs, gf, g, R2)
  <2>1. \A i \in DOMAIN fs : (i = 1 /\ fs[i] = a) \/ (i = 2 /\ fs[i] = b)
    BY <1>16
  <2>2. Hosted(a)' /\ Hosted(b)'
    <3>1. "stmt" \in Kinds /\ "seq" \in Kinds /\ Hosts("stmt") = {"hole"} /\ Hosts("seq") = {"seq"}
          /\ "stmt" \notin Finders /\ "seq" \notin Finders
      BY DEF Kinds, Hosts, Finders
    <3>2. tree'[h].form = "seq"
      BY <1>5, <1>6
    <3> QED  BY <1>10, <1>11, <1>13, <1>14, <3>1, <3>2 DEF Hosted
  <2>3. Before(R2[h], R2[a.n]) /\ Before(R2[h], R2[b.n]) /\ Before(R2[a.n], R2[b.n])
    BY <1>11, <1>13, <1>14
  <2>4. /\ a.n \notin Nodes /\ a.k \notin Finders /\ b.k \notin Finders /\ b.k \notin Visits
        /\ b.k \notin Fillers /\ a.k # "seq"
    BY <1>10, <1>13, <1>14 DEF Finders, Visits, Fillers
  <2>5. \A i \in DOMAIN fs : Hosted(fs[i])' /\ Before(R2[Here], R2[fs[i].n])
    BY <1>6, <2>1, <2>2, <2>3
  <2>6. \A i \in DOMAIN fs : fs[i].k \in Visits => fs[i].n \notin Nodes
    BY <2>1, <2>4
  <2>7. \A i, j \in DOMAIN fs :
          fs[i].k \in Visits /\ fs[j].k \in Visits /\ fs[i].n = fs[j].n => i = j
    BY <2>1, <2>4
  <2>8. \A i \in DOMAIN fs : fs[i].k = "seq" => i = Len(fs)
    BY <1>16, <2>1, <2>4
  <2>9. \A i \in DOMAIN fs : fs[i].k \notin Finders
    BY <2>1, <2>4
  <2>10. ASSUME NEW i \in DOMAIN fs, fs[i].k \in Fillers
         PROVE  /\ \A j \in DOMAIN fs : i < j => Before(R2[fs[i].n], R2[fs[j].n])
                /\ g[2] = gf[i]
    <3>1. i = 1
      BY <2>1, <2>4, <2>10
    <3> QED  BY <1>16, <1>19, <1>21, <2>3, <3>1
  <2> QED  BY <1>18, <2>5, <2>6, <2>7, <2>8, <2>9, <2>10 DEF Fits
<1>23. Fits(fs, [i \in 1 .. Len(fs) + 1 |-> g[1]], g, R2)
  BY <1>20, <1>22
<1>24. Relinks(R2) /\ Reuses(fs)
  <2>1. \A u \in Uses' : u \in Uses
    BY <1>5, <1>7 DEF Uses
  <2>2. stack[1].k \notin Linkers
    BY <1>2 DEF Linkers
  <2> QED  BY <1>1, <2>1, <2>2, LinksStay, UsesSame
<1>25. /\ stack[1].k \notin {"open", "close"}
       /\ \A i \in DOMAIN fs : Shift(fs[i].k) = 0
  <2>1. Shift("stmt") = 0 /\ Shift("seq") = 0
    BY DEF Shift
  <2> QED  BY <1>2, <1>13, <1>14, <1>16, <2>1
<1> QED  BY <1>1, <1>2, <1>3, <1>4, <1>7, <1>8, <1>16, <1>17, <1>23, <1>24, <1>25, Pushes

\* Links stay right when nothing of them changes.
LEMMA LinksRightStays ==
    ASSUME NEW R, LinksRight(R), UNCHANGED <<tree, link>>
    PROVE  LinksRight(R)'
BY DEF LinksRight, Uses, Nodes, Variable, IsArray, IsParam, Usable, Exempt, Kids

\* The typechecker is done: every use is linked.
LEMMA CheckEndKeeps ==
    ASSUME LinkingInv, CheckEnd
    PROVE  LinkingInv'
<1>1. /\ phase = "check" /\ stack = <<>> /\ phase' = "gen" /\ stack' = <<Do("seq", Body)>>
      /\ UNCHANGED <<tree, fuel, err, ty, link, region>>
      /\ symbols' = {d \in Nodes : IsParam(d)} /\ home' = [d \in symbols' |-> <<>>]
  BY DEF CheckEnd, treeVars
<1>2. /\ Shaped /\ region = <<>> /\ fuel \in 0 .. MaxNodes /\ err \in Errors /\ ty \in Types
      /\ DOMAIN link \subseteq Uses /\ \A u \in DOMAIN link : link[u] \in Nodes
  BY <1>1 DEF LinkingInv, Typed
<1>3. PICK R, g : Regioned(R) /\ LinksRight(R) /\ UsesAwaited
  BY <1>1, IsHeld DEF Held
<1>4. Continues(R, R) /\ Shaped' /\ Nodes' = Nodes /\ Uses' = Uses
  BY <1>1, <1>2, <1>3, TreeStays
<1>5. Regioned(R)' /\ LinksRight(R)'
  BY <1>1, <1>3, <1>4, LinksRightStays DEF Continues
<1>6. Uses' \subseteq DOMAIN link'
  <2>1. DOMAIN stack = {}
    BY <1>1
  <2> QED  BY <1>1, <1>3, <1>4, <2>1 DEF UsesAwaited
<1>7. PICK f : f = Do("seq", Body)
  OBVIOUS
<1>8. f \in Frames /\ f.k = "seq" /\ f.n = Body /\ Body \in Nodes' /\ tree'[Body].form = "seq"
  <2>1. "seq" \in Kinds /\ {} \in SUBSET AllTypes /\ 0 \in Nat /\ Body \in Nat
    BY DEF Kinds, Body
  <2>2. f \in Frames /\ f.k = "seq" /\ f.n = Body
    BY <1>7, <2>1, FrameIs DEF Do
  <2> QED  BY <1>4, <2>2 DEF Shaped
<1>9. PICK s : s = <<f>>
  OBVIOUS
<1>10. s \in Seq(Frames) /\ Len(s) = 1 /\ DOMAIN s = {1} /\ s[1] = f /\ stack' = s
  BY <1>1, <1>7, <1>8, <1>9
<1>11. Leads(stack, region, <<>>, R)'
  <2>1. R[Body] = <<>> /\ <<>> \in Regions
    BY <1>3 DEF Regioned, Regions
  <2>2. PICK h : h = [i \in 1 .. 2 |-> <<>>]
    OBVIOUS
  <2>3. h \in [1 .. 1 + 1 -> Regions] /\ h[1] = <<>> /\ h[1 + 1] = <<>>
    BY <2>1, <2>2
  <2>4. "seq" \in GenHosts("seq")
    BY DEF GenHosts
  <2>5. \A r : r = <<>> => Runs(f, r, r, R)'
    BY <1>8, <2>1, <2>4 DEF Runs
  <2>6. \A i \in DOMAIN s : Runs(s[i], h[i], h[i + 1], R)'
    BY <1>10, <2>3, <2>5
  <2>7. Follows(h, s, <<>>, <<>>, R)'
    BY <1>10, <2>3, <2>6 DEF Follows
  <2>8. region' = <<>>
    BY <1>1, <1>2
  <2> QED  BY <1>10, <2>7, <2>8 DEF Leads
<1>12. Homes(R)'
  <2>1. \A d \in symbols' : d \in Nodes' /\ tree'[d].form # "arraydecl" /\ home'[d] = <<>>
    BY <1>1, <1>4 DEF IsParam, ParamForms
  <2> QED  BY <2>1 DEF Homes
<1>13. Generating'
  BY <1>5, <1>6, <1>11, <1>12 DEF Generating
<1>14. Checking'
  BY <1>1 DEF Checking
<1>15. Typed'
  <2>1. \A i \in DOMAIN stack' : stack'[i].n \in Nodes'
    BY <1>8, <1>10
  <2>2. "gen" \in Phases /\ "gen" # "check"
    BY DEF Phases
  <2>3. DOMAIN home' = symbols'
    BY <1>1
  <2> QED  BY <1>1, <1>2, <1>4, <1>10, <2>1, <2>2, <2>3 DEF Typed
<1> QED  BY <1>4, <1>13, <1>14, <1>15 DEF LinkingInv

-----------------------------------------------------------------------------
(* The walk of the code generator. *)

\* Nothing to do leaves the builder where it is.
LEMMA LeadsNone ==
    ASSUME NEW R, NEW r \in Regions
    PROVE  Leads(<<>>, r, r, R)
<1>1. PICK h : h = [i \in 1 .. Len(<<>>) + 1 |-> r]
  OBVIOUS
<1>2. DOMAIN <<>> = {} /\ Len(<<>>) = 0 /\ 1 \in 1 .. 1 /\ 0 + 1 = 1
  OBVIOUS
<1>3. h \in [1 .. Len(<<>>) + 1 -> Regions] /\ h[1] = r /\ h[Len(<<>>) + 1] = r
  BY <1>1, <1>2
<1>4. Follows(h, <<>>, r, r, R)
  BY <1>2, <1>3 DEF Follows
<1> QED  BY <1>4 DEF Leads

\* One frame to do.
LEMMA LeadsOne ==
    ASSUME NEW R, NEW r \in Regions, NEW q \in Regions, NEW f \in Frames, Runs(f, r, q, R)
    PROVE  <<f>> \in Seq(Frames) /\ Leads(<<f>>, r, q, R)
<1>1. PICK s, h : s = <<f>> /\ h = <<r, q>>
  OBVIOUS
<1>2. s \in Seq(Frames) /\ Len(s) = 1 /\ DOMAIN s = {1} /\ s[1] = f
  BY <1>1
<1>3. h \in [1 .. 1 + 1 -> Regions] /\ h[1] = r /\ h[1 + 1] = q
  BY <1>1
<1>4. \A i \in DOMAIN s : Runs(s[i], h[i], h[i + 1], R)
  BY <1>2, <1>3
<1>5. Follows(h, s, r, q, R)
  BY <1>2, <1>3, <1>4 DEF Follows
<1> QED  BY <1>1, <1>2, <1>5 DEF Leads

\* Frames one after the other.
LEMMA LeadsOn ==
    ASSUME NEW R, NEW a \in Seq(Frames), NEW b \in Seq(Frames), NEW r, NEW p, NEW q,
           Leads(a, r, p, R), Leads(b, p, q, R)
    PROVE  a \o b \in Seq(Frames) /\ Leads(a \o b, r, q, R)
<1>1. PICK ha : Follows(ha, a, r, p, R)
  BY DEF Leads
<1>2. PICK hb : Follows(hb, b, p, q, R)
  BY DEF Leads
<1>3. PICK t : t = a \o b
  OBVIOUS
<1>4. /\ a \o b \in Seq(Frames) /\ Len(a \o b) = Len(a) + Len(b)
      /\ \A i \in 1 .. Len(a \o b) : (a \o b)[i] = IF i <= Len(a) THEN a[i] ELSE b[i - Len(a)]
  BY ConcatProperties
<1>5. /\ t \in Seq(Frames) /\ Len(t) = Len(a) + Len(b) /\ Len(a) \in Nat /\ Len(b) \in Nat
      /\ \A i \in 1 .. Len(t) : t[i] = IF i <= Len(a) THEN a[i] ELSE b[i - Len(a)]
      /\ DOMAIN t = 1 .. Len(t) /\ DOMAIN a = 1 .. Len(a) /\ DOMAIN b = 1 .. Len(b)
  BY <1>3, <1>4
<1>6. /\ ha \in [1 .. Len(a) + 1 -> Regions] /\ ha[1] = r /\ ha[Len(a) + 1] = p
      /\ \A i \in DOMAIN a : Runs(a[i], ha[i], ha[i + 1], R)
      /\ hb \in [1 .. Len(b) + 1 -> Regions] /\ hb[1] = p /\ hb[Len(b) + 1] = q
      /\ \A i \in DOMAIN b : Runs(b[i], hb[i], hb[i + 1], R)
  BY <1>1, <1>2 DEF Follows
<1>7. PICK h : h = [i \in 1 .. Len(t) + 1 |-> IF i <= Len(a) + 1 THEN ha[i] ELSE hb[i - Len(a)]]
  OBVIOUS
<1>8. ASSUME NEW i \in 1 .. Len(a) + 1
      PROVE  i \in 1 .. Len(t) + 1 /\ h[i] = ha[i] /\ h[i] \in Regions
  <2>1. i \in 1 .. Len(t) + 1 /\ i <= Len(a) + 1
    BY <1>5
  <2> QED  BY <1>6, <1>7, <2>1
<1>9. ASSUME NEW j \in 1 .. Len(b) + 1
      PROVE  /\ Len(a) + j \in 1 .. Len(t) + 1 /\ h[Len(a) + j] = hb[j] /\ h[Len(a) + j] \in Regions
  <2>1. Len(a) + j \in 1 .. Len(t) + 1 /\ Len(a) + j - Len(a) = j
    BY <1>5
  <2>2. CASE j = 1
    <3>1. Len(a) + j \in 1 .. Len(a) + 1 /\ Len(a) + j = Len(a) + 1
      BY <1>5, <2>2
    <3> QED  BY <1>6, <1>8, <2>1, <2>2, <3>1
  <2>3. CASE j # 1
    <3>1. ~(Len(a) + j <= Len(a) + 1)
      BY <1>5, <2>3
    <3>2. h[Len(a) + j] = hb[j]
      BY <1>7, <2>1, <3>1
    <3>3. hb[j] \in Regions
      BY <1>6
    <3> QED  BY <2>1, <3>2, <3>3
  <2> QED  BY <2>2, <2>3
<1>10. ASSUME NEW i \in 1 .. Len(t) + 1
       PROVE  h[i] \in Regions
  <2>1. CASE i <= Len(a) + 1
    <3>1. i \in 1 .. Len(a) + 1
      BY <1>5, <2>1
    <3> QED  BY <1>8, <3>1
  <2>2. CASE ~(i <= Len(a) + 1)
    <3>1. PICK j : j = i - Len(a)
      OBVIOUS
    <3>2. j \in 1 .. Len(b) + 1 /\ Len(a) + j = i
      BY <1>5, <2>2, <3>1
    <3> QED  BY <1>9, <3>2
  <2> QED  BY <2>1, <2>2
<1>11. h \in [1 .. Len(t) + 1 -> Regions]
  BY <1>7, <1>10
<1>12. h[1] = r /\ h[Len(t) + 1] = q
  <2>1. 1 \in 1 .. Len(a) + 1 /\ Len(b) + 1 \in 1 .. Len(b) + 1 /\ Len(a) + (Len(b) + 1) = Len(t) + 1
    BY <1>5
  <2>2. h[1] = r
    BY <1>6, <1>8, <2>1
  <2>3. h[Len(a) + (Len(b) + 1)] = q
    BY <1>6, <1>9, <2>1
  <2> QED  BY <2>1, <2>2, <2>3
<1>13. ASSUME NEW i \in DOMAIN t
       PROVE  Runs(t[i], h[i], h[i + 1], R)
  <2>1. CASE i <= Len(a)
    <3>1. i \in DOMAIN a /\ i \in 1 .. Len(a) + 1 /\ i + 1 \in 1 .. Len(a) + 1 /\ i \in 1 .. Len(t)
      BY <1>5, <2>1
    <3>2. t[i] = a[i]
      BY <1>5, <2>1, <3>1
    <3>3. h[i] = ha[i] /\ h[i + 1] = ha[i + 1]
      BY <1>8, <3>1
    <3> QED  BY <1>6, <3>1, <3>2, <3>3
  <2>2. CASE ~(i <= Len(a))
    <3>1. PICK j : j = i - Len(a)
      OBVIOUS
    <3>2. /\ j \in DOMAIN b /\ j \in 1 .. Len(b) + 1 /\ j + 1 \in 1 .. Len(b) + 1
          /\ Len(a) + j = i /\ Len(a) + (j + 1) = i + 1 /\ i \in 1 .. Len(t)
      BY <1>5, <2>2, <3>1
    <3>3. t[i] = b[j]
      BY <1>5, <2>2, <3>1, <3>2
    <3>4. h[Len(a) + j] = hb[j] /\ h[Len(a) + (j + 1)] = hb[j + 1]
      BY <1>9, <3>2
    <3> QED  BY <1>6, <3>2, <3>3, <3>4
  <2> QED  BY <2>1, <2>2
<1>14. Follows(h, t, r, q, R)
  BY <1>11, <1>12, <1>13 DEF Follows
<1> QED  BY <1>3, <1>5, <1>14 DEF Leads

\* The running frame, and the frames after it.
LEMMA LeadsTail ==
    ASSUME NEW R, NEW s \in Seq(Frames), s # <<>>, NEW r, NEW q, Leads(s, r, q, R)
    PROVE  /\ Tail(s) \in Seq(Frames)
           /\ \E p \in Regions : /\ r \in Regions /\ Runs(s[1], r, p, R)
                                 /\ Leads(Tail(s), p, q, R)
<1>1. PICK h : Follows(h, s, r, q, R)
  BY DEF Leads
<1>2. PICK t : t = Tail(s)
  OBVIOUS
<1>3. /\ t \in Seq(Frames) /\ Len(t) = Len(s) - 1 /\ Len(s) >= 1 /\ Len(s) \in Nat
      /\ \A i \in 1 .. Len(t) : t[i] = s[i + 1]
      /\ DOMAIN t = 1 .. Len(t) /\ DOMAIN s = 1 .. Len(s)
  <2>1. /\ Tail(s) \in Seq(Frames) /\ Len(Tail(s)) = Len(s) - 1 /\ Len(s) >= 1 /\ Len(s) \in Nat
        /\ \A i \in 1 .. Len(Tail(s)) : Tail(s)[i] = s[i + 1]
    BY EmptySeq, HeadTailProperties
  <2> QED  BY <1>2, <2>1
<1>4. /\ h \in [1 .. Len(s) + 1 -> Regions] /\ h[1] = r /\ h[Len(s) + 1] = q
      /\ \A i \in DOMAIN s : Runs(s[i], h[i], h[i + 1], R)
  BY <1>1 DEF Follows
<1>5. PICK k : k = [i \in 1 .. Len(t) + 1 |-> h[i + 1]]
  OBVIOUS
<1>6. ASSUME NEW i \in 1 .. Len(t) + 1
      PROVE  k[i] = h[i + 1] /\ h[i + 1] \in Regions
  <2>1. i + 1 \in 1 .. Len(s) + 1
    BY <1>3
  <2> QED  BY <1>4, <1>5, <2>1
<1>7. k \in [1 .. Len(t) + 1 -> Regions]
  BY <1>5, <1>6
<1>8. k[1] = h[2] /\ k[Len(t) + 1] = q /\ h[2] \in Regions
  <2>1. 1 \in 1 .. Len(t) + 1 /\ Len(t) + 1 \in 1 .. Len(t) + 1 /\ 1 + 1 = 2
        /\ Len(t) + 1 + 1 = Len(s) + 1
    BY <1>3
  <2>2. k[1] = h[1 + 1] /\ h[1 + 1] \in Regions
    BY <1>6, <2>1
  <2>3. k[Len(t) + 1] = h[Len(t) + 1 + 1]
    BY <1>6, <2>1
  <2> QED  BY <1>4, <2>1, <2>2, <2>3
<1>9. ASSUME NEW i \in DOMAIN t
      PROVE  Runs(t[i], k[i], k[i + 1], R)
  <2>1. i \in 1 .. Len(t) /\ i \in 1 .. Len(t) + 1 /\ i + 1 \in 1 .. Len(t) + 1 /\ i + 1 \in DOMAIN s
    BY <1>3
  <2>2. t[i] = s[i + 1] /\ k[i] = h[i + 1] /\ k[i + 1] = h[i + 1 + 1]
    BY <1>3, <1>6, <2>1
  <2> QED  BY <1>4, <2>1, <2>2
<1>10. Leads(t, h[2], q, R)
  <2>1. Follows(k, t, h[2], q, R)
    BY <1>7, <1>8, <1>9 DEF Follows
  <2> QED  BY <2>1 DEF Leads
<1>11. r \in Regions /\ Runs(s[1], r, h[2], R)
  <2>1. 1 \in DOMAIN s /\ 1 \in 1 .. Len(s) + 1 /\ 1 + 1 = 2
    BY <1>3
  <2>2. Runs(s[1], h[1], h[1 + 1], R) /\ h[1] \in Regions
    BY <1>4, <2>1
  <2> QED  BY <1>4, <2>1, <2>2
<1> QED  BY <1>2, <1>3, <1>8, <1>10, <1>11

\* The tree stays as it is.
LEMMA LeadsStays ==
    ASSUME NEW R, NEW s, NEW r, NEW q, Leads(s, r, q, R), UNCHANGED tree
    PROVE  Leads(s, r, q, R)'
<1>1. PICK h : Follows(h, s, r, q, R)
  BY DEF Leads
<1>2. \A f, x, y : Runs(f, x, y, R) => Runs(f, x, y, R)'
  BY DEF Runs, Nodes
<1>3. Follows(h, s, r, q, R)'
  BY <1>1, <1>2 DEF Follows
<1> QED  BY <1>3 DEF Leads

-----------------------------------------------------------------------------
(* Steps of the code generator. *)

\* Facts of the state before a step of the code generator.
Walks(R) ==
    /\ Regioned(R) /\ Leads(stack, region, <<>>, R) /\ Homes(R) /\ LinksRight(R)
    /\ Uses \subseteq DOMAIN link

\* The frame that runs, and what is left after it.
LEMMA GenRunning ==
    ASSUME LinkingInv, phase = "gen", stack # <<>>
    PROVE  /\ stack \in Seq(Frames) /\ stack[1] \in Frames /\ Here \in Nodes /\ Here \in Nat /\ Shaped
           /\ Tail(stack) \in Seq(Frames)
           /\ \E R : /\ Walks(R) /\ region \in Regions
                     /\ \E p \in Regions : /\ Runs(stack[1], region, p, R)
                                           /\ Leads(Tail(stack), p, <<>>, R)
<1>1. stack \in Seq(Frames) /\ Shaped
  BY DEF LinkingInv, Typed
<1>2. 1 \in DOMAIN stack /\ stack[1] \in Frames
  <2>1. DOMAIN stack = 1 .. Len(stack) /\ Len(stack) \in Nat /\ Len(stack) # 0
    BY <1>1, EmptySeq
  <2> QED  BY <1>1, <2>1
<1>3. PICK R : Walks(R)
  BY DEF LinkingInv, Generating, Walks
<1>4. PICK s, r : s = stack /\ r = region
  OBVIOUS
<1>5. Leads(s, r, <<>>, R)
  BY <1>3, <1>4 DEF Walks
<1>6. /\ Tail(s) \in Seq(Frames)
      /\ \E p \in Regions : r \in Regions /\ Runs(s[1], r, p, R) /\ Leads(Tail(s), p, <<>>, R)
  <2>1. s \in Seq(Frames) /\ s # <<>>
    BY <1>1, <1>4
  <2> QED  BY <1>5, <2>1, LeadsTail
<1>7. Here \in Nodes
  BY <1>4, <1>6 DEF Runs, Here
<1>8. Here \in Nat
  BY <1>1, <1>7, NodesAre
<1> QED  BY <1>1, <1>2, <1>3, <1>4, <1>6, <1>7, <1>8

\* The running frame is replaced by the frames fs.
LEMMA GenGoesOn ==
    ASSUME LinkingInv, phase = "gen", stack # <<>>, NEW R, Walks(R), NEW fs \in Seq(Frames),
           Become(fs), UNCHANGED <<tree, fuel, err, scopes, ty, link, phase>>, NEW p,
           Leads(Tail(stack), p, <<>>, R), Leads(fs, region', p, R),
           Homes(R)', DOMAIN home' = symbols'
    PROVE  LinkingInv'
<1>1. /\ Tail(stack) \in Seq(Frames) /\ Shaped /\ fuel \in 0 .. MaxNodes /\ err \in Errors
      /\ ty \in Types /\ DOMAIN link \subseteq Uses /\ \A u \in DOMAIN link : link[u] \in Nodes
  BY GenRunning DEF LinkingInv, Typed
<1>2. PICK t, r, b : t = fs \o Tail(stack) /\ r = region' /\ b = Tail(stack)
  OBVIOUS
<1>3. t \in Seq(Frames) /\ Leads(t, r, <<>>, R)
  <2>1. b \in Seq(Frames) /\ Leads(b, p, <<>>, R) /\ Leads(fs, r, p, R)
    BY <1>1, <1>2
  <2>2. fs \o b \in Seq(Frames) /\ Leads(fs \o b, r, <<>>, R)
    BY <2>1, LeadsOn
  <2> QED  BY <1>2, <2>2
<1>4. Leads(t, r, <<>>, R)'
  BY <1>3, LeadsStays
<1>5. stack' = t /\ region' = r
  BY <1>2 DEF Become
<1>6. Regioned(R) /\ LinksRight(R) /\ Uses \subseteq DOMAIN link
  BY DEF Walks
<1>7. Continues(R, R) /\ Shaped' /\ Nodes' = Nodes /\ Uses' = Uses
  BY <1>1, <1>6, TreeStays
<1>8. Regioned(R)' /\ LinksRight(R)' /\ Uses' \subseteq DOMAIN link'
  BY <1>6, <1>7, LinksRightStays DEF Continues
<1>9. Generating'
  BY <1>4, <1>5, <1>8 DEF Generating
<1>10. \A i \in DOMAIN stack' : stack'[i].n \in Nodes'
  BY <1>4, <1>5 DEF Leads, Follows, Runs
<1>11. Typed'
  <2>1. "gen" \in Phases /\ "gen" # "check"
    BY DEF Phases
  <2> QED  BY <1>1, <1>3, <1>5, <1>7, <1>10, <2>1 DEF Typed
<1>12. Checking'
  BY DEF Checking
<1> QED  BY <1>7, <1>9, <1>11, <1>12 DEF LinkingInv

\* The homes stay as they are.
LEMMA HomesStay ==
    ASSUME NEW R, Homes(R), UNCHANGED <<tree, symbols, home>>
    PROVE  Homes(R)'
BY DEF Homes, Nodes

\* The visit goes on in the region it is in.
LEMMA GotoKeeps ==
    ASSUME LinkingInv, phase = "gen", stack # <<>>, stack[1].k \notin {"enter", "leave"},
           NEW fs, Goto(fs), UNCHANGED checkVars,
           \A R : Walks(R) /\ R[Here] = region /\ region \in Regions =>
                     fs \in Seq(Frames) /\ Leads(fs, region, region, R)
    PROVE  LinkingInv'
<1>1. PICK R : /\ Walks(R) /\ region \in Regions
               /\ \E p \in Regions : /\ Runs(stack[1], region, p, R)
                                     /\ Leads(Tail(stack), p, <<>>, R)
  BY GenRunning
<1>2. PICK p \in Regions : Runs(stack[1], region, p, R) /\ Leads(Tail(stack), p, <<>>, R)
  BY <1>1
<1>3. p = region /\ R[Here] = region
  BY <1>2 DEF Runs, Here
<1>4. fs \in Seq(Frames) /\ Leads(fs, region, p, R)
  BY <1>1, <1>3
<1>5. Become(fs) /\ UNCHANGED <<tree, fuel, err, scopes, ty, link, phase, symbols, region, home>>
  BY DEF Goto, checkVars, genVars
<1>6. Homes(R)' /\ DOMAIN home' = symbols'
  <2>1. DOMAIN home = symbols /\ Homes(R)
    BY <1>1 DEF LinkingInv, Typed, Walks
  <2> QED  BY <1>5, <2>1, HomesStay
<1>7. Leads(fs, region', p, R)
  BY <1>4, <1>5
<1> QED  BY <1>1, <1>2, <1>4, <1>5, <1>6, <1>7, GenGoesOn

\* The walk ends, or stops half-way.
LEMMA StopKeeps ==
    ASSUME LinkingInv, phase' \in {"done", "asserted", "crashed"},
           UNCHANGED <<checkVars, stack, genVars>>
    PROVE  LinkingInv'
<1>1. /\ UNCHANGED <<tree, fuel, err, scopes, ty, link, stack, symbols, region, home>>
      /\ Nodes' = Nodes /\ Uses' = Uses
  BY DEF checkVars, genVars, Nodes, Uses
<1>2. Shaped'
  BY <1>1 DEF LinkingInv, Shaped, Nodes, Kids, IsParam
<1>3. Typed'
  <2>1. phase' \in Phases /\ phase' # "check"
    BY DEF Phases
  <2> QED  BY <1>1, <2>1 DEF LinkingInv, Typed
<1>4. Checking' /\ Generating'
  BY DEF Checking, Generating
<1> QED  BY <1>2, <1>3, <1>4 DEF LinkingInv

\* A failed assertion and a null pointer stop the walk.
LEMMA FailKeeps ==
    ASSUME LinkingInv, NEW how \in {"asserted", "crashed"}, Fail(how), UNCHANGED checkVars
    PROVE  LinkingInv'
<1>1. phase' \in {"done", "asserted", "crashed"} /\ UNCHANGED <<checkVars, stack, genVars>>
  BY DEF Fail
<1> QED  BY <1>1, StopKeeps

\* No frame takes the place of the running one.
LEMMA NothingKeeps ==
    ASSUME LinkingInv, phase = "gen", stack # <<>>, stack[1].k \notin {"enter", "leave"},
           Goto(<<>>), UNCHANGED checkVars
    PROVE  LinkingInv'
<1>1. PICK fs : fs = <<>>
  OBVIOUS
<1>2. ASSUME NEW R, region \in Regions
      PROVE  fs \in Seq(Frames) /\ Leads(fs, region, region, R)
  <2>1. PICK r : r = region
    OBVIOUS
  <2>2. r \in Regions
    BY <1>2, <2>1
  <2>3. Leads(<<>>, r, r, R)
    BY <2>2, LeadsNone
  <2> QED  BY <1>1, <2>1, <2>3
<1>3. Goto(fs)
  BY <1>1
<1> QED  BY <1>2, <1>3, GotoKeeps

\* Frames that stay in the region.
LEMMA FlatLeads ==
    ASSUME NEW R, NEW fs \in Seq(Frames), NEW r \in Regions,
           \A i \in DOMAIN fs : Runs(fs[i], r, r, R)
    PROVE  Leads(fs, r, r, R)
<1>1. Len(fs) \in Nat /\ DOMAIN fs = 1 .. Len(fs)
  OBVIOUS
<1>2. PICK h : h = [i \in 1 .. Len(fs) + 1 |-> r]
  OBVIOUS
<1>3. \A i \in 1 .. Len(fs) + 1 : h[i] = r
  BY <1>2
<1>4. 1 \in 1 .. Len(fs) + 1 /\ Len(fs) + 1 \in 1 .. Len(fs) + 1
  BY <1>1
<1>5. \A i \in DOMAIN fs : i \in 1 .. Len(fs) + 1 /\ i + 1 \in 1 .. Len(fs) + 1
  BY <1>1
<1>6. h \in [1 .. Len(fs) + 1 -> Regions] /\ h[1] = r /\ h[Len(fs) + 1] = r
  BY <1>2, <1>3, <1>4
<1>7. \A i \in DOMAIN fs : Runs(fs[i], h[i], h[i + 1], R)
  BY <1>3, <1>5
<1>8. Follows(h, fs, r, r, R)
  BY <1>6, <1>7 DEF Follows
<1> QED  BY <1>8 DEF Leads

\* A frame of the code generator and its fields.
LEMMA GenFrameIs ==
    ASSUME NEW k \in Kinds \cup {"element", "alloca", "enter", "leave"}, NEW n \in Nat, NEW d \in Nat
    PROVE  LET f == Frame(k, n, {}, d)
           IN  f \in Frames /\ f.k = k /\ f.n = n /\ f.d = d
<1>1. {} \in SUBSET AllTypes
  OBVIOUS
<1> QED  BY <1>1 DEF Frame, Frames

\* A part that is visited in the region of the node, or in the region entered for it.
LEMMA PartRuns ==
    ASSUME Shaped, Here \in Nodes, NEW R, Regioned(R), R[Here] = region,
           NEW i \in DOMAIN Kids(Here), NEW r, r = Sub(region, tree[Here].form, Here, i)
    PROVE  /\ r \in Regions /\ Part(i) \in Nodes /\ i \in Nat
           /\ Visit(i) \in Frames /\ Runs(Visit(i), r, r, R)
           /\ Stmt(Part(i)) \in Frames /\ Runs(Stmt(Part(i)), r, r, R)
<1>1. PICK n, a, b : n = Part(i) /\ a = Visit(i) /\ b = Stmt(Part(i))
  OBVIOUS
<1>2. n \in Nodes /\ n \in Nat /\ R[n] = r /\ tree[n].form \in NodeForms /\ i \in Nat /\ Here \in Nat
  <2>1. n = Kids(Here)[i]
    BY <1>1 DEF Part, Kids
  <2>2. n \in Nodes
    BY <2>1 DEF Shaped
  <2>3. R[n] = r
    BY <2>1 DEF Regioned
  <2>4. tree[n] \in NodeRecs /\ n \in Nat /\ DOMAIN Kids(Here) = 1 .. Len(Kids(Here)) /\ Here \in Nat
    BY <2>2, NodesAre
  <2>5. tree[n].form \in NodeForms
    BY <2>4 DEF NodeRecs
  <2> QED  BY <2>2, <2>3, <2>4, <2>5
<1>3. r \in Regions
  BY <1>2 DEF Regioned
<1>4. a \in Frames /\ a.k = "exp" /\ a.n = n
  <2>1. "exp" \in Kinds \cup {"element", "alloca", "enter", "leave"} /\ 0 \in Nat
    BY DEF Kinds
  <2> QED  BY <1>1, <1>2, <2>1, GenFrameIs DEF Visit, Do
<1>5. b \in Frames /\ b.k = "stmt" /\ b.n = n
  <2>1. "stmt" \in Kinds \cup {"element", "alloca", "enter", "leave"} /\ 0 \in Nat
    BY DEF Kinds
  <2> QED  BY <1>1, <1>2, <2>1, GenFrameIs DEF Stmt
<1>6. GenHosts("exp") = NodeForms /\ GenHosts("stmt") = NodeForms
  BY DEF GenHosts
<1>7. Runs(a, r, r, R)
  BY <1>2, <1>4, <1>6 DEF Runs
<1>8. Runs(b, r, r, R)
  BY <1>2, <1>5, <1>6 DEF Runs
<1> QED  BY <1>1, <1>2, <1>3, <1>4, <1>5, <1>7, <1>8

\* The branch or the body that is part i of the node, in the region numbered e.
LEMMA WithinLeads ==
    ASSUME Here \in Nodes, Here \in Nat, tree[Here].form \in {"if", "while", "for"},
           NEW R, region \in Regions, NEW e \in Nat, NEW fs \in Seq(Frames),
           NEW r, r = Append(region, <<Here, e>>), Leads(fs, r, r, R)
    PROVE  Within(e, fs) \in Seq(Frames) /\ Leads(Within(e, fs), region, region, R)
<1>1. PICK a, b, q, x : /\ a = Frame("enter", Here, {}, e) /\ b = Do("leave", Here)
                        /\ q = region /\ x = <<Here, e>>
  OBVIOUS
<1>2. a \in Frames /\ a.k = "enter" /\ a.n = Here /\ a.d = e
  <2>1. PICK k, h : k = "enter" /\ h = Here
    OBVIOUS
  <2>2. k \in Kinds \cup {"element", "alloca", "enter", "leave"} /\ h \in Nat
    BY <2>1
  <2>3. PICK f : f = Frame(k, h, {}, e)
    OBVIOUS
  <2>4. f \in Frames /\ f.k = k /\ f.n = h /\ f.d = e
    BY <2>2, <2>3 DEF Frame, Frames
  <2> QED  BY <1>1, <2>1, <2>3, <2>4
<1>3. b \in Frames /\ b.k = "leave" /\ b.n = Here
  <2>1. PICK k, h, o : k = "leave" /\ h = Here /\ o = 0
    OBVIOUS
  <2>2. k \in Kinds \cup {"element", "alloca", "enter", "leave"} /\ h \in Nat /\ o \in Nat
    BY <2>1
  <2>3. PICK f : f = Frame(k, h, {}, o)
    OBVIOUS
  <2>4. f \in Frames /\ f.k = k /\ f.n = h
    BY <2>2, <2>3 DEF Frame, Frames
  <2> QED  BY <1>1, <2>1, <2>3, <2>4 DEF Do
<1>4. q \in Seq(Nat \X Nat) /\ x \in Nat \X Nat /\ r = Append(q, x)
  BY <1>1 DEF Regions
<1>5. /\ r \in Seq(Nat \X Nat) /\ Len(r) = Len(q) + 1 /\ Len(q) \in Nat
      /\ \A i \in 1 .. Len(q) : r[i] = q[i]
  <2>1. q \in Seq(Nat \X Nat) /\ x \in Nat \X Nat
    BY <1>4
  <2>2. PICK N, y : N = Nat \X Nat /\ y = Append(q, x)
    OBVIOUS
  <2>3. q \in Seq(N) /\ x \in N
    BY <2>1, <2>2
  <2>4. /\ y \in Seq(N) /\ Len(y) = Len(q) + 1 /\ Len(q) \in Nat
        /\ \A i \in 1 .. Len(q) : y[i] = q[i]
    BY <2>2, <2>3, AppendProperties
  <2> QED  BY <1>4, <2>2, <2>4
<1>6. r \in Regions /\ q \in Regions /\ r # <<>>
  <2>1. r # <<>>
    <3>1. Len(r) # 0
      BY <1>5
    <3> QED  BY <1>5, <3>1, EmptySeq
  <2> QED  BY <1>4, <1>5, <2>1 DEF Regions
<1>7. Front(r) = q
  <2>1. Front(r) = [i \in 1 .. Len(q) |-> r[i]]
    <3>1. Len(r) - 1 = Len(q)
      BY <1>5
    <3>2. SubSeq(r, 1, Len(q)) = [i \in 1 .. Len(q) |-> r[i]]
      BY <1>5
    <3> QED  BY <3>1, <3>2 DEF Front
  <2>2. q = [i \in 1 .. Len(q) |-> q[i]]
    BY <1>4
  <2>3. [i \in 1 .. Len(q) |-> r[i]] = [i \in 1 .. Len(q) |-> q[i]]
    BY <1>5
  <2> QED  BY <2>1, <2>2, <2>3
<1>8. tree[Here].form \in GenHosts("enter") /\ tree[Here].form \in GenHosts("leave")
  BY DEF GenHosts
<1>9. Runs(a, q, r, R)
  BY <1>1, <1>2, <1>4, <1>8 DEF Runs
<1>10. Runs(b, r, q, R)
  BY <1>3, <1>6, <1>7, <1>8 DEF Runs
<1>11. <<a>> \in Seq(Frames) /\ Leads(<<a>>, q, r, R)
  BY <1>2, <1>6, <1>9, LeadsOne
<1>12. <<b>> \in Seq(Frames) /\ Leads(<<b>>, r, q, R)
  BY <1>3, <1>6, <1>10, LeadsOne
<1>13. PICK sa, sb : sa = <<a>> /\ sb = <<b>>
  OBVIOUS
<1>14. sa \in Seq(Frames) /\ sb \in Seq(Frames) /\ Leads(sa, q, r, R) /\ Leads(sb, r, q, R)
  BY <1>11, <1>12, <1>13
<1>15. PICK s : s = sa \o fs
  OBVIOUS
<1>16. s \in Seq(Frames) /\ Leads(s, q, r, R)
  BY <1>14, <1>15, LeadsOn
<1>17. s \o sb \in Seq(Frames) /\ Leads(s \o sb, q, q, R)
  BY <1>14, <1>16, LeadsOn
<1>18. Within(e, fs) = s \o sb
  BY <1>1, <1>13, <1>15 DEF Within
<1> QED  BY <1>1, <1>17, <1>18

\* All parts in their order, when none is entered.
LEMMA PartsLead ==
    ASSUME Shaped, Here \in Nodes, NEW R, Regioned(R), R[Here] = region, region \in Regions,
           \A i \in DOMAIN tree[Here].kids : Entered(tree[Here].form, i) = 0, NEW fs,
           \/ fs = [i \in DOMAIN tree[Here].kids |-> Stmt(Part(i))]
           \/ fs = [i \in DOMAIN tree[Here].kids |-> Visit(i)]
    PROVE  fs \in Seq(Frames) /\ Leads(fs, region, region, R)
<1>1. PICK h, r, m : h = Here /\ r = region /\ m = Len(Kids(Here))
  OBVIOUS
<1>2. h \in Nodes /\ Kids(h) = tree[h].kids /\ m \in Nat /\ DOMAIN Kids(h) = 1 .. m
  BY <1>1, NodesAre DEF Kids
<1>3. ASSUME NEW i \in 1 .. m
      PROVE  /\ Visit(i) \in Frames /\ Runs(Visit(i), r, r, R)
             /\ Stmt(Part(i)) \in Frames /\ Runs(Stmt(Part(i)), r, r, R)
  <2>1. i \in DOMAIN Kids(Here) /\ r = Sub(region, tree[Here].form, Here, i)
    BY <1>1, <1>2 DEF Sub
  <2> QED  BY <2>1, PartRuns
<1>4. \A i \in 1 .. m : fs[i] \in Frames /\ Runs(fs[i], r, r, R)
  <2>1. CASE fs = [i \in DOMAIN tree[Here].kids |-> Stmt(Part(i))]
    <3>1. \A i \in 1 .. m : fs[i] = Stmt(Part(i))
      BY <1>1, <1>2, <2>1
    <3> QED  BY <1>3, <3>1
  <2>2. CASE fs = [i \in DOMAIN tree[Here].kids |-> Visit(i)]
    <3>1. \A i \in 1 .. m : fs[i] = Visit(i)
      BY <1>1, <1>2, <2>2
    <3> QED  BY <1>3, <3>1
  <2> QED  BY <2>1, <2>2
<1>5. fs \in [1 .. m -> Frames] /\ DOMAIN fs = 1 .. m
  <2>1. DOMAIN tree[Here].kids = 1 .. m
    BY <1>1, <1>2
  <2>2. DOMAIN fs = 1 .. m /\ fs = [i \in 1 .. m |-> fs[i]]
    BY <2>1
  <2> QED  BY <1>4, <2>2
<1>6. fs \in Seq(Frames)
  BY <1>2, <1>5
<1>7. Leads(fs, r, r, R)
  BY <1>1, <1>4, <1>5, <1>6, FlatLeads
<1> QED  BY <1>1, <1>6, <1>7

\* A frame of one part.
LEMMA PartLeads ==
    ASSUME Shaped, Here \in Nodes, NEW R, Regioned(R), R[Here] = region,
           NEW i \in DOMAIN Kids(Here), NEW r, r = Sub(region, tree[Here].form, Here, i)
    PROVE  /\ <<Visit(i)>> \in Seq(Frames) /\ Leads(<<Visit(i)>>, r, r, R)
           /\ <<Stmt(Part(i))>> \in Seq(Frames) /\ Leads(<<Stmt(Part(i))>>, r, r, R)
<1>1. PICK a, b : a = Visit(i) /\ b = Stmt(Part(i))
  OBVIOUS
<1>2. r \in Regions /\ a \in Frames /\ Runs(a, r, r, R) /\ b \in Frames /\ Runs(b, r, r, R)
  BY <1>1, PartRuns
<1>3. <<a>> \in Seq(Frames) /\ Leads(<<a>>, r, r, R)
  BY <1>2, LeadsOne
<1>4. <<b>> \in Seq(Frames) /\ Leads(<<b>>, r, r, R)
  BY <1>2, LeadsOne
<1> QED  BY <1>1, <1>3, <1>4

\* The node under visit.
LEMMA AtIs ==
    ASSUME LinkingInv, NEW form, At(form)
    PROVE  /\ phase = "gen" /\ stack # <<>> /\ stack[1].k \notin {"enter", "leave"}
           /\ tree[Here].form = form /\ Here \in Nodes /\ Here \in Nat /\ Shaped
           /\ Len(Kids(Here)) \in Arity(form) /\ DOMAIN Kids(Here) = 1 .. Len(Kids(Here))
           /\ Kids(Here) = tree[Here].kids
<1>1. /\ phase = "gen" /\ stack # <<>> /\ stack[1].k \notin {"enter", "leave"}
      /\ tree[Here].form = form
  BY DEF At
<1>2. Here \in Nodes /\ Here \in Nat /\ Shaped
  BY <1>1, GenRunning
<1>3. DOMAIN Kids(Here) = 1 .. Len(Kids(Here))
  BY <1>2, NodesAre
<1>4. Len(Kids(Here)) \in Arity(tree[Here].form)
  BY <1>2 DEF Shaped
<1> QED  BY <1>1, <1>2, <1>3, <1>4 DEF Kids

\* The statements.
LEMMA GenSeqKeeps ==
    ASSUME LinkingInv, GenSeq
    PROVE  LinkingInv'
<1>1. /\ phase = "gen" /\ stack # <<>> /\ stack[1].k \notin {"enter", "leave"}
      /\ UNCHANGED checkVars
  BY DEF GenSeq, Top, At
<1>2. Here \in Nodes /\ Shaped /\ tree[Here].form = "seq"
  <2>1. Here \in Nodes /\ Shaped /\ \E R, p : Runs(stack[1], region, p, R)
    BY <1>1, GenRunning
  <2>2. CASE stack[1].k = "seq"
    <3>1. tree[Here].form \in GenHosts("seq")
      BY <2>1, <2>2 DEF Runs, Here
    <3> QED  BY <2>1, <3>1 DEF GenHosts
  <2>3. CASE At("seq")
    BY <2>1, <2>3 DEF At
  <2> QED  BY <2>2, <2>3 DEF GenSeq, Top
<1>3. PICK fs : fs = [i \in DOMAIN tree[Here].kids |-> Stmt(Part(i))]
  OBVIOUS
<1>4. Goto(fs)
  BY <1>3 DEF GenSeq
<1>5. \A i : Entered(tree[Here].form, i) = 0
  BY <1>2 DEF Entered
<1>6. ASSUME NEW R, Walks(R), R[Here] = region, region \in Regions
      PROVE  fs \in Seq(Frames) /\ Leads(fs, region, region, R)
  BY <1>2, <1>3, <1>5, <1>6, PartsLead DEF Walks
<1> QED  BY <1>1, <1>4, <1>6, GotoKeeps

\* The parts.
LEMMA GenSimpleKeeps ==
    ASSUME LinkingInv, GenSimple
    PROVE  LinkingInv'
<1>1. PICK form \in {"lit", "callexp", "call", "return"} : At(form)
  BY DEF GenSimple
<1>2. /\ phase = "gen" /\ stack # <<>> /\ stack[1].k \notin {"enter", "leave"}
      /\ tree[Here].form = form /\ Here \in Nodes /\ Shaped
  BY <1>1, AtIs
<1>3. PICK fs : fs = [i \in DOMAIN tree[Here].kids |-> Visit(i)]
  OBVIOUS
<1>4. Goto(fs) /\ UNCHANGED checkVars
  BY <1>3 DEF GenSimple
<1>5. \A i : Entered(tree[Here].form, i) = 0
  BY <1>2 DEF Entered
<1>6. ASSUME NEW R, Walks(R), R[Here] = region, region \in Regions
      PROVE  fs \in Seq(Frames) /\ Leads(fs, region, region, R)
  BY <1>2, <1>3, <1>5, <1>6, PartsLead DEF Walks
<1> QED  BY <1>2, <1>4, <1>6, GotoKeeps

\* The visit goes on with the first part.
LEMMA FirstPartKeeps ==
    ASSUME LinkingInv, NEW form \in {"access", "assign"}, At(form),
           Goto(<<Visit(1)>>), UNCHANGED checkVars
    PROVE  LinkingInv'
<1>1. /\ phase = "gen" /\ stack # <<>> /\ stack[1].k \notin {"enter", "leave"}
      /\ tree[Here].form = form /\ Here \in Nodes /\ Shaped
      /\ Len(Kids(Here)) \in Arity(form) /\ DOMAIN Kids(Here) = 1 .. Len(Kids(Here))
  BY AtIs
<1>2. PICK i, fs : i = 1 /\ fs = <<Visit(1)>>
  OBVIOUS
<1>3. i \in DOMAIN Kids(Here) /\ Entered(form, i) = 0
  <2>1. Len(Kids(Here)) = 1
    BY <1>1 DEF Arity
  <2> QED  BY <1>1, <1>2, <2>1 DEF Entered
<1>4. ASSUME NEW R, Walks(R), R[Here] = region, region \in Regions
      PROVE  fs \in Seq(Frames) /\ Leads(fs, region, region, R)
  <2>1. PICK r : r = region
    OBVIOUS
  <2>2. r = Sub(region, tree[Here].form, Here, i)
    BY <1>1, <1>3, <2>1 DEF Sub
  <2>3. <<Visit(i)>> \in Seq(Frames) /\ Leads(<<Visit(i)>>, r, r, R)
    BY <1>1, <1>3, <1>4, <2>2, PartLeads DEF Walks
  <2> QED  BY <1>2, <2>1, <2>3
<1>5. Goto(fs)
  BY <1>2
<1> QED  BY <1>1, <1>4, <1>5, GotoKeeps

\* Nothing more, or a failed assertion.
LEMMA GenVarExpKeeps ==
    ASSUME LinkingInv, GenVarExp
    PROVE  LinkingInv'
<1>1. /\ phase = "gen" /\ stack # <<>> /\ stack[1].k \notin {"enter", "leave"}
      /\ UNCHANGED checkVars /\ (Goto(<<>>) \/ Fail("asserted"))
  BY DEF GenVarExp, At
<1> QED  BY <1>1, NothingKeeps, FailKeeps

\* Nothing more, or a null pointer.
LEMMA GenElementKeeps ==
    ASSUME LinkingInv, GenElement
    PROVE  LinkingInv'
<1>1. /\ phase = "gen" /\ stack # <<>> /\ stack[1].k \notin {"enter", "leave"}
      /\ UNCHANGED checkVars /\ (Goto(<<>>) \/ Fail("crashed"))
  BY DEF GenElement, Top
<1> QED  BY <1>1, NothingKeeps, FailKeeps

\* The index.
LEMMA GenArrayAccessExpKeeps ==
    ASSUME LinkingInv, GenArrayAccessExp
    PROVE  LinkingInv'
<1>1. /\ At("access") /\ UNCHANGED checkVars
      /\ Goto(<<Visit(1)>>) \/ Fail("asserted") \/ Fail("crashed")
  BY DEF GenArrayAccessExp
<1> QED  BY <1>1, FirstPartKeeps, FailKeeps

\* The value.
LEMMA GenAssignStmtKeeps ==
    ASSUME LinkingInv, GenAssignStmt
    PROVE  LinkingInv'
<1>1. /\ At("assign") /\ UNCHANGED checkVars /\ (Goto(<<Visit(1)>>) \/ Fail("asserted"))
  BY DEF GenAssignStmt
<1> QED  BY <1>1, FirstPartKeeps, FailKeeps

\* The walk is over.
LEMMA GenEndKeeps ==
    ASSUME LinkingInv, GenEnd
    PROVE  LinkingInv'
<1>1. phase' \in {"done", "asserted", "crashed"} /\ UNCHANGED <<checkVars, stack, genVars>>
  BY DEF GenEnd
<1> QED  BY <1>1, StopKeeps

\* A frame of the node itself.
LEMMA OwnFrame ==
    ASSUME Here \in Nodes, Here \in Nat, NEW R, R[Here] = region,
           NEW k \in {"element", "alloca"}, tree[Here].form \in GenHosts(k)
    PROVE  Do(k, Here) \in Frames /\ Runs(Do(k, Here), region, region, R)
<1>1. PICK a, h, o : a = Frame(k, h, {}, o) /\ h = Here /\ o = 0
  OBVIOUS
<1>2. a \in Frames /\ a.k = k /\ a.n = Here
  <2>1. h \in Nat /\ o \in Nat
    BY <1>1
  <2> QED  BY <1>1, <2>1 DEF Frame, Frames
<1>3. Runs(a, region, region, R)
  <2>1. k # "enter" /\ k # "leave"
    OBVIOUS
  <2> QED  BY <1>2, <2>1 DEF Runs
<1> QED  BY <1>1, <1>2, <1>3 DEF Do

\* Value and index, then the element.
LEMMA GenArrayAssignStmtKeeps ==
    ASSUME LinkingInv, GenArrayAssignStmt
    PROVE  LinkingInv'
<1>1. At("arrayassign") /\ UNCHANGED checkVars
  BY DEF GenArrayAssignStmt
<1>2. CASE Fail("asserted")
  BY <1>1, <1>2, FailKeeps
<1>3. CASE Goto(<<Visit(2), Visit(1), Do("element", Here)>>)
  <2>1. /\ phase = "gen" /\ stack # <<>> /\ stack[1].k \notin {"enter", "leave"}
        /\ tree[Here].form = "arrayassign" /\ Here \in Nodes /\ Here \in Nat /\ Shaped
        /\ Len(Kids(Here)) \in Arity("arrayassign") /\ DOMAIN Kids(Here) = 1 .. Len(Kids(Here))
    BY <1>1, AtIs
  <2>2. PICK i, j, a, b, c, fs : /\ i = 1 /\ j = 2 /\ a = Visit(2) /\ b = Visit(1)
                                 /\ c = Do("element", Here) /\ fs = <<a, b, c>>
    OBVIOUS
  <2>3. i \in DOMAIN Kids(Here) /\ j \in DOMAIN Kids(Here)
    <3>1. Len(Kids(Here)) = 2
      BY <2>1 DEF Arity
    <3> QED  BY <2>1, <2>2, <3>1
  <2>4. \A x : Entered("arrayassign", x) = 0
    BY DEF Entered
  <2>5. ASSUME NEW R, Walks(R), R[Here] = region, region \in Regions
        PROVE  fs \in Seq(Frames) /\ Leads(fs, region, region, R)
    <3>1. PICK r : r = region
      OBVIOUS
    <3>2. \A x : r = Sub(region, tree[Here].form, Here, x)
      BY <2>1, <2>4, <3>1 DEF Sub
    <3>3. Visit(i) \in Frames /\ Runs(Visit(i), r, r, R)
      BY <2>1, <2>3, <2>5, <3>2, PartRuns DEF Walks
    <3>4. Visit(j) \in Frames /\ Runs(Visit(j), r, r, R)
      BY <2>1, <2>3, <2>5, <3>2, PartRuns DEF Walks
    <3>5. c \in Frames /\ Runs(c, r, r, R)
      <4>1. tree[Here].form \in GenHosts("element")
        BY <2>1 DEF GenHosts
      <4> QED  BY <2>1, <2>2, <2>5, <3>1, <4>1, OwnFrame
    <3>6. /\ a \in Frames /\ Runs(a, r, r, R) /\ b \in Frames /\ Runs(b, r, r, R)
      BY <2>2, <3>3, <3>4
    <3>7. fs \in Seq(Frames) /\ DOMAIN fs = {1, 2, 3} /\ fs[1] = a /\ fs[2] = b /\ fs[3] = c
      BY <2>2, <3>5, <3>6
    <3>8. \A x \in DOMAIN fs : Runs(fs[x], r, r, R)
      BY <3>5, <3>6, <3>7
    <3>9. Leads(fs, r, r, R)
      BY <2>5, <3>1, <3>7, <3>8, FlatLeads
    <3> QED  BY <3>1, <3>7, <3>9
  <2>6. Goto(fs)
    BY <1>3, <2>2
  <2> QED  BY <1>1, <2>1, <2>5, <2>6, GotoKeeps
<1> QED  BY <1>2, <1>3 DEF GenArrayAssignStmt

\* The size, then the alloca.
LEMMA GenDeclArrayKeeps ==
    ASSUME LinkingInv, GenDeclArray
    PROVE  LinkingInv'
<1>1. At("arraydecl") /\ UNCHANGED checkVars /\ Goto(<<Visit(1), Do("alloca", Here)>>)
  BY DEF GenDeclArray
<1>2. /\ phase = "gen" /\ stack # <<>> /\ stack[1].k \notin {"enter", "leave"}
      /\ tree[Here].form = "arraydecl" /\ Here \in Nodes /\ Here \in Nat /\ Shaped
      /\ Len(Kids(Here)) \in Arity("arraydecl") /\ DOMAIN Kids(Here) = 1 .. Len(Kids(Here))
  BY <1>1, AtIs
<1>3. PICK i, a, c, fs : i = 1 /\ a = Visit(1) /\ c = Do("alloca", Here) /\ fs = <<a, c>>
  OBVIOUS
<1>4. i \in DOMAIN Kids(Here)
  <2>1. Len(Kids(Here)) = 1 \/ Len(Kids(Here)) = 2
    BY <1>2 DEF Arity
  <2> QED  BY <1>2, <1>3, <2>1
<1>5. ASSUME NEW R, Walks(R), R[Here] = region, region \in Regions
      PROVE  fs \in Seq(Frames) /\ Leads(fs, region, region, R)
  <2>1. PICK r : r = region
    OBVIOUS
  <2>2. r = Sub(region, tree[Here].form, Here, i)
    BY <1>2, <2>1 DEF Sub, Entered
  <2>3. Visit(i) \in Frames /\ Runs(Visit(i), r, r, R)
    BY <1>2, <1>4, <1>5, <2>2, PartRuns DEF Walks
  <2>4. c \in Frames /\ Runs(c, r, r, R)
    <3>1. tree[Here].form \in GenHosts("alloca")
      BY <1>2 DEF GenHosts
    <3> QED  BY <1>2, <1>3, <1>5, <2>1, <3>1, OwnFrame
  <2>5. a \in Frames /\ Runs(a, r, r, R)
    BY <1>3, <2>3
  <2>6. fs \in Seq(Frames) /\ DOMAIN fs = {1, 2} /\ fs[1] = a /\ fs[2] = c
    BY <1>3, <2>4, <2>5
  <2>7. \A x \in DOMAIN fs : Runs(fs[x], r, r, R)
    BY <2>4, <2>5, <2>6
  <2>8. Leads(fs, r, r, R)
    BY <1>5, <2>1, <2>6, <2>7, FlatLeads
  <2> QED  BY <2>1, <2>6, <2>8
<1>6. Goto(fs)
  BY <1>1, <1>3
<1> QED  BY <1>1, <1>2, <1>5, <1>6, GotoKeeps

\* The variable's alloca is where the variable belongs.
LEMMA AllocatedKeeps ==
    ASSUME LinkingInv, phase = "gen", stack # <<>>, stack[1].k \notin {"enter", "leave"},
           NEW r, Allocated(Here, r), NEW fs, Become(fs), UNCHANGED checkVars,
           \A R : Walks(R) /\ R[Here] = region /\ region \in Regions =>
                     /\ fs \in Seq(Frames) /\ Leads(fs, region, region, R)
                     /\ r = IF tree[Here].form = "arraydecl" THEN R[Here] ELSE <<>>
    PROVE  LinkingInv'
<1>1. Here \in Nodes /\ \E R : /\ Walks(R) /\ region \in Regions
               /\ \E p \in Regions : /\ Runs(stack[1], region, p, R)
                                     /\ Leads(Tail(stack), p, <<>>, R)
  BY GenRunning
<1>2. PICK R : /\ Walks(R) /\ region \in Regions
               /\ \E p \in Regions : /\ Runs(stack[1], region, p, R)
                                     /\ Leads(Tail(stack), p, <<>>, R)
  BY <1>1
<1>3. PICK p \in Regions : Runs(stack[1], region, p, R) /\ Leads(Tail(stack), p, <<>>, R)
  BY <1>2
<1>4. p = region /\ R[Here] = region
  BY <1>3 DEF Runs, Here
<1>5. /\ fs \in Seq(Frames) /\ Leads(fs, region, p, R)
      /\ r = IF tree[Here].form = "arraydecl" THEN R[Here] ELSE <<>>
  BY <1>2, <1>4
<1>6. UNCHANGED <<tree, fuel, err, scopes, ty, link, phase, region>>
  BY DEF Allocated, checkVars
<1>7. PICK h : h = Here
  OBVIOUS
<1>8. symbols' = symbols \cup {h} /\ home' = [x \in symbols' |-> IF x = h THEN r ELSE home[x]]
  BY <1>7 DEF Allocated
<1>9. Homes(R)' /\ DOMAIN home' = symbols'
  <2>1. \A d \in symbols : d \in Nodes /\
            home[d] = IF tree[d].form = "arraydecl" THEN R[d] ELSE <<>>
    BY <1>2 DEF Walks, Homes
  <2>2. ASSUME NEW d \in symbols'
        PROVE  d \in Nodes /\ home'[d] = IF tree[d].form = "arraydecl" THEN R[d] ELSE <<>>
    <3>1. CASE d = h
      BY <1>1, <1>5, <1>7, <1>8, <3>1
    <3>2. CASE d # h
      BY <1>8, <2>1, <3>2
    <3> QED  BY <3>1, <3>2
  <2> QED  BY <1>6, <1>8, <2>2 DEF Homes, Nodes
<1>10. Leads(fs, region', p, R)
  BY <1>5, <1>6
<1> QED  BY <1>2, <1>3, <1>5, <1>6, <1>9, <1>10, GenGoesOn

\* The alloca goes to the entry block, no region is around it.
LEMMA GenDeclStmtKeeps ==
    ASSUME LinkingInv, GenDeclStmt
    PROVE  LinkingInv'
<1>1. At("decl")
  BY DEF GenDeclStmt
<1>2. /\ phase = "gen" /\ stack # <<>> /\ stack[1].k \notin {"enter", "leave"}
      /\ tree[Here].form = "decl" /\ Here \in Nodes /\ Shaped
  BY <1>1, AtIs
<1>3. PICK fs, r : fs = [i \in DOMAIN tree[Here].kids |-> Visit(i)] /\ r = <<>>
  OBVIOUS
<1>4. Allocated(Here, r) /\ Become(fs) /\ UNCHANGED checkVars
  BY <1>3 DEF GenDeclStmt
<1>5. \A i : Entered(tree[Here].form, i) = 0
  BY <1>2 DEF Entered
<1>6. ASSUME NEW R, Walks(R), R[Here] = region, region \in Regions
      PROVE  /\ fs \in Seq(Frames) /\ Leads(fs, region, region, R)
             /\ r = IF tree[Here].form = "arraydecl" THEN R[Here] ELSE <<>>
  <2>1. fs \in Seq(Frames) /\ Leads(fs, region, region, R)
    BY <1>2, <1>3, <1>5, <1>6, PartsLead DEF Walks
  <2> QED  BY <1>2, <1>3, <2>1
<1> QED  BY <1>2, <1>4, <1>6, AllocatedKeeps

\* The alloca goes where the builder is.
LEMMA GenAllocaKeeps ==
    ASSUME LinkingInv, GenAlloca
    PROVE  LinkingInv'
<1>1. /\ phase = "gen" /\ stack # <<>> /\ stack[1].k = "alloca"
      /\ stack[1].k \notin {"enter", "leave"} /\ UNCHANGED checkVars
      /\ Allocated(Here, region) /\ Become(<<>>)
  BY DEF GenAlloca, Top
<1>2. tree[Here].form = "arraydecl"
  <2>1. \E R, p : Runs(stack[1], region, p, R)
    BY <1>1, GenRunning
  <2>2. tree[Here].form \in GenHosts("alloca")
    BY <1>1, <2>1 DEF Runs, Here
  <2> QED  BY <2>2 DEF GenHosts
<1>3. PICK fs, r : fs = <<>> /\ r = region
  OBVIOUS
<1>4. ASSUME NEW R, R[Here] = region, region \in Regions
      PROVE  /\ fs \in Seq(Frames) /\ Leads(fs, region, region, R)
             /\ r = IF tree[Here].form = "arraydecl" THEN R[Here] ELSE <<>>
  <2>1. Leads(<<>>, r, r, R)
    BY <1>3, <1>4, LeadsNone
  <2> QED  BY <1>2, <1>3, <1>4, <2>1
<1>5. Allocated(Here, r) /\ Become(fs)
  BY <1>1, <1>3
<1> QED  BY <1>1, <1>4, <1>5, AllocatedKeeps

\* A branch or a body begins or ends.
LEMMA RegionKeeps ==
    ASSUME LinkingInv, phase = "gen", stack # <<>>, Become(<<>>),
           UNCHANGED <<checkVars, phase, symbols, home>>,
           \A R : \A p \in Regions : Runs(stack[1], region, p, R) => region' = p
    PROVE  LinkingInv'
<1>1. PICK R : /\ Walks(R) /\ region \in Regions
               /\ \E p \in Regions : /\ Runs(stack[1], region, p, R)
                                     /\ Leads(Tail(stack), p, <<>>, R)
  BY GenRunning
<1>2. PICK p \in Regions : Runs(stack[1], region, p, R) /\ Leads(Tail(stack), p, <<>>, R)
  BY <1>1
<1>3. region' = p
  BY <1>2
<1>4. PICK fs : fs = <<>>
  OBVIOUS
<1>5. fs \in Seq(Frames) /\ Leads(fs, p, p, R) /\ Become(fs)
  BY <1>4, LeadsNone
<1>6. UNCHANGED <<tree, fuel, err, scopes, ty, link, phase, symbols, home>>
  BY DEF checkVars
<1>7. Homes(R)' /\ DOMAIN home' = symbols'
  <2>1. DOMAIN home = symbols /\ Homes(R)
    BY <1>1 DEF LinkingInv, Typed, Walks
  <2> QED  BY <1>6, <2>1, HomesStay
<1>8. Leads(fs, region', p, R)
  BY <1>3, <1>5
<1> QED  BY <1>1, <1>2, <1>5, <1>6, <1>7, <1>8, GenGoesOn

\* The frames of the branch or body are next.
LEMMA EnterRegionKeeps ==
    ASSUME LinkingInv, EnterRegion
    PROVE  LinkingInv'
<1>1. /\ phase = "gen" /\ stack # <<>> /\ stack[1].k = "enter" /\ Become(<<>>)
      /\ region' = Append(region, <<Here, stack[1].d>>)
      /\ UNCHANGED <<checkVars, phase, symbols, home>>
  BY DEF EnterRegion, Top
<1>2. \A R : \A p \in Regions : Runs(stack[1], region, p, R) => region' = p
  BY <1>1 DEF Runs, Here
<1> QED  BY <1>1, <1>2, RegionKeeps

\* The frames behind the branch or body are next.
LEMMA LeaveRegionKeeps ==
    ASSUME LinkingInv, LeaveRegion
    PROVE  LinkingInv'
<1>1. /\ phase = "gen" /\ stack # <<>> /\ stack[1].k = "leave" /\ Become(<<>>)
      /\ region' = Front(region)
      /\ UNCHANGED <<checkVars, phase, symbols, home>>
  BY DEF LeaveRegion, Top
<1>2. \A R : \A p \in Regions : Runs(stack[1], region, p, R) => region' = p
  BY <1>1 DEF Runs, Here
<1> QED  BY <1>1, <1>2, RegionKeeps

\* Part i, a branch or a body, in its region.
LEMMA BranchLeads ==
    ASSUME Shaped, Here \in Nodes, Here \in Nat, tree[Here].form \in {"if", "while"},
           NEW R, Regioned(R), R[Here] = region, region \in Regions,
           NEW i \in DOMAIN Kids(Here), i # 1
    PROVE  /\ Within(i, <<Stmt(Part(i))>>) \in Seq(Frames)
           /\ Leads(Within(i, <<Stmt(Part(i))>>), region, region, R)
<1>1. PICK r : r = Append(region, <<Here, i>>)
  OBVIOUS
<1>2. i \in Nat /\ i # 0
  BY NodesAre
<1>3. r = Sub(region, tree[Here].form, Here, i)
  BY <1>1, <1>2 DEF Sub, Entered
<1>4. PICK fs : fs = <<Stmt(Part(i))>>
  OBVIOUS
<1>5. fs \in Seq(Frames) /\ Leads(fs, r, r, R)
  BY <1>3, <1>4, PartLeads
<1>6. Within(i, fs) \in Seq(Frames) /\ Leads(Within(i, fs), region, region, R)
  BY <1>1, <1>2, <1>5, WithinLeads
<1> QED  BY <1>4, <1>6

\* The condition, then a branch or the body.
LEMMA CondThenBranch ==
    ASSUME Shaped, Here \in Nodes, Here \in Nat, tree[Here].form \in {"if", "while"},
           NEW R, Regioned(R), R[Here] = region, region \in Regions,
           1 \in DOMAIN Kids(Here), 2 \in DOMAIN Kids(Here), NEW s,
           s = <<Visit(1)>> \o Within(2, <<Stmt(Part(2))>>)
    PROVE  s \in Seq(Frames) /\ Leads(s, region, region, R)
<1>1. PICK i, j, r : i = 1 /\ j = 2 /\ r = region
  OBVIOUS
<1>2. i \in DOMAIN Kids(Here) /\ j \in DOMAIN Kids(Here) /\ j # 1
  BY <1>1
<1>3. r = Sub(region, tree[Here].form, Here, i)
  BY <1>1 DEF Sub, Entered
<1>4. <<Visit(i)>> \in Seq(Frames) /\ Leads(<<Visit(i)>>, r, r, R)
  BY <1>2, <1>3, PartLeads
<1>5. /\ Within(j, <<Stmt(Part(j))>>) \in Seq(Frames)
      /\ Leads(Within(j, <<Stmt(Part(j))>>), region, region, R)
  BY <1>2, BranchLeads
<1>6. PICK a, b : a = <<Visit(i)>> /\ b = Within(j, <<Stmt(Part(j))>>)
  OBVIOUS
<1>7. a \in Seq(Frames) /\ b \in Seq(Frames) /\ Leads(a, r, r, R) /\ Leads(b, r, r, R)
  BY <1>1, <1>4, <1>5, <1>6
<1>8. a \o b \in Seq(Frames) /\ Leads(a \o b, r, r, R)
  BY <1>7, LeadsOn
<1>9. s = a \o b
  BY <1>1, <1>6
<1> QED  BY <1>1, <1>8, <1>9

\* The condition, then the body.
LEMMA GenWhileStmtKeeps ==
    ASSUME LinkingInv, GenWhileStmt
    PROVE  LinkingInv'
<1>1. At("while") /\ UNCHANGED checkVars /\ Goto(<<Visit(1)>> \o Within(2, <<Stmt(Part(2))>>))
  BY DEF GenWhileStmt
<1>2. /\ phase = "gen" /\ stack # <<>> /\ stack[1].k \notin {"enter", "leave"}
      /\ tree[Here].form = "while" /\ Here \in Nodes /\ Here \in Nat /\ Shaped
      /\ Len(Kids(Here)) \in Arity("while") /\ DOMAIN Kids(Here) = 1 .. Len(Kids(Here))
  BY <1>1, AtIs
<1>3. 1 \in DOMAIN Kids(Here) /\ 2 \in DOMAIN Kids(Here)
  <2>1. Len(Kids(Here)) = 2
    BY <1>2 DEF Arity
  <2> QED  BY <1>2, <2>1
<1>4. PICK fs : fs = <<Visit(1)>> \o Within(2, <<Stmt(Part(2))>>)
  OBVIOUS
<1>5. ASSUME NEW R, Walks(R), R[Here] = region, region \in Regions
      PROVE  fs \in Seq(Frames) /\ Leads(fs, region, region, R)
  BY <1>2, <1>3, <1>4, <1>5, CondThenBranch DEF Walks
<1>6. Goto(fs)
  BY <1>1, <1>4
<1> QED  BY <1>1, <1>2, <1>5, <1>6, GotoKeeps

\* The condition, then the branches.
LEMMA GenIfStmtKeeps ==
    ASSUME LinkingInv, GenIfStmt
    PROVE  LinkingInv'
<1>1. PICK s, b, fs : /\ s = <<Visit(1)>> \o Within(2, <<Stmt(Part(2))>>)
                      /\ b = (IF Len(tree[Here].kids) = 3 THEN Within(3, <<Stmt(Part(3))>>) ELSE <<>>)
                      /\ fs = s \o b
  OBVIOUS
<1>2. At("if") /\ UNCHANGED checkVars /\ Goto(fs)
  BY <1>1 DEF GenIfStmt
<1>3. /\ phase = "gen" /\ stack # <<>> /\ stack[1].k \notin {"enter", "leave"}
      /\ tree[Here].form = "if" /\ Here \in Nodes /\ Here \in Nat /\ Shaped
      /\ Len(Kids(Here)) \in Arity("if") /\ DOMAIN Kids(Here) = 1 .. Len(Kids(Here))
      /\ Kids(Here) = tree[Here].kids
  BY <1>2, AtIs
<1>4. Len(Kids(Here)) = 2 \/ Len(Kids(Here)) = 3
  <2>1. PICK c : c = Len(Kids(Here))
    OBVIOUS
  <2>2. c \in Arity("if")
    BY <1>3, <2>1
  <2>3. Arity("if") = {2, 3}
    BY DEF Arity
  <2> QED  BY <2>1, <2>2, <2>3
<1>5. 1 \in DOMAIN Kids(Here) /\ 2 \in DOMAIN Kids(Here)
  <2>1. PICK c : c = Len(Kids(Here))
    OBVIOUS
  <2>2. 1 \in 1 .. c /\ 2 \in 1 .. c
    BY <1>4, <2>1
  <2> QED  BY <1>3, <2>1, <2>2
<1>6. ASSUME NEW R, Walks(R), R[Here] = region, region \in Regions
      PROVE  fs \in Seq(Frames) /\ Leads(fs, region, region, R)
  <2>1. PICK r : r = region
    OBVIOUS
  <2>2. s \in Seq(Frames) /\ Leads(s, r, r, R)
    BY <1>1, <1>3, <1>5, <1>6, <2>1, CondThenBranch DEF Walks
  <2>3. b \in Seq(Frames) /\ Leads(b, r, r, R)
    <3>1. CASE Len(tree[Here].kids) = 3
      <4>1. PICK i : i = 3
        OBVIOUS
      <4>2. i \in DOMAIN Kids(Here) /\ i # 1
        BY <1>3, <3>1, <4>1
      <4>3. /\ Within(i, <<Stmt(Part(i))>>) \in Seq(Frames)
            /\ Leads(Within(i, <<Stmt(Part(i))>>), region, region, R)
        BY <1>3, <1>6, <4>2, BranchLeads DEF Walks
      <4>4. b = Within(i, <<Stmt(Part(i))>>)
        BY <1>1, <3>1, <4>1
      <4> QED  BY <2>1, <4>3, <4>4
    <3>2. CASE Len(tree[Here].kids) # 3
      <4>1. b = <<>>
        BY <1>1, <3>2
      <4> QED  BY <1>6, <2>1, <4>1, LeadsNone
    <3> QED  BY <3>1, <3>2
  <2>4. s \o b \in Seq(Frames) /\ Leads(s \o b, r, r, R)
    BY <2>2, <2>3, LeadsOn
  <2> QED  BY <1>1, <2>1, <2>4
<1> QED  BY <1>2, <1>3, <1>6, GotoKeeps

\* Initialisation and condition, then the body and the update.
LEMMA GenForStmtKeeps ==
    ASSUME LinkingInv, GenForStmt
    PROVE  LinkingInv'
<1>1. PICK a, b, c, d, s, t, w, fs :
          /\ a = Stmt(Part(1)) /\ b = Visit(2) /\ c = Stmt(Part(4)) /\ d = Stmt(Part(3))
          /\ s = <<a, b>> /\ t = <<c, d>> /\ w = Within(4, t) /\ fs = s \o w
  OBVIOUS
<1>2. At("for") /\ UNCHANGED checkVars /\ Goto(fs)
  BY <1>1 DEF GenForStmt
<1>3. /\ phase = "gen" /\ stack # <<>> /\ stack[1].k \notin {"enter", "leave"}
      /\ tree[Here].form = "for" /\ Here \in Nodes /\ Here \in Nat /\ Shaped
      /\ Len(Kids(Here)) \in Arity("for") /\ DOMAIN Kids(Here) = 1 .. Len(Kids(Here))
  BY <1>2, AtIs
<1>4. PICK i, j, k, l : i = 1 /\ j = 2 /\ k = 3 /\ l = 4
  OBVIOUS
<1>5. i \in DOMAIN Kids(Here) /\ j \in DOMAIN Kids(Here) /\ k \in DOMAIN Kids(Here)
      /\ l \in DOMAIN Kids(Here)
  <2>1. Len(Kids(Here)) = 4
    BY <1>3 DEF Arity
  <2> QED  BY <1>3, <1>4, <2>1
<1>6. /\ Entered("for", i) = 0 /\ Entered("for", j) = 0 /\ Entered("for", k) = 4
      /\ Entered("for", l) = 4
  BY <1>4 DEF Entered
<1>7. ASSUME NEW R, Walks(R), R[Here] = region, region \in Regions
      PROVE  fs \in Seq(Frames) /\ Leads(fs, region, region, R)
  <2>1. PICK r, q : r = region /\ q = Append(region, <<Here, 4>>)
    OBVIOUS
  <2>2. /\ r = Sub(region, tree[Here].form, Here, i) /\ r = Sub(region, tree[Here].form, Here, j)
        /\ q = Sub(region, tree[Here].form, Here, k) /\ q = Sub(region, tree[Here].form, Here, l)
    BY <1>3, <1>6, <2>1 DEF Sub
  <2>3. Shaped /\ Here \in Nodes /\ Regioned(R) /\ R[Here] = region
    BY <1>3, <1>7 DEF Walks
  <2>4. Stmt(Part(i)) \in Frames /\ Runs(Stmt(Part(i)), r, r, R) /\ r \in Regions
    BY <1>5, <2>2, <2>3, PartRuns
  <2>5. Visit(j) \in Frames /\ Runs(Visit(j), r, r, R)
    BY <1>5, <2>2, <2>3, PartRuns
  <2>6. Stmt(Part(k)) \in Frames /\ Runs(Stmt(Part(k)), q, q, R) /\ q \in Regions
    BY <1>5, <2>2, <2>3, PartRuns
  <2>7. Stmt(Part(l)) \in Frames /\ Runs(Stmt(Part(l)), q, q, R)
    BY <1>5, <2>2, <2>3, PartRuns
  <2>8. /\ a \in Frames /\ Runs(a, r, r, R) /\ b \in Frames /\ Runs(b, r, r, R)
        /\ c \in Frames /\ Runs(c, q, q, R) /\ d \in Frames /\ Runs(d, q, q, R)
    BY <1>1, <1>4, <2>4, <2>5, <2>6, <2>7
  <2>9. s \in Seq(Frames) /\ Leads(s, r, r, R)
    <3>1. s \in Seq(Frames) /\ DOMAIN s = {1, 2} /\ s[1] = a /\ s[2] = b
      BY <1>1, <2>8
    <3>2. \A x \in DOMAIN s : Runs(s[x], r, r, R)
      BY <2>8, <3>1
    <3> QED  BY <2>4, <3>1, <3>2, FlatLeads
  <2>10. t \in Seq(Frames) /\ Leads(t, q, q, R)
    <3>1. t \in Seq(Frames) /\ DOMAIN t = {1, 2} /\ t[1] = c /\ t[2] = d
      BY <1>1, <2>8
    <3>2. \A x \in DOMAIN t : Runs(t[x], q, q, R)
      BY <2>8, <3>1
    <3> QED  BY <2>6, <3>1, <3>2, FlatLeads
  <2>11. w \in Seq(Frames) /\ Leads(w, r, r, R)
    <3>1. l \in Nat /\ q = Append(region, <<Here, l>>) /\ w = Within(l, t)
      BY <1>1, <1>4, <2>1
    <3>2. Within(l, t) \in Seq(Frames) /\ Leads(Within(l, t), region, region, R)
      BY <1>3, <1>7, <2>10, <3>1, WithinLeads
    <3> QED  BY <2>1, <3>1, <3>2
  <2>12. s \o w \in Seq(Frames) /\ Leads(s \o w, r, r, R)
    BY <2>9, <2>11, LeadsOn
  <2> QED  BY <1>1, <2>1, <2>12
<1> QED  BY <1>2, <1>3, <1>7, GotoKeeps

-----------------------------------------------------------------------------
(* The theorems. *)

\* Nothing happens.
LEMMA StutterKeeps ==
    ASSUME LinkingInv, UNCHANGED vars
    PROVE  LinkingInv'
<1>1. UNCHANGED <<tree, fuel, phase, err, stack, scopes, ty, link, symbols, region, home>>
  BY DEF vars
<1>2. Nodes' = Nodes /\ Uses' = Uses
  BY <1>1 DEF Nodes, Uses
<1>3. Shaped'
  BY <1>1 DEF LinkingInv, Shaped, Nodes, Kids, IsParam
<1>4. Typed'
  BY <1>1, <1>2 DEF LinkingInv, Typed
<1>5. Checking'
  <2> SUFFICES ASSUME phase = "check"
               PROVE  Checking'
    BY <1>1 DEF Checking
  <2>1. PICK R, g : Held(R, g)
    BY IsHeld
  <2>2. Regioned(R)'
    BY <1>1, <2>1, TreeStays DEF Held, Continues
  <2>3. Levelled(g, stack, Len(scopes), 1)'
    BY <1>1, <2>1 DEF Held, Levelled
  <2>4. /\ \A d : Exempt(d) => Exempt(d)'
        /\ \A l, i, j : Closed(g, stack, l, i, j)' = Closed(g, stack, l, i, j)
        /\ \A d : Variable(d) => Variable(d)'
        /\ \A f : Hosted(f) => Hosted(f)'
    BY <1>1 DEF Exempt, Closed, Variable, Hosted, Nodes, Kids, IsArray
  <2>5. \A d, r : Usable(R, d, r) => Usable(R, d, r)'
    BY <1>1, <2>4 DEF Usable
  <2>6. Stacked(R, g)'
    BY <1>1, <2>1, <2>4 DEF Held, Stacked
  <2>7. Bound(R, g)'
    <3>1. \A l, d : Safe(R, g, l, d) => Safe(R, g, l, d)'
      BY <1>1, <2>4, <2>5 DEF Safe
    <3> QED  BY <1>1, <2>1, <3>1 DEF Held, Bound
  <2>8. Found(R)'
    BY <1>1, <2>1, <2>5 DEF Held, Found
  <2>9. LinksRight(R)'
    BY <1>1, <2>1, <2>2, TreeStays, LinksRightStays DEF Held
  <2>10. UsesAwaited'
    BY <1>1, <1>2, <2>1 DEF Held, UsesAwaited
  <2> QED  BY <2>2, <2>3, <2>6, <2>7, <2>8, <2>9, <2>10 DEF Checking
<1>6. Generating'
  <2> SUFFICES ASSUME phase = "gen"
               PROVE  Generating'
    BY <1>1 DEF Generating
  <2>1. PICK R : Walks(R)
    BY DEF LinkingInv, Generating, Walks
  <2>2. PICK s, r : s = stack /\ r = region
    OBVIOUS
  <2>3. Leads(s, r, <<>>, R)
    BY <2>1, <2>2 DEF Walks
  <2>4. Leads(s, r, <<>>, R)'
    BY <1>1, <2>3, LeadsStays
  <2>5. Leads(stack, region, <<>>, R)'
    BY <1>1, <2>2, <2>4
  <2>6. Regioned(R)' /\ LinksRight(R)'
    BY <1>1, <2>1, TreeStays, LinksRightStays DEF Walks, Continues
  <2>7. Homes(R)'
    BY <1>1, <2>1, HomesStay DEF Walks
  <2>8. (Uses \subseteq DOMAIN link)'
    BY <1>1, <1>2, <2>1 DEF Walks
  <2> QED  BY <2>5, <2>6, <2>7, <2>8 DEF Generating
<1> QED  BY <1>3, <1>4, <1>5, <1>6 DEF LinkingInv

\* Steps of the typechecker.
LEMMA CheckStepKeeps == LinkingInv /\ CheckStep => LinkingInv'
BY BindParamKeeps, ParamsEndKeeps, OpenScopeKeeps, CloseScopeKeeps, CheckEndKeeps,
   CheckLiteralKeeps, CheckVarExpKeeps, CheckArrayAccessExpKeeps, ArrayAccessEndKeeps,
   CheckCallExpKeeps, CallExpEndKeeps, CheckCallStmtKeeps, CheckReturnStmtKeeps,
   CheckAssignStmtKeeps, AssignStmtEndKeeps, CheckArrayAssignStmtKeeps,
   ArrayAssignStmtEndKeeps, CheckDeclStmtKeeps, InsertDeclKeeps, CheckSeqStmtKeeps,
   SeqNextKeeps, SeqEndKeeps, CheckIfStmtKeeps, CheckWhileStmtKeeps, CheckForStmtKeeps, Zenon
   DEF CheckStep

\* Steps of the code generator.
LEMMA GenStepKeeps == LinkingInv /\ GenStep => LinkingInv'
BY GenSeqKeeps, GenSimpleKeeps, GenVarExpKeeps, GenArrayAccessExpKeeps, GenAssignStmtKeeps,
   GenArrayAssignStmtKeeps, GenElementKeeps, GenDeclStmtKeeps, GenDeclArrayKeeps,
   GenAllocaKeeps, EnterRegionKeeps, LeaveRegionKeeps, GenIfStmtKeeps, GenWhileStmtKeeps,
   GenForStmtKeeps, GenEndKeeps, Zenon
   DEF GenStep

\* The invariant is inductive.
LEMMA NextKeeps == LinkingInv /\ [Next]_vars => LinkingInv'
BY CheckStepKeeps, GenStepKeeps, StutterKeeps, Zenon DEF Next

\* The four frames the typechecker starts with.
LEMMA FirstFrames ==
    ASSUME NEW b \in Nat, NEW s,
           s = <<Do("params", b), Do("open", b), Do("seq", b), Do("close", b)>>
    PROVE  /\ s \in Seq(Frames) /\ DOMAIN s = 1 .. 4 /\ Len(s) = 4
           /\ \A i \in DOMAIN s : s[i].n = b
           /\ s[1].k = "params" /\ s[2].k = "open" /\ s[3].k = "seq" /\ s[4].k = "close"
<1>1. PICK f1, f2, f3, f4 : /\ f1 = Do("params", b) /\ f2 = Do("open", b)
                            /\ f3 = Do("seq", b) /\ f4 = Do("close", b)
  OBVIOUS
<1>2. f1 \in Frames /\ f2 \in Frames /\ f3 \in Frames /\ f4 \in Frames
  BY <1>1 DEF Frames, Do, Frame, Kinds
<1>3. /\ f1.n = b /\ f2.n = b /\ f3.n = b /\ f4.n = b
      /\ f1.k = "params" /\ f2.k = "open" /\ f3.k = "seq" /\ f4.k = "close"
  BY <1>1 DEF Do, Frame
<1>4. s = <<f1, f2, f3, f4>>
  BY <1>1
<1>5. s \in Seq(Frames)
  BY <1>2, <1>4
<1>6. DOMAIN s = 1 .. 4 /\ Len(s) = 4 /\ s[1] = f1 /\ s[2] = f2 /\ s[3] = f3 /\ s[4] = f4
  BY <1>4
<1>7. ASSUME NEW i \in DOMAIN s
      PROVE  s[i].n = b
  <2>1. i = 1 \/ i = 2 \/ i = 3 \/ i = 4
    BY <1>6
  <2> QED  BY <1>3, <1>6, <2>1
<1> QED  BY <1>3, <1>5, <1>6, <1>7

\* The tree there is at first.
LEMMA FirstTree ==
    ASSUME Init
    PROVE  /\ DOMAIN tree = {1} /\ Len(tree) = 1 /\ Nodes = {1} /\ Body = 1 /\ Kids(1) = <<>>
           /\ tree[1].form = "seq" /\ tree \in Seq(NodeRecs) /\ Shaped
<1>1. PICK e \in AllNames : e = ""
  BY NoName
<1>2. PICK n : n = Node("seq", e, "int")
  OBVIOUS
<1>3. tree = <<n>>
  <2>1. tree = <<Node("seq", "", "int")>>
    BY Zenon DEF Init
  <2> QED  BY <1>1, <1>2, <2>1, Zenon
<1>4. n \in NodeRecs /\ n.form = "seq" /\ n.kids = <<>>
  <2>1. <<>> \in Seq(Nat) /\ "int" \in Types /\ "seq" \in NodeForms
    BY TypesAssumption DEF NodeForms, AllForms
  <2> QED  BY <1>1, <1>2, <2>1 DEF Node, NodeRecs
<1>5. /\ DOMAIN tree = {1} /\ Len(tree) = 1 /\ tree[1] = n /\ tree \in Seq(NodeRecs)
  BY <1>3, <1>4
<1>6. Nodes = {1} /\ Body = 1 /\ Kids(1) = <<>> /\ DOMAIN <<>> = {} /\ Len(<<>>) = 0
  BY <1>4, <1>5 DEF Nodes, Body, Kids
<1>7. 0 \in Nat /\ 0 \in Arity("seq")
  BY DEF Arity
<1>8. Shaped
  <2>1. \A m \in Nodes : m = 1
    BY <1>6
  <2> QED  BY <1>4, <1>5, <1>6, <1>7, <2>1 DEF Shaped
<1> QED  BY <1>4, <1>5, <1>6, <1>8

\* The typechecker's part of the invariant, at first.
LEMMA FirstChecking == ASSUME Init PROVE Checking
<1>1. /\ DOMAIN tree = {1} /\ Nodes = {1} /\ Body = 1 /\ Kids(1) = <<>> /\ tree[1].form = "seq"
  BY FirstTree
<1>2. PICK s : s = stack
  OBVIOUS
<1>3. s = <<Do("params", Body), Do("open", Body), Do("seq", Body), Do("close", Body)>>
  BY <1>2, Zenon DEF Init
<1>4. /\ s \in Seq(Frames) /\ DOMAIN s = 1 .. 4 /\ Len(s) = 4 /\ \A i \in DOMAIN s : s[i].n = 1
      /\ s[1].k = "params" /\ s[2].k = "open" /\ s[3].k = "seq" /\ s[4].k = "close"
  <2>1. 1 \in Nat
    OBVIOUS
  <2>2. s = <<Do("params", 1), Do("open", 1), Do("seq", 1), Do("close", 1)>>
    BY <1>1, <1>3
  <2> QED  BY <2>1, <2>2, FirstFrames
<1>5. \A i \in DOMAIN s : i = 1 \/ i = 2 \/ i = 3 \/ i = 4
  BY <1>4
<1>6. \A i \in DOMAIN s : s[i].k \in {"params", "open", "seq", "close"} /\ s[i].n = 1
  BY <1>4, <1>5
<1>7. PICK none : none = NoLinks
  OBVIOUS
<1>8. DOMAIN none = {} /\ link = none /\ scopes = <<none>>
  <2>1. link = NoLinks /\ scopes = <<NoLinks>>
    BY Zenon DEF Init
  <2> QED  BY <1>7, <2>1 DEF NoLinks
<1>9. DOMAIN scopes = {1} /\ Len(scopes) = 1 /\ scopes[1] = none
  BY <1>8
<1>10. PICK R : R = [n \in {1} |-> <<>>]
  OBVIOUS
<1>11. R[1] = <<>> /\ <<>> \in Regions /\ R \in [{1} -> Regions]
  BY <1>10 DEF Regions
<1>12. Regioned(R)
  <2>1. DOMAIN <<>> = {}
    OBVIOUS
  <2>2. \A n \in Nodes : n = 1
    BY <1>1
  <2>3. ~IsParam(1)
    BY <1>1 DEF IsParam, ParamForms
  <2> QED  BY <1>1, <1>11, <2>1, <2>2, <2>3 DEF Regioned
<1>13. PICK g : g = [i \in 1 .. 5 |-> IF i = 3 \/ i = 4 THEN 2 ELSE 1]
  OBVIOUS
<1>14. g \in [1 .. 5 -> Nat \ {0}] /\ g[1] = 1 /\ g[2] = 1 /\ g[3] = 2 /\ g[4] = 2 /\ g[5] = 1
  BY <1>13
<1>15. Levelled(g, s, 1, 1)
  <2>1. /\ Shift("params") = 0 /\ Shift("seq") = 0 /\ Shift("open") = 1 /\ Shift("close") = -1
    BY DEF Shift
  <2>2. ASSUME NEW i \in DOMAIN s
        PROVE  g[i + 1] = g[i] + Shift(s[i].k)
    <3>1. CASE i = 1
      <4>1. g[i + 1] = 1 /\ g[i] = 1 /\ Shift(s[i].k) = 0
        BY <1>4, <1>14, <2>1, <3>1
      <4> QED  BY <4>1
    <3>2. CASE i = 2
      <4>1. g[i + 1] = 2 /\ g[i] = 1 /\ Shift(s[i].k) = 1
        BY <1>4, <1>14, <2>1, <3>2
      <4> QED  BY <4>1
    <3>3. CASE i = 3
      <4>1. g[i + 1] = 2 /\ g[i] = 2 /\ Shift(s[i].k) = 0
        BY <1>4, <1>14, <2>1, <3>3
      <4> QED  BY <4>1
    <3>4. CASE i = 4
      <4>1. g[i + 1] = 1 /\ g[i] = 2 /\ Shift(s[i].k) = -1
        BY <1>4, <1>14, <2>1, <3>4
      <4> QED  BY <4>1
    <3> QED  BY <1>5, <3>1, <3>2, <3>3, <3>4
  <2>3. PICK l : l = Len(s) + 1
    OBVIOUS
  <2>4. l = 5
    BY <1>4, <2>3
  <2>5. /\ g \in [1 .. Len(s) + 1 -> Nat \ {0}] /\ g[1] = 1 /\ g[Len(s) + 1] = 1
    BY <1>14, <2>3, <2>4
  <2> QED  BY <2>2, <2>5 DEF Levelled
<1>16. Levelled(g, stack, Len(scopes), 1)
  BY <1>2, <1>9, <1>15
<1>17. Stacked(R, g)
  <2>1. ASSUME NEW i \in DOMAIN s
        PROVE  Hosted(s[i])
    <3>1. s[i].k \in {"params", "open", "seq", "close"} /\ s[i].n = 1
      BY <1>6
    <3>2. s[i].k \notin Finders /\ s[i].k \in Kinds /\ "seq" \in Hosts(s[i].k)
      BY <3>1 DEF Finders, Kinds, Hosts
    <3>3. s[i].n \in Nodes /\ tree[s[i].n].form = "seq"
      BY <1>1, <3>1
    <3> QED  BY <3>2, <3>3 DEF Hosted
  <2>2. \A i \in DOMAIN s : s[i].k \notin Visits /\ s[i].k \notin Fillers
    BY <1>6 DEF Visits, Fillers
  <2>3. ASSUME NEW i \in DOMAIN s, s[i].k = "seq"
        PROVE  i + 1 \in DOMAIN s /\ s[i + 1].k = "close"
    <3>1. i = 3
      BY <1>4, <1>5, <2>3
    <3>2. 3 + 1 = 4 /\ 4 \in 1 .. 4
      OBVIOUS
    <3> QED  BY <1>4, <3>1, <3>2
  <2> QED  BY <1>2, <2>1, <2>2, <2>3 DEF Stacked
<1>18. Bound(R, g)
  <2>1. \A l \in DOMAIN scopes : DOMAIN scopes[l] = {}
    BY <1>8, <1>9
  <2> QED  BY <2>1 DEF Bound
<1>19. Found(R)
  <2>1. \A i \in DOMAIN s : s[i].k \notin Finders
    BY <1>6 DEF Finders
  <2> QED  BY <1>2, <2>1 DEF Found
<1>20. LinksRight(R)
  BY <1>8 DEF LinksRight
<1>21. UsesAwaited
  BY <1>1 DEF UsesAwaited, Uses
<1> QED  BY <1>12, <1>16, <1>17, <1>18, <1>19, <1>20, <1>21 DEF Checking

\* The invariant holds at first.
LEMMA InitHolds == Init => LinkingInv
<1> SUFFICES ASSUME Init
             PROVE  LinkingInv
  OBVIOUS
<1>1. Shaped /\ Checking /\ Nodes = {1} /\ Body = 1
  BY FirstTree, FirstChecking
<1>2. /\ fuel = MaxNodes /\ phase = "check" /\ err = "none" /\ ty = "int" /\ symbols = {}
      /\ region = <<>> /\ home = NoLinks /\ link = NoLinks /\ scopes = <<NoLinks>>
      /\ stack = <<Do("params", Body), Do("open", Body), Do("seq", Body), Do("close", Body)>>
  BY Zenon DEF Init
<1>3. Generating
  BY <1>2 DEF Generating
<1>4. PICK none, s : none = NoLinks /\ s = stack
  OBVIOUS
<1>5. DOMAIN none = {} /\ none \in Bindings
  <2>1. none = [u \in {} |-> 0] /\ none \in [{} -> Nat] /\ {} \in SUBSET AllNames
    BY <1>4 DEF NoLinks
  <2>2. \E D \in SUBSET AllNames : none \in [D -> Nat]
    BY <2>1
  <2> QED  BY <2>1, <2>2 DEF Bindings
<1>6. scopes \in Seq(Bindings)
  BY <1>2, <1>4, <1>5
<1>7. s \in Seq(Frames) /\ \A i \in DOMAIN s : s[i].n = 1
  <2>1. 1 \in Nat /\ s = <<Do("params", 1), Do("open", 1), Do("seq", 1), Do("close", 1)>>
    BY <1>1, <1>2, <1>4
  <2> QED  BY <2>1, FirstFrames
<1>8. stack \in Seq(Frames) /\ \A i \in DOMAIN stack : stack[i].n \in Nodes
  BY <1>1, <1>4, <1>7
<1>9. fuel \in 0 .. MaxNodes
  BY <1>2, BoundsAssumption
<1>10. phase \in Phases /\ err \in Errors /\ ty \in Types
  BY <1>2, TypesAssumption DEF Phases, Errors
<1>11. DOMAIN link = {} /\ DOMAIN home = symbols
  BY <1>2, <1>4, <1>5
<1>12. Typed
  BY <1>2, <1>6, <1>8, <1>9, <1>10, <1>11 DEF Typed
<1> QED  BY <1>1, <1>3, <1>12 DEF LinkingInv

\* The invariant has the types in it, and the length of the chain of scopes.
LEMMA InvTypes == LinkingInv => TypeOK
<1> SUFFICES ASSUME LinkingInv
             PROVE  TypeOK
  OBVIOUS
<1>1. Shaped /\ Typed
  BY DEF LinkingInv
<1>2. ASSUME NEW n \in Nodes
      PROVE  /\ tree[n].form \in AllForms \cup ParamForms \cup {"hole", "lit"}
             /\ tree[n].ty \in Types /\ Range(tree[n].kids) \subseteq n + 1 .. Len(tree)
  <2>1. tree[n] \in NodeRecs
    BY <1>1 DEF Shaped, Nodes
  <2>2. tree[n].form \in NodeForms /\ tree[n].ty \in Types
    BY <2>1 DEF NodeRecs
  <2>3. n \in Nat /\ Nodes = 1 .. Len(tree) /\ Len(tree) \in Nat
    BY <1>1 DEF Shaped, Nodes
  <2>4. ASSUME NEW i \in DOMAIN Kids(n)
        PROVE  Kids(n)[i] \in n + 1 .. Len(tree)
    <3>1. PICK k : k = Kids(n)[i]
      OBVIOUS
    <3>2. k \in Nodes /\ n < k
      BY <1>1, <3>1 DEF Shaped
    <3> QED  BY <2>3, <3>1, <3>2
  <2>5. Range(tree[n].kids) \subseteq n + 1 .. Len(tree)
    BY <2>4 DEF Range, Kids
  <2> QED  BY <2>2, <2>5 DEF NodeForms
<1>3. /\ fuel \in 0 .. MaxNodes /\ ty \in Types
      /\ phase \in {"check", "gen", "done", "rejected", "asserted", "crashed"}
      /\ err \in {"none", "undefined", "redeclared", "type", "param", "nomatch"}
  BY <1>1 DEF Typed, Phases, Errors
<1>4. ASSUME NEW i \in DOMAIN stack
      PROVE  stack[i].n \in Nodes /\ stack[i].want \subseteq AllTypes
  <2>1. stack[i] \in Frames /\ stack[i].n \in Nodes
    BY <1>1 DEF Typed
  <2> QED  BY <2>1 DEF Frames
<1>5. ASSUME phase = "check"
      PROVE  Len(scopes) = 1 + Cardinality({i \in DOMAIN stack : stack[i].k = "close"})
                             - Cardinality({i \in DOMAIN stack : stack[i].k = "open"})
  <2>1. PICK R, g : Held(R, g)
    BY <1>5, IsHeld
  <2>2. PICK s, m : s = stack /\ m = Len(scopes)
    OBVIOUS
  <2>3. s \in Seq(Frames) /\ m \in Nat
    BY <1>1, <1>5, <2>2 DEF Typed
  <2>4. Levelled(g, s, m, 1)
    BY <2>1, <2>2 DEF Held
  <2>5. m = 1 + Cardinality({i \in DOMAIN s : s[i].k = "close"})
              - Cardinality({i \in DOMAIN s : s[i].k = "open"})
    BY <2>3, <2>4, LevelsCount
  <2> QED  BY <2>2, <2>5
<1>6. /\ DOMAIN link \subseteq Uses /\ Range(link) \subseteq Nodes /\ DOMAIN home = symbols
  BY <1>1 DEF Typed, Range
<1> QED  BY <1>2, <1>3, <1>4, <1>5, <1>6 DEF TypeOK

\* The invariant has the regions of variables in use in it.
LEMMA InvDominates == LinkingInv => UndominatedOnlyUnbraced
<1> SUFFICES ASSUME LinkingInv, NEW d \in InUse, ~Dominated(d)
             PROVE  tree[d].form = "arraydecl" /\ tree[Parent(d)].form \in {"if", "while"}
  BY DEF UndominatedOnlyUnbraced
<1>1. /\ phase = "gen" /\ stack # <<>> /\ Here \in Uses
      /\ d = link[Here] /\ d \in symbols
  BY DEF InUse
<1>2. PICK h : h = Here
  OBVIOUS
<1>3. Shaped /\ stack[1].n = h /\ h \in Uses
  BY <1>1, <1>2, GenRunning DEF Here
<1>4. PICK R : /\ Walks(R) /\ region \in Regions
               /\ \E p \in Regions : Runs(stack[1], region, p, R)
  BY <1>1, GenRunning
<1>5. region = R[h]
  <2>1. PICK p \in Regions : Runs(stack[1], region, p, R)
    BY <1>4
  <2>2. tree[h].form \in GenHosts(stack[1].k)
    BY <1>3, <2>1 DEF Runs
  <2>3. stack[1].k \notin {"enter", "leave"}
    BY <1>3, <2>2 DEF GenHosts, Uses
  <2> QED  BY <1>3, <2>1, <2>3 DEF Runs
<1>6. /\ Regioned(R) /\ Homes(R) /\ d \in Nodes /\ Usable(R, d, R[h])
      /\ home[d] = IF tree[d].form = "arraydecl" THEN R[d] ELSE <<>>
  BY <1>1, <1>2, <1>4 DEF Walks, LinksRight, Homes, Variable
<1>7. ~Before(home[d], region)
  <2>1. home[d] \in Regions
    BY <1>6 DEF Regioned, Regions
  <2> QED  BY <1>4, <2>1, BeforeIsPrefix DEF Dominated
<1>8. tree[d].form = "arraydecl"
  BY <1>4, <1>6, <1>7, BeforeRules
<1>9. Exempt(d)
  BY <1>5, <1>6, <1>7, <1>8 DEF Usable
<1>10. PICK m \in Nodes : tree[m].form \in {"if", "while"} /\ d \in Range(tree[m].kids)
  BY <1>9 DEF Exempt, Kids
<1>11. Parent(d) = m
  <2>1. Parent(d) \in Nodes /\ d \in Range(tree[Parent(d)].kids)
    BY <1>10 DEF Parent
  <2>2. PICK o : o = Parent(d)
    OBVIOUS
  <2>3. PICK i \in DOMAIN Kids(m) : Kids(m)[i] = d
    BY <1>10 DEF Range, Kids
  <2>4. PICK j \in DOMAIN Kids(o) : Kids(o)[j] = d
    BY <2>1, <2>2 DEF Range, Kids
  <2>5. m = o
    BY <1>3, <2>1, <2>2, <2>3, <2>4 DEF Shaped
  <2> QED  BY <2>2, <2>5
<1> QED  BY <1>8, <1>10, <1>11

\* The invariant holds in every behaviour of typechecker and code generator.
THEOREM LinkingHolds == Spec => []LinkingInv
BY InitHolds, NextKeeps, PTL DEF Spec

\* The state has its types, every link is from a use to a node, and the chain of
\* Scope objects is as long as there are scopes to close: a Scope is destroyed
\* and m_scope restored on every way out of a block or a for (Typechecker.cpp).
THEOREM TypeCorrect == Spec => []TypeOK
BY LinkingHolds, InvTypes, PTL

\* Where a variable is used in generated code, its alloca was executed before,
\* save for an array declared as the whole branch of an if or the whole body of a
\* while (Codegen.cpp, visit of declarations): the links of the typechecker and
\* the places of the allocas agree for every program.
THEOREM OnlyUnbracedUndominated == Spec => []UndominatedOnlyUnbraced
BY LinkingHolds, InvDominates, PTL

=============================================================================
