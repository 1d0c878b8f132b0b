------------------------------ MODULE ScannerProofs ------------------------------
(***************************************************************************)
(* The places of the scanner's tokens are true, for files of any length    *)
(* and any characters.  The scanner counts lines and columns while it      *)
(* reads: a fold of advance over the characters of each token, from the    *)
(* place of the last.  The proof compares every step of that fold with the *)
(* place that the whole text gives.                                        *)
(***************************************************************************)
EXTENDS Scanner, SequenceTheorems, FiniteSetTheorems, WellFoundedInduction, TLAPS

-----------------------------------------------------------------------------
(* Numbers. *)

\* Every set of numbers that is not empty has a least one.
LEMMA LeastNumber ==
    ASSUME NEW S \in SUBSET Nat, S # {}
    PROVE  \E x \in S : \A y \in S : x <= y
<1> DEFINE R == {ss \in Nat \X Nat : ss[1] < ss[2]}
<1>1. IsWellFoundedOn(R, Nat)
  BY NatLessThanWellFounded DEF OpToRel
<1>2. PICK x \in S : \A y \in S : <<y, x>> \notin R
  <2> HIDE DEF R
  <2> QED  BY <1>1, WFMin
<1>3. ASSUME NEW y \in S
      PROVE  x <= y
  <2>1. x \in Nat /\ y \in Nat /\ <<y, x>> \in Nat \X Nat
    OBVIOUS
  <2>2. ~(y < x)
    BY <1>2, <2>1
  <2> QED  BY <2>1, <2>2
<1> QED  BY <1>3

\* A set with 0 and the successor of every number in it has all the numbers.
LEMMA Induction ==
    ASSUME NEW S, 0 \in S, \A n \in Nat : n \in S => n + 1 \in S
    PROVE  Nat \subseteq S
<1> SUFFICES ASSUME Nat \ S # {}
             PROVE  FALSE
  OBVIOUS
<1>1. PICK x \in Nat \ S : \A y \in Nat \ S : x <= y
  BY LeastNumber
<1>2. PICK m \in Nat : m + 1 = x
  <2>1. x # 0 /\ x - 1 \in Nat /\ x - 1 + 1 = x
    BY <1>1
  <2> QED  BY <2>1
<1>3. m \in S
  BY <1>1, <1>2
<1> QED  BY <1>2, <1>3

\* What the least number of a set is.
LEMMA MinIs ==
    ASSUME NEW S \in SUBSET Nat, S # {}
    PROVE  Min(S) \in S /\ \A y \in S : Min(S) <= y
<1>1. \E x \in S : \A y \in S : x <= y
  BY LeastNumber
<1> QED  BY <1>1 DEF Min

\* Every set of numbers with a bound, and not empty, has a greatest one.
LEMMA MaxIs ==
    ASSUME NEW n \in Nat, NEW S \in SUBSET (0 .. n), S # {}
    PROVE  Max(S) \in S /\ \A y \in S : Max(S) >= y
<1>1. PICK x \in {n - y : y \in S} : \A z \in {n - y : y \in S} : x <= z
  <2>1. \A y \in S : n - y \in Nat
    OBVIOUS
  <2>2. {n - y : y \in S} \in SUBSET Nat /\ {n - y : y \in S} # {}
    BY <2>1
  <2> QED  BY <2>2, LeastNumber
<1>2. PICK m \in S : x = n - m
  BY <1>1
<1>3. ASSUME NEW y \in S
      PROVE  m >= y
  <2>1. n - m <= n - y
    BY <1>1, <1>2
  <2> QED  BY <2>1
<1>4. \E a \in S : \A y \in S : a >= y
  BY <1>3
<1> QED  BY <1>4 DEF Max

-----------------------------------------------------------------------------
(* Places. *)

\* The line breaks before an index, and the place that they give it.
Breaks(i) == {k \in 1 .. i - 1 : source[k] = "\n"}
TruePlace(i) == [line |-> Cardinality(Breaks(i)) + 1, column |-> i - Max(Breaks(i) \cup {0})]

\* The place of an index, by its parts.
LEMMA PlaceIs ==
    ASSUME NEW i, NEW B, B = Breaks(i), NEW b, b = Max(B \cup {0}),
           NEW ln, ln = Cardinality(B) + 1, NEW col, col = i - b
    PROVE  TruePlace(i) = [line |-> ln, column |-> col]
BY DEF TruePlace

\* The place after a character.
LEMMA PlaceAdvances ==
    ASSUME NEW i \in Nat \ {0}
    PROVE  advance(TruePlace(i), source[i]) = TruePlace(i + 1)
<1>1. PICK nl, c : nl = "\n" /\ c = source[i]
  OBVIOUS
<1>2. PICK B, C : B = Breaks(i) /\ C = Breaks(i + 1)
  OBVIOUS
<1>3. /\ B = {k \in 1 .. i - 1 : source[k] = nl} /\ C = {k \in 1 .. i : source[k] = nl}
  BY <1>1, <1>2 DEF Breaks
<1>4. /\ IsFiniteSet(B) /\ Cardinality(B) \in Nat /\ i \notin B
      /\ B \cup {0} \in SUBSET (0 .. i) /\ C \cup {0} \in SUBSET (0 .. i)
  <2>1. IsFiniteSet(1 .. i - 1) /\ B \subseteq 1 .. i - 1
    BY <1>3, FS_Interval
  <2>2. IsFiniteSet(B) /\ Cardinality(B) \in Nat
    BY <2>1, FS_Subset, FS_CardinalityType
  <2> QED  BY <1>3, <2>1, <2>2
<1>5. PICK b, d : /\ b = Max(B \cup {0}) /\ d = Max(C \cup {0})
                  /\ b \in B \cup {0} /\ \A y \in B \cup {0} : b >= y
                  /\ d \in C \cup {0} /\ \A y \in C \cup {0} : d >= y
  BY <1>4, MaxIs
<1>6. PICK j, ln, ln2, col, col2 :
          /\ j = i + 1 /\ ln = Cardinality(B) + 1 /\ ln2 = Cardinality(C) + 1
          /\ col = i - b /\ col2 = j - d
  OBVIOUS
<1>7. C = Breaks(j)
  BY <1>2, <1>6
<1>8. TruePlace(i) = [line |-> ln, column |-> col]
  BY <1>2, <1>5, <1>6, PlaceIs
<1>9. TruePlace(j) = [line |-> ln2, column |-> col2]
  BY <1>5, <1>6, <1>7, PlaceIs
<1>10. CASE c = nl
  <2>1. C = B \cup {i}
    <3>1. 1 .. i = (1 .. i - 1) \cup {i}
      OBVIOUS
    <3> QED  BY <1>1, <1>3, <1>10, <3>1
  <2>2. Cardinality(C) = Cardinality(B) + 1
    BY <1>4, <2>1, FS_AddElement
  <2>3. ln2 = ln + 1
    BY <1>6, <2>2
  <2>4. d = i
    BY <1>4, <1>5, <2>1
  <2>5. col2 = 1
    BY <1>6, <2>4
  <2>6. advance(TruePlace(i), c) = [line |-> ln + 1, column |-> 1]
    BY <1>1, <1>8, <1>10 DEF advance
  <2> QED  BY <1>1, <1>6, <1>9, <2>3, <2>5, <2>6
<1>11. CASE c # nl
  <2>1. C = B
    BY <1>1, <1>3, <1>11
  <2>2. ln2 = ln
    BY <1>6, <2>1
  <2>3. b \in Nat /\ d = b
    BY <1>4, <1>5, <2>1
  <2>4. col2 = col + 1
    BY <1>6, <2>3
  <2>5. advance(TruePlace(i), c) = [line |-> ln, column |-> col + 1]
    BY <1>1, <1>8, <1>11 DEF advance
  <2> QED  BY <1>1, <1>6, <1>9, <2>2, <2>4, <2>5
<1> QED  BY <1>10, <1>11

-----------------------------------------------------------------------------
(* Places of later characters: the fold of advance. *)

\* A fold recurs over sets of characters, without their last one.
Recurs(f, base, s, S) ==
    f = [u \in SUBSET S |-> IF u = {} THEN base ELSE advance(f[u \ {Max(u)}], s[Max(u)])]

\* The function that the fold of the community modules chooses.
Folded(base, s, S) == CHOOSE f : Recurs(f, base, s, S)

\* The fold of a sequence of characters is that of the set of its indices.
LEMMA FoldIs ==
    ASSUME NEW base, NEW s
    PROVE  FoldLeft(advance, base, s) = Folded(base, s, DOMAIN s)[DOMAIN s]
BY DEF FoldLeft, MapThenFoldSet, Folded, Recurs

\* Sets of indices are finite.
LEMMA SmallSets ==
    ASSUME NEW n \in Nat
    PROVE  \A u \in SUBSET (1 .. n) : IsFiniteSet(u) /\ Cardinality(u) \in Nat
<1>1. IsFiniteSet(1 .. n)
  BY FS_Interval
<1>2. \A u \in SUBSET (1 .. n) : IsFiniteSet(u)
  BY <1>1, FS_Subset
<1> QED  BY <1>2, FS_CardinalityType

\* The recursion defines a function: the place after a set of characters depends
\* on the line breaks among them, and on the characters after the last of these.
LEMMA FoldedIs ==
    ASSUME NEW n \in Nat, NEW s, NEW base, base.line \in Nat, base.column \in Nat,
           base = [line |-> base.line, column |-> base.column],
           NEW f, f = Folded(base, s, 1 .. n)
    PROVE  Recurs(f, base, s, 1 .. n)
<1>1. PICK nl : nl = "\n"
  OBVIOUS
<1> DEFINE breaks(u) == {k \in u : s[k] = nl}
           last(u) == {k \in u : k > Max(breaks(u))}
           place(u) == [line |-> base.line + Cardinality(breaks(u)),
                        column |-> IF breaks(u) = {} THEN base.column + Cardinality(u)
                                   ELSE 1 + Cardinality(last(u))]
           g == [u \in SUBSET (1 .. n) |-> place(u)]
<1>2. \A u \in SUBSET (1 .. n) : IsFiniteSet(u) /\ Cardinality(u) \in Nat
  BY SmallSets
<1>3. ASSUME NEW u \in SUBSET (1 .. n), u # {}, NEW x, x = Max(u), NEW v, v = u \ {x}
      PROVE  place(u) = advance(place(v), s[x])
  <2>1. x \in u /\ \A y \in u : x >= y
    BY <1>3, MaxIs
  <2>2. v \in SUBSET (1 .. n) /\ x \notin v /\ u = v \cup {x} /\ x \in Nat
    BY <1>3, <2>1
  <2>3. Cardinality(u) = Cardinality(v) + 1
    BY <1>2, <2>2, FS_AddElement
  <2>4. PICK U, V : U = breaks(u) /\ V = breaks(v)
    OBVIOUS
  <2>5. /\ U \in SUBSET (1 .. n) /\ V \in SUBSET (1 .. n) /\ U \subseteq u /\ V \subseteq v
        /\ U = {k \in u : s[k] = nl} /\ V = {k \in v : s[k] = nl}
    BY <2>2, <2>4
  <2>6. PICK lu, lv : lu = last(u) /\ lv = last(v)
    OBVIOUS
  <2>7. lu = {k \in u : k > Max(U)} /\ lv = {k \in v : k > Max(V)}
    BY <2>4, <2>6
  <2>8. PICK cU, cV, cu, cv, du, dv :
          /\ cU = Cardinality(U) /\ cV = Cardinality(V)
          /\ cu = Cardinality(u) /\ cv = Cardinality(v)
          /\ du = Cardinality(lu) /\ dv = Cardinality(lv)
    OBVIOUS
  <2>9. cU \in Nat /\ cV \in Nat /\ cv \in Nat /\ cu = cv + 1 /\ du \in Nat /\ dv \in Nat
    BY <1>2, <2>2, <2>3, <2>5, <2>7, <2>8
  <2>10. place(u) = [line |-> base.line + cU,
                     column |-> IF U = {} THEN base.column + cu ELSE 1 + du]
    BY <2>4, <2>6, <2>8
  <2>11. place(v) = [line |-> base.line + cV,
                     column |-> IF V = {} THEN base.column + cv ELSE 1 + dv]
    BY <2>4, <2>6, <2>8
  <2> HIDE DEF breaks, last, place
  <2>12. CASE s[x] = nl
    <3>1. U = V \cup {x} /\ x \notin V
      BY <2>2, <2>5, <2>12
    <3>2. cU = cV + 1
      BY <1>2, <2>5, <2>8, <3>1, FS_AddElement
    <3>3. Max(U) = x
      <4>1. PICK m : m = Max(U)
        OBVIOUS
      <4>2. m \in U /\ \A y \in U : m >= y
        <5>1. U \in SUBSET (0 .. n) /\ U # {}
          BY <2>5, <3>1
        <5> QED  BY <4>1, <5>1, MaxIs
      <4>3. m \in u /\ m >= x /\ x >= m
        BY <2>1, <2>5, <3>1, <4>2
      <4>4. m \in Nat
        BY <2>5, <4>2
      <4>5. m = x
        BY <2>2, <4>3, <4>4
      <4> QED  BY <4>1, <4>5
    <3>4. lu = {}
      BY <2>1, <2>2, <2>7, <3>3
    <3>5. du = 0
      BY <2>8, <3>4, FS_EmptySet
    <3>6. place(u) = [line |-> base.line + cV + 1, column |-> 1]
      <4>1. base.line + cU = base.line + cV + 1 /\ 1 + du = 1 /\ U # {}
        BY <2>9, <3>1, <3>2, <3>5
      <4> QED  BY <2>10, <4>1
    <3> QED  BY <1>1, <2>11, <2>12, <3>6 DEF advance
  <2>13. CASE s[x] # nl
    <3>1. U = V
      BY <2>2, <2>5, <2>13
    <3>2. cU = cV
      BY <2>8, <3>1
    <3>3. CASE V = {}
      <4>1. place(u) = [line |-> base.line + cV, column |-> base.column + cv + 1]
        <5>1. base.column + cu = base.column + cv + 1
          BY <2>9
        <5> QED  BY <2>10, <3>1, <3>2, <3>3, <5>1
      <4>2. place(v) = [line |-> base.line + cV, column |-> base.column + cv]
        BY <2>11, <3>3
      <4> QED  BY <1>1, <2>13, <4>1, <4>2 DEF advance
    <3>4. CASE V # {}
      <4>1. PICK m : m = Max(V)
        OBVIOUS
      <4>2. m \in V
        BY <2>5, <3>4, <4>1, MaxIs
      <4>3. x > m
        BY <2>1, <2>2, <2>5, <4>2
      <4>4. lu = lv \cup {x} /\ x \notin lv
        BY <2>2, <2>7, <3>1, <4>1, <4>3
      <4>5. lv \in SUBSET (1 .. n)
        BY <2>2, <2>7
      <4>6. du = dv + 1
        BY <1>2, <2>8, <4>4, <4>5, FS_AddElement
      <4>7. place(u) = [line |-> base.line + cV, column |-> 1 + dv + 1]
        <5>1. 1 + du = 1 + dv + 1
          BY <2>9, <4>6
        <5> QED  BY <2>10, <3>1, <3>2, <3>4, <5>1
      <4>8. place(v) = [line |-> base.line + cV, column |-> 1 + dv]
        BY <2>11, <3>4
      <4> QED  BY <1>1, <2>13, <4>7, <4>8 DEF advance
    <3> QED  BY <3>3, <3>4
  <2> QED  BY <2>12, <2>13
<1>4. place({}) = base
  <2>1. breaks({}) = {} /\ Cardinality({}) = 0
    BY FS_EmptySet
  <2>2. base.line + 0 = base.line /\ base.column + 0 = base.column
    OBVIOUS
  <2>3. place({}) = [line |-> base.line + 0, column |-> base.column + 0]
    BY <2>1
  <2> QED  BY <2>2, <2>3
<1> HIDE DEF place
<1>5. Recurs(g, base, s, 1 .. n)
  <2>1. ASSUME NEW u \in SUBSET (1 .. n)
        PROVE  place(u) = IF u = {} THEN base ELSE advance(g[u \ {Max(u)}], s[Max(u)])
    <3>1. PICK x, v : x = Max(u) /\ v = u \ {x}
      OBVIOUS
    <3>2. v \in SUBSET (1 .. n) /\ g[v] = place(v)
      BY <3>1
    <3>3. u # {} => place(u) = advance(place(v), s[x])
      BY <1>3, <3>1
    <3> QED  BY <1>4, <3>1, <3>2, <3>3
  <2> QED  BY <2>1 DEF Recurs
<1> HIDE DEF g
<1> QED  BY <1>5 DEF Folded

\* Places are numbers.
LEMMA PlaceTypes ==
    ASSUME NEW i \in Nat \ {0}, NEW p, p = TruePlace(i)
    PROVE  p.line \in Nat /\ p.column \in Nat /\ p = [line |-> p.line, column |-> p.column]
<1>1. PICK B, b : B = Breaks(i) /\ b = Max(B \cup {0})
  OBVIOUS
<1>2. B \in SUBSET (1 .. i - 1)
  BY <1>1 DEF Breaks
<1>3. Cardinality(B) \in Nat
  <2>1. i - 1 \in Nat
    OBVIOUS
  <2> QED  BY <1>2, <2>1, SmallSets
<1>4. b \in 0 .. i - 1
  <2>1. i - 1 \in Nat /\ B \cup {0} \in SUBSET (0 .. i - 1) /\ B \cup {0} # {}
    BY <1>2
  <2>2. b \in B \cup {0}
    BY <1>1, <2>1, MaxIs
  <2> QED  BY <2>1, <2>2
<1>5. PICK ln, col : ln = Cardinality(B) + 1 /\ col = i - b
  OBVIOUS
<1>6. ln \in Nat
  BY <1>3, <1>5
<1>7. col \in Nat
  BY <1>4, <1>5
<1>8. p = [line |-> ln, column |-> col]
  BY <1>1, <1>5, PlaceIs
<1> QED  BY <1>6, <1>7, <1>8

\* The place of the next character is true, so are those of later ones.
LEMMA PlaceAtIs ==
    ASSUME NEW C, source \in Seq(C), current \in 1 .. Len(source) + 1,
           line = TruePlace(current).line, column = TruePlace(current).column,
           NEW i \in current .. Len(source) + 1
    PROVE  PlaceAt(i) = TruePlace(i)
<1>1. PICK c, n : c = current /\ n = i - c
  OBVIOUS
<1>2. /\ c \in Nat \ {0} /\ n \in Nat /\ i = c + n /\ i \in Nat /\ i - 1 <= Len(source)
      /\ Len(source) \in Nat /\ DOMAIN source = 1 .. Len(source)
  BY <1>1
<1>3. PICK base : base = TruePlace(c)
  OBVIOUS
<1>4. /\ base.line \in Nat /\ base.column \in Nat
      /\ base = [line |-> base.line, column |-> base.column]
  BY <1>2, <1>3, PlaceTypes
<1>5. PICK s : s = SubSeq(source, c, i - 1)
  OBVIOUS
<1>6. DOMAIN s = 1 .. n /\ \A k \in 1 .. n : s[k] = source[c + k - 1]
  <2>1. PICK e : e = i - 1
    OBVIOUS
  <2>2. e \in Int /\ c \in Int /\ e - c + 1 = n /\ (c <= e \/ n = 0) /\ e = c + n - 1
    BY <1>2, <2>1
  <2>3. \A k \in c .. e : source[k] \in C
    <3>1. \A k \in c .. e : k \in 1 .. Len(source)
      BY <1>2, <2>1
    <3> QED  BY <3>1
  <2>4. /\ s \in Seq(C) /\ Len(s) = IF c <= e THEN e - c + 1 ELSE 0
        /\ \A k \in 1 .. e - c + 1 : s[k] = source[c + k - 1]
    BY <1>5, <2>1, <2>2, <2>3, SubSeqProperties
  <2>5. Len(s) = n
    BY <2>2, <2>4
  <2> QED  BY <2>2, <2>4, <2>5
<1>7. PICK f : f = Folded(base, s, 1 .. n)
  OBVIOUS
<1>8. f = [u \in SUBSET (1 .. n) |->
              IF u = {} THEN base ELSE advance(f[u \ {Max(u)}], s[Max(u)])]
  <2>1. Recurs(f, base, s, 1 .. n)
    BY <1>2, <1>4, <1>7, FoldedIs
  <2> QED  BY <2>1 DEF Recurs
<1>9. PlaceAt(i) = f[1 .. n]
  <2>1. base = [line |-> line, column |-> column]
    BY <1>1, <1>3, <1>4
  <2>2. PlaceAt(i) = FoldLeft(advance, base, s)
    BY <1>1, <1>5, <2>1 DEF PlaceAt
  <2>3. FoldLeft(advance, base, s) = Folded(base, s, DOMAIN s)[DOMAIN s]
    BY FoldIs
  <2> QED  BY <1>6, <1>7, <2>2, <2>3
<1> DEFINE K == {k \in Nat : k <= n => f[1 .. k] = TruePlace(c + k)}
<1>10. 0 \in K
  <2>1. 1 .. 0 = {} /\ c + 0 = c /\ {} \in SUBSET (1 .. n)
    BY <1>2
  <2>2. f[{}] = base
    BY <1>8, <2>1
  <2> QED  BY <1>3, <2>1, <2>2
<1>11. ASSUME NEW k \in Nat, k \in K
       PROVE  k + 1 \in K
  <2> SUFFICES ASSUME k + 1 <= n
               PROVE  f[1 .. k + 1] = TruePlace(c + (k + 1))
    OBVIOUS
  <2>1. f[1 .. k] = TruePlace(c + k)
    BY <1>2, <1>11
  <2>2. PICK u, x : u = 1 .. k + 1 /\ x = Max(u)
    OBVIOUS
  <2>3. u \in SUBSET (1 .. n) /\ u # {} /\ u \in SUBSET (0 .. n) /\ k + 1 \in u
    <3>1. k + 1 \in 1 .. k + 1
      OBVIOUS
    <3>2. 1 .. k + 1 \subseteq 1 .. n /\ 1 .. n \subseteq 0 .. n
      BY <1>2
    <3> QED  BY <2>2, <3>1, <3>2
  <2>4. x \in u /\ x >= k + 1
    BY <1>2, <2>2, <2>3, MaxIs
  <2>5. x = k + 1
    BY <2>2, <2>4
  <2>6. u \ {x} = 1 .. k
    BY <2>2, <2>5
  <2>7. f[u] = advance(f[1 .. k], s[x])
    BY <1>8, <2>2, <2>3, <2>6
  <2>8. s[x] = source[c + k]
    <3>1. x \in 1 .. n /\ c + x - 1 = c + k
      BY <1>2, <2>3, <2>5
    <3> QED  BY <1>6, <3>1
  <2>9. PICK j : j = c + k
    OBVIOUS
  <2>10. j \in Nat \ {0} /\ j + 1 = c + (k + 1)
    BY <1>2, <2>9
  <2>11. advance(TruePlace(j), source[j]) = TruePlace(j + 1)
    BY <2>10, PlaceAdvances
  <2> QED  BY <2>1, <2>2, <2>7, <2>8, <2>9, <2>10, <2>11
<1> HIDE DEF K
<1>12. n \in K
  BY <1>2, <1>10, <1>11, Induction
<1> QED  BY <1>2, <1>9, <1>12 DEF K

-----------------------------------------------------------------------------
(* The invariant: the place of the next character and those of the tokens are *)
(* true.                                                                      *)

Placed(t) ==
    /\ t.from \in 1 .. Len(source) + 1
    /\ t.line = TruePlace(t.from).line /\ t.column = TruePlace(t.from).column

Scanned ==
    /\ \E C : source \in Seq(C)
    /\ current \in 1 .. Len(source) + 1
    /\ line = TruePlace(current).line /\ column = TruePlace(current).column
    /\ \E T : tokens \in Seq(T)
    /\ \A i \in DOMAIN tokens : Placed(tokens[i])

\* Skipping ends at the end of the source, if not before.
LEMMA PastIs ==
    ASSUME NEW C, source \in Seq(C), NEW set, NUL \notin set, NEW i \in 1 .. Len(source) + 1
    PROVE  Past(set, i) \in i .. Len(source) + 1
<1>1. PICK S, n : S = {k \in i .. Len(source) + 1 : peek(k) \notin set} /\ n = Len(source) + 1
  OBVIOUS
<1>2. n \in Nat /\ n > Len(source)
  BY <1>1
<1>3. peek(n) \notin set
  BY <1>2 DEF peek, isAtEnd
<1>4. n \in S
  BY <1>1, <1>2, <1>3
<1>5. S \in SUBSET Nat /\ S # {}
  BY <1>1, <1>4
<1>6. Min(S) \in S
  BY <1>5, MinIs
<1>7. Past(set, i) = Min(S)
  BY <1>1 DEF Past
<1> QED  BY <1>1, <1>6, <1>7

\* No character is the end.
LEMMA EndIsNone ==
    /\ NUL \notin Spaces /\ NUL \notin Digits /\ NUL \notin Letters \cup Digits /\ NUL # "-"
    /\ \A c \in DOMAIN Doubled : Doubled[c] # NUL
<1>1. /\ NUL \notin Spaces /\ NUL \notin Digits /\ NUL \notin Letters \cup Digits /\ NUL # "-"
  BY DEF NUL, Spaces, Digits, Letters
<1>2. \A c \in DOMAIN Doubled : Doubled[c] # NUL
  BY DEF Doubled, NUL
<1> QED  BY <1>1, <1>2

\* Where there is a character, it is one of the source.
LEMMA PeekIs ==
    ASSUME NEW C, source \in Seq(C), NEW i \in Nat \ {0}, peek(i) # NUL
    PROVE  i \in 1 .. Len(source) /\ i + 1 \in 1 .. Len(source) + 1
<1>1. ~(i > Len(source))
  BY DEF peek, isAtEnd
<1> QED  BY <1>1

\* Reading a token ahead of the next character keeps the invariant.
LEMMA ReadKeeps ==
    ASSUME Scanned, NEW kind, NEW to \in Start .. Len(source) + 1, Read(kind, to)
    PROVE  Scanned'
<1>1. PICK C, T : source \in Seq(C) /\ tokens \in Seq(T)
  BY DEF Scanned
<1>2. /\ current \in 1 .. Len(source) + 1
      /\ line = TruePlace(current).line /\ column = TruePlace(current).column
  BY DEF Scanned
<1>3. PICK s, n : s = Start /\ n = Len(source)
  OBVIOUS
<1>4. s \in current .. n + 1
  BY <1>1, <1>2, <1>3, PastIs, EndIsNone DEF Start
<1>5. n \in Nat /\ current \in Nat \ {0} /\ s \in 1 .. n + 1 /\ to \in current .. n + 1 /\ to \in 1 .. n + 1
  BY <1>1, <1>2, <1>3, <1>4
<1>6. PlaceAt(s) = TruePlace(s)
  BY <1>1, <1>2, <1>3, <1>4, PlaceAtIs
<1>7. PlaceAt(to) = TruePlace(to)
  BY <1>1, <1>2, <1>3, <1>5, PlaceAtIs
<1>8. PICK t : t = Token(kind, Chars(s, to), s, TruePlace(s).line, TruePlace(s).column)
  OBVIOUS
<1>9. /\ tokens' = Append(tokens, t) /\ current' = to /\ source' = source
      /\ line' = TruePlace(to).line /\ column' = TruePlace(to).column
  BY <1>3, <1>6, <1>7, <1>8 DEF Read
<1>10. Placed(t)
  <2>1. t.from = s /\ t.line = TruePlace(s).line /\ t.column = TruePlace(s).column
    BY <1>8 DEF Token
  <2> QED  BY <1>3, <1>5, <2>1 DEF Placed
<1>11. tokens' \in Seq(T \cup {t})
  <2>1. tokens \in Seq(T \cup {t}) /\ t \in T \cup {t}
    BY <1>1
  <2> QED  BY <1>9, <2>1
<1>12. ASSUME NEW i \in DOMAIN tokens'
       PROVE  Placed(tokens'[i])
  <2>1. CASE i \in DOMAIN tokens
    <3>1. tokens'[i] = tokens[i]
      BY <1>1, <1>9, <2>1
    <3> QED  BY <2>1, <3>1 DEF Scanned
  <2>2. CASE i \notin DOMAIN tokens
    <3>1. tokens'[i] = t
      BY <1>1, <1>9, <2>2
    <3> QED  BY <1>10, <3>1
  <2> QED  BY <2>1, <2>2
<1>13. (line = TruePlace(current).line /\ column = TruePlace(current).column)'
  BY <1>9 DEF TruePlace, Breaks
<1>14. (current \in 1 .. Len(source) + 1)'
  BY <1>3, <1>5, <1>9
<1>15. (\E D : source \in Seq(D))' /\ (\E D : tokens \in Seq(D))'
  <2>1. source' \in Seq(C)
    BY <1>1, <1>9
  <2>2. \E D : source' \in Seq(D)
    BY <2>1, Zenon
  <2>3. \E D : tokens' \in Seq(D)
    BY <1>11, Zenon
  <2> QED  BY <2>2, <2>3
<1>16. (\A i \in DOMAIN tokens : Placed(tokens[i]))'
  <2> SUFFICES ASSUME NEW i \in DOMAIN tokens'
               PROVE  Placed(tokens[i])'
    OBVIOUS
  <2>1. PICK u, fr : u = tokens'[i] /\ fr = u.from
    OBVIOUS
  <2>2. fr \in 1 .. Len(source) + 1 /\ u.line = TruePlace(fr).line /\ u.column = TruePlace(fr).column
    BY <1>12, <2>1 DEF Placed
  <2>3. TruePlace(tokens[i].from)' = TruePlace(fr)
    BY <1>9, <2>1 DEF TruePlace, Breaks
  <2>4. (1 .. Len(source) + 1)' = 1 .. Len(source) + 1
    BY <1>9
  <2> QED  BY <2>1, <2>2, <2>3, <2>4 DEF Placed
<1> QED  BY <1>13, <1>14, <1>15, <1>16 DEF Scanned

\* A file up to its first zero byte is a sequence of characters.
LEMMA InitIsScanned ==
    ASSUME Init
    PROVE  Scanned
<1>1. PICK f \in Files : \E n \in 0 .. f.most : \E file \in [1 .. n -> f.chars] :
          source = SubSeq(file, 1, Min({k \in 1 .. n : file[k] = NUL} \cup {n + 1}) - 1)
  BY DEF Init
<1>2. PICK n \in 0 .. f.most : \E file \in [1 .. n -> f.chars] :
          source = SubSeq(file, 1, Min({k \in 1 .. n : file[k] = NUL} \cup {n + 1}) - 1)
  BY <1>1
<1>3. PICK file \in [1 .. n -> f.chars] :
          source = SubSeq(file, 1, Min({k \in 1 .. n : file[k] = NUL} \cup {n + 1}) - 1)
  BY <1>2
<1>4. n \in Nat
  <2>1. f.most \in Nat
    BY FilesAssumption
  <2> QED  BY <2>1
<1>5. PICK S, m, C : S = {k \in 1 .. n : file[k] = NUL} \cup {n + 1} /\ m = Min(S) /\ C = f.chars
  OBVIOUS
<1>6. m \in 1 .. n + 1
  <2>1. S \in SUBSET Nat /\ S # {} /\ S \subseteq 1 .. n + 1
    BY <1>4, <1>5
  <2>2. m \in S
    BY <1>5, <2>1, MinIs
  <2> QED  BY <2>1, <2>2
<1>7. source = SubSeq(file, 1, m - 1)
  BY <1>3, <1>5
<1>8. file \in Seq(C) /\ Len(file) = n
  BY <1>4, <1>5
<1>9. source \in Seq(C)
  <2>1. PICK e : e = m - 1
    OBVIOUS
  <2>2. e \in 0 .. n /\ 1 \in Int /\ e \in Int
    BY <1>4, <1>6, <2>1
  <2>3. \A k \in 1 .. e : file[k] \in C
    BY <1>4, <1>5, <2>2
  <2>4. SubSeq(file, 1, e) \in Seq(C)
    BY <2>2, <2>3, SubSeqProperties
  <2> QED  BY <1>7, <2>1, <2>4
<1>10. current = 1 /\ line = 1 /\ column = 1 /\ tokens = <<>>
  BY DEF Init
<1>11. Breaks(1) = {}
  BY DEF Breaks
<1>12. Cardinality({}) = 0
  BY FS_EmptySet
<1>13. TruePlace(1).line = 1 /\ TruePlace(1).column = 1
  <2>1. PICK B, b, ln, col : /\ B = Breaks(1) /\ b = Max(B \cup {0})
                             /\ ln = Cardinality(B) + 1 /\ col = 1 - b
    OBVIOUS
  <2>2. B = {} /\ b = 0
    <3>1. B = {}
      BY <1>11, <2>1
    <3>2. B \cup {0} \in SUBSET (0 .. 0) /\ B \cup {0} # {}
      BY <3>1
    <3>3. b \in B \cup {0}
      BY <2>1, <3>2, MaxIs
    <3> QED  BY <3>1, <3>3
  <2>3. ln = 1
    <3>1. Cardinality(B) = Cardinality({})
      BY <2>2
    <3>2. Cardinality(B) = 0
      BY <1>12, <3>1, Zenon
    <3> QED  BY <2>1, <3>2
  <2>4. col = 1
    BY <2>1, <2>2
  <2>5. TruePlace(1) = [line |-> ln, column |-> col]
    BY <2>1, PlaceIs
  <2> QED  BY <2>3, <2>4, <2>5
<1>14. \E T : tokens \in Seq(T)
  BY <1>10
<1> QED  BY <1>9, <1>10, <1>13, <1>14 DEF Scanned

\* The first character of the token is not before the next one.
LEMMA StartIs ==
    ASSUME Scanned, NEW s, s = Start
    PROVE  /\ \E C : source \in Seq(C)
           /\ s \in current .. Len(source) + 1 /\ s \in 1 .. Len(source) + 1
           /\ s \in Nat \ {0} /\ Len(source) \in Nat
<1>1. PICK C : source \in Seq(C)
  BY DEF Scanned
<1>2. current \in 1 .. Len(source) + 1
  BY DEF Scanned
<1>3. s \in current .. Len(source) + 1
  BY <1>1, <1>2, PastIs, EndIsNone DEF Start
<1>4. Len(source) \in Nat
  BY <1>1
<1> QED  BY <1>1, <1>2, <1>3, <1>4

\* The token at the end of the source is read where the source ends.
LEMMA EndKeeps ==
    ASSUME Scanned, EndOfSource
    PROVE  Scanned'
<1>1. PICK s : s = Start
  OBVIOUS
<1>2. s \in s .. Len(source) + 1
  BY <1>1, StartIs
<1> QED  BY <1>1, <1>2, ReadKeeps DEF EndOfSource

\* An identifier ends after it begins.
LEMMA IdentifierKeeps ==
    ASSUME Scanned, Identifier
    PROVE  Scanned'
<1>1. PICK s, to, kind : /\ s = Start /\ to = Past(Letters \cup Digits, Start)
                         /\ kind = IF Chars(Start, to) \in Keywords THEN Chars(Start, to) ELSE "id"
  OBVIOUS
<1>2. PICK C : source \in Seq(C)
  BY DEF Scanned
<1>3. to \in s .. Len(source) + 1
  BY <1>1, <1>2, StartIs, PastIs, EndIsNone
<1>4. Read(kind, to)
  BY <1>1 DEF Identifier, Continue
<1> QED  BY <1>1, <1>3, <1>4, ReadKeeps

\* So does a number, and nothing is read of one that is out of range.
LEMMA NumberKeeps ==
    ASSUME Scanned, Number
    PROVE  Scanned'
<1>1. PICK s, point, to, c, d :
          /\ s = Start /\ point = Past(Digits, Start + 1)
          /\ c = peek(point) /\ d = peek(point + 1)
          /\ to = IF c = "." /\ d \in Digits THEN Past(Digits, point + 1) ELSE point
  OBVIOUS
<1>2. PICK C : source \in Seq(C)
  BY DEF Scanned
<1>3. s \in Nat \ {0} /\ s \in 1 .. Len(source) + 1 /\ Len(source) \in Nat
  BY <1>1, StartIs
<1>4. peek(s) # NUL
  BY <1>1, EndIsNone DEF Number
<1>5. s + 1 \in 1 .. Len(source) + 1
  BY <1>2, <1>3, <1>4, PeekIs
<1>6. point \in s + 1 .. Len(source) + 1
  BY <1>1, <1>2, <1>5, PastIs, EndIsNone
<1>7. to \in s .. Len(source) + 1
  <2>1. CASE c = "." /\ d \in Digits
    <3>1. peek(point) # NUL /\ point \in Nat \ {0}
      BY <1>1, <1>3, <1>6, <2>1 DEF NUL
    <3>2. point + 1 \in 1 .. Len(source) + 1
      BY <1>2, <3>1, PeekIs
    <3>3. to \in point + 1 .. Len(source) + 1
      <4>1. to = Past(Digits, point + 1)
        BY <1>1, <2>1
      <4> QED  BY <1>2, <3>2, <4>1, PastIs, EndIsNone
    <3> QED  BY <1>3, <1>6, <3>3
  <2>2. CASE ~(c = "." /\ d \in Digits)
    <3>1. to = point
      BY <1>1, <2>2
    <3> QED  BY <1>3, <1>6, <3>1
  <2> QED  BY <2>1, <2>2
<1>8. Throw \/ \E kind : Read(kind, to)
  <2>1. Throw \/ Continue(IF to > point THEN "FLOAT" ELSE "INTEGER", to)
    BY <1>1 DEF Number
  <2> QED  BY <2>1 DEF Continue
<1>9. CASE Throw
  BY <1>9 DEF Throw, Scanned, Placed, TruePlace, Breaks
<1>10. CASE \E kind : Read(kind, to)
  BY <1>1, <1>7, <1>10, ReadKeeps
<1> QED  BY <1>8, <1>9, <1>10

\* A symbol has one character or, if the second is there, two.
LEMMA SymbolKeeps ==
    ASSUME Scanned, Symbol
    PROVE  Scanned'
<1>1. PICK s, c : s = Start /\ c = peek(Start)
  OBVIOUS
<1>2. PICK C : source \in Seq(C)
  BY DEF Scanned
<1>3. s \in Nat \ {0} /\ s \in 1 .. Len(source) + 1 /\ Len(source) \in Nat
  BY <1>1, StartIs
<1>4. s + 1 \in s .. Len(source) + 1 /\ s + 1 \in Nat \ {0}
  <2>1. ~(s > Len(source))
    BY <1>1 DEF Symbol, isAtEnd
  <2> QED  BY <1>3, <2>1
<1>5. CASE c \in DOMAIN Doubled /\ peek(s + 1) = Doubled[c]
  <2>1. peek(s + 1) # NUL
    BY <1>5, EndIsNone
  <2>2. PICK r : r = s + 1
    OBVIOUS
  <2>3. r + 1 \in 1 .. Len(source) + 1
    BY <1>2, <1>4, <2>1, <2>2, PeekIs
  <2>4. s + 2 \in s .. Len(source) + 1
    BY <1>3, <2>2, <2>3
  <2>5. Read(c \o Doubled[c], s + 2)
    BY <1>1, <1>5 DEF Symbol, Continue
  <2> QED  BY <1>1, <2>4, <2>5, ReadKeeps
<1>6. CASE ~(c \in DOMAIN Doubled /\ peek(s + 1) = Doubled[c])
  <2>1. Read(IF c \in Single THEN c ELSE "unknown", s + 1)
    BY <1>1, <1>6 DEF Symbol, Continue
  <2> QED  BY <1>1, <1>4, <2>1, ReadKeeps
<1> QED  BY <1>5, <1>6

\* The line breaks before an index are those of the characters before it.
LEMMA PlacesAre ==
    ASSUME Scanned
    PROVE  PlacesAreTrue
<1> DEFINE Before(t) == SubSeq(source, 1, t.from - 1)
           LineBreaks(t) == {k \in DOMAIN Before(t) : Before(t)[k] = "\n"}
<1>1. SUFFICES ASSUME NEW i \in DOMAIN tokens
               PROVE  /\ tokens[i].line = Cardinality(LineBreaks(tokens[i])) + 1
                      /\ tokens[i].column = tokens[i].from - Max(LineBreaks(tokens[i]) \cup {0})
  BY Zenon DEF PlacesAreTrue
<1>2. PICK t, before, breaks : /\ t = tokens[i] /\ before = Before(t)
                               /\ breaks = {k \in DOMAIN before : before[k] = "\n"}
  OBVIOUS
<1>3. Placed(t)
  BY <1>2 DEF Scanned
<1>4. PICK C : source \in Seq(C)
  BY DEF Scanned
<1>5. PICK n, e, fr : n = Len(source) /\ fr = t.from /\ e = t.from - 1
  OBVIOUS
<1>6. n \in Nat /\ fr \in 1 .. n + 1 /\ e \in 0 .. n
  BY <1>3, <1>4, <1>5 DEF Placed
<1>7. DOMAIN before = 1 .. e /\ \A k \in 1 .. e : before[k] = source[k]
  <2>1. 1 \in Int /\ e \in Int /\ \A k \in 1 .. e : source[k] \in C
    BY <1>4, <1>5, <1>6
  <2>2. /\ before \in Seq(C) /\ Len(before) = IF 1 <= e THEN e - 1 + 1 ELSE 0
        /\ \A k \in 1 .. e - 1 + 1 : before[k] = source[1 + k - 1]
    BY <1>2, <1>5, <2>1, SubSeqProperties
  <2>3. Len(before) = e /\ e - 1 + 1 = e /\ \A k \in 1 .. e : 1 + k - 1 = k
    BY <1>6, <2>2
  <2> QED  BY <2>2, <2>3
<1>8. breaks = Breaks(fr)
  <2>1. Breaks(fr) = {k \in 1 .. e : source[k] = "\n"}
    BY <1>5 DEF Breaks
  <2> QED  BY <1>2, <1>7, <2>1
<1>9. t.line = TruePlace(fr).line /\ t.column = TruePlace(fr).column
  BY <1>3, <1>5 DEF Placed
<1>10. breaks = LineBreaks(tokens[i])
  BY <1>2
<1>11. t.line = Cardinality(breaks) + 1 /\ t.column = t.from - Max(breaks \cup {0})
  BY <1>5, <1>8, <1>9 DEF TruePlace
<1> QED  BY <1>2, <1>10, <1>11

\* The invariant holds in every behaviour.
LEMMA ScannedHolds == Spec => []Scanned
<1>1. Init => Scanned
  BY InitIsScanned
<1>2. Scanned /\ [Next]_vars => Scanned'
  <2> SUFFICES ASSUME Scanned, [Next]_vars
               PROVE  Scanned'
    OBVIOUS
  <2>1. CASE UNCHANGED vars
    BY <2>1 DEF vars, Scanned, Placed, TruePlace, Breaks
  <2> QED  BY <2>1, EndKeeps, IdentifierKeeps, NumberKeeps, SymbolKeeps DEF Next
<1> QED  BY <1>1, <1>2, PTL DEF Spec

\* The line and column of every token printed are those of its first character in
\* the source, however many characters and lines come before it.
THEOREM TruePlaces == Spec => []PlacesAreTrue
<1>1. Scanned => PlacesAreTrue
  BY PlacesAre
<1> QED  BY <1>1, ScannedHolds, PTL

================================================================================
