------------------------------ MODULE ParseProofs ------------------------------
(***************************************************************************)
(* Proofs about the parser of Parser.cpp.                                  *)
(*                                                                         *)
(* What each function takes from the results of the calls before it, and   *)
(* leaves for its caller, is a fact about its frame alone.  The inductive  *)
(* invariant runs the stack by these numbers: no frame ever takes more     *)
(* than is there, and at the end the results are those of the call that is *)
(* parsed from the source.  With it, the making of a node moves its parts  *)
(* out of the results, and every node keeps one owner.                     *)
(***************************************************************************)
EXTENDS ParseStmt, SequenceTheorems, TLAPS

\* How many results the function of a frame takes, and how many it leaves.
Takes(f) ==
    IF f.do \in {"make", "morearg", "stmts", "params", "body"} THEN f.n
    ELSE IF f.do \in {"remaining", "init", "function"} THEN 1
    ELSE IF f.do \in {"right", "else"} THEN 2 ELSE 0

Leaves(f) == IF f.do \in {"skip", "type", "program", "function"} THEN 0 ELSE 1

\* The function of a frame turns a results into b.
Does(f, a, b) == a \in Nat /\ b \in Nat /\ Takes(f) <= a /\ b = a - Takes(f) + Leaves(f)

\* The functions of fs do, one after the other: h has the results before each.
Runs(fs, a, b) ==
    \E h \in Seq(Nat) :
        /\ Len(h) = Len(fs) + 1 /\ h[1] = a /\ h[Len(h)] = b
        /\ \A i \in 1 .. Len(fs) : Does(fs[i], h[i], h[i + 1])

\* Frames that name tokens of ats, of a parser started in a function.
Kinds ==
    {"literal", "access", "var", "call", "callstmt", "assign", "arrayassign", "decl",
          "vardecl",
     "seq", "return", "if", "while", "for", "func", "declaration"}
Skipped == {"(", ")", "[", "]", "{", "}", ",", ";", "=", "for"}
Whats == Kinds \cup Skipped \cup {"", "header"}
Dos ==
    {"exp", "primary", "id", "args", "firstarg", "morearg", "remaining", "right", "skip",
          "make",
     "stmt", "stmtid", "init", "else", "seq", "stmts", "type", "vardecl", "size",
     "func", "funcid", "op", "param", "params", "body"}
FramesOf(start, ats) ==
    {f \in [do : Dos \cup {"program", "function"}, what : Whats, at : ats, n : Nat] :
        f.do \notin Dos => start = "program"}

\* What is left for the caller of the parser.
Final(start) == IF start = "program" THEN 0 ELSE 1

-----------------------------------------------------------------------------
(* Frames. *)

LEMMA NothingRuns ==
    /\ \A a \in Nat : Runs(<<>>, a, a)
    /\ \A a, b : Runs(<<>>, a, b) => a = b
  <1>1. ASSUME NEW a \in Nat PROVE Runs(<<>>, a, a)
    <2>1. <<a>> \in Seq(Nat)
      OBVIOUS
    <2>2. /\ Len(<<a>>) = Len(<<>>) + 1 /\ <<a>>[1] = a /\ <<a>>[Len(<<a>>)] = a
          /\ 1 .. Len(<<>>) = {}
      OBVIOUS
    <2> QED
      BY <2>1, <2>2 DEF Runs
  <1>2. ASSUME NEW a, NEW b, Runs(<<>>, a, b) PROVE a = b
    BY <1>2 DEF Runs
  <1> QED
    BY <1>1, <1>2

\* A frame, and the frames after it.
LEMMA FirstRuns ==
    ASSUME NEW S, NEW fs \in Seq(S), fs # <<>>, NEW a, NEW b, Runs(fs, a, b)
    PROVE  \E c : Does(fs[1], a, c) /\ Runs(Tail(fs), c, b)
  <1>1. PICK h \in Seq(Nat) :
            /\ Len(h) = Len(fs) + 1 /\ h[1] = a /\ h[Len(h)] = b
            /\ \A i \in 1 .. Len(fs) : Does(fs[i], h[i], h[i + 1])
    BY DEF Runs
  <1>2. /\ Len(fs) \in Nat \ {0} /\ Len(Tail(fs)) = Len(fs) - 1
        /\ \A i \in 1 .. Len(fs) - 1 : Tail(fs)[i] = fs[i + 1]
    OBVIOUS
  <1>3. /\ h # <<>> /\ Tail(h) \in Seq(Nat) /\ Len(Tail(h)) = Len(h) - 1
        /\ \A i \in 1 .. Len(h) - 1 : Tail(h)[i] = h[i + 1]
    BY <1>1, <1>2
  <1>4. Does(fs[1], h[1], h[2])
    BY <1>1, <1>2
  <1>5. Tail(h)[1] = h[2] /\ Tail(h)[Len(Tail(h))] = h[Len(h)]
    BY <1>1, <1>2, <1>3
  <1>6. ASSUME NEW i \in 1 .. Len(Tail(fs))
        PROVE  Does(Tail(fs)[i], Tail(h)[i], Tail(h)[i + 1])
    <2>1. /\ Tail(fs)[i] = fs[i + 1] /\ Tail(h)[i] = h[i + 1]
          /\ Tail(h)[i + 1] = h[i + 2] /\ i + 1 \in 1 .. Len(fs) /\ (i + 1) + 1 = i + 2
      BY <1>1, <1>2, <1>3
    <2> QED
      BY <1>1, <2>1
  <1>7. Len(Tail(h)) = Len(Tail(fs)) + 1
    BY <1>1, <1>2, <1>3
  <1> QED
    BY <1>1, <1>3, <1>4, <1>5, <1>6, <1>7 DEF Runs

LEMMA Spliced ==
    ASSUME NEW h \in Seq(Nat), NEW k \in Seq(Nat), NEW m \in Nat, NEW n \in Nat,
           Len(h) = m + 1, Len(k) = n + 1, h[m + 1] = k[1]
    PROVE  \E l \in Seq(Nat) : /\ Len(l) = m + n + 1
                               /\ \A i \in 1 .. m + 1 : l[i] = h[i]
                               /\ \A i \in 1 .. n + 1 : l[m + i] = k[i]
  <1> DEFINE l == [i \in 1 .. m + n + 1 |-> IF i <= m + 1 THEN h[i] ELSE k[i - m]]
  <1>1. \A i \in 1 .. m + n + 1 : IF i <= m + 1 THEN h[i] \in Nat ELSE k[i - m] \in Nat
    OBVIOUS
  <1>2. l \in Seq(Nat) /\ Len(l) = m + n + 1
    BY <1>1
  <1>3. \A i \in 1 .. m + 1 : l[i] = h[i]
    OBVIOUS
  <1>4. ASSUME NEW i \in 1 .. n + 1 PROVE l[m + i] = k[i]
    <2>1. m + i \in 1 .. m + n + 1 /\ (m + i) - m = i /\ (m + i <= m + 1 => i = 1)
      OBVIOUS
    <2> QED
      BY <2>1
  <1> QED
    BY <1>2, <1>3, <1>4

\* Frames one after the other.
LEMMA BothRun ==
    ASSUME NEW S, NEW fs \in Seq(S), NEW gs \in Seq(S), NEW a, NEW b, NEW c,
           Runs(fs, a, b), Runs(gs, b, c)
    PROVE  Runs(fs \o gs, a, c)
  <1>1. PICK h \in Seq(Nat) :
            /\ Len(h) = Len(fs) + 1 /\ h[1] = a /\ h[Len(h)] = b
            /\ \A i \in 1 .. Len(fs) : Does(fs[i], h[i], h[i + 1])
    BY DEF Runs
  <1>2. PICK k \in Seq(Nat) :
            /\ Len(k) = Len(gs) + 1 /\ k[1] = b /\ k[Len(k)] = c
            /\ \A i \in 1 .. Len(gs) : Does(gs[i], k[i], k[i + 1])
    BY DEF Runs
  <1>3. PICK m \in Nat, n \in Nat : m = Len(fs) /\ n = Len(gs)
    OBVIOUS
  <1>4. PICK l \in Seq(Nat) :
            /\ Len(l) = m + n + 1
            /\ \A i \in 1 .. m + 1 : l[i] = h[i]
            /\ \A i \in 1 .. n + 1 : l[m + i] = k[i]
    <2>1. Len(h) = m + 1 /\ Len(k) = n + 1 /\ h[m + 1] = k[1]
      BY <1>1, <1>2, <1>3
    <2> QED
      BY <2>1, Spliced
  <1>5. /\ Len(fs \o gs) = m + n
        /\ \A i \in 1 .. m : (fs \o gs)[i] = fs[i]
        /\ \A i \in 1 .. n : (fs \o gs)[m + i] = gs[i]
    BY <1>3
  <1>6. /\ h[1] = a /\ k[n + 1] = c
        /\ \A i \in 1 .. m : Does(fs[i], h[i], h[i + 1])
        /\ \A i \in 1 .. n : Does(gs[i], k[i], k[i + 1])
    BY <1>1, <1>2, <1>3
  <1>7. l[1] = a /\ l[Len(l)] = c
    <2>1. 1 \in 1 .. m + 1 /\ n + 1 \in 1 .. n + 1 /\ Len(l) = m + (n + 1)
      BY <1>4
    <2> QED
      BY <1>4, <1>6, <2>1
  <1>8. ASSUME NEW i \in 1 .. m + n
        PROVE  Does((fs \o gs)[i], l[i], l[i + 1])
    <2>1. CASE i <= m
      <3>1. i \in 1 .. m /\ i \in 1 .. m + 1 /\ i + 1 \in 1 .. m + 1
        BY <2>1
      <3>2. (fs \o gs)[i] = fs[i] /\ l[i] = h[i] /\ l[i + 1] = h[i + 1]
        BY <1>4, <1>5, <3>1
      <3> QED
        BY <1>6, <3>1, <3>2
    <2>2. CASE i > m
      <3>1. PICK j \in 1 .. n : i = m + j
        <4>1. i - m \in 1 .. n /\ i = m + (i - m)
          BY <2>2
        <4> QED
          BY <4>1
      <3>2. /\ i + 1 = m + (j + 1)
            /\ j \in 1 .. n + 1 /\ j + 1 \in 1 .. n + 1
        BY <3>1
      <3>3. (fs \o gs)[i] = gs[j] /\ l[i] = k[j] /\ l[i + 1] = k[j + 1]
        BY <1>4, <1>5, <3>1, <3>2
      <3> QED
        BY <1>6, <3>3
    <2>3. i <= m \/ i > m
      OBVIOUS
    <2> QED
      BY <2>1, <2>2, <2>3
  <1> QED
    BY <1>4, <1>5, <1>7, <1>8 DEF Runs

\* Lists of frames.
LEMMA OneRuns ==
    ASSUME NEW S, NEW f \in S,
           NEW a, NEW b,
           Does(f, a, b)
    PROVE  <<f>> \in Seq(S) /\ Runs(<<f>>, a, b)
  <1>1. PICK fs : fs = <<f>>
    OBVIOUS
  <1>2. PICK h : h = <<a, b>>
    OBVIOUS
  <1>3. a \in Nat /\ b \in Nat
    BY DEF Does
  <1>4. /\ h \in Seq(Nat) /\ Len(h) = 2
        /\ h[1] = a /\ h[2] = b
        /\ fs \in Seq(S) /\ Len(fs) = 1
        /\ fs[1] = f
    BY <1>1, <1>2, <1>3
  <1>5. \A i \in 1 .. Len(fs) :
            i = 1
    BY <1>4
  <1>6. \A i \in 1 .. Len(fs) : Does(fs[i], h[i], h[i + 1])
    <2>1. Does(fs[1], h[1], h[1 + 1])
      BY <1>4
    <2> QED
      BY <1>5, <2>1
  <1>7. Len(h) = Len(fs) + 1 /\ h[Len(h)] = b
    BY <1>4
  <1> QED
    BY <1>1, <1>4, <1>6, <1>7 DEF Runs

LEMMA TwoRun ==
    ASSUME NEW S, NEW f \in S, NEW g \in S,
           NEW a, NEW b, NEW c,
           Does(f, a, b), Does(g, b, c)
    PROVE  <<f, g>> \in Seq(S) /\ Runs(<<f, g>>, a, c)
  <1>1. PICK fs : fs = <<f, g>>
    OBVIOUS
  <1>2. PICK h : h = <<a, b, c>>
    OBVIOUS
  <1>3. a \in Nat /\ b \in Nat /\ c \in Nat
    BY DEF Does
  <1>4. /\ h \in Seq(Nat) /\ Len(h) = 3
        /\ h[1] = a /\ h[2] = b /\ h[3] = c
        /\ fs \in Seq(S) /\ Len(fs) = 2
        /\ fs[1] = f /\ fs[2] = g
    BY <1>1, <1>2, <1>3
  <1>5. \A i \in 1 .. Len(fs) :
            i = 1 \/ i = 2
    BY <1>4
  <1>6. \A i \in 1 .. Len(fs) : Does(fs[i], h[i], h[i + 1])
    <2>1. Does(fs[1], h[1], h[1 + 1]) /\ Does(fs[2], h[2], h[2 + 1])
      BY <1>4
    <2> QED
      BY <1>5, <2>1
  <1>7. Len(h) = Len(fs) + 1 /\ h[Len(h)] = c
    BY <1>4
  <1> QED
    BY <1>1, <1>4, <1>6, <1>7 DEF Runs

LEMMA ThreeRun ==
    ASSUME NEW S, NEW f \in S, NEW g \in S, NEW k \in S,
           NEW a, NEW b, NEW c, NEW d,
           Does(f, a, b), Does(g, b, c), Does(k, c, d)
    PROVE  <<f, g, k>> \in Seq(S) /\ Runs(<<f, g, k>>, a, d)
  <1>1. PICK fs : fs = <<f, g, k>>
    OBVIOUS
  <1>2. PICK h : h = <<a, b, c, d>>
    OBVIOUS
  <1>3. a \in Nat /\ b \in Nat /\ c \in Nat /\ d \in Nat
    BY DEF Does
  <1>4. /\ h \in Seq(Nat) /\ Len(h) = 4
        /\ h[1] = a /\ h[2] = b /\ h[3] = c /\ h[4] = d
        /\ fs \in Seq(S) /\ Len(fs) = 3
        /\ fs[1] = f /\ fs[2] = g /\ fs[3] = k
    BY <1>1, <1>2, <1>3
  <1>5. \A i \in 1 .. Len(fs) :
            i = 1 \/ i = 2 \/ i = 3
    BY <1>4
  <1>6. \A i \in 1 .. Len(fs) : Does(fs[i], h[i], h[i + 1])
    <2>1. /\ Does(fs[1], h[1], h[1 + 1])
          /\ Does(fs[2], h[2], h[2 + 1])
          /\ Does(fs[3], h[3], h[3 + 1])
      BY <1>4
    <2> QED
      BY <1>5, <2>1
  <1>7. Len(h) = Len(fs) + 1 /\ h[Len(h)] = d
    BY <1>4
  <1> QED
    BY <1>1, <1>4, <1>6, <1>7 DEF Runs

LEMMA FourRun ==
    ASSUME NEW S, NEW f \in S, NEW g \in S, NEW k \in S, NEW p \in S,
           NEW a, NEW b, NEW c, NEW d, NEW e,
           Does(f, a, b), Does(g, b, c), Does(k, c, d), Does(p, d, e)
    PROVE  <<f, g, k, p>> \in Seq(S) /\ Runs(<<f, g, k, p>>, a, e)
  <1>1. PICK fs : fs = <<f, g, k, p>>
    OBVIOUS
  <1>2. PICK h : h = <<a, b, c, d, e>>
    OBVIOUS
  <1>3. a \in Nat /\ b \in Nat /\ c \in Nat /\ d \in Nat /\ e \in Nat
    BY DEF Does
  <1>4. /\ h \in Seq(Nat) /\ Len(h) = 5
        /\ h[1] = a /\ h[2] = b /\ h[3] = c /\ h[4] = d /\ h[5] = e
        /\ fs \in Seq(S) /\ Len(fs) = 4
        /\ fs[1] = f /\ fs[2] = g /\ fs[3] = k /\ fs[4] = p
    BY <1>1, <1>2, <1>3
  <1>5. \A i \in 1 .. Len(fs) :
            i = 1 \/ i = 2 \/ i = 3 \/ i = 4
    BY <1>4
  <1>6. \A i \in 1 .. Len(fs) : Does(fs[i], h[i], h[i + 1])
    <2>1. /\ Does(fs[1], h[1], h[1 + 1])
          /\ Does(fs[2], h[2], h[2 + 1])
          /\ Does(fs[3], h[3], h[3 + 1])
          /\ Does(fs[4], h[4], h[4 + 1])
      BY <1>4
    <2> QED
      BY <1>5, <2>1
  <1>7. Len(h) = Len(fs) + 1 /\ h[Len(h)] = e
    BY <1>4
  <1> QED
    BY <1>1, <1>4, <1>6, <1>7 DEF Runs

LEMMA FiveRun ==
    ASSUME NEW S, NEW f \in S, NEW g \in S, NEW k \in S, NEW p \in S, NEW q \in S,
           NEW a, NEW b, NEW c, NEW d, NEW e, NEW x,
           Does(f, a, b), Does(g, b, c), Does(k, c, d),
           Does(p, d, e), Does(q, e, x)
    PROVE  <<f, g, k, p, q>> \in Seq(S) /\ Runs(<<f, g, k, p, q>>, a, x)
  <1>1. PICK fs : fs = <<f, g, k, p, q>>
    OBVIOUS
  <1>2. PICK h : h = <<a, b, c, d, e, x>>
    OBVIOUS
  <1>3. a \in Nat /\ b \in Nat /\ c \in Nat /\ d \in Nat /\ e \in Nat /\ x \in Nat
    BY DEF Does
  <1>4. /\ h \in Seq(Nat) /\ Len(h) = 6
        /\ h[1] = a /\ h[2] = b /\ h[3] = c /\ h[4] = d /\ h[5] = e /\ h[6] = x
        /\ fs \in Seq(S) /\ Len(fs) = 5
        /\ fs[1] = f /\ fs[2] = g /\ fs[3] = k /\ fs[4] = p /\ fs[5] = q
    BY <1>1, <1>2, <1>3
  <1>5. \A i \in 1 .. Len(fs) :
            i = 1 \/ i = 2 \/ i = 3 \/ i = 4 \/ i = 5
    BY <1>4
  <1>6. \A i \in 1 .. Len(fs) : Does(fs[i], h[i], h[i + 1])
    <2>1. /\ Does(fs[1], h[1], h[1 + 1])
          /\ Does(fs[2], h[2], h[2 + 1])
          /\ Does(fs[3], h[3], h[3 + 1])
          /\ Does(fs[4], h[4], h[4 + 1])
          /\ Does(fs[5], h[5], h[5 + 1])
      BY <1>4
    <2> QED
      BY <1>5, <2>1
  <1>7. Len(h) = Len(fs) + 1 /\ h[Len(h)] = x
    BY <1>4
  <1> QED
    BY <1>1, <1>4, <1>6, <1>7 DEF Runs

LEMMA SixRun ==
    ASSUME NEW S, NEW f \in S, NEW g \in S, NEW k \in S, NEW p \in S, NEW q \in S,
          NEW r \in S,
           NEW a, NEW b, NEW c, NEW d, NEW e, NEW x, NEW y,
           Does(f, a, b), Does(g, b, c), Does(k, c, d),
           Does(p, d, e), Does(q, e, x), Does(r, x, y)
    PROVE  <<f, g, k, p, q, r>> \in Seq(S) /\ Runs(<<f, g, k, p, q, r>>, a, y)
  <1>1. PICK fs : fs = <<f, g, k, p, q, r>>
    OBVIOUS
  <1>2. PICK h : h = <<a, b, c, d, e, x, y>>
    OBVIOUS
  <1>3. /\ a \in Nat
        /\ b \in Nat
        /\ c \in Nat
        /\ d \in Nat
        /\ e \in Nat
        /\ x \in Nat
        /\ y \in Nat
    BY DEF Does
  <1>4. /\ h \in Seq(Nat) /\ Len(h) = 7
        /\ h[1] = a /\ h[2] = b /\ h[3] = c /\ h[4] = d /\ h[5] = e /\ h[6] = x /\ h[7] = y
        /\ fs \in Seq(S) /\ Len(fs) = 6
        /\ fs[1] = f /\ fs[2] = g /\ fs[3] = k /\ fs[4] = p /\ fs[5] = q /\ fs[6] = r
    BY <1>1, <1>2, <1>3
  <1>5. \A i \in 1 .. Len(fs) :
            i = 1 \/ i = 2 \/ i = 3 \/ i = 4 \/ i = 5 \/ i = 6
    BY <1>4
  <1>6. \A i \in 1 .. Len(fs) : Does(fs[i], h[i], h[i + 1])
    <2>1. /\ Does(fs[1], h[1], h[1 + 1])
          /\ Does(fs[2], h[2], h[2 + 1])
          /\ Does(fs[3], h[3], h[3 + 1])
          /\ Does(fs[4], h[4], h[4 + 1])
          /\ Does(fs[5], h[5], h[5 + 1])
          /\ Does(fs[6], h[6], h[6 + 1])
      BY <1>4
    <2> QED
      BY <1>5, <2>1
  <1>7. Len(h) = Len(fs) + 1 /\ h[Len(h)] = y
    BY <1>4
  <1> QED
    BY <1>1, <1>4, <1>6, <1>7 DEF Runs

LEMMA TenRun ==
    ASSUME NEW S, NEW f \in S, NEW g \in S, NEW k \in S, NEW p \in S, NEW q \in S,
          NEW r \in S, NEW s \in S, NEW t \in S, NEW u \in S, NEW v \in S,
           NEW a, NEW b, NEW c, NEW d, NEW e, NEW x, NEW y, NEW z, NEW l, NEW m, NEW n,
           Does(f, a, b), Does(g, b, c), Does(k, c, d),
           Does(p, d, e), Does(q, e, x), Does(r, x, y), Does(s, y, z), Does(t, z, l),
                 Does(u, l, m), Does(v, m, n)
    PROVE  /\ <<f, g, k, p, q, r, s, t, u, v>> \in Seq(S)
           /\ Runs(<<f, g, k, p, q, r, s, t, u, v>>, a, n)
  <1>1. PICK fs : fs = <<f, g, k, p, q, r, s, t, u, v>>
    OBVIOUS
  <1>2. PICK h : h = <<a, b, c, d, e, x, y, z, l, m, n>>
    OBVIOUS
  <1>3. /\ a \in Nat
        /\ b \in Nat
        /\ c \in Nat
        /\ d \in Nat
        /\ e \in Nat
        /\ x \in Nat
        /\ y \in Nat
        /\ z \in Nat
        /\ l \in Nat
        /\ m \in Nat
        /\ n \in Nat
    BY DEF Does
  <1>4. /\ h \in Seq(Nat) /\ Len(h) = 11
        /\ h[1] = a
        /\ h[2] = b
        /\ h[3] = c
        /\ h[4] = d
        /\ h[5] = e
        /\ h[6] = x
        /\ h[7] = y
        /\ h[8] = z
        /\ h[9] = l
        /\ h[10] = m
        /\ h[11] = n
        /\ fs \in Seq(S) /\ Len(fs) = 10
        /\ fs[1] = f
        /\ fs[2] = g
        /\ fs[3] = k
        /\ fs[4] = p
        /\ fs[5] = q
        /\ fs[6] = r
        /\ fs[7] = s
        /\ fs[8] = t
        /\ fs[9] = u
        /\ fs[10] = v
    BY <1>1, <1>2, <1>3
  <1>5. \A i \in 1 .. Len(fs) :
            i = 1 \/ i = 2 \/ i = 3 \/ i = 4 \/ i = 5 \/ i = 6 \/ i = 7 \/ i = 8 \/ i = 9 \/ i = 10
    BY <1>4
  <1>6. \A i \in 1 .. Len(fs) : Does(fs[i], h[i], h[i + 1])
    <2>1. /\ Does(fs[1], h[1], h[1 + 1])
          /\ Does(fs[2], h[2], h[2 + 1])
          /\ Does(fs[3], h[3], h[3 + 1])
          /\ Does(fs[4], h[4], h[4 + 1])
          /\ Does(fs[5], h[5], h[5 + 1])
          /\ Does(fs[6], h[6], h[6 + 1])
          /\ Does(fs[7], h[7], h[7 + 1])
          /\ Does(fs[8], h[8], h[8 + 1])
          /\ Does(fs[9], h[9], h[9 + 1])
          /\ Does(fs[10], h[10], h[10 + 1])
      BY <1>4
    <2> QED
      BY <1>5, <2>1
  <1>7. Len(h) = Len(fs) + 1 /\ h[Len(h)] = n
    BY <1>4
  <1> QED
    BY <1>1, <1>4, <1>6, <1>7 DEF Runs

\* What the frames of the parser do.
LEMMA NothingDone ==
    ASSUME NEW f, Takes(f) = 0, Leaves(f) = 0
    PROVE  \A a \in Nat : Does(f, a, a)
  BY DEF Does

LEMMA Words == "" \in Whats /\ Skipped \subseteq Whats /\ Kinds \subseteq Whats
  BY DEF Whats

LEMMA DoIs ==
    ASSUME NEW start, NEW ats, 0 \in ats, NEW F, F = FramesOf(start, ats),
           NEW d \in {"exp", "primary", "stmt", "seq", "vardecl", "func", "funcid", "op"}
    PROVE  Do(d) \in F /\ Takes(Do(d)) = 0 /\ Leaves(Do(d)) = 1
  <1>1. d \in Dos
    BY DEF Dos
  <1>2. Do(d) \in F
    BY <1>1, Words DEF Frame, FramesOf, Do
  <1>3. Do(d).do = d /\ Do(d).n = 0
    BY DEF Frame, Do
  <1> QED
    BY <1>2, <1>3 DEF Takes, Leaves

LEMMA TypeIs ==
    ASSUME NEW start, NEW ats, 0 \in ats, NEW F, F = FramesOf(start, ats)
    PROVE  Do("type") \in F /\ Takes(Do("type")) = 0 /\ Leaves(Do("type")) = 0
  <1>1. "type" \in Dos
    BY DEF Dos
  <1>2. Do("type") \in F
    BY <1>1, Words DEF Frame, FramesOf, Do
  <1>3. Do("type").do = "type" /\ Do("type").n = 0
    BY DEF Frame, Do
  <1> QED
    BY <1>2, <1>3 DEF Takes, Leaves

LEMMA InfixIs ==
    ASSUME NEW start, NEW ats, 0 \in ats, NEW F, F = FramesOf(start, ats)
    PROVE  /\ Do("remaining") \in F
           /\ Takes(Do("remaining")) = 1
           /\ Leaves(Do("remaining")) = 1
  <1>1. "remaining" \in Dos
    BY DEF Dos
  <1>2. Do("remaining") \in F
    BY <1>1, Words DEF Frame, FramesOf, Do
  <1>3. Do("remaining").do = "remaining" /\ Do("remaining").n = 0
    BY DEF Frame, Do
  <1> QED
    BY <1>2, <1>3 DEF Takes, Leaves

LEMMA SkipIs ==
    ASSUME NEW start, NEW ats, 0 \in ats, NEW F, F = FramesOf(start, ats),
           NEW w \in Skipped
    PROVE  Skip(w) \in F /\ Takes(Skip(w)) = 0 /\ Leaves(Skip(w)) = 0
  <1>1. "skip" \in Dos
    BY DEF Dos
  <1>2. Skip(w) \in F
    BY <1>1, Words DEF Frame, FramesOf, Skip
  <1>3. Skip(w).do = "skip" /\ Skip(w).n = 0
    BY DEF Frame, Skip
  <1> QED
    BY <1>2, <1>3 DEF Takes, Leaves

LEMMA MakeIs ==
    ASSUME NEW F, NEW start, NEW ats, F = FramesOf(start, ats), 0 \in ats
    PROVE  \A w \in Kinds, at \in ats, n \in Nat :
              /\ Make(w, at, n) \in F
              /\ Takes(Make(w, at, n)) = n
              /\ Leaves(Make(w, at, n)) = 1
  <1> SUFFICES ASSUME NEW w \in Kinds, NEW at \in ats, NEW n \in Nat
               PROVE  /\ Make(w, at, n) \in F
                      /\ Takes(Make(w, at, n)) = n
                      /\ Leaves(Make(w, at, n)) = 1
    OBVIOUS
  <1>1. "make" \in Dos
    BY DEF Dos
  <1>2. Make(w, at, n) \in F
    BY <1>1, Words DEF Frame, FramesOf, Make
  <1>3. Make(w, at, n).do = "make" /\ Make(w, at, n).n = n
    BY DEF Frame, Make
  <1> QED
    BY <1>2, <1>3 DEF Takes, Leaves

LEMMA AtIs ==
    ASSUME NEW start, NEW ats, 0 \in ats, NEW F, F = FramesOf(start, ats),
           NEW d \in {"id", "args", "firstarg", "stmts", "size", "param", "body"},
                 NEW at \in ats
    PROVE  At(d, at) \in F /\ Takes(At(d, at)) = 0 /\ Leaves(At(d, at)) = 1
  <1>1. d \in Dos
    BY DEF Dos
  <1>2. At(d, at) \in F
    BY <1>1, Words DEF Frame, FramesOf, At
  <1>3. At(d, at).do = d /\ At(d, at).n = 0
    BY DEF Frame, At
  <1> QED
    BY <1>2, <1>3 DEF Takes, Leaves

LEMMA ElseIs ==
    ASSUME NEW start, NEW ats, 0 \in ats, NEW F, F = FramesOf(start, ats),
           NEW at \in ats
    PROVE  At("else", at) \in F /\ Takes(At("else", at)) = 2 /\ Leaves(At("else", at)) = 1
  <1>1. "else" \in Dos
    BY DEF Dos
  <1>2. At("else", at) \in F
    BY <1>1, Words DEF Frame, FramesOf, At
  <1>3. At("else", at).do = "else" /\ At("else", at).n = 0
    BY DEF Frame, At
  <1> QED
    BY <1>2, <1>3 DEF Takes, Leaves

LEMMA StmtIs ==
    ASSUME NEW start, NEW ats, 0 \in ats, NEW F, F = FramesOf(start, ats),
           NEW d \in {"stmt", "stmtid"}, NEW w \in Whats, NEW at \in ats
    PROVE  /\ Frame(d, w, at, 0) \in F
           /\ Takes(Frame(d, w, at, 0)) = 0
           /\ Leaves(Frame(d, w, at, 0)) = 1
  <1>1. d \in Dos
    BY DEF Dos
  <1>2. Frame(d, w, at, 0) \in F
    BY <1>1, Words DEF Frame, FramesOf
  <1>3. Frame(d, w, at, 0).do = d /\ Frame(d, w, at, 0).n = 0
    BY DEF Frame
  <1> QED
    BY <1>2, <1>3 DEF Takes, Leaves

LEMMA InitIs ==
    ASSUME NEW start, NEW ats, 0 \in ats, NEW F, F = FramesOf(start, ats),
           NEW w \in Whats, NEW at \in ats
    PROVE  /\ Frame("init", w, at, 0) \in F
           /\ Takes(Frame("init", w, at, 0)) = 1
           /\ Leaves(Frame("init", w, at, 0)) = 1
  <1>1. "init" \in Dos
    BY DEF Dos
  <1>2. Frame("init", w, at, 0) \in F
    BY <1>1, Words DEF Frame, FramesOf
  <1>3. Frame("init", w, at, 0).do = "init" /\ Frame("init", w, at, 0).n = 0
    BY DEF Frame
  <1> QED
    BY <1>2, <1>3 DEF Takes, Leaves

LEMMA RightIs ==
    ASSUME NEW start, NEW ats, 0 \in ats, NEW F, F = FramesOf(start, ats),
           NEW at \in ats, NEW n \in Nat
    PROVE  /\ With("right", at, n) \in F
           /\ Takes(With("right", at, n)) = 2
           /\ Leaves(With("right", at, n)) = 1
  <1>1. "right" \in Dos
    BY DEF Dos
  <1>2. With("right", at, n) \in F
    BY <1>1, Words DEF Frame, FramesOf, With
  <1>3. With("right", at, n).do = "right" /\ With("right", at, n).n = n
    BY DEF Frame, With
  <1> QED
    BY <1>2, <1>3 DEF Takes, Leaves

LEMMA HigherIs ==
    ASSUME NEW start, NEW ats, 0 \in ats, NEW F, F = FramesOf(start, ats),
           NEW at \in ats, NEW n \in Nat
    PROVE  /\ With("remaining", at, n) \in F
           /\ Takes(With("remaining", at, n)) = 1
           /\ Leaves(With("remaining", at, n)) = 1
  <1>1. "remaining" \in Dos
    BY DEF Dos
  <1>2. With("remaining", at, n) \in F
    BY <1>1, Words DEF Frame, FramesOf, With
  <1>3. With("remaining", at, n).do = "remaining" /\ With("remaining", at, n).n = n
    BY DEF Frame, With
  <1> QED
    BY <1>2, <1>3 DEF Takes, Leaves

LEMMA MoreIs ==
    ASSUME NEW F, NEW start, NEW ats, F = FramesOf(start, ats), 0 \in ats
    PROVE  \A d \in {"morearg", "stmts", "params", "body"}, at \in ats, n \in Nat :
              /\ With(d, at, n) \in F
              /\ Takes(With(d, at, n)) = n
              /\ Leaves(With(d, at, n)) = 1
  <1> SUFFICES ASSUME NEW d \in {"morearg", "stmts", "params", "body"}, NEW at \in ats,
        NEW n \in Nat
               PROVE  /\ With(d, at, n) \in F
                      /\ Takes(With(d, at, n)) = n
                      /\ Leaves(With(d, at, n)) = 1
    OBVIOUS
  <1>1. d \in Dos
    BY DEF Dos
  <1>2. With(d, at, n) \in F
    BY <1>1, Words DEF Frame, FramesOf, With
  <1>3. With(d, at, n).do = d /\ With(d, at, n).n = n
    BY DEF Frame, With
  <1> QED
    BY <1>2, <1>3 DEF Takes, Leaves

-----------------------------------------------------------------------------
(* The invariant. *)

Nodes == [kind : Whats, at : Nat, kids : Seq(Nat)]

Typed ==
    /\ source \in Sources
    /\ toks \in Seq(Tokens) /\ toks # <<>>
    /\ stack \in Seq(FramesOf(source.start, 0 .. pos))
    /\ nodes \in Seq(Nodes)
    /\ results \in Seq(Nat) /\ program \in Seq(Nat)
    /\ blamed \in 0 .. pos
    /\ phase \in {"parse", "done", "rejected"}
    /\ phase = "done" => stack = <<>>

Supplied == Runs(stack, Len(results), Final(source.start))

\* Node i is part k of o: of the program (-1), of the results (0), or of a node.
PartsIn(nds, res, prog, o) == IF o = -1 THEN prog ELSE IF o = 0 THEN res ELSE nds[o].kids
Owned(nds, res, prog, o, k, i) ==
    /\ o \in -1 .. Len(nds) /\ k \in 1 .. Len(PartsIn(nds, res, prog, o))
    /\ i = PartsIn(nds, res, prog, o)[k]

\* Every node has one owner, and is made before the node it is part of.
OneOwner(nds, res, prog) ==
    /\ \A o, k, i : Owned(nds, res, prog, o, k, i) => i \in 1 .. Len(nds)
    /\ \A i \in 1 .. Len(nds) : \E o, k : Owned(nds, res, prog, o, k, i)
    /\ \A o1, o2, k1, k2, i :
          Owned(nds, res, prog, o1, k1, i) /\ Owned(nds, res, prog, o2, k2, i)
             => o1 = o2 /\ k1 = k2
    /\ \A o, k, i : Owned(nds, res, prog, o, k, i) /\ o > 0 => i < o

ParseInv == Typed /\ Supplied /\ OneOwner(nodes, results, program)

-----------------------------------------------------------------------------
(* The steps that leave the nodes alone. *)

LEMMA Positions ==
    ASSUME Typed
    PROVE  /\ pos \in Nat
           /\ pos > 0
           /\ 0 \in 0 .. pos
           /\ pos \in 0 .. pos
           /\ Current \in Tokens
  BY DEF Typed, pos, Current

\* The frame whose function goes on.
LEMMA TopFrame ==
    ASSUME ParseInv, stack # <<>>
    PROVE  /\ stack[1] \in FramesOf(source.start, 0 .. pos)
           /\ stack[1].at \in 0 .. pos /\ stack[1].n \in Nat /\ stack[1].what \in Whats
           /\ Len(results) \in Nat /\ Takes(stack[1]) <= Len(results)
  <1>1. stack \in Seq(FramesOf(source.start, 0 .. pos)) /\ results \in Seq(Nat)
    BY DEF ParseInv, Typed
  <1>2. stack[1] \in FramesOf(source.start, 0 .. pos)
    BY <1>1
  <1>3. Takes(stack[1]) <= Len(results)
    BY <1>1, FirstRuns DEF ParseInv, Supplied, Does
  <1>4. stack[1].at \in 0 .. pos /\ stack[1].n \in Nat /\ stack[1].what \in Whats
    BY <1>2 DEF FramesOf
  <1> QED
    BY <1>1, <1>2, <1>3, <1>4

LEMMA FramesGrow ==
    ASSUME NEW start, NEW p \in Nat, NEW q \in Nat, p <= q,
           NEW fs \in Seq(FramesOf(start, 0 .. p))
    PROVE  fs \in Seq(FramesOf(start, 0 .. q))
  <1>1. ASSUME NEW f \in FramesOf(start, 0 .. p) PROVE f \in FramesOf(start, 0 .. q)
    <2>1. 0 .. p \subseteq 0 .. q
      OBVIOUS
    <2> HIDE DEF Dos, Whats
    <2> QED
      BY <2>1 DEF FramesOf
  <1> QED
    BY <1>1

\* The stream goes on or stays.
LEMMA Reading ==
    ASSUME Typed, Advance \/ UNCHANGED toks
    PROVE  toks' \in Seq(Tokens) /\ toks' # <<>> /\ pos' \in Nat /\ pos <= pos'
  <1>1. CASE UNCHANGED toks
    BY <1>1 DEF Typed, pos
  <1>2. ASSUME NEW t \in Tokens, toks' = Append(toks, t)
        PROVE  toks' \in Seq(Tokens) /\ toks' # <<>> /\ pos' \in Nat /\ pos <= pos'
    <2>1. toks \in Seq(Tokens)
      BY DEF Typed
    <2>2. toks' \in Seq(Tokens) /\ Len(toks') = Len(toks) + 1 /\ Len(toks) \in Nat
      BY <1>2, <2>1
    <2> QED
      BY <2>2 DEF pos
  <1>3. CASE Advance
    <2>1. "eof" \in Tokens
      BY DEF Tokens
    <2>2. Coming(source, pos) \subseteq Tokens
      <3>1. /\ source.given \in Seq(Tokens \ {"eof"})
            /\ source.tokens \subseteq Tokens \ {"eof"}
        BY SourcesAssumption DEF Typed
      <3>2. pos \in Nat
        BY DEF Typed, pos
      <3>3. CASE pos < Len(source.given)
        <4>1. source.given[pos + 1] \in Tokens \ {"eof"}
          BY <3>1, <3>2, <3>3
        <4>2. Coming(source, pos) = {source.given[pos + 1]}
          BY <3>3 DEF Coming
        <4> QED
          BY <4>1, <4>2
      <3>4. CASE ~(pos < Len(source.given))
        BY <2>1, <3>1, <3>4 DEF Coming
      <3> QED
        BY <3>3, <3>4
    <2> QED
      BY <1>2, <1>3, <2>1, <2>2 DEF Advance
  <1> QED
    BY <1>1, <1>3

\* The parser throws.
LEMMA Rejected ==
    ASSUME ParseInv, Advance \/ UNCHANGED toks, Reject, UNCHANGED program
    PROVE  ParseInv'
  <1>1. toks' \in Seq(Tokens) /\ toks' # <<>> /\ pos' \in Nat /\ pos <= pos' /\ pos \in Nat
    BY Reading, Positions DEF ParseInv
  <1>2. /\ UNCHANGED <<source, stack, nodes, results, program>>
        /\ phase' = "rejected"
        /\ blamed' = pos
    BY DEF Reject
  <1>3. stack' \in Seq(FramesOf(source'.start, 0 .. pos'))
    BY <1>1, <1>2, FramesGrow DEF ParseInv, Typed
  <1>4. Typed'
    BY <1>1, <1>2, <1>3 DEF ParseInv, Typed
  <1>5. Supplied'
    BY <1>2 DEF ParseInv, Supplied
  <1>6. OneOwner(nodes, results, program)'
    BY <1>2 DEF ParseInv
  <1> QED
    BY <1>4, <1>5, <1>6 DEF ParseInv

\* The function of the first frame goes on as the frames fs, or throws.
LEMMA Continued ==
    ASSUME ParseInv, phase = "parse", stack # <<>>, Advance \/ UNCHANGED toks,
           NEW fs \in Seq(FramesOf(source.start, 0 .. pos)),
           Runs(fs, Len(results), Len(results) - Takes(stack[1]) + Leaves(stack[1])),
           Become(fs) \/ Reject, UNCHANGED program
    PROVE  ParseInv'
  <1>1. toks' \in Seq(Tokens) /\ toks' # <<>> /\ pos' \in Nat /\ pos <= pos' /\ pos \in Nat
    BY Reading, Positions DEF ParseInv
  <1>2. UNCHANGED <<source, nodes, results, program>>
    BY DEF Become, Reject
  <1>3. OneOwner(nodes, results, program)'
    BY <1>2 DEF ParseInv
  <1>4. CASE Reject
    BY <1>4, Rejected
  <1>5. CASE Become(fs)
    <2>1. stack' = fs \o Tail(stack) /\ phase' = "parse" /\ blamed' = blamed
      BY <1>5 DEF Become
    <2>2. /\ Tail(stack) \in Seq(FramesOf(source.start, 0 .. pos))
          /\ stack \in Seq(FramesOf(source.start, 0 .. pos))
      BY DEF ParseInv, Typed
    <2>3. stack' \in Seq(FramesOf(source.start, 0 .. pos))
      BY <2>1, <2>2
    <2>4. stack' \in Seq(FramesOf(source'.start, 0 .. pos'))
      BY <1>1, <1>2, <2>3, FramesGrow
    <2>5. blamed' \in 0 .. pos'
      BY <1>1, <2>1 DEF ParseInv, Typed
    <2>6. Typed'
      BY <1>1, <1>2, <2>1, <2>4, <2>5 DEF ParseInv, Typed
    <2>7. Runs(Tail(stack), Len(results) - Takes(stack[1]) + Leaves(stack[1]),
                Final(source.start))
      BY <2>2, FirstRuns DEF ParseInv, Supplied, Does
    <2>8. Runs(fs \o Tail(stack), Len(results), Final(source.start))
      BY <2>2, <2>7, BothRun
    <2>9. Supplied'
      BY <1>2, <2>1, <2>8 DEF Supplied
    <2> QED
      BY <1>3, <2>6, <2>9 DEF ParseInv
  <1> QED
    BY <1>4, <1>5

-----------------------------------------------------------------------------
(* Expressions. *)

LEMMA ExpKeeps ==
    ASSUME ParseInv, UNCHANGED program,
           Exp \/ PrimaryLiteral \/ PrimaryId \/ IdIndex \/ IdCall \/ IdVariable
           \/ PrimaryConversion \/ PrimaryParen \/ PrimaryMinus \/ PrimaryUnexpected
           \/ Args \/ ArgsFirst \/ ArgsMore \/ RemainingEnd \/ RemainingOperator
           \/ RightHigher \/ SkipToken
    PROVE  ParseInv'
  <1>1. PICK F, ats : F = FramesOf(source.start, ats) /\ ats = 0 .. pos
    OBVIOUS
  <1>2. 0 \in ats /\ F = FramesOf(source.start, ats)
    BY <1>1, Positions DEF ParseInv
  <1>3. \A w \in Kinds, at \in ats, n \in Nat :
            Make(w, at, n) \in F /\ Takes(Make(w, at, n)) = n /\ Leaves(Make(w, at, n)) = 1
    BY <1>2, MakeIs
  <1>4. \A d \in {"morearg", "stmts", "params", "body"}, at \in ats, n \in Nat :
            With(d, at, n) \in F /\ Takes(With(d, at, n)) = n /\ Leaves(With(d, at, n)) = 1
    BY <1>2, MoreIs
  <1>5. CASE Exp
    <2>1. phase = "parse" /\ stack # <<>> /\ stack[1].do = "exp"
      BY <1>5 DEF Exp, Top
    <2>2. Takes(stack[1]) = 0 /\ Leaves(stack[1]) = 1
      BY <2>1 DEF Takes, Leaves
    <2>3. /\ stack[1].at \in ats /\ stack[1].n \in Nat /\ stack[1].what \in Whats
          /\ Len(results) \in Nat /\ 0 <= Len(results) /\ 0 \in ats /\ pos \in ats
      BY <1>1, <2>1, <2>2, TopFrame, Positions DEF ParseInv
    <2>4. /\ Do("primary") \in F /\ Does(Do("primary"), Len(results), Len(results) + 1)
          /\ Do("remaining") \in F
          /\ Does(Do("remaining"), Len(results) + 1, Len(results) + 1)
      <3>1. Do("primary") \in F /\ Does(Do("primary"), Len(results), Len(results) + 1)
        <4>1. Do("primary") \in F /\ Takes(Do("primary")) = 0 /\ Leaves(Do("primary")) = 1
          BY <1>1, <2>3, DoIs
        <4> QED
          BY <2>3, <4>1 DEF Does
      <3>2. /\ Do("remaining") \in F
            /\ Does(Do("remaining"), Len(results) + 1, Len(results) + 1)
        <4>1. /\ Do("remaining") \in F
              /\ Takes(Do("remaining")) = 1
              /\ Leaves(Do("remaining")) = 1
          BY <1>1, <2>3, InfixIs
        <4> QED
          BY <2>3, <4>1 DEF Does
      <3> QED
        BY <3>1, <3>2
    <2>5. /\ <<Do("primary"), Do("remaining")>> \in Seq(F)
          /\ Runs(<<Do("primary"), Do("remaining")>>, Len(results), Len(results) + 1)
      BY <2>4, TwoRun
    <2>6. Len(results) + 1 = Len(results) - Takes(stack[1]) + Leaves(stack[1])
      BY <2>2, <2>3
    <2> QED
      BY <1>5, <1>1, <2>1, <2>5, <2>6, Continued DEF Exp
  <1>6. CASE PrimaryLiteral
    <2>1. phase = "parse" /\ stack # <<>> /\ stack[1].do = "primary"
      BY <1>6 DEF PrimaryLiteral, Top
    <2>2. Takes(stack[1]) = 0 /\ Leaves(stack[1]) = 1
      BY <2>1 DEF Takes, Leaves
    <2>3. /\ stack[1].at \in ats /\ stack[1].n \in Nat /\ stack[1].what \in Whats
          /\ Len(results) \in Nat /\ 0 <= Len(results) /\ 0 \in ats /\ pos \in ats
      BY <1>1, <2>1, <2>2, TopFrame, Positions DEF ParseInv
    <2>4. /\ Make("literal", pos, 0) \in F
          /\ Does(Make("literal", pos, 0), Len(results), Len(results) + 1)
      <3>1. /\ Make("literal", pos, 0) \in F
            /\ Does(Make("literal", pos, 0), Len(results), Len(results) + 1)
        <4>1. "literal" \in Kinds
          BY DEF Kinds
        <4>2. /\ Make("literal", pos, 0) \in F
              /\ Takes(Make("literal", pos, 0)) = 0
              /\ Leaves(Make("literal", pos, 0)) = 1
          BY <2>3, <4>1, <1>3
        <4> QED
          BY <2>3, <4>2 DEF Does
      <3> QED
        BY <3>1
    <2>5. /\ <<Make("literal", pos, 0)>> \in Seq(F)
          /\ Runs(<<Make("literal", pos, 0)>>, Len(results), Len(results) + 1)
      BY <2>4, OneRuns
    <2>6. Len(results) + 1 = Len(results) - Takes(stack[1]) + Leaves(stack[1])
      BY <2>2, <2>3
    <2> QED
      BY <1>6, <1>1, <2>1, <2>5, <2>6, Continued DEF PrimaryLiteral, Fetch
  <1>7. CASE PrimaryId
    <2>1. phase = "parse" /\ stack # <<>> /\ stack[1].do = "primary"
      BY <1>7 DEF PrimaryId, Top
    <2>2. Takes(stack[1]) = 0 /\ Leaves(stack[1]) = 1
      BY <2>1 DEF Takes, Leaves
    <2>3. /\ stack[1].at \in ats /\ stack[1].n \in Nat /\ stack[1].what \in Whats
          /\ Len(results) \in Nat /\ 0 <= Len(results) /\ 0 \in ats /\ pos \in ats
      BY <1>1, <2>1, <2>2, TopFrame, Positions DEF ParseInv
    <2>4. At("id", pos) \in F /\ Does(At("id", pos), Len(results), Len(results) + 1)
      <3>1. At("id", pos) \in F /\ Does(At("id", pos), Len(results), Len(results) + 1)
        <4>1. At("id", pos) \in F /\ Takes(At("id", pos)) = 0 /\ Leaves(At("id", pos)) = 1
          BY <1>1, <2>3, AtIs
        <4> QED
          BY <2>3, <4>1 DEF Does
      <3> QED
        BY <3>1
    <2>5. /\ <<At("id", pos)>> \in Seq(F)
          /\ Runs(<<At("id", pos)>>, Len(results), Len(results) + 1)
      BY <2>4, OneRuns
    <2>6. Len(results) + 1 = Len(results) - Takes(stack[1]) + Leaves(stack[1])
      BY <2>2, <2>3
    <2> QED
      BY <1>7, <1>1, <2>1, <2>5, <2>6, Continued DEF PrimaryId, Fetch
  <1>8. CASE IdIndex
    <2>1. phase = "parse" /\ stack # <<>> /\ stack[1].do = "id"
      BY <1>8 DEF IdIndex, Top
    <2>2. Takes(stack[1]) = 0 /\ Leaves(stack[1]) = 1
      BY <2>1 DEF Takes, Leaves
    <2>3. /\ stack[1].at \in ats /\ stack[1].n \in Nat /\ stack[1].what \in Whats
          /\ Len(results) \in Nat /\ 0 <= Len(results) /\ 0 \in ats /\ pos \in ats
      BY <1>1, <2>1, <2>2, TopFrame, Positions DEF ParseInv
    <2>4. /\ Do("exp") \in F /\ Does(Do("exp"), Len(results), Len(results) + 1)
          /\ Skip("]") \in F /\ Does(Skip("]"), Len(results) + 1, Len(results) + 1)
          /\ Make("access", stack[1].at, 1) \in F
          /\ Does(Make("access", stack[1].at, 1), Len(results) + 1, Len(results) + 1)
      <3>1. Do("exp") \in F /\ Does(Do("exp"), Len(results), Len(results) + 1)
        <4>1. Do("exp") \in F /\ Takes(Do("exp")) = 0 /\ Leaves(Do("exp")) = 1
          BY <1>1, <2>3, DoIs
        <4> QED
          BY <2>3, <4>1 DEF Does
      <3>2. Skip("]") \in F /\ Does(Skip("]"), Len(results) + 1, Len(results) + 1)
        <4>1. "]" \in Skipped
          BY DEF Skipped
        <4>2. Skip("]") \in F /\ Takes(Skip("]")) = 0 /\ Leaves(Skip("]")) = 0
          BY <1>1, <2>3, <4>1, SkipIs
        <4>3. Len(results) + 1 \in Nat
          BY <2>3
        <4> QED
          BY <4>2, <4>3, NothingDone
      <3>3. /\ Make("access", stack[1].at, 1) \in F
            /\ Does(Make("access", stack[1].at, 1), Len(results) + 1, Len(results) + 1)
        <4>1. "access" \in Kinds
          BY DEF Kinds
        <4>2. /\ Make("access", stack[1].at, 1) \in F
              /\ Takes(Make("access", stack[1].at, 1)) = 1
              /\ Leaves(Make("access", stack[1].at, 1)) = 1
          BY <2>3, <4>1, <1>3
        <4> QED
          BY <2>3, <4>2 DEF Does
      <3> QED
        BY <3>1, <3>2, <3>3
    <2>5. /\ <<Do("exp"), Skip("]"), Make("access", stack[1].at, 1)>> \in Seq(F)
          /\ Runs(<<Do("exp"), Skip("]"), Make("access", stack[1].at, 1)>>, Len(results),
                Len(results) + 1)
      BY <2>4, ThreeRun
    <2>6. Len(results) + 1 = Len(results) - Takes(stack[1]) + Leaves(stack[1])
      BY <2>2, <2>3
    <2> QED
      BY <1>8, <1>1, <2>1, <2>5, <2>6, Continued DEF IdIndex, Fetch
  <1>9. CASE IdCall
    <2>1. phase = "parse" /\ stack # <<>> /\ stack[1].do = "id"
      BY <1>9 DEF IdCall, Top
    <2>2. Takes(stack[1]) = 0 /\ Leaves(stack[1]) = 1
      BY <2>1 DEF Takes, Leaves
    <2>3. /\ stack[1].at \in ats /\ stack[1].n \in Nat /\ stack[1].what \in Whats
          /\ Len(results) \in Nat /\ 0 <= Len(results) /\ 0 \in ats /\ pos \in ats
      BY <1>1, <2>1, <2>2, TopFrame, Positions DEF ParseInv
    <2>4. /\ At("args", stack[1].at) \in F
          /\ Does(At("args", stack[1].at), Len(results), Len(results) + 1)
      <3>1. /\ At("args", stack[1].at) \in F
            /\ Does(At("args", stack[1].at), Len(results), Len(results) + 1)
        <4>1. /\ At("args", stack[1].at) \in F
              /\ Takes(At("args", stack[1].at)) = 0
              /\ Leaves(At("args", stack[1].at)) = 1
          BY <1>1, <2>3, AtIs
        <4> QED
          BY <2>3, <4>1 DEF Does
      <3> QED
        BY <3>1
    <2>5. /\ <<At("args", stack[1].at)>> \in Seq(F)
          /\ Runs(<<At("args", stack[1].at)>>, Len(results), Len(results) + 1)
      BY <2>4, OneRuns
    <2>6. Len(results) + 1 = Len(results) - Takes(stack[1]) + Leaves(stack[1])
      BY <2>2, <2>3
    <2> QED
      BY <1>9, <1>1, <2>1, <2>5, <2>6, Continued DEF IdCall
  <1>10. CASE IdVariable
    <2>1. phase = "parse" /\ stack # <<>> /\ stack[1].do = "id"
      BY <1>10 DEF IdVariable, Top
    <2>2. Takes(stack[1]) = 0 /\ Leaves(stack[1]) = 1
      BY <2>1 DEF Takes, Leaves
    <2>3. /\ stack[1].at \in ats /\ stack[1].n \in Nat /\ stack[1].what \in Whats
          /\ Len(results) \in Nat /\ 0 <= Len(results) /\ 0 \in ats /\ pos \in ats
      BY <1>1, <2>1, <2>2, TopFrame, Positions DEF ParseInv
    <2>4. /\ Make("var", stack[1].at, 0) \in F
          /\ Does(Make("var", stack[1].at, 0), Len(results), Len(results) + 1)
      <3>1. /\ Make("var", stack[1].at, 0) \in F
            /\ Does(Make("var", stack[1].at, 0), Len(results), Len(results) + 1)
        <4>1. "var" \in Kinds
          BY DEF Kinds
        <4>2. /\ Make("var", stack[1].at, 0) \in F
              /\ Takes(Make("var", stack[1].at, 0)) = 0
              /\ Leaves(Make("var", stack[1].at, 0)) = 1
          BY <2>3, <4>1, <1>3
        <4> QED
          BY <2>3, <4>2 DEF Does
      <3> QED
        BY <3>1
    <2>5. /\ <<Make("var", stack[1].at, 0)>> \in Seq(F)
          /\ Runs(<<Make("var", stack[1].at, 0)>>, Len(results), Len(results) + 1)
      BY <2>4, OneRuns
    <2>6. Len(results) + 1 = Len(results) - Takes(stack[1]) + Leaves(stack[1])
      BY <2>2, <2>3
    <2> QED
      BY <1>10, <1>1, <2>1, <2>5, <2>6, Continued DEF IdVariable
  <1>11. CASE PrimaryConversion
    <2>1. phase = "parse" /\ stack # <<>> /\ stack[1].do = "primary"
      BY <1>11 DEF PrimaryConversion, Top
    <2>2. Takes(stack[1]) = 0 /\ Leaves(stack[1]) = 1
      BY <2>1 DEF Takes, Leaves
    <2>3. /\ stack[1].at \in ats /\ stack[1].n \in Nat /\ stack[1].what \in Whats
          /\ Len(results) \in Nat /\ 0 <= Len(results) /\ 0 \in ats /\ pos \in ats
      BY <1>1, <2>1, <2>2, TopFrame, Positions DEF ParseInv
    <2>4. At("args", pos) \in F /\ Does(At("args", pos), Len(results), Len(results) + 1)
      <3>1. At("args", pos) \in F /\ Does(At("args", pos), Len(results), Len(results) + 1)
        <4>1. /\ At("args", pos) \in F
              /\ Takes(At("args", pos)) = 0
              /\ Leaves(At("args", pos)) = 1
          BY <1>1, <2>3, AtIs
        <4> QED
          BY <2>3, <4>1 DEF Does
      <3> QED
        BY <3>1
    <2>5. /\ <<At("args", pos)>> \in Seq(F)
          /\ Runs(<<At("args", pos)>>, Len(results), Len(results) + 1)
      BY <2>4, OneRuns
    <2>6. Len(results) + 1 = Len(results) - Takes(stack[1]) + Leaves(stack[1])
      BY <2>2, <2>3
    <2> QED
      BY <1>11, <1>1, <2>1, <2>5, <2>6, Continued DEF PrimaryConversion, Fetch
  <1>12. CASE PrimaryParen
    <2>1. phase = "parse" /\ stack # <<>> /\ stack[1].do = "primary"
      BY <1>12 DEF PrimaryParen, Top
    <2>2. Takes(stack[1]) = 0 /\ Leaves(stack[1]) = 1
      BY <2>1 DEF Takes, Leaves
    <2>3. /\ stack[1].at \in ats /\ stack[1].n \in Nat /\ stack[1].what \in Whats
          /\ Len(results) \in Nat /\ 0 <= Len(results) /\ 0 \in ats /\ pos \in ats
      BY <1>1, <2>1, <2>2, TopFrame, Positions DEF ParseInv
    <2>4. /\ Skip("(") \in F /\ Does(Skip("("), Len(results), Len(results))
          /\ Do("exp") \in F /\ Does(Do("exp"), Len(results), Len(results) + 1)
          /\ Skip(")") \in F /\ Does(Skip(")"), Len(results) + 1, Len(results) + 1)
      <3>1. Skip("(") \in F /\ Does(Skip("("), Len(results), Len(results))
        <4>1. "(" \in Skipped
          BY DEF Skipped
        <4>2. Skip("(") \in F /\ Takes(Skip("(")) = 0 /\ Leaves(Skip("(")) = 0
          BY <1>1, <2>3, <4>1, SkipIs
        <4>3. Len(results) \in Nat
          BY <2>3
        <4> QED
          BY <4>2, <4>3, NothingDone
      <3>2. Do("exp") \in F /\ Does(Do("exp"), Len(results), Len(results) + 1)
        <4>1. Do("exp") \in F /\ Takes(Do("exp")) = 0 /\ Leaves(Do("exp")) = 1
          BY <1>1, <2>3, DoIs
        <4> QED
          BY <2>3, <4>1 DEF Does
      <3>3. Skip(")") \in F /\ Does(Skip(")"), Len(results) + 1, Len(results) + 1)
        <4>1. ")" \in Skipped
          BY DEF Skipped
        <4>2. Skip(")") \in F /\ Takes(Skip(")")) = 0 /\ Leaves(Skip(")")) = 0
          BY <1>1, <2>3, <4>1, SkipIs
        <4>3. Len(results) + 1 \in Nat
          BY <2>3
        <4> QED
          BY <4>2, <4>3, NothingDone
      <3> QED
        BY <3>1, <3>2, <3>3
    <2>5. /\ <<Skip("("), Do("exp"), Skip(")")>> \in Seq(F)
          /\ Runs(<<Skip("("), Do("exp"), Skip(")")>>, Len(results), Len(results) + 1)
      BY <2>4, ThreeRun
    <2>6. Len(results) + 1 = Len(results) - Takes(stack[1]) + Leaves(stack[1])
      BY <2>2, <2>3
    <2> QED
      BY <1>12, <1>1, <2>1, <2>5, <2>6, Continued DEF PrimaryParen, Fetch
  <1>13. CASE PrimaryMinus
    <2>1. phase = "parse" /\ stack # <<>> /\ stack[1].do = "primary"
      BY <1>13 DEF PrimaryMinus, Top
    <2>2. Takes(stack[1]) = 0 /\ Leaves(stack[1]) = 1
      BY <2>1 DEF Takes, Leaves
    <2>3. /\ stack[1].at \in ats /\ stack[1].n \in Nat /\ stack[1].what \in Whats
          /\ Len(results) \in Nat /\ 0 <= Len(results) /\ 0 \in ats /\ pos \in ats
      BY <1>1, <2>1, <2>2, TopFrame, Positions DEF ParseInv
    <2>4. /\ Do("primary") \in F /\ Does(Do("primary"), Len(results), Len(results) + 1)
          /\ Make("call", pos, 1) \in F
          /\ Does(Make("call", pos, 1), Len(results) + 1, Len(results) + 1)
      <3>1. Do("primary") \in F /\ Does(Do("primary"), Len(results), Len(results) + 1)
        <4>1. Do("primary") \in F /\ Takes(Do("primary")) = 0 /\ Leaves(Do("primary")) = 1
          BY <1>1, <2>3, DoIs
        <4> QED
          BY <2>3, <4>1 DEF Does
      <3>2. /\ Make("call", pos, 1) \in F
            /\ Does(Make("call", pos, 1), Len(results) + 1, Len(results) + 1)
        <4>1. "call" \in Kinds
          BY DEF Kinds
        <4>2. /\ Make("call", pos, 1) \in F
              /\ Takes(Make("call", pos, 1)) = 1
              /\ Leaves(Make("call", pos, 1)) = 1
          BY <2>3, <4>1, <1>3
        <4> QED
          BY <2>3, <4>2 DEF Does
      <3> QED
        BY <3>1, <3>2
    <2>5. /\ <<Do("primary"), Make("call", pos, 1)>> \in Seq(F)
          /\ Runs(<<Do("primary"), Make("call", pos, 1)>>, Len(results), Len(results) + 1)
      BY <2>4, TwoRun
    <2>6. Len(results) + 1 = Len(results) - Takes(stack[1]) + Leaves(stack[1])
      BY <2>2, <2>3
    <2> QED
      BY <1>13, <1>1, <2>1, <2>5, <2>6, Continued DEF PrimaryMinus, Fetch
  <1>14. CASE Args
    <2>1. phase = "parse" /\ stack # <<>> /\ stack[1].do = "args"
      BY <1>14 DEF Args, Top
    <2>2. Takes(stack[1]) = 0 /\ Leaves(stack[1]) = 1
      BY <2>1 DEF Takes, Leaves
    <2>3. /\ stack[1].at \in ats /\ stack[1].n \in Nat /\ stack[1].what \in Whats
          /\ Len(results) \in Nat /\ 0 <= Len(results) /\ 0 \in ats /\ pos \in ats
      BY <1>1, <2>1, <2>2, TopFrame, Positions DEF ParseInv
    <2>4. /\ Skip("(") \in F /\ Does(Skip("("), Len(results), Len(results))
          /\ At("firstarg", stack[1].at) \in F
          /\ Does(At("firstarg", stack[1].at), Len(results), Len(results) + 1)
      <3>1. Skip("(") \in F /\ Does(Skip("("), Len(results), Len(results))
        <4>1. "(" \in Skipped
          BY DEF Skipped
        <4>2. Skip("(") \in F /\ Takes(Skip("(")) = 0 /\ Leaves(Skip("(")) = 0
          BY <1>1, <2>3, <4>1, SkipIs
        <4>3. Len(results) \in Nat
          BY <2>3
        <4> QED
          BY <4>2, <4>3, NothingDone
      <3>2. /\ At("firstarg", stack[1].at) \in F
            /\ Does(At("firstarg", stack[1].at), Len(results), Len(results) + 1)
        <4>1. /\ At("firstarg", stack[1].at) \in F
              /\ Takes(At("firstarg", stack[1].at)) = 0
              /\ Leaves(At("firstarg", stack[1].at)) = 1
          BY <1>1, <2>3, AtIs
        <4> QED
          BY <2>3, <4>1 DEF Does
      <3> QED
        BY <3>1, <3>2
    <2>5. /\ <<Skip("("), At("firstarg", stack[1].at)>> \in Seq(F)
          /\ Runs(<<Skip("("), At("firstarg", stack[1].at)>>, Len(results),
                Len(results) + 1)
      BY <2>4, TwoRun
    <2>6. Len(results) + 1 = Len(results) - Takes(stack[1]) + Leaves(stack[1])
      BY <2>2, <2>3
    <2> QED
      BY <1>14, <1>1, <2>1, <2>5, <2>6, Continued DEF Args
  <1>15. CASE ArgsFirst
    <2>1. phase = "parse" /\ stack # <<>> /\ stack[1].do = "firstarg"
      BY <1>15 DEF ArgsFirst, Top
    <2>2. Takes(stack[1]) = 0 /\ Leaves(stack[1]) = 1
      BY <2>1 DEF Takes, Leaves
    <2>3. /\ stack[1].at \in ats /\ stack[1].n \in Nat /\ stack[1].what \in Whats
          /\ Len(results) \in Nat /\ 0 <= Len(results) /\ 0 \in ats /\ pos \in ats
      BY <1>1, <2>1, <2>2, TopFrame, Positions DEF ParseInv
    <2>4. CASE Current = ")"
      <3>1. /\ Skip(")") \in F /\ Does(Skip(")"), Len(results), Len(results))
            /\ Make("call", stack[1].at, 0) \in F
            /\ Does(Make("call", stack[1].at, 0), Len(results), Len(results) + 1)
        <4>1. Skip(")") \in F /\ Does(Skip(")"), Len(results), Len(results))
          <5>1. ")" \in Skipped
            BY DEF Skipped
          <5>2. Skip(")") \in F /\ Takes(Skip(")")) = 0 /\ Leaves(Skip(")")) = 0
            BY <1>1, <2>3, <5>1, SkipIs
          <5>3. Len(results) \in Nat
            BY <2>3
          <5> QED
            BY <5>2, <5>3, NothingDone
        <4>2. /\ Make("call", stack[1].at, 0) \in F
              /\ Does(Make("call", stack[1].at, 0), Len(results), Len(results) + 1)
          <5>1. "call" \in Kinds
            BY DEF Kinds
          <5>2. /\ Make("call", stack[1].at, 0) \in F
                /\ Takes(Make("call", stack[1].at, 0)) = 0
                /\ Leaves(Make("call", stack[1].at, 0)) = 1
            BY <2>3, <5>1, <1>3
          <5> QED
            BY <2>3, <5>2 DEF Does
        <4> QED
          BY <4>1, <4>2
      <3>2. /\ <<Skip(")"), Make("call", stack[1].at, 0)>> \in Seq(F)
            /\ Runs(<<Skip(")"), Make("call", stack[1].at, 0)>>, Len(results),
                  Len(results) + 1)
        BY <3>1, TwoRun
      <3>3. Len(results) + 1 = Len(results) - Takes(stack[1]) + Leaves(stack[1])
        BY <2>2, <2>3
      <3> QED
        BY <1>15, <2>4, <1>1, <2>1, <3>2, <3>3, Continued DEF ArgsFirst
    <2>5. CASE Current # ")"
      <3>1. /\ Do("exp") \in F /\ Does(Do("exp"), Len(results), Len(results) + 1)
            /\ With("morearg", stack[1].at, 1) \in F
            /\ Does(With("morearg", stack[1].at, 1), Len(results) + 1, Len(results) + 1)
        <4>1. Do("exp") \in F /\ Does(Do("exp"), Len(results), Len(results) + 1)
          <5>1. Do("exp") \in F /\ Takes(Do("exp")) = 0 /\ Leaves(Do("exp")) = 1
            BY <1>1, <2>3, DoIs
          <5> QED
            BY <2>3, <5>1 DEF Does
        <4>2. /\ With("morearg", stack[1].at, 1) \in F
              /\ Does(With("morearg", stack[1].at, 1), Len(results) + 1, Len(results) + 1)
          <5>1. /\ With("morearg", stack[1].at, 1) \in F
                /\ Takes(With("morearg", stack[1].at, 1)) = 1
                /\ Leaves(With("morearg", stack[1].at, 1)) = 1
            BY <2>3, <1>4
          <5> QED
            BY <2>3, <5>1 DEF Does
        <4> QED
          BY <4>1, <4>2
      <3>2. /\ <<Do("exp"), With("morearg", stack[1].at, 1)>> \in Seq(F)
            /\ Runs(<<Do("exp"), With("morearg", stack[1].at, 1)>>, Len(results),
                  Len(results) + 1)
        BY <3>1, TwoRun
      <3>3. Len(results) + 1 = Len(results) - Takes(stack[1]) + Leaves(stack[1])
        BY <2>2, <2>3
      <3> QED
        BY <1>15, <2>5, <1>1, <2>1, <3>2, <3>3, Continued DEF ArgsFirst
    <2> QED
      BY <2>4, <2>5
  <1>16. CASE ArgsMore
    <2>1. phase = "parse" /\ stack # <<>> /\ stack[1].do = "morearg"
      BY <1>16 DEF ArgsMore, Top
    <2>2. Takes(stack[1]) = stack[1].n /\ Leaves(stack[1]) = 1
      BY <2>1 DEF Takes, Leaves
    <2>3. /\ stack[1].at \in ats /\ stack[1].n \in Nat /\ stack[1].what \in Whats
          /\ Len(results) \in Nat /\ stack[1].n <= Len(results) /\ 0 \in ats /\ pos \in ats
      BY <1>1, <2>1, <2>2, TopFrame, Positions DEF ParseInv
    <2>4. CASE Current = ","
      <3>0. PICK m \in Nat : m = stack[1].n + 1
        BY <2>3
      <3>1. /\ Do("exp") \in F /\ Does(Do("exp"), Len(results), Len(results) + 1)
            /\ With("morearg", stack[1].at, m) \in F
            /\ Does(With("morearg", stack[1].at, m), Len(results) + 1,
                  Len(results) - stack[1].n + 1)
        <4>1. Do("exp") \in F /\ Does(Do("exp"), Len(results), Len(results) + 1)
          <5>1. Do("exp") \in F /\ Takes(Do("exp")) = 0 /\ Leaves(Do("exp")) = 1
            BY <1>1, <2>3, <3>0, DoIs
          <5> QED
            BY <2>3, <3>0, <5>1 DEF Does
        <4>2. /\ With("morearg", stack[1].at, m) \in F
              /\ Does(With("morearg", stack[1].at, m), Len(results) + 1,
                    Len(results) - stack[1].n + 1)
          <5>1. /\ With("morearg", stack[1].at, m) \in F
                /\ Takes(With("morearg", stack[1].at, m)) = m
                /\ Leaves(With("morearg", stack[1].at, m)) = 1
            BY <2>3, <3>0, <1>4
          <5> QED
            BY <2>3, <3>0, <5>1 DEF Does
        <4> QED
          BY <4>1, <4>2
      <3>2. /\ <<Do("exp"), With("morearg", stack[1].at, m)>> \in Seq(F)
            /\ Runs(<<Do("exp"), With("morearg", stack[1].at, m)>>, Len(results),
                  Len(results) - stack[1].n + 1)
        BY <3>1, TwoRun
      <3>3. Len(results) - stack[1].n + 1 = Len(results) - Takes(stack[1]) + Leaves(stack[1])
        BY <2>2, <2>3
      <3> QED
        BY <1>16, <2>4, <1>1, <2>1, <3>0, <3>2, <3>3, Continued DEF ArgsMore, Fetch
    <2>5. CASE Current # ","
      <3>1. /\ Skip(")") \in F /\ Does(Skip(")"), Len(results), Len(results))
            /\ Make("call", stack[1].at, stack[1].n) \in F
            /\ Does(Make("call", stack[1].at, stack[1].n), Len(results),
                  Len(results) - stack[1].n + 1)
        <4>1. Skip(")") \in F /\ Does(Skip(")"), Len(results), Len(results))
          <5>1. ")" \in Skipped
            BY DEF Skipped
          <5>2. Skip(")") \in F /\ Takes(Skip(")")) = 0 /\ Leaves(Skip(")")) = 0
            BY <1>1, <2>3, <5>1, SkipIs
          <5>3. Len(results) \in Nat
            BY <2>3
          <5> QED
            BY <5>2, <5>3, NothingDone
        <4>2. /\ Make("call", stack[1].at, stack[1].n) \in F
              /\ Does(Make("call", stack[1].at, stack[1].n), Len(results),
                    Len(results) - stack[1].n + 1)
          <5>1. "call" \in Kinds
            BY DEF Kinds
          <5>2. /\ Make("call", stack[1].at, stack[1].n) \in F
                /\ Takes(Make("call", stack[1].at, stack[1].n)) = stack[1].n
                /\ Leaves(Make("call", stack[1].at, stack[1].n)) = 1
            BY <2>3, <5>1, <1>3
          <5> QED
            BY <2>3, <5>2 DEF Does
        <4> QED
          BY <4>1, <4>2
      <3>2. /\ <<Skip(")"), Make("call", stack[1].at, stack[1].n)>> \in Seq(F)
            /\ Runs(<<Skip(")"), Make("call", stack[1].at, stack[1].n)>>, Len(results),
                  Len(results) - stack[1].n + 1)
        BY <3>1, TwoRun
      <3>3. Len(results) - stack[1].n + 1 = Len(results) - Takes(stack[1]) + Leaves(stack[1])
        BY <2>2, <2>3
      <3> QED
        BY <1>16, <2>5, <1>1, <2>1, <3>2, <3>3, Continued DEF ArgsMore, Fetch
    <2> QED
      BY <2>4, <2>5
  <1>17. CASE RemainingEnd
    <2>1. phase = "parse" /\ stack # <<>> /\ stack[1].do = "remaining"
      BY <1>17 DEF RemainingEnd, Top
    <2>2. Takes(stack[1]) = 1 /\ Leaves(stack[1]) = 1
      BY <2>1 DEF Takes, Leaves
    <2>3. /\ stack[1].at \in ats /\ stack[1].n \in Nat /\ stack[1].what \in Whats
          /\ Len(results) \in Nat /\ 1 <= Len(results) /\ 0 \in ats /\ pos \in ats
      BY <1>1, <2>1, <2>2, TopFrame, Positions DEF ParseInv
    <2>4. Runs(<<>>, Len(results), Len(results)) /\ <<>> \in Seq(F)
      BY <2>3, NothingRuns
    <2>5. Len(results) = Len(results) - Takes(stack[1]) + Leaves(stack[1])
      BY <2>2, <2>3
    <2> QED
      BY <1>17, <1>1, <2>1, <2>4, <2>5, Continued DEF RemainingEnd
  <1>18. CASE SkipToken
    <2>1. phase = "parse" /\ stack # <<>> /\ stack[1].do = "skip"
      BY <1>18 DEF SkipToken, Top
    <2>2. Takes(stack[1]) = 0 /\ Leaves(stack[1]) = 0
      BY <2>1 DEF Takes, Leaves
    <2>3. /\ stack[1].at \in ats /\ stack[1].n \in Nat /\ stack[1].what \in Whats
          /\ Len(results) \in Nat /\ 0 <= Len(results) /\ 0 \in ats /\ pos \in ats
      BY <1>1, <2>1, <2>2, TopFrame, Positions DEF ParseInv
    <2>4. Runs(<<>>, Len(results), Len(results)) /\ <<>> \in Seq(F)
      BY <2>3, NothingRuns
    <2>5. Len(results) = Len(results) - Takes(stack[1]) + Leaves(stack[1])
      BY <2>2, <2>3
    <2> QED
      BY <1>18, <1>1, <2>1, <2>4, <2>5, Continued DEF SkipToken, Fetch
  <1>19. CASE PrimaryUnexpected
    BY <1>19, Rejected DEF PrimaryUnexpected
  <1>20. CASE RemainingOperator
    <2>1. phase = "parse" /\ stack # <<>> /\ stack[1].do = "remaining"
      BY <1>20 DEF RemainingOperator, Top
    <2>2. Takes(stack[1]) = 1 /\ Leaves(stack[1]) = 1
      BY <2>1 DEF Takes, Leaves
    <2>3. /\ stack[1].at \in ats /\ stack[1].n \in Nat /\ stack[1].what \in Whats
          /\ Len(results) \in Nat /\ 1 <= Len(results) /\ 0 \in ats /\ pos \in ats
      BY <1>1, <2>1, <2>2, TopFrame, Positions DEF ParseInv
    <2>4. Precedence(Current) \in Int
      BY DEF Precedence
    <2>5. PICK p \in Nat : p = Precedence(Current)
      BY <1>20, <2>3, <2>4 DEF RemainingOperator
    <2>6. /\ Do("primary") \in F /\ Does(Do("primary"), Len(results), Len(results) + 1)
          /\ With("right", pos, p) \in F
          /\ Does(With("right", pos, p), Len(results) + 1, Len(results))
          /\ stack[1] \in F /\ Does(stack[1], Len(results), Len(results))
      <3>1. Do("primary") \in F /\ Takes(Do("primary")) = 0 /\ Leaves(Do("primary")) = 1
        BY <1>1, <2>3, DoIs
      <3>2. /\ With("right", pos, p) \in F
            /\ Takes(With("right", pos, p)) = 2
            /\ Leaves(With("right", pos, p)) = 1
        BY <1>1, <2>3, RightIs
      <3>3. stack[1] \in F
        BY <1>1, <2>1, TopFrame
      <3> QED
        BY <2>2, <2>3, <3>1, <3>2, <3>3 DEF Does
    <2>7. /\ <<Do("primary"), With("right", pos, p), stack[1]>> \in Seq(F)
          /\ Runs(<<Do("primary"), With("right", pos, p), stack[1]>>, Len(results),
                Len(results))
      BY <2>6, ThreeRun
    <2>8. Len(results) = Len(results) - Takes(stack[1]) + Leaves(stack[1])
      BY <2>2, <2>3
    <2> QED
      BY <1>20, <1>1, <2>1, <2>5, <2>7, <2>8, Continued DEF RemainingOperator, Fetch
  <1>21. CASE RightHigher
    <2>1. phase = "parse" /\ stack # <<>> /\ stack[1].do = "right"
      BY <1>21 DEF RightHigher, Top
    <2>2. Takes(stack[1]) = 2 /\ Leaves(stack[1]) = 1
      BY <2>1 DEF Takes, Leaves
    <2>3. /\ stack[1].at \in ats /\ stack[1].n \in Nat /\ stack[1].what \in Whats
          /\ Len(results) \in Nat /\ 2 <= Len(results) /\ 0 \in ats /\ pos \in ats
      BY <1>1, <2>1, <2>2, TopFrame, Positions DEF ParseInv
    <2> DEFINE higher == IF Precedence(Current) > stack[1].n
                           THEN <<With("remaining", 0, stack[1].n + 1)>> ELSE <<>>
               call == Make("call", stack[1].at, 2)
    <2>4. higher \in Seq(F) /\ Runs(higher, Len(results), Len(results))
      <3>1. PICK m \in Nat : m = stack[1].n + 1
        BY <2>3
      <3>2. /\ With("remaining", 0, m) \in F
            /\ Takes(With("remaining", 0, m)) = 1
            /\ Leaves(With("remaining", 0, m)) = 1
        BY <1>1, <2>3, HigherIs
      <3>3. Does(With("remaining", 0, m), Len(results), Len(results))
        BY <2>3, <3>2 DEF Does
      <3>4. /\ <<With("remaining", 0, m)>> \in Seq(F)
            /\ Runs(<<With("remaining", 0, m)>>, Len(results), Len(results))
        BY <3>2, <3>3, OneRuns
      <3>5. <<>> \in Seq(F) /\ Runs(<<>>, Len(results), Len(results))
        BY <2>3, NothingRuns
      <3> QED
        BY <3>1, <3>4, <3>5
    <2>5. <<call>> \in Seq(F) /\ Runs(<<call>>, Len(results), Len(results) - 1)
      <3>1. call \in F /\ Takes(call) = 2 /\ Leaves(call) = 1
        <4>1. "call" \in Kinds
          BY DEF Kinds
        <4> QED
          BY <2>3, <4>1, <1>3
      <3> HIDE DEF call
      <3>2. Does(call, Len(results), Len(results) - 1)
        BY <2>3, <3>1 DEF Does
      <3> QED
        BY <3>1, <3>2, OneRuns
    <2>6. Len(results) - 1 = Len(results) - Takes(stack[1]) + Leaves(stack[1])
      BY <2>2, <2>3
    <2> HIDE DEF higher, call
    <2>7. /\ higher \o <<call>> \in Seq(F)
          /\ Runs(higher \o <<call>>, Len(results), Len(results) - 1)
      <3>1. Runs(higher \o <<call>>, Len(results), Len(results) - 1)
        BY <2>4, <2>5, BothRun
      <3> QED
        BY <2>4, <2>5, <3>1
    <2>8. Become(higher \o <<call>>) /\ UNCHANGED toks
      BY <1>21 DEF RightHigher, higher, call
    <2> QED
      BY <1>1, <2>1, <2>6, <2>7, <2>8, Continued
  <1> QED
    BY <1>5, <1>6, <1>7, <1>8, <1>9, <1>10, <1>11, <1>12, <1>13, <1>14, <1>15, <1>16,
       <1>17, <1>18, <1>19, <1>20, <1>21

\* The semicolon that ends a statement, or none in a header.
LEMMA SemicolonRuns ==
    ASSUME NEW start, NEW ats, 0 \in ats, NEW F, F = FramesOf(start, ats), NEW a \in Nat
    PROVE  \A inForLoop \in BOOLEAN :
              Semicolon(inForLoop) \in Seq(F) /\ Runs(Semicolon(inForLoop), a, a)
  <1>1. ";" \in Skipped
    BY DEF Skipped
  <1>2. Skip(";") \in F /\ Takes(Skip(";")) = 0 /\ Leaves(Skip(";")) = 0
    BY <1>1, SkipIs
  <1>3. Does(Skip(";"), a, a)
    BY <1>2, NothingDone
  <1>4. <<Skip(";")>> \in Seq(F) /\ Runs(<<Skip(";")>>, a, a)
    BY <1>2, <1>3, OneRuns
  <1>5. <<>> \in Seq(F) /\ Runs(<<>>, a, a)
    BY NothingRuns
  <1> QED
    BY <1>4, <1>5 DEF Semicolon

-----------------------------------------------------------------------------
(* Statements and functions. *)

LEMMA StmtKeeps ==
    ASSUME ParseInv, UNCHANGED program, StmtStep
    PROVE  ParseInv'
  <1>1. PICK F, ats : F = FramesOf(source.start, ats) /\ ats = 0 .. pos
    OBVIOUS
  <1>2. 0 \in ats /\ F = FramesOf(source.start, ats)
    BY <1>1, Positions DEF ParseInv
  <1>3. \A w \in Kinds, at \in ats, n \in Nat :
            Make(w, at, n) \in F /\ Takes(Make(w, at, n)) = n /\ Leaves(Make(w, at, n)) = 1
    BY <1>2, MakeIs
  <1>4. \A d \in {"morearg", "stmts", "params", "body"}, at \in ats, n \in Nat :
            With(d, at, n) \in F /\ Takes(With(d, at, n)) = n /\ Leaves(With(d, at, n)) = 1
    BY <1>2, MoreIs
  <1>5. CASE StmtId
    <2>1. phase = "parse" /\ stack # <<>> /\ stack[1].do = "stmt"
      BY <1>5 DEF StmtId, Top
    <2>2. Takes(stack[1]) = 0 /\ Leaves(stack[1]) = 1
      BY <2>1 DEF Takes, Leaves
    <2>3. /\ stack[1].at \in ats /\ stack[1].n \in Nat /\ stack[1].what \in Whats
          /\ Len(results) \in Nat /\ 0 <= Len(results) /\ 0 \in ats /\ pos \in ats
      BY <1>1, <2>1, <2>2, TopFrame, Positions DEF ParseInv
    <2>4. /\ Frame("stmtid", stack[1].what, pos, 0) \in F
          /\ Does(Frame("stmtid", stack[1].what, pos, 0), Len(results), Len(results) + 1)
      <3>1. /\ Frame("stmtid", stack[1].what, pos, 0) \in F
            /\ Does(Frame("stmtid", stack[1].what, pos, 0), Len(results), Len(results) + 1)
        <4>1. /\ Frame("stmtid", stack[1].what, pos, 0) \in F
              /\ Takes(Frame("stmtid", stack[1].what, pos, 0)) = 0
              /\ Leaves(Frame("stmtid", stack[1].what, pos, 0)) = 1
          BY <1>1, <2>3, StmtIs
        <4> QED
          BY <2>3, <4>1 DEF Does
      <3> QED
        BY <3>1
    <2>5. /\ <<Frame("stmtid", stack[1].what, pos, 0)>> \in Seq(F)
          /\ Runs(<<Frame("stmtid", stack[1].what, pos, 0)>>, Len(results),
                Len(results) + 1)
      BY <2>4, OneRuns
    <2>6. Len(results) + 1 = Len(results) - Takes(stack[1]) + Leaves(stack[1])
      BY <2>2, <2>3
    <2> QED
      BY <1>5, <1>1, <2>1, <2>5, <2>6, Continued DEF StmtId, Fetch
  <1>6. CASE ArrayAssignment
    <2>1. phase = "parse" /\ stack # <<>> /\ stack[1].do = "stmtid"
      BY <1>6 DEF ArrayAssignment, Top
    <2>2. Takes(stack[1]) = 0 /\ Leaves(stack[1]) = 1
      BY <2>1 DEF Takes, Leaves
    <2>3. /\ stack[1].at \in ats /\ stack[1].n \in Nat /\ stack[1].what \in Whats
          /\ Len(results) \in Nat /\ 0 <= Len(results) /\ 0 \in ats /\ pos \in ats
      BY <1>1, <2>1, <2>2, TopFrame, Positions DEF ParseInv
    <2>4. /\ Do("exp") \in F /\ Does(Do("exp"), Len(results), Len(results) + 1)
          /\ Skip("]") \in F /\ Does(Skip("]"), Len(results) + 1, Len(results) + 1)
          /\ Skip("=") \in F /\ Does(Skip("="), Len(results) + 1, Len(results) + 1)
          /\ Do("exp") \in F /\ Does(Do("exp"), Len(results) + 1, Len(results) + 2)
          /\ Skip(";") \in F /\ Does(Skip(";"), Len(results) + 2, Len(results) + 2)
          /\ Make("arrayassign", stack[1].at, 2) \in F
          /\ Does(Make("arrayassign", stack[1].at, 2), Len(results) + 2, Len(results) + 1)
      <3>1. Do("exp") \in F /\ Does(Do("exp"), Len(results), Len(results) + 1)
        <4>1. Do("exp") \in F /\ Takes(Do("exp")) = 0 /\ Leaves(Do("exp")) = 1
          BY <1>1, <2>3, DoIs
        <4> QED
          BY <2>3, <4>1 DEF Does
      <3>2. Skip("]") \in F /\ Does(Skip("]"), Len(results) + 1, Len(results) + 1)
        <4>1. "]" \in Skipped
          BY DEF Skipped
        <4>2. Skip("]") \in F /\ Takes(Skip("]")) = 0 /\ Leaves(Skip("]")) = 0
          BY <1>1, <2>3, <4>1, SkipIs
        <4>3. Len(results) + 1 \in Nat
          BY <2>3
        <4> QED
          BY <4>2, <4>3, NothingDone
      <3>3. Skip("=") \in F /\ Does(Skip("="), Len(results) + 1, Len(results) + 1)
        <4>1. "=" \in Skipped
          BY DEF Skipped
        <4>2. Skip("=") \in F /\ Takes(Skip("=")) = 0 /\ Leaves(Skip("=")) = 0
          BY <1>1, <2>3, <4>1, SkipIs
        <4>3. Len(results) + 1 \in Nat
          BY <2>3
        <4> QED
          BY <4>2, <4>3, NothingDone
      <3>4. Do("exp") \in F /\ Does(Do("exp"), Len(results) + 1, Len(results) + 2)
        <4>1. Do("exp") \in F /\ Takes(Do("exp")) = 0 /\ Leaves(Do("exp")) = 1
          BY <1>1, <2>3, DoIs
        <4> QED
          BY <2>3, <4>1 DEF Does
      <3>5. Skip(";") \in F /\ Does(Skip(";"), Len(results) + 2, Len(results) + 2)
        <4>1. ";" \in Skipped
          BY DEF Skipped
        <4>2. Skip(";") \in F /\ Takes(Skip(";")) = 0 /\ Leaves(Skip(";")) = 0
          BY <1>1, <2>3, <4>1, SkipIs
        <4>3. Len(results) + 2 \in Nat
          BY <2>3
        <4> QED
          BY <4>2, <4>3, NothingDone
      <3>6. /\ Make("arrayassign", stack[1].at, 2) \in F
            /\ Does(Make("arrayassign", stack[1].at, 2), Len(results) + 2, Len(results) + 1)
        <4>1. "arrayassign" \in Kinds
          BY DEF Kinds
        <4>2. /\ Make("arrayassign", stack[1].at, 2) \in F
              /\ Takes(Make("arrayassign", stack[1].at, 2)) = 2
              /\ Leaves(Make("arrayassign", stack[1].at, 2)) = 1
          BY <2>3, <4>1, <1>3
        <4> QED
          BY <2>3, <4>2 DEF Does
      <3> QED
        BY <3>1, <3>2, <3>3, <3>4, <3>5, <3>6
    <2>5. /\ <<Do("exp"), Skip("]"), Skip("="), Do("exp"), Skip(";"), Make("arrayassign",
                stack[1].at, 2)>> \in Seq(F)
          /\ Runs(<<Do("exp"), Skip("]"), Skip("="), Do("exp"), Skip(";"),
                Make("arrayassign", stack[1].at, 2)>>, Len(results), Len(results) + 1)
      BY <2>4, SixRun
    <2>6. Len(results) + 1 = Len(results) - Takes(stack[1]) + Leaves(stack[1])
      BY <2>2, <2>3
    <2> QED
      BY <1>6, <1>1, <2>1, <2>5, <2>6, Continued DEF ArrayAssignment, Fetch
  <1>7. CASE Call
    <2>1. phase = "parse" /\ stack # <<>> /\ stack[1].do = "stmtid"
      BY <1>7 DEF Call, Top
    <2>2. Takes(stack[1]) = 0 /\ Leaves(stack[1]) = 1
      BY <2>1 DEF Takes, Leaves
    <2>3. /\ stack[1].at \in ats /\ stack[1].n \in Nat /\ stack[1].what \in Whats
          /\ Len(results) \in Nat /\ 0 <= Len(results) /\ 0 \in ats /\ pos \in ats
      BY <1>1, <2>1, <2>2, TopFrame, Positions DEF ParseInv
    <2>4. /\ At("args", stack[1].at) \in F
          /\ Does(At("args", stack[1].at), Len(results), Len(results) + 1)
          /\ Skip(";") \in F /\ Does(Skip(";"), Len(results) + 1, Len(results) + 1)
          /\ Make("callstmt", stack[1].at, 1) \in F
          /\ Does(Make("callstmt", stack[1].at, 1), Len(results) + 1, Len(results) + 1)
      <3>1. /\ At("args", stack[1].at) \in F
            /\ Does(At("args", stack[1].at), Len(results), Len(results) + 1)
        <4>1. /\ At("args", stack[1].at) \in F
              /\ Takes(At("args", stack[1].at)) = 0
              /\ Leaves(At("args", stack[1].at)) = 1
          BY <1>1, <2>3, AtIs
        <4> QED
          BY <2>3, <4>1 DEF Does
      <3>2. Skip(";") \in F /\ Does(Skip(";"), Len(results) + 1, Len(results) + 1)
        <4>1. ";" \in Skipped
          BY DEF Skipped
        <4>2. Skip(";") \in F /\ Takes(Skip(";")) = 0 /\ Leaves(Skip(";")) = 0
          BY <1>1, <2>3, <4>1, SkipIs
        <4>3. Len(results) + 1 \in Nat
          BY <2>3
        <4> QED
          BY <4>2, <4>3, NothingDone
      <3>3. /\ Make("callstmt", stack[1].at, 1) \in F
            /\ Does(Make("callstmt", stack[1].at, 1), Len(results) + 1, Len(results) + 1)
        <4>1. "callstmt" \in Kinds
          BY DEF Kinds
        <4>2. /\ Make("callstmt", stack[1].at, 1) \in F
              /\ Takes(Make("callstmt", stack[1].at, 1)) = 1
              /\ Leaves(Make("callstmt", stack[1].at, 1)) = 1
          BY <2>3, <4>1, <1>3
        <4> QED
          BY <2>3, <4>2 DEF Does
      <3> QED
        BY <3>1, <3>2, <3>3
    <2>5. /\ <<At("args", stack[1].at), Skip(";"), Make("callstmt", stack[1].at,
                1)>> \in Seq(F)
          /\ Runs(<<At("args", stack[1].at), Skip(";"), Make("callstmt", stack[1].at, 1)>>,
                Len(results), Len(results) + 1)
      BY <2>4, ThreeRun
    <2>6. Len(results) + 1 = Len(results) - Takes(stack[1]) + Leaves(stack[1])
      BY <2>2, <2>3
    <2> QED
      BY <1>7, <1>1, <2>1, <2>5, <2>6, Continued DEF Call, Peek
  <1>8. CASE Declaration
    <2>1. phase = "parse" /\ stack # <<>> /\ stack[1].do = "stmt"
      BY <1>8 DEF Declaration, Top
    <2>2. Takes(stack[1]) = 0 /\ Leaves(stack[1]) = 1
      BY <2>1 DEF Takes, Leaves
    <2>3. /\ stack[1].at \in ats /\ stack[1].n \in Nat /\ stack[1].what \in Whats
          /\ Len(results) \in Nat /\ 0 <= Len(results) /\ 0 \in ats /\ pos \in ats
      BY <1>1, <2>1, <2>2, TopFrame, Positions DEF ParseInv
    <2>4. /\ Do("type") \in F /\ Does(Do("type"), Len(results), Len(results))
          /\ Do("vardecl") \in F /\ Does(Do("vardecl"), Len(results), Len(results) + 1)
          /\ Frame("init", stack[1].what, pos, 0) \in F
          /\ Does(Frame("init", stack[1].what, pos, 0), Len(results) + 1, Len(results) + 1)
      <3>1. Do("type") \in F /\ Does(Do("type"), Len(results), Len(results))
        <4>1. Do("type") \in F /\ Takes(Do("type")) = 0 /\ Leaves(Do("type")) = 0
          BY <1>1, <2>3, TypeIs
        <4> QED
          BY <2>3, <4>1 DEF Does
      <3>2. Do("vardecl") \in F /\ Does(Do("vardecl"), Len(results), Len(results) + 1)
        <4>1. Do("vardecl") \in F /\ Takes(Do("vardecl")) = 0 /\ Leaves(Do("vardecl")) = 1
          BY <1>1, <2>3, DoIs
        <4> QED
          BY <2>3, <4>1 DEF Does
      <3>3. /\ Frame("init", stack[1].what, pos, 0) \in F
            /\ Does(Frame("init", stack[1].what, pos, 0), Len(results) + 1,
                  Len(results) + 1)
        <4>1. /\ Frame("init", stack[1].what, pos, 0) \in F
              /\ Takes(Frame("init", stack[1].what, pos, 0)) = 1
              /\ Leaves(Frame("init", stack[1].what, pos, 0)) = 1
          BY <1>1, <2>3, InitIs
        <4> QED
          BY <2>3, <4>1 DEF Does
      <3> QED
        BY <3>1, <3>2, <3>3
    <2>5. /\ <<Do("type"), Do("vardecl"), Frame("init", stack[1].what, pos, 0)>> \in Seq(F)
          /\ Runs(<<Do("type"), Do("vardecl"), Frame("init", stack[1].what, pos, 0)>>,
                Len(results), Len(results) + 1)
      BY <2>4, ThreeRun
    <2>6. Len(results) + 1 = Len(results) - Takes(stack[1]) + Leaves(stack[1])
      BY <2>2, <2>3
    <2> QED
      BY <1>8, <1>1, <2>1, <2>5, <2>6, Continued DEF Declaration, Peek
  <1>9. CASE Sequence
    <2>1. phase = "parse" /\ stack # <<>> /\ stack[1].do = "stmt"
      BY <1>9 DEF Sequence, Top
    <2>2. Takes(stack[1]) = 0 /\ Leaves(stack[1]) = 1
      BY <2>1 DEF Takes, Leaves
    <2>3. /\ stack[1].at \in ats /\ stack[1].n \in Nat /\ stack[1].what \in Whats
          /\ Len(results) \in Nat /\ 0 <= Len(results) /\ 0 \in ats /\ pos \in ats
      BY <1>1, <2>1, <2>2, TopFrame, Positions DEF ParseInv
    <2>4. Do("seq") \in F /\ Does(Do("seq"), Len(results), Len(results) + 1)
      <3>1. Do("seq") \in F /\ Does(Do("seq"), Len(results), Len(results) + 1)
        <4>1. Do("seq") \in F /\ Takes(Do("seq")) = 0 /\ Leaves(Do("seq")) = 1
          BY <1>1, <2>3, DoIs
        <4> QED
          BY <2>3, <4>1 DEF Does
      <3> QED
        BY <3>1
    <2>5. <<Do("seq")>> \in Seq(F) /\ Runs(<<Do("seq")>>, Len(results), Len(results) + 1)
      BY <2>4, OneRuns
    <2>6. Len(results) + 1 = Len(results) - Takes(stack[1]) + Leaves(stack[1])
      BY <2>2, <2>3
    <2> QED
      BY <1>9, <1>1, <2>1, <2>5, <2>6, Continued DEF Sequence, Peek
  <1>10. CASE Return
    <2>1. phase = "parse" /\ stack # <<>> /\ stack[1].do = "stmt"
      BY <1>10 DEF Return, Top
    <2>2. Takes(stack[1]) = 0 /\ Leaves(stack[1]) = 1
      BY <2>1 DEF Takes, Leaves
    <2>3. /\ stack[1].at \in ats /\ stack[1].n \in Nat /\ stack[1].what \in Whats
          /\ Len(results) \in Nat /\ 0 <= Len(results) /\ 0 \in ats /\ pos \in ats
      BY <1>1, <2>1, <2>2, TopFrame, Positions DEF ParseInv
    <2>4. /\ Do("exp") \in F /\ Does(Do("exp"), Len(results), Len(results) + 1)
          /\ Skip(";") \in F /\ Does(Skip(";"), Len(results) + 1, Len(results) + 1)
          /\ Make("return", pos, 1) \in F
          /\ Does(Make("return", pos, 1), Len(results) + 1, Len(results) + 1)
      <3>1. Do("exp") \in F /\ Does(Do("exp"), Len(results), Len(results) + 1)
        <4>1. Do("exp") \in F /\ Takes(Do("exp")) = 0 /\ Leaves(Do("exp")) = 1
          BY <1>1, <2>3, DoIs
        <4> QED
          BY <2>3, <4>1 DEF Does
      <3>2. Skip(";") \in F /\ Does(Skip(";"), Len(results) + 1, Len(results) + 1)
        <4>1. ";" \in Skipped
          BY DEF Skipped
        <4>2. Skip(";") \in F /\ Takes(Skip(";")) = 0 /\ Leaves(Skip(";")) = 0
          BY <1>1, <2>3, <4>1, SkipIs
        <4>3. Len(results) + 1 \in Nat
          BY <2>3
        <4> QED
          BY <4>2, <4>3, NothingDone
      <3>3. /\ Make("return", pos, 1) \in F
            /\ Does(Make("return", pos, 1), Len(results) + 1, Len(results) + 1)
        <4>1. "return" \in Kinds
          BY DEF Kinds
        <4>2. /\ Make("return", pos, 1) \in F
              /\ Takes(Make("return", pos, 1)) = 1
              /\ Leaves(Make("return", pos, 1)) = 1
          BY <2>3, <4>1, <1>3
        <4> QED
          BY <2>3, <4>2 DEF Does
      <3> QED
        BY <3>1, <3>2, <3>3
    <2>5. /\ <<Do("exp"), Skip(";"), Make("return", pos, 1)>> \in Seq(F)
          /\ Runs(<<Do("exp"), Skip(";"), Make("return", pos, 1)>>, Len(results),
                Len(results) + 1)
      BY <2>4, ThreeRun
    <2>6. Len(results) + 1 = Len(results) - Takes(stack[1]) + Leaves(stack[1])
      BY <2>2, <2>3
    <2> QED
      BY <1>10, <1>1, <2>1, <2>5, <2>6, Continued DEF Return, Fetch
  <1>11. CASE If
    <2>1. phase = "parse" /\ stack # <<>> /\ stack[1].do = "stmt"
      BY <1>11 DEF If, Top
    <2>2. Takes(stack[1]) = 0 /\ Leaves(stack[1]) = 1
      BY <2>1 DEF Takes, Leaves
    <2>3. /\ stack[1].at \in ats /\ stack[1].n \in Nat /\ stack[1].what \in Whats
          /\ Len(results) \in Nat /\ 0 <= Len(results) /\ 0 \in ats /\ pos \in ats
      BY <1>1, <2>1, <2>2, TopFrame, Positions DEF ParseInv
    <2>4. /\ Skip("(") \in F /\ Does(Skip("("), Len(results), Len(results))
          /\ Do("exp") \in F /\ Does(Do("exp"), Len(results), Len(results) + 1)
          /\ Skip(")") \in F /\ Does(Skip(")"), Len(results) + 1, Len(results) + 1)
          /\ Do("stmt") \in F /\ Does(Do("stmt"), Len(results) + 1, Len(results) + 2)
          /\ At("else", pos) \in F
          /\ Does(At("else", pos), Len(results) + 2, Len(results) + 1)
      <3>1. Skip("(") \in F /\ Does(Skip("("), Len(results), Len(results))
        <4>1. "(" \in Skipped
          BY DEF Skipped
        <4>2. Skip("(") \in F /\ Takes(Skip("(")) = 0 /\ Leaves(Skip("(")) = 0
          BY <1>1, <2>3, <4>1, SkipIs
        <4>3. Len(results) \in Nat
          BY <2>3
        <4> QED
          BY <4>2, <4>3, NothingDone
      <3>2. Do("exp") \in F /\ Does(Do("exp"), Len(results), Len(results) + 1)
        <4>1. Do("exp") \in F /\ Takes(Do("exp")) = 0 /\ Leaves(Do("exp")) = 1
          BY <1>1, <2>3, DoIs
        <4> QED
          BY <2>3, <4>1 DEF Does
      <3>3. Skip(")") \in F /\ Does(Skip(")"), Len(results) + 1, Len(results) + 1)
        <4>1. ")" \in Skipped
          BY DEF Skipped
        <4>2. Skip(")") \in F /\ Takes(Skip(")")) = 0 /\ Leaves(Skip(")")) = 0
          BY <1>1, <2>3, <4>1, SkipIs
        <4>3. Len(results) + 1 \in Nat
          BY <2>3
        <4> QED
          BY <4>2, <4>3, NothingDone
      <3>4. Do("stmt") \in F /\ Does(Do("stmt"), Len(results) + 1, Len(results) + 2)
        <4>1. Do("stmt") \in F /\ Takes(Do("stmt")) = 0 /\ Leaves(Do("stmt")) = 1
          BY <1>1, <2>3, DoIs
        <4> QED
          BY <2>3, <4>1 DEF Does
      <3>5. /\ At("else", pos) \in F
            /\ Does(At("else", pos), Len(results) + 2, Len(results) + 1)
        <4>1. /\ At("else", pos) \in F
              /\ Takes(At("else", pos)) = 2
              /\ Leaves(At("else", pos)) = 1
          BY <1>1, <2>3, ElseIs
        <4> QED
          BY <2>3, <4>1 DEF Does
      <3> QED
        BY <3>1, <3>2, <3>3, <3>4, <3>5
    <2>5. /\ <<Skip("("), Do("exp"), Skip(")"), Do("stmt"), At("else", pos)>> \in Seq(F)
          /\ Runs(<<Skip("("), Do("exp"), Skip(")"), Do("stmt"), At("else", pos)>>,
                Len(results), Len(results) + 1)
      BY <2>4, FiveRun
    <2>6. Len(results) + 1 = Len(results) - Takes(stack[1]) + Leaves(stack[1])
      BY <2>2, <2>3
    <2> QED
      BY <1>11, <1>1, <2>1, <2>5, <2>6, Continued DEF If, Fetch
  <1>12. CASE IfElse
    <2>1. phase = "parse" /\ stack # <<>> /\ stack[1].do = "else"
      BY <1>12 DEF IfElse, Top
    <2>2. Takes(stack[1]) = 2 /\ Leaves(stack[1]) = 1
      BY <2>1 DEF Takes, Leaves
    <2>3. /\ stack[1].at \in ats /\ stack[1].n \in Nat /\ stack[1].what \in Whats
          /\ Len(results) \in Nat /\ 2 <= Len(results) /\ 0 \in ats /\ pos \in ats
      BY <1>1, <2>1, <2>2, TopFrame, Positions DEF ParseInv
    <2>4. CASE Current = "else"
      <3>1. /\ Do("stmt") \in F /\ Does(Do("stmt"), Len(results), Len(results) + 1)
            /\ Make("if", stack[1].at, 3) \in F
            /\ Does(Make("if", stack[1].at, 3), Len(results) + 1, Len(results) - 1)
        <4>1. Do("stmt") \in F /\ Does(Do("stmt"), Len(results), Len(results) + 1)
          <5>1. Do("stmt") \in F /\ Takes(Do("stmt")) = 0 /\ Leaves(Do("stmt")) = 1
            BY <1>1, <2>3, DoIs
          <5> QED
            BY <2>3, <5>1 DEF Does
        <4>2. /\ Make("if", stack[1].at, 3) \in F
              /\ Does(Make("if", stack[1].at, 3), Len(results) + 1, Len(results) - 1)
          <5>1. "if" \in Kinds
            BY DEF Kinds
          <5>2. /\ Make("if", stack[1].at, 3) \in F
                /\ Takes(Make("if", stack[1].at, 3)) = 3
                /\ Leaves(Make("if", stack[1].at, 3)) = 1
            BY <2>3, <5>1, <1>3
          <5> QED
            BY <2>3, <5>2 DEF Does
        <4> QED
          BY <4>1, <4>2
      <3>2. /\ <<Do("stmt"), Make("if", stack[1].at, 3)>> \in Seq(F)
            /\ Runs(<<Do("stmt"), Make("if", stack[1].at, 3)>>, Len(results),
                  Len(results) - 1)
        BY <3>1, TwoRun
      <3>3. Len(results) - 1 = Len(results) - Takes(stack[1]) + Leaves(stack[1])
        BY <2>2, <2>3
      <3> QED
        BY <1>12, <2>4, <1>1, <2>1, <3>2, <3>3, Continued DEF IfElse, Fetch, Peek
    <2>5. CASE Current # "else"
      <3>1. /\ Make("if", stack[1].at, 2) \in F
            /\ Does(Make("if", stack[1].at, 2), Len(results), Len(results) - 1)
        <4>1. /\ Make("if", stack[1].at, 2) \in F
              /\ Does(Make("if", stack[1].at, 2), Len(results), Len(results) - 1)
          <5>1. "if" \in Kinds
            BY DEF Kinds
          <5>2. /\ Make("if", stack[1].at, 2) \in F
                /\ Takes(Make("if", stack[1].at, 2)) = 2
                /\ Leaves(Make("if", stack[1].at, 2)) = 1
            BY <2>3, <5>1, <1>3
          <5> QED
            BY <2>3, <5>2 DEF Does
        <4> QED
          BY <4>1
      <3>2. /\ <<Make("if", stack[1].at, 2)>> \in Seq(F)
            /\ Runs(<<Make("if", stack[1].at, 2)>>, Len(results), Len(results) - 1)
        BY <3>1, OneRuns
      <3>3. Len(results) - 1 = Len(results) - Takes(stack[1]) + Leaves(stack[1])
        BY <2>2, <2>3
      <3> QED
        BY <1>12, <2>5, <1>1, <2>1, <3>2, <3>3, Continued DEF IfElse, Fetch, Peek
    <2> QED
      BY <2>4, <2>5
  <1>13. CASE While
    <2>1. phase = "parse" /\ stack # <<>> /\ stack[1].do = "stmt"
      BY <1>13 DEF While, Top
    <2>2. Takes(stack[1]) = 0 /\ Leaves(stack[1]) = 1
      BY <2>1 DEF Takes, Leaves
    <2>3. /\ stack[1].at \in ats /\ stack[1].n \in Nat /\ stack[1].what \in Whats
          /\ Len(results) \in Nat /\ 0 <= Len(results) /\ 0 \in ats /\ pos \in ats
      BY <1>1, <2>1, <2>2, TopFrame, Positions DEF ParseInv
    <2>4. /\ Skip("(") \in F /\ Does(Skip("("), Len(results), Len(results))
          /\ Do("exp") \in F /\ Does(Do("exp"), Len(results), Len(results) + 1)
          /\ Skip(")") \in F /\ Does(Skip(")"), Len(results) + 1, Len(results) + 1)
          /\ Do("stmt") \in F /\ Does(Do("stmt"), Len(results) + 1, Len(results) + 2)
          /\ Make("while", pos, 2) \in F
          /\ Does(Make("while", pos, 2), Len(results) + 2, Len(results) + 1)
      <3>1. Skip("(") \in F /\ Does(Skip("("), Len(results), Len(results))
        <4>1. "(" \in Skipped
          BY DEF Skipped
        <4>2. Skip("(") \in F /\ Takes(Skip("(")) = 0 /\ Leaves(Skip("(")) = 0
          BY <1>1, <2>3, <4>1, SkipIs
        <4>3. Len(results) \in Nat
          BY <2>3
        <4> QED
          BY <4>2, <4>3, NothingDone
      <3>2. Do("exp") \in F /\ Does(Do("exp"), Len(results), Len(results) + 1)
        <4>1. Do("exp") \in F /\ Takes(Do("exp")) = 0 /\ Leaves(Do("exp")) = 1
          BY <1>1, <2>3, DoIs
        <4> QED
          BY <2>3, <4>1 DEF Does
      <3>3. Skip(")") \in F /\ Does(Skip(")"), Len(results) + 1, Len(results) + 1)
        <4>1. ")" \in Skipped
          BY DEF Skipped
        <4>2. Skip(")") \in F /\ Takes(Skip(")")) = 0 /\ Leaves(Skip(")")) = 0
          BY <1>1, <2>3, <4>1, SkipIs
        <4>3. Len(results) + 1 \in Nat
          BY <2>3
        <4> QED
          BY <4>2, <4>3, NothingDone
      <3>4. Do("stmt") \in F /\ Does(Do("stmt"), Len(results) + 1, Len(results) + 2)
        <4>1. Do("stmt") \in F /\ Takes(Do("stmt")) = 0 /\ Leaves(Do("stmt")) = 1
          BY <1>1, <2>3, DoIs
        <4> QED
          BY <2>3, <4>1 DEF Does
      <3>5. /\ Make("while", pos, 2) \in F
            /\ Does(Make("while", pos, 2), Len(results) + 2, Len(results) + 1)
        <4>1. "while" \in Kinds
          BY DEF Kinds
        <4>2. /\ Make("while", pos, 2) \in F
              /\ Takes(Make("while", pos, 2)) = 2
              /\ Leaves(Make("while", pos, 2)) = 1
          BY <2>3, <4>1, <1>3
        <4> QED
          BY <2>3, <4>2 DEF Does
      <3> QED
        BY <3>1, <3>2, <3>3, <3>4, <3>5
    <2>5. /\ <<Skip("("), Do("exp"), Skip(")"), Do("stmt"), Make("while", pos,
                2)>> \in Seq(F)
          /\ Runs(<<Skip("("), Do("exp"), Skip(")"), Do("stmt"), Make("while", pos, 2)>>,
                Len(results), Len(results) + 1)
      BY <2>4, FiveRun
    <2>6. Len(results) + 1 = Len(results) - Takes(stack[1]) + Leaves(stack[1])
      BY <2>2, <2>3
    <2> QED
      BY <1>13, <1>1, <2>1, <2>5, <2>6, Continued DEF While, Fetch
  <1>14. CASE For
    <2>1. phase = "parse" /\ stack # <<>> /\ stack[1].do = "stmt"
      BY <1>14 DEF For, Top
    <2>2. Takes(stack[1]) = 0 /\ Leaves(stack[1]) = 1
      BY <2>1 DEF Takes, Leaves
    <2>3. /\ stack[1].at \in ats /\ stack[1].n \in Nat /\ stack[1].what \in Whats
          /\ Len(results) \in Nat /\ 0 <= Len(results) /\ 0 \in ats /\ pos \in ats
      BY <1>1, <2>1, <2>2, TopFrame, Positions DEF ParseInv
    <2>4. /\ Skip("for") \in F /\ Does(Skip("for"), Len(results), Len(results))
          /\ Skip("(") \in F /\ Does(Skip("("), Len(results), Len(results))
          /\ Header \in F /\ Does(Header, Len(results), Len(results) + 1)
          /\ Skip(";") \in F /\ Does(Skip(";"), Len(results) + 1, Len(results) + 1)
          /\ Do("exp") \in F /\ Does(Do("exp"), Len(results) + 1, Len(results) + 2)
          /\ Skip(";") \in F /\ Does(Skip(";"), Len(results) + 2, Len(results) + 2)
          /\ Header \in F /\ Does(Header, Len(results) + 2, Len(results) + 3)
          /\ Skip(")") \in F /\ Does(Skip(")"), Len(results) + 3, Len(results) + 3)
          /\ Do("stmt") \in F /\ Does(Do("stmt"), Len(results) + 3, Len(results) + 4)
          /\ Make("for", pos, 4) \in F
          /\ Does(Make("for", pos, 4), Len(results) + 4, Len(results) + 1)
      <3>1. Skip("for") \in F /\ Does(Skip("for"), Len(results), Len(results))
        <4>1. "for" \in Skipped
          BY DEF Skipped
        <4>2. Skip("for") \in F /\ Takes(Skip("for")) = 0 /\ Leaves(Skip("for")) = 0
          BY <1>1, <2>3, <4>1, SkipIs
        <4>3. Len(results) \in Nat
          BY <2>3
        <4> QED
          BY <4>2, <4>3, NothingDone
      <3>2. Skip("(") \in F /\ Does(Skip("("), Len(results), Len(results))
        <4>1. "(" \in Skipped
          BY DEF Skipped
        <4>2. Skip("(") \in F /\ Takes(Skip("(")) = 0 /\ Leaves(Skip("(")) = 0
          BY <1>1, <2>3, <4>1, SkipIs
        <4>3. Len(results) \in Nat
          BY <2>3
        <4> QED
          BY <4>2, <4>3, NothingDone
      <3>3. Header \in F /\ Does(Header, Len(results), Len(results) + 1)
        <4>1. Header \in F /\ Takes(Header) = 0 /\ Leaves(Header) = 1
          BY <1>1, <2>3, StmtIs DEF Header, Whats
        <4> QED
          BY <2>3, <4>1 DEF Does
      <3>4. Skip(";") \in F /\ Does(Skip(";"), Len(results) + 1, Len(results) + 1)
        <4>1. ";" \in Skipped
          BY DEF Skipped
        <4>2. Skip(";") \in F /\ Takes(Skip(";")) = 0 /\ Leaves(Skip(";")) = 0
          BY <1>1, <2>3, <4>1, SkipIs
        <4>3. Len(results) + 1 \in Nat
          BY <2>3
        <4> QED
          BY <4>2, <4>3, NothingDone
      <3>5. Do("exp") \in F /\ Does(Do("exp"), Len(results) + 1, Len(results) + 2)
        <4>1. Do("exp") \in F /\ Takes(Do("exp")) = 0 /\ Leaves(Do("exp")) = 1
          BY <1>1, <2>3, DoIs
        <4> QED
          BY <2>3, <4>1 DEF Does
      <3>6. Skip(";") \in F /\ Does(Skip(";"), Len(results) + 2, Len(results) + 2)
        <4>1. ";" \in Skipped
          BY DEF Skipped
        <4>2. Skip(";") \in F /\ Takes(Skip(";")) = 0 /\ Leaves(Skip(";")) = 0
          BY <1>1, <2>3, <4>1, SkipIs
        <4>3. Len(results) + 2 \in Nat
          BY <2>3
        <4> QED
          BY <4>2, <4>3, NothingDone
      <3>7. Header \in F /\ Does(Header, Len(results) + 2, Len(results) + 3)
        <4>1. Header \in F /\ Takes(Header) = 0 /\ Leaves(Header) = 1
          BY <1>1, <2>3, StmtIs DEF Header, Whats
        <4> QED
          BY <2>3, <4>1 DEF Does
      <3>8. Skip(")") \in F /\ Does(Skip(")"), Len(results) + 3, Len(results) + 3)
        <4>1. ")" \in Skipped
          BY DEF Skipped
        <4>2. Skip(")") \in F /\ Takes(Skip(")")) = 0 /\ Leaves(Skip(")")) = 0
          BY <1>1, <2>3, <4>1, SkipIs
        <4>3. Len(results) + 3 \in Nat
          BY <2>3
        <4> QED
          BY <4>2, <4>3, NothingDone
      <3>9. Do("stmt") \in F /\ Does(Do("stmt"), Len(results) + 3, Len(results) + 4)
        <4>1. Do("stmt") \in F /\ Takes(Do("stmt")) = 0 /\ Leaves(Do("stmt")) = 1
          BY <1>1, <2>3, DoIs
        <4> QED
          BY <2>3, <4>1 DEF Does
      <3>10. /\ Make("for", pos, 4) \in F
             /\ Does(Make("for", pos, 4), Len(results) + 4, Len(results) + 1)
        <4>1. "for" \in Kinds
          BY DEF Kinds
        <4>2. /\ Make("for", pos, 4) \in F
              /\ Takes(Make("for", pos, 4)) = 4
              /\ Leaves(Make("for", pos, 4)) = 1
          BY <2>3, <4>1, <1>3
        <4> QED
          BY <2>3, <4>2 DEF Does
      <3> QED
        BY <3>1, <3>2, <3>3, <3>4, <3>5, <3>6, <3>7, <3>8, <3>9, <3>10
    <2>5. /\ <<Skip("for"), Skip("("), Header, Skip(";"), Do("exp"), Skip(";"), Header,
                Skip(")"), Do("stmt"), Make("for", pos, 4)>> \in Seq(F)
          /\ Runs(<<Skip("for"), Skip("("), Header, Skip(";"), Do("exp"), Skip(";"),
                Header, Skip(")"), Do("stmt"), Make("for", pos, 4)>>, Len(results),
                Len(results) + 1)
      BY <2>4, TenRun
    <2>6. Len(results) + 1 = Len(results) - Takes(stack[1]) + Leaves(stack[1])
      BY <2>2, <2>3
    <2> QED
      BY <1>14, <1>1, <2>1, <2>5, <2>6, Continued DEF For, Peek
  <1>15. CASE Seq1
    <2>1. phase = "parse" /\ stack # <<>> /\ stack[1].do = "seq"
      BY <1>15 DEF Seq1, Top
    <2>2. Takes(stack[1]) = 0 /\ Leaves(stack[1]) = 1
      BY <2>1 DEF Takes, Leaves
    <2>3. /\ stack[1].at \in ats /\ stack[1].n \in Nat /\ stack[1].what \in Whats
          /\ Len(results) \in Nat /\ 0 <= Len(results) /\ 0 \in ats /\ pos \in ats
      BY <1>1, <2>1, <2>2, TopFrame, Positions DEF ParseInv
    <2>4. /\ Skip("{") \in F /\ Does(Skip("{"), Len(results), Len(results))
          /\ At("stmts", pos) \in F
          /\ Does(At("stmts", pos), Len(results), Len(results) + 1)
      <3>1. Skip("{") \in F /\ Does(Skip("{"), Len(results), Len(results))
        <4>1. "{" \in Skipped
          BY DEF Skipped
        <4>2. Skip("{") \in F /\ Takes(Skip("{")) = 0 /\ Leaves(Skip("{")) = 0
          BY <1>1, <2>3, <4>1, SkipIs
        <4>3. Len(results) \in Nat
          BY <2>3
        <4> QED
          BY <4>2, <4>3, NothingDone
      <3>2. At("stmts", pos) \in F /\ Does(At("stmts", pos), Len(results), Len(results) + 1)
        <4>1. /\ At("stmts", pos) \in F
              /\ Takes(At("stmts", pos)) = 0
              /\ Leaves(At("stmts", pos)) = 1
          BY <1>1, <2>3, AtIs
        <4> QED
          BY <2>3, <4>1 DEF Does
      <3> QED
        BY <3>1, <3>2
    <2>5. /\ <<Skip("{"), At("stmts", pos)>> \in Seq(F)
          /\ Runs(<<Skip("{"), At("stmts", pos)>>, Len(results), Len(results) + 1)
      BY <2>4, TwoRun
    <2>6. Len(results) + 1 = Len(results) - Takes(stack[1]) + Leaves(stack[1])
      BY <2>2, <2>3
    <2> QED
      BY <1>15, <1>1, <2>1, <2>5, <2>6, Continued DEF Seq1, Peek
  <1>16. CASE SeqNext
    <2>1. phase = "parse" /\ stack # <<>> /\ stack[1].do = "stmts"
      BY <1>16 DEF SeqNext, Top
    <2>2. Takes(stack[1]) = stack[1].n /\ Leaves(stack[1]) = 1
      BY <2>1 DEF Takes, Leaves
    <2>3. /\ stack[1].at \in ats /\ stack[1].n \in Nat /\ stack[1].what \in Whats
          /\ Len(results) \in Nat /\ stack[1].n <= Len(results) /\ 0 \in ats /\ pos \in ats
      BY <1>1, <2>1, <2>2, TopFrame, Positions DEF ParseInv
    <2>4. CASE Current = "}"
      <3>1. /\ Skip("}") \in F /\ Does(Skip("}"), Len(results), Len(results))
            /\ Make("seq", stack[1].at, stack[1].n) \in F
            /\ Does(Make("seq", stack[1].at, stack[1].n), Len(results),
                  Len(results) - stack[1].n + 1)
        <4>1. Skip("}") \in F /\ Does(Skip("}"), Len(results), Len(results))
          <5>1. "}" \in Skipped
            BY DEF Skipped
          <5>2. Skip("}") \in F /\ Takes(Skip("}")) = 0 /\ Leaves(Skip("}")) = 0
            BY <1>1, <2>3, <5>1, SkipIs
          <5>3. Len(results) \in Nat
            BY <2>3
          <5> QED
            BY <5>2, <5>3, NothingDone
        <4>2. /\ Make("seq", stack[1].at, stack[1].n) \in F
              /\ Does(Make("seq", stack[1].at, stack[1].n), Len(results),
                    Len(results) - stack[1].n + 1)
          <5>1. "seq" \in Kinds
            BY DEF Kinds
          <5>2. /\ Make("seq", stack[1].at, stack[1].n) \in F
                /\ Takes(Make("seq", stack[1].at, stack[1].n)) = stack[1].n
                /\ Leaves(Make("seq", stack[1].at, stack[1].n)) = 1
            BY <2>3, <5>1, <1>3
          <5> QED
            BY <2>3, <5>2 DEF Does
        <4> QED
          BY <4>1, <4>2
      <3>2. /\ <<Skip("}"), Make("seq", stack[1].at, stack[1].n)>> \in Seq(F)
            /\ Runs(<<Skip("}"), Make("seq", stack[1].at, stack[1].n)>>, Len(results),
                  Len(results) - stack[1].n + 1)
        BY <3>1, TwoRun
      <3>3. Len(results) - stack[1].n + 1 = Len(results) - Takes(stack[1]) + Leaves(stack[1])
        BY <2>2, <2>3
      <3> QED
        BY <1>16, <2>4, <1>1, <2>1, <3>2, <3>3, Continued DEF SeqNext, Peek
    <2>5. CASE Current # "}"
      <3>0. PICK m \in Nat : m = stack[1].n + 1
        BY <2>3
      <3>1. /\ Do("stmt") \in F /\ Does(Do("stmt"), Len(results), Len(results) + 1)
            /\ With("stmts", stack[1].at, m) \in F
            /\ Does(With("stmts", stack[1].at, m), Len(results) + 1,
                  Len(results) - stack[1].n + 1)
        <4>1. Do("stmt") \in F /\ Does(Do("stmt"), Len(results), Len(results) + 1)
          <5>1. Do("stmt") \in F /\ Takes(Do("stmt")) = 0 /\ Leaves(Do("stmt")) = 1
            BY <1>1, <2>3, <3>0, DoIs
          <5> QED
            BY <2>3, <3>0, <5>1 DEF Does
        <4>2. /\ With("stmts", stack[1].at, m) \in F
              /\ Does(With("stmts", stack[1].at, m), Len(results) + 1,
                    Len(results) - stack[1].n + 1)
          <5>1. /\ With("stmts", stack[1].at, m) \in F
                /\ Takes(With("stmts", stack[1].at, m)) = m
                /\ Leaves(With("stmts", stack[1].at, m)) = 1
            BY <2>3, <3>0, <1>4
          <5> QED
            BY <2>3, <3>0, <5>1 DEF Does
        <4> QED
          BY <4>1, <4>2
      <3>2. /\ <<Do("stmt"), With("stmts", stack[1].at, m)>> \in Seq(F)
            /\ Runs(<<Do("stmt"), With("stmts", stack[1].at, m)>>, Len(results),
                  Len(results) - stack[1].n + 1)
        BY <3>1, TwoRun
      <3>3. Len(results) - stack[1].n + 1 = Len(results) - Takes(stack[1]) + Leaves(stack[1])
        BY <2>2, <2>3
      <3> QED
        BY <1>16, <2>5, <1>1, <2>1, <3>0, <3>2, <3>3, Continued DEF SeqNext, Peek
    <2> QED
      BY <2>4, <2>5
  <1>17. CASE ParseType
    <2>1. phase = "parse" /\ stack # <<>> /\ stack[1].do = "type"
      BY <1>17 DEF ParseType, Top
    <2>2. Takes(stack[1]) = 0 /\ Leaves(stack[1]) = 0
      BY <2>1 DEF Takes, Leaves
    <2>3. /\ stack[1].at \in ats /\ stack[1].n \in Nat /\ stack[1].what \in Whats
          /\ Len(results) \in Nat /\ 0 <= Len(results) /\ 0 \in ats /\ pos \in ats
      BY <1>1, <2>1, <2>2, TopFrame, Positions DEF ParseInv
    <2>4. Runs(<<>>, Len(results), Len(results)) /\ <<>> \in Seq(F)
      BY <2>3, NothingRuns
    <2>5. Len(results) = Len(results) - Takes(stack[1]) + Leaves(stack[1])
      BY <2>2, <2>3
    <2> QED
      BY <1>17, <1>1, <2>1, <2>4, <2>5, Continued DEF ParseType, Fetch
  <1>18. CASE VarDeclId
    <2>1. phase = "parse" /\ stack # <<>> /\ stack[1].do = "vardecl"
      BY <1>18 DEF VarDeclId, Top
    <2>2. Takes(stack[1]) = 0 /\ Leaves(stack[1]) = 1
      BY <2>1 DEF Takes, Leaves
    <2>3. /\ stack[1].at \in ats /\ stack[1].n \in Nat /\ stack[1].what \in Whats
          /\ Len(results) \in Nat /\ 0 <= Len(results) /\ 0 \in ats /\ pos \in ats
      BY <1>1, <2>1, <2>2, TopFrame, Positions DEF ParseInv
    <2>4. At("size", pos) \in F /\ Does(At("size", pos), Len(results), Len(results) + 1)
      <3>1. At("size", pos) \in F /\ Does(At("size", pos), Len(results), Len(results) + 1)
        <4>1. /\ At("size", pos) \in F
              /\ Takes(At("size", pos)) = 0
              /\ Leaves(At("size", pos)) = 1
          BY <1>1, <2>3, AtIs
        <4> QED
          BY <2>3, <4>1 DEF Does
      <3> QED
        BY <3>1
    <2>5. /\ <<At("size", pos)>> \in Seq(F)
          /\ Runs(<<At("size", pos)>>, Len(results), Len(results) + 1)
      BY <2>4, OneRuns
    <2>6. Len(results) + 1 = Len(results) - Takes(stack[1]) + Leaves(stack[1])
      BY <2>2, <2>3
    <2> QED
      BY <1>18, <1>1, <2>1, <2>5, <2>6, Continued DEF VarDeclId, Fetch
  <1>19. CASE VarDeclSize
    <2>1. phase = "parse" /\ stack # <<>> /\ stack[1].do = "size"
      BY <1>19 DEF VarDeclSize, Top
    <2>2. Takes(stack[1]) = 0 /\ Leaves(stack[1]) = 1
      BY <2>1 DEF Takes, Leaves
    <2>3. /\ stack[1].at \in ats /\ stack[1].n \in Nat /\ stack[1].what \in Whats
          /\ Len(results) \in Nat /\ 0 <= Len(results) /\ 0 \in ats /\ pos \in ats
      BY <1>1, <2>1, <2>2, TopFrame, Positions DEF ParseInv
    <2>4. CASE Current = "["
      <3>1. /\ Do("exp") \in F /\ Does(Do("exp"), Len(results), Len(results) + 1)
            /\ Skip("]") \in F /\ Does(Skip("]"), Len(results) + 1, Len(results) + 1)
            /\ Make("vardecl", stack[1].at, 1) \in F
            /\ Does(Make("vardecl", stack[1].at, 1), Len(results) + 1, Len(results) + 1)
        <4>1. Do("exp") \in F /\ Does(Do("exp"), Len(results), Len(results) + 1)
          <5>1. Do("exp") \in F /\ Takes(Do("exp")) = 0 /\ Leaves(Do("exp")) = 1
            BY <1>1, <2>3, DoIs
          <5> QED
            BY <2>3, <5>1 DEF Does
        <4>2. Skip("]") \in F /\ Does(Skip("]"), Len(results) + 1, Len(results) + 1)
          <5>1. "]" \in Skipped
            BY DEF Skipped
          <5>2. Skip("]") \in F /\ Takes(Skip("]")) = 0 /\ Leaves(Skip("]")) = 0
            BY <1>1, <2>3, <5>1, SkipIs
          <5>3. Len(results) + 1 \in Nat
            BY <2>3
          <5> QED
            BY <5>2, <5>3, NothingDone
        <4>3. /\ Make("vardecl", stack[1].at, 1) \in F
              /\ Does(Make("vardecl", stack[1].at, 1), Len(results) + 1, Len(results) + 1)
          <5>1. "vardecl" \in Kinds
            BY DEF Kinds
          <5>2. /\ Make("vardecl", stack[1].at, 1) \in F
                /\ Takes(Make("vardecl", stack[1].at, 1)) = 1
                /\ Leaves(Make("vardecl", stack[1].at, 1)) = 1
            BY <2>3, <5>1, <1>3
          <5> QED
            BY <2>3, <5>2 DEF Does
        <4> QED
          BY <4>1, <4>2, <4>3
      <3>2. /\ <<Do("exp"), Skip("]"), Make("vardecl", stack[1].at, 1)>> \in Seq(F)
            /\ Runs(<<Do("exp"), Skip("]"), Make("vardecl", stack[1].at, 1)>>,
                  Len(results), Len(results) + 1)
        BY <3>1, ThreeRun
      <3>3. Len(results) + 1 = Len(results) - Takes(stack[1]) + Leaves(stack[1])
        BY <2>2, <2>3
      <3> QED
        BY <1>19, <2>4, <1>1, <2>1, <3>2, <3>3, Continued DEF VarDeclSize, Fetch, Peek
    <2>5. CASE Current # "["
      <3>1. /\ Make("vardecl", stack[1].at, 0) \in F
            /\ Does(Make("vardecl", stack[1].at, 0), Len(results), Len(results) + 1)
        <4>1. /\ Make("vardecl", stack[1].at, 0) \in F
              /\ Does(Make("vardecl", stack[1].at, 0), Len(results), Len(results) + 1)
          <5>1. "vardecl" \in Kinds
            BY DEF Kinds
          <5>2. /\ Make("vardecl", stack[1].at, 0) \in F
                /\ Takes(Make("vardecl", stack[1].at, 0)) = 0
                /\ Leaves(Make("vardecl", stack[1].at, 0)) = 1
            BY <2>3, <5>1, <1>3
          <5> QED
            BY <2>3, <5>2 DEF Does
        <4> QED
          BY <4>1
      <3>2. /\ <<Make("vardecl", stack[1].at, 0)>> \in Seq(F)
            /\ Runs(<<Make("vardecl", stack[1].at, 0)>>, Len(results), Len(results) + 1)
        BY <3>1, OneRuns
      <3>3. Len(results) + 1 = Len(results) - Takes(stack[1]) + Leaves(stack[1])
        BY <2>2, <2>3
      <3> QED
        BY <1>19, <2>5, <1>1, <2>1, <3>2, <3>3, Continued DEF VarDeclSize, Fetch, Peek
    <2> QED
      BY <2>4, <2>5
  <1>20. CASE Func
    <2>1. phase = "parse" /\ stack # <<>> /\ stack[1].do = "func"
      BY <1>20 DEF Func, Top
    <2>2. Takes(stack[1]) = 0 /\ Leaves(stack[1]) = 1
      BY <2>1 DEF Takes, Leaves
    <2>3. /\ stack[1].at \in ats /\ stack[1].n \in Nat /\ stack[1].what \in Whats
          /\ Len(results) \in Nat /\ 0 <= Len(results) /\ 0 \in ats /\ pos \in ats
      BY <1>1, <2>1, <2>2, TopFrame, Positions DEF ParseInv
    <2>4. /\ Do("type") \in F /\ Does(Do("type"), Len(results), Len(results))
          /\ Do("funcid") \in F /\ Does(Do("funcid"), Len(results), Len(results) + 1)
      <3>1. Do("type") \in F /\ Does(Do("type"), Len(results), Len(results))
        <4>1. Do("type") \in F /\ Takes(Do("type")) = 0 /\ Leaves(Do("type")) = 0
          BY <1>1, <2>3, TypeIs
        <4> QED
          BY <2>3, <4>1 DEF Does
      <3>2. Do("funcid") \in F /\ Does(Do("funcid"), Len(results), Len(results) + 1)
        <4>1. Do("funcid") \in F /\ Takes(Do("funcid")) = 0 /\ Leaves(Do("funcid")) = 1
          BY <1>1, <2>3, DoIs
        <4> QED
          BY <2>3, <4>1 DEF Does
      <3> QED
        BY <3>1, <3>2
    <2>5. /\ <<Do("type"), Do("funcid")>> \in Seq(F)
          /\ Runs(<<Do("type"), Do("funcid")>>, Len(results), Len(results) + 1)
      BY <2>4, TwoRun
    <2>6. Len(results) + 1 = Len(results) - Takes(stack[1]) + Leaves(stack[1])
      BY <2>2, <2>3
    <2> QED
      BY <1>20, <1>1, <2>1, <2>5, <2>6, Continued DEF Func, Peek
  <1>21. CASE FuncId
    <2>1. phase = "parse" /\ stack # <<>> /\ stack[1].do = "funcid"
      BY <1>21 DEF FuncId, Top
    <2>2. Takes(stack[1]) = 0 /\ Leaves(stack[1]) = 1
      BY <2>1 DEF Takes, Leaves
    <2>3. /\ stack[1].at \in ats /\ stack[1].n \in Nat /\ stack[1].what \in Whats
          /\ Len(results) \in Nat /\ 0 <= Len(results) /\ 0 \in ats /\ pos \in ats
      BY <1>1, <2>1, <2>2, TopFrame, Positions DEF ParseInv
    <2>4. CASE Current = "operator"
      <3>1. Do("op") \in F /\ Does(Do("op"), Len(results), Len(results) + 1)
        <4>1. Do("op") \in F /\ Does(Do("op"), Len(results), Len(results) + 1)
          <5>1. Do("op") \in F /\ Takes(Do("op")) = 0 /\ Leaves(Do("op")) = 1
            BY <1>1, <2>3, DoIs
          <5> QED
            BY <2>3, <5>1 DEF Does
        <4> QED
          BY <4>1
      <3>2. <<Do("op")>> \in Seq(F) /\ Runs(<<Do("op")>>, Len(results), Len(results) + 1)
        BY <3>1, OneRuns
      <3>3. Len(results) + 1 = Len(results) - Takes(stack[1]) + Leaves(stack[1])
        BY <2>2, <2>3
      <3> QED
        BY <1>21, <2>4, <1>1, <2>1, <3>2, <3>3, Continued DEF FuncId, Fetch
    <2>5. CASE Current # "operator"
      <3>1. /\ Skip("(") \in F /\ Does(Skip("("), Len(results), Len(results))
            /\ At("param", pos) \in F
            /\ Does(At("param", pos), Len(results), Len(results) + 1)
        <4>1. Skip("(") \in F /\ Does(Skip("("), Len(results), Len(results))
          <5>1. "(" \in Skipped
            BY DEF Skipped
          <5>2. Skip("(") \in F /\ Takes(Skip("(")) = 0 /\ Leaves(Skip("(")) = 0
            BY <1>1, <2>3, <5>1, SkipIs
          <5>3. Len(results) \in Nat
            BY <2>3
          <5> QED
            BY <5>2, <5>3, NothingDone
        <4>2. /\ At("param", pos) \in F
              /\ Does(At("param", pos), Len(results), Len(results) + 1)
          <5>1. /\ At("param", pos) \in F
                /\ Takes(At("param", pos)) = 0
                /\ Leaves(At("param", pos)) = 1
            BY <1>1, <2>3, AtIs
          <5> QED
            BY <2>3, <5>1 DEF Does
        <4> QED
          BY <4>1, <4>2
      <3>2. /\ <<Skip("("), At("param", pos)>> \in Seq(F)
            /\ Runs(<<Skip("("), At("param", pos)>>, Len(results), Len(results) + 1)
        BY <3>1, TwoRun
      <3>3. Len(results) + 1 = Len(results) - Takes(stack[1]) + Leaves(stack[1])
        BY <2>2, <2>3
      <3> QED
        BY <1>21, <2>5, <1>1, <2>1, <3>2, <3>3, Continued DEF FuncId, Fetch
    <2> QED
      BY <2>4, <2>5
  <1>22. CASE FuncOperator
    <2>1. phase = "parse" /\ stack # <<>> /\ stack[1].do = "op"
      BY <1>22 DEF FuncOperator, Top
    <2>2. Takes(stack[1]) = 0 /\ Leaves(stack[1]) = 1
      BY <2>1 DEF Takes, Leaves
    <2>3. /\ stack[1].at \in ats /\ stack[1].n \in Nat /\ stack[1].what \in Whats
          /\ Len(results) \in Nat /\ 0 <= Len(results) /\ 0 \in ats /\ pos \in ats
      BY <1>1, <2>1, <2>2, TopFrame, Positions DEF ParseInv
    <2>4. /\ Skip("(") \in F /\ Does(Skip("("), Len(results), Len(results))
          /\ At("param", pos) \in F
          /\ Does(At("param", pos), Len(results), Len(results) + 1)
      <3>1. Skip("(") \in F /\ Does(Skip("("), Len(results), Len(results))
        <4>1. "(" \in Skipped
          BY DEF Skipped
        <4>2. Skip("(") \in F /\ Takes(Skip("(")) = 0 /\ Leaves(Skip("(")) = 0
          BY <1>1, <2>3, <4>1, SkipIs
        <4>3. Len(results) \in Nat
          BY <2>3
        <4> QED
          BY <4>2, <4>3, NothingDone
      <3>2. At("param", pos) \in F /\ Does(At("param", pos), Len(results), Len(results) + 1)
        <4>1. /\ At("param", pos) \in F
              /\ Takes(At("param", pos)) = 0
              /\ Leaves(At("param", pos)) = 1
          BY <1>1, <2>3, AtIs
        <4> QED
          BY <2>3, <4>1 DEF Does
      <3> QED
        BY <3>1, <3>2
    <2>5. /\ <<Skip("("), At("param", pos)>> \in Seq(F)
          /\ Runs(<<Skip("("), At("param", pos)>>, Len(results), Len(results) + 1)
      BY <2>4, TwoRun
    <2>6. Len(results) + 1 = Len(results) - Takes(stack[1]) + Leaves(stack[1])
      BY <2>2, <2>3
    <2> QED
      BY <1>22, <1>1, <2>1, <2>5, <2>6, Continued DEF FuncOperator, Fetch
  <1>23. CASE Param
    <2>1. phase = "parse" /\ stack # <<>> /\ stack[1].do = "param"
      BY <1>23 DEF Param, Top
    <2>2. Takes(stack[1]) = 0 /\ Leaves(stack[1]) = 1
      BY <2>1 DEF Takes, Leaves
    <2>3. /\ stack[1].at \in ats /\ stack[1].n \in Nat /\ stack[1].what \in Whats
          /\ Len(results) \in Nat /\ 0 <= Len(results) /\ 0 \in ats /\ pos \in ats
      BY <1>1, <2>1, <2>2, TopFrame, Positions DEF ParseInv
    <2>4. CASE Current = ")"
      <3>1. /\ Skip(")") \in F /\ Does(Skip(")"), Len(results), Len(results))
            /\ At("body", stack[1].at) \in F
            /\ Does(At("body", stack[1].at), Len(results), Len(results) + 1)
        <4>1. Skip(")") \in F /\ Does(Skip(")"), Len(results), Len(results))
          <5>1. ")" \in Skipped
            BY DEF Skipped
          <5>2. Skip(")") \in F /\ Takes(Skip(")")) = 0 /\ Leaves(Skip(")")) = 0
            BY <1>1, <2>3, <5>1, SkipIs
          <5>3. Len(results) \in Nat
            BY <2>3
          <5> QED
            BY <5>2, <5>3, NothingDone
        <4>2. /\ At("body", stack[1].at) \in F
              /\ Does(At("body", stack[1].at), Len(results), Len(results) + 1)
          <5>1. /\ At("body", stack[1].at) \in F
                /\ Takes(At("body", stack[1].at)) = 0
                /\ Leaves(At("body", stack[1].at)) = 1
            BY <1>1, <2>3, AtIs
          <5> QED
            BY <2>3, <5>1 DEF Does
        <4> QED
          BY <4>1, <4>2
      <3>2. /\ <<Skip(")"), At("body", stack[1].at)>> \in Seq(F)
            /\ Runs(<<Skip(")"), At("body", stack[1].at)>>, Len(results), Len(results) + 1)
        BY <3>1, TwoRun
      <3>3. Len(results) + 1 = Len(results) - Takes(stack[1]) + Leaves(stack[1])
        BY <2>2, <2>3
      <3> QED
        BY <1>23, <2>4, <1>1, <2>1, <3>2, <3>3, Continued DEF Param, Peek
    <2>5. CASE Current # ")"
      <3>1. /\ Do("type") \in F /\ Does(Do("type"), Len(results), Len(results))
            /\ Do("vardecl") \in F /\ Does(Do("vardecl"), Len(results), Len(results) + 1)
            /\ With("params", stack[1].at, 1) \in F
            /\ Does(With("params", stack[1].at, 1), Len(results) + 1, Len(results) + 1)
        <4>1. Do("type") \in F /\ Does(Do("type"), Len(results), Len(results))
          <5>1. Do("type") \in F /\ Takes(Do("type")) = 0 /\ Leaves(Do("type")) = 0
            BY <1>1, <2>3, TypeIs
          <5> QED
            BY <2>3, <5>1 DEF Does
        <4>2. Do("vardecl") \in F /\ Does(Do("vardecl"), Len(results), Len(results) + 1)
          <5>1. Do("vardecl") \in F /\ Takes(Do("vardecl")) = 0 /\ Leaves(Do("vardecl")) = 1
            BY <1>1, <2>3, DoIs
          <5> QED
            BY <2>3, <5>1 DEF Does
        <4>3. /\ With("params", stack[1].at, 1) \in F
              /\ Does(With("params", stack[1].at, 1), Len(results) + 1, Len(results) + 1)
          <5>1. /\ With("params", stack[1].at, 1) \in F
                /\ Takes(With("params", stack[1].at, 1)) = 1
                /\ Leaves(With("params", stack[1].at, 1)) = 1
            BY <2>3, <1>4
          <5> QED
            BY <2>3, <5>1 DEF Does
        <4> QED
          BY <4>1, <4>2, <4>3
      <3>2. /\ <<Do("type"), Do("vardecl"), With("params", stack[1].at, 1)>> \in Seq(F)
            /\ Runs(<<Do("type"), Do("vardecl"), With("params", stack[1].at, 1)>>,
                  Len(results), Len(results) + 1)
        BY <3>1, ThreeRun
      <3>3. Len(results) + 1 = Len(results) - Takes(stack[1]) + Leaves(stack[1])
        BY <2>2, <2>3
      <3> QED
        BY <1>23, <2>5, <1>1, <2>1, <3>2, <3>3, Continued DEF Param, Peek
    <2> QED
      BY <2>4, <2>5
  <1>24. CASE ParamNext
    <2>1. phase = "parse" /\ stack # <<>> /\ stack[1].do = "params"
      BY <1>24 DEF ParamNext, Top
    <2>2. Takes(stack[1]) = stack[1].n /\ Leaves(stack[1]) = 1
      BY <2>1 DEF Takes, Leaves
    <2>3. /\ stack[1].at \in ats /\ stack[1].n \in Nat /\ stack[1].what \in Whats
          /\ Len(results) \in Nat /\ stack[1].n <= Len(results) /\ 0 \in ats /\ pos \in ats
      BY <1>1, <2>1, <2>2, TopFrame, Positions DEF ParseInv
    <2>4. CASE Current = ")"
      <3>1. /\ Skip(")") \in F /\ Does(Skip(")"), Len(results), Len(results))
            /\ With("body", stack[1].at, stack[1].n) \in F
            /\ Does(With("body", stack[1].at, stack[1].n), Len(results),
                  Len(results) - stack[1].n + 1)
        <4>1. Skip(")") \in F /\ Does(Skip(")"), Len(results), Len(results))
          <5>1. ")" \in Skipped
            BY DEF Skipped
          <5>2. Skip(")") \in F /\ Takes(Skip(")")) = 0 /\ Leaves(Skip(")")) = 0
            BY <1>1, <2>3, <5>1, SkipIs
          <5>3. Len(results) \in Nat
            BY <2>3
          <5> QED
            BY <5>2, <5>3, NothingDone
        <4>2. /\ With("body", stack[1].at, stack[1].n) \in F
              /\ Does(With("body", stack[1].at, stack[1].n), Len(results),
                    Len(results) - stack[1].n + 1)
          <5>1. /\ With("body", stack[1].at, stack[1].n) \in F
                /\ Takes(With("body", stack[1].at, stack[1].n)) = stack[1].n
                /\ Leaves(With("body", stack[1].at, stack[1].n)) = 1
            BY <2>3, <1>4
          <5> QED
            BY <2>3, <5>1 DEF Does
        <4> QED
          BY <4>1, <4>2
      <3>2. /\ <<Skip(")"), With("body", stack[1].at, stack[1].n)>> \in Seq(F)
            /\ Runs(<<Skip(")"), With("body", stack[1].at, stack[1].n)>>, Len(results),
                  Len(results) - stack[1].n + 1)
        BY <3>1, TwoRun
      <3>3. Len(results) - stack[1].n + 1 = Len(results) - Takes(stack[1]) + Leaves(stack[1])
        BY <2>2, <2>3
      <3> QED
        BY <1>24, <2>4, <1>1, <2>1, <3>2, <3>3, Continued DEF ParamNext, Peek
    <2>5. CASE Current # ")"
      <3>0. PICK m \in Nat : m = stack[1].n + 1
        BY <2>3
      <3>1. /\ Skip(",") \in F /\ Does(Skip(","), Len(results), Len(results))
            /\ Do("type") \in F /\ Does(Do("type"), Len(results), Len(results))
            /\ Do("vardecl") \in F /\ Does(Do("vardecl"), Len(results), Len(results) + 1)
            /\ With("params", stack[1].at, m) \in F
            /\ Does(With("params", stack[1].at, m), Len(results) + 1,
                  Len(results) - stack[1].n + 1)
        <4>1. Skip(",") \in F /\ Does(Skip(","), Len(results), Len(results))
          <5>1. "," \in Skipped
            BY DEF Skipped
          <5>2. Skip(",") \in F /\ Takes(Skip(",")) = 0 /\ Leaves(Skip(",")) = 0
            BY <1>1, <2>3, <3>0, <5>1, SkipIs
          <5>3. Len(results) \in Nat
            BY <2>3
          <5> QED
            BY <5>2, <5>3, NothingDone
        <4>2. Do("type") \in F /\ Does(Do("type"), Len(results), Len(results))
          <5>1. Do("type") \in F /\ Takes(Do("type")) = 0 /\ Leaves(Do("type")) = 0
            BY <1>1, <2>3, <3>0, TypeIs
          <5> QED
            BY <2>3, <3>0, <5>1 DEF Does
        <4>3. Do("vardecl") \in F /\ Does(Do("vardecl"), Len(results), Len(results) + 1)
          <5>1. Do("vardecl") \in F /\ Takes(Do("vardecl")) = 0 /\ Leaves(Do("vardecl")) = 1
            BY <1>1, <2>3, <3>0, DoIs
          <5> QED
            BY <2>3, <3>0, <5>1 DEF Does
        <4>4. /\ With("params", stack[1].at, m) \in F
              /\ Does(With("params", stack[1].at, m), Len(results) + 1,
                    Len(results) - stack[1].n + 1)
          <5>1. /\ With("params", stack[1].at, m) \in F
                /\ Takes(With("params", stack[1].at, m)) = m
                /\ Leaves(With("params", stack[1].at, m)) = 1
            BY <2>3, <3>0, <1>4
          <5> QED
            BY <2>3, <3>0, <5>1 DEF Does
        <4> QED
          BY <4>1, <4>2, <4>3, <4>4
      <3>2. /\ <<Skip(","), Do("type"), Do("vardecl"), With("params", stack[1].at,
                  m)>> \in Seq(F)
            /\ Runs(<<Skip(","), Do("type"), Do("vardecl"), With("params", stack[1].at,
                  m)>>, Len(results), Len(results) - stack[1].n + 1)
        BY <3>1, FourRun
      <3>3. Len(results) - stack[1].n + 1 = Len(results) - Takes(stack[1]) + Leaves(stack[1])
        BY <2>2, <2>3
      <3> QED
        BY <1>24, <2>5, <1>1, <2>1, <3>0, <3>2, <3>3, Continued DEF ParamNext, Peek
    <2> QED
      BY <2>4, <2>5
  <1>25. CASE Body
    <2>1. phase = "parse" /\ stack # <<>> /\ stack[1].do = "body"
      BY <1>25 DEF Body, Top
    <2>2. Takes(stack[1]) = stack[1].n /\ Leaves(stack[1]) = 1
      BY <2>1 DEF Takes, Leaves
    <2>3. /\ stack[1].at \in ats /\ stack[1].n \in Nat /\ stack[1].what \in Whats
          /\ Len(results) \in Nat /\ stack[1].n <= Len(results) /\ 0 \in ats /\ pos \in ats
      BY <1>1, <2>1, <2>2, TopFrame, Positions DEF ParseInv
    <2>4. CASE Current = "{"
      <3>0. PICK m \in Nat : m = stack[1].n + 1
        BY <2>3
      <3>1. /\ Do("seq") \in F /\ Does(Do("seq"), Len(results), Len(results) + 1)
            /\ Make("func", stack[1].at, m) \in F
            /\ Does(Make("func", stack[1].at, m), Len(results) + 1,
                  Len(results) - stack[1].n + 1)
        <4>1. Do("seq") \in F /\ Does(Do("seq"), Len(results), Len(results) + 1)
          <5>1. Do("seq") \in F /\ Takes(Do("seq")) = 0 /\ Leaves(Do("seq")) = 1
            BY <1>1, <2>3, <3>0, DoIs
          <5> QED
            BY <2>3, <3>0, <5>1 DEF Does
        <4>2. /\ Make("func", stack[1].at, m) \in F
              /\ Does(Make("func", stack[1].at, m), Len(results) + 1,
                    Len(results) - stack[1].n + 1)
          <5>1. "func" \in Kinds
            BY DEF Kinds
          <5>2. /\ Make("func", stack[1].at, m) \in F
                /\ Takes(Make("func", stack[1].at, m)) = m
                /\ Leaves(Make("func", stack[1].at, m)) = 1
            BY <2>3, <3>0, <5>1, <1>3
          <5> QED
            BY <2>3, <3>0, <5>2 DEF Does
        <4> QED
          BY <4>1, <4>2
      <3>2. /\ <<Do("seq"), Make("func", stack[1].at, m)>> \in Seq(F)
            /\ Runs(<<Do("seq"), Make("func", stack[1].at, m)>>, Len(results),
                  Len(results) - stack[1].n + 1)
        BY <3>1, TwoRun
      <3>3. Len(results) - stack[1].n + 1 = Len(results) - Takes(stack[1]) + Leaves(stack[1])
        BY <2>2, <2>3
      <3> QED
        BY <1>25, <2>4, <1>1, <2>1, <3>0, <3>2, <3>3, Continued DEF Body, Peek
    <2>5. CASE Current # "{"
      <3>1. /\ Skip(";") \in F /\ Does(Skip(";"), Len(results), Len(results))
            /\ Make("declaration", stack[1].at, stack[1].n) \in F
            /\ Does(Make("declaration", stack[1].at, stack[1].n), Len(results),
                  Len(results) - stack[1].n + 1)
        <4>1. Skip(";") \in F /\ Does(Skip(";"), Len(results), Len(results))
          <5>1. ";" \in Skipped
            BY DEF Skipped
          <5>2. Skip(";") \in F /\ Takes(Skip(";")) = 0 /\ Leaves(Skip(";")) = 0
            BY <1>1, <2>3, <5>1, SkipIs
          <5>3. Len(results) \in Nat
            BY <2>3
          <5> QED
            BY <5>2, <5>3, NothingDone
        <4>2. /\ Make("declaration", stack[1].at, stack[1].n) \in F
              /\ Does(Make("declaration", stack[1].at, stack[1].n), Len(results),
                    Len(results) - stack[1].n + 1)
          <5>1. "declaration" \in Kinds
            BY DEF Kinds
          <5>2. /\ Make("declaration", stack[1].at, stack[1].n) \in F
                /\ Takes(Make("declaration", stack[1].at, stack[1].n)) = stack[1].n
                /\ Leaves(Make("declaration", stack[1].at, stack[1].n)) = 1
            BY <2>3, <5>1, <1>3
          <5> QED
            BY <2>3, <5>2 DEF Does
        <4> QED
          BY <4>1, <4>2
      <3>2. /\ <<Skip(";"), Make("declaration", stack[1].at, stack[1].n)>> \in Seq(F)
            /\ Runs(<<Skip(";"), Make("declaration", stack[1].at, stack[1].n)>>,
                  Len(results), Len(results) - stack[1].n + 1)
        BY <3>1, TwoRun
      <3>3. Len(results) - stack[1].n + 1 = Len(results) - Takes(stack[1]) + Leaves(stack[1])
        BY <2>2, <2>3
      <3> QED
        BY <1>25, <2>5, <1>1, <2>1, <3>2, <3>3, Continued DEF Body, Peek
    <2> QED
      BY <2>4, <2>5
  <1>26. CASE StmtUnexpected
    BY <1>26, Rejected DEF StmtUnexpected
  <1>27. CASE Assignment
    <2>1. phase = "parse" /\ stack # <<>> /\ stack[1].do = "stmtid"
      BY <1>27 DEF Assignment, Top
    <2>2. Takes(stack[1]) = 0 /\ Leaves(stack[1]) = 1
      BY <2>1 DEF Takes, Leaves
    <2>3. /\ stack[1].at \in ats /\ stack[1].n \in Nat /\ stack[1].what \in Whats
          /\ Len(results) \in Nat /\ 0 <= Len(results) /\ 0 \in ats /\ pos \in ats
      BY <1>1, <2>1, <2>2, TopFrame, Positions DEF ParseInv
    <2> DEFINE call == Make("assign", stack[1].at, 1)
    <2>4. PICK semi : semi = Semicolon(InHeader)
      OBVIOUS
    <2>5. InHeader \in BOOLEAN
      BY DEF InHeader
    <2>6. semi \in Seq(F) /\ Runs(semi, Len(results) + 1, Len(results) + 1)
      <3>1. Len(results) + 1 \in Nat
        BY <2>3
      <3> QED
        BY <1>1, <2>3, <2>4, <2>5, <3>1, SemicolonRuns
    <2>7. <<Do("exp")>> \in Seq(F) /\ Runs(<<Do("exp")>>, Len(results), Len(results) + 1)
      <3>1. Do("exp") \in F /\ Takes(Do("exp")) = 0 /\ Leaves(Do("exp")) = 1
        BY <1>1, <2>3, DoIs
      <3>2. Does(Do("exp"), Len(results), Len(results) + 1)
        BY <2>3, <3>1 DEF Does
      <3> QED
        BY <3>1, <3>2, OneRuns
    <2>8. <<call>> \in Seq(F) /\ Runs(<<call>>, Len(results) + 1, Len(results) + 1)
      <3>1. call \in F /\ Takes(call) = 1 /\ Leaves(call) = 1
        <4>1. "assign" \in Kinds
          BY DEF Kinds
        <4> QED
          BY <2>3, <4>1, <1>3
      <3> HIDE DEF call
      <3>2. Does(call, Len(results) + 1, Len(results) + 1)
        BY <2>3, <3>1 DEF Does
      <3> QED
        BY <3>1, <3>2, OneRuns
    <2>9. Len(results) + 1 = Len(results) - Takes(stack[1]) + Leaves(stack[1])
      BY <2>2, <2>3
    <2> HIDE DEF call
    <2>10. /\ <<Do("exp")>> \o semi \in Seq(F)
           /\ Runs(<<Do("exp")>> \o semi, Len(results), Len(results) + 1)
      <3>1. Runs(<<Do("exp")>> \o semi, Len(results), Len(results) + 1)
        BY <2>6, <2>7, BothRun
      <3> QED
        BY <2>6, <2>7, <3>1
    <2>11. PICK fs : fs = <<Do("exp")>> \o semi
      OBVIOUS
    <2>12. fs \o <<call>> \in Seq(F) /\ Runs(fs \o <<call>>, Len(results), Len(results) + 1)
      <3>1. Runs(fs \o <<call>>, Len(results), Len(results) + 1)
        BY <2>8, <2>10, <2>11, BothRun
      <3> QED
        BY <2>8, <2>10, <2>11, <3>1
    <2>13. Become(fs \o <<call>>) /\ Advance
      BY <1>27, <2>4, <2>11 DEF Assignment, Fetch, call
    <2> QED
      BY <1>1, <2>1, <2>9, <2>12, <2>13, Continued
  <1>28. CASE DeclarationInit
    <2>1. phase = "parse" /\ stack # <<>> /\ stack[1].do = "init"
      BY <1>28 DEF DeclarationInit, Top
    <2>2. Takes(stack[1]) = 1 /\ Leaves(stack[1]) = 1
      BY <2>1 DEF Takes, Leaves
    <2>3. /\ stack[1].at \in ats /\ stack[1].n \in Nat /\ stack[1].what \in Whats
          /\ Len(results) \in Nat /\ 1 <= Len(results) /\ 0 \in ats /\ pos \in ats
      BY <1>1, <2>1, <2>2, TopFrame, Positions DEF ParseInv
    <2>4. PICK semi : semi = Semicolon(InHeader)
      OBVIOUS
    <2>5. InHeader \in BOOLEAN
      BY DEF InHeader
    <2>6. Len(results) = Len(results) - Takes(stack[1]) + Leaves(stack[1])
      BY <2>2, <2>3
    <2>7. CASE Current = "="
      <3> DEFINE call == Make("decl", stack[1].at, 2)
      <3>1. semi \in Seq(F) /\ Runs(semi, Len(results) + 1, Len(results) + 1)
        <4>1. Len(results) + 1 \in Nat
          BY <2>3
        <4> QED
          BY <1>1, <2>3, <2>4, <2>5, <4>1, SemicolonRuns
      <3>2. <<Do("exp")>> \in Seq(F) /\ Runs(<<Do("exp")>>, Len(results), Len(results) + 1)
        <4>1. Do("exp") \in F /\ Takes(Do("exp")) = 0 /\ Leaves(Do("exp")) = 1
          BY <1>1, <2>3, DoIs
        <4>2. Does(Do("exp"), Len(results), Len(results) + 1)
          BY <2>3, <4>1 DEF Does
        <4> QED
          BY <4>1, <4>2, OneRuns
      <3>3. <<call>> \in Seq(F) /\ Runs(<<call>>, Len(results) + 1, Len(results))
        <4>1. call \in F /\ Takes(call) = 2 /\ Leaves(call) = 1
          <5>1. "decl" \in Kinds
            BY DEF Kinds
          <5> QED
            BY <2>3, <5>1, <1>3
        <4> HIDE DEF call
        <4>2. Does(call, Len(results) + 1, Len(results))
          BY <2>3, <4>1 DEF Does
        <4> QED
          BY <4>1, <4>2, OneRuns
      <3> HIDE DEF call
      <3>4. /\ semi \o <<call>> \in Seq(F)
            /\ Runs(semi \o <<call>>, Len(results) + 1, Len(results))
        <4>1. Runs(semi \o <<call>>, Len(results) + 1, Len(results))
          BY <3>1, <3>3, BothRun
        <4> QED
          BY <3>1, <3>3, <4>1
      <3>5. PICK fs : fs = semi \o <<call>>
        OBVIOUS
      <3>6. /\ <<Do("exp")>> \o fs \in Seq(F)
            /\ Runs(<<Do("exp")>> \o fs, Len(results), Len(results))
        <4>1. Runs(<<Do("exp")>> \o fs, Len(results), Len(results))
          BY <3>2, <3>4, <3>5, BothRun
        <4> QED
          BY <3>2, <3>4, <3>5, <4>1
      <3>7. Become(<<Do("exp")>> \o fs) /\ Advance
        BY <1>28, <2>4, <2>7, <3>5 DEF DeclarationInit, Fetch, call
      <3> QED
        BY <1>1, <2>1, <2>6, <3>6, <3>7, Continued
    <2>8. CASE Current # "="
      <3> DEFINE call == Make("decl", stack[1].at, 1)
      <3>1. semi \in Seq(F) /\ Runs(semi, Len(results), Len(results))
        BY <1>1, <2>3, <2>4, <2>5, SemicolonRuns
      <3>2. <<call>> \in Seq(F) /\ Runs(<<call>>, Len(results), Len(results))
        <4>1. call \in F /\ Takes(call) = 1 /\ Leaves(call) = 1
          <5>1. "decl" \in Kinds
            BY DEF Kinds
          <5> QED
            BY <2>3, <5>1, <1>3
        <4> HIDE DEF call
        <4>2. Does(call, Len(results), Len(results))
          BY <2>3, <4>1 DEF Does
        <4> QED
          BY <4>1, <4>2, OneRuns
      <3> HIDE DEF call
      <3>3. /\ semi \o <<call>> \in Seq(F)
            /\ Runs(semi \o <<call>>, Len(results), Len(results))
        <4>1. Runs(semi \o <<call>>, Len(results), Len(results))
          BY <3>1, <3>2, BothRun
        <4> QED
          BY <3>1, <3>2, <4>1
      <3>4. Become(semi \o <<call>>) /\ UNCHANGED toks
        BY <1>28, <2>4, <2>8 DEF DeclarationInit, Peek, call
      <3> QED
        BY <1>1, <2>1, <2>6, <3>3, <3>4, Continued
    <2> QED
      BY <2>7, <2>8
  <1> QED
    BY <1>5, <1>6, <1>7, <1>8, <1>9, <1>10, <1>11, <1>12, <1>13, <1>14, <1>15, <1>16,
       <1>17, <1>18, <1>19, <1>20, <1>21, <1>22, <1>23, <1>24, <1>25, <1>26, <1>27, <1>28
      DEF StmtStep

-----------------------------------------------------------------------------
(* The steps that move nodes. *)

\* The places of a table of nodes, the results and the program.
LEMMA PlacesAreNumbers ==
    ASSUME NEW nds \in Seq(Nodes), NEW res \in Seq(Nat), NEW prog \in Seq(Nat),
           NEW o, NEW k, NEW i, Owned(nds, res, prog, o, k, i)
    PROVE  /\ o \in -1 .. Len(nds) /\ k \in Nat /\ k > 0
           /\ PartsIn(nds, res, prog, o) \in Seq(Nat) /\ i \in Nat
  <1>1. o \in -1 .. Len(nds) /\ k \in 1 .. Len(PartsIn(nds, res, prog, o))
        /\ i = PartsIn(nds, res, prog, o)[k]
    BY DEF Owned
  <1>2. PartsIn(nds, res, prog, o) \in Seq(Nat)
    <2>1. CASE o \in {-1, 0}
      BY <2>1 DEF PartsIn
    <2>2. CASE o \notin {-1, 0}
      <3>1. o \in 1 .. Len(nds)
        BY <1>1, <2>2
      <3>2. nds[o] \in Nodes
        BY <3>1
      <3> QED
        BY <2>2, <3>2 DEF PartsIn, Nodes
    <2> QED
      BY <2>1, <2>2
  <1> QED
    BY <1>1, <1>2

\* A node takes the last n results as its parts, and is the last result itself.
LEMMA MadeOwns ==
    ASSUME NEW nds \in Seq(Nodes), NEW res \in Seq(Nat), NEW prog \in Seq(Nat),
           OneOwner(nds, res, prog), NEW node \in Nodes, NEW n \in Nat, NEW r \in Nat,
           Len(res) = r + n, node.kids = SubSeq(res, r + 1, Len(res)),
           NEW nds2, nds2 = Append(nds, node),
           NEW res2, res2 = Append(SubSeq(res, 1, r), Len(nds) + 1)
    PROVE  OneOwner(nds2, res2, prog)
  <1>1. PICK N \in Nat : N = Len(nds)
    OBVIOUS
  <1>2. /\ nds2 \in Seq(Nodes) /\ Len(nds2) = N + 1 /\ nds2[N + 1] = node
        /\ \A o \in 1 .. N : nds2[o] = nds[o]
    BY <1>1
  <1>3. /\ res2 \in Seq(Nat) /\ Len(res2) = r + 1 /\ res2[r + 1] = N + 1
        /\ \A k \in 1 .. r : res2[k] = res[k]
    <2>1. SubSeq(res, 1, r) \in Seq(Nat) /\ Len(SubSeq(res, 1, r)) = r
          /\ \A k \in 1 .. r : SubSeq(res, 1, r)[k] = res[k]
      OBVIOUS
    <2> QED
      BY <1>1, <2>1
  <1>4. node.kids \in Seq(Nat) /\ Len(node.kids) = n
        /\ \A k \in 1 .. n : node.kids[k] = res[r + k]
    <2>1. node.kids \in Seq(Nat)
      BY DEF Nodes
    <2>2. Len(SubSeq(res, r + 1, Len(res))) = n
      OBVIOUS
    <2>3. ASSUME NEW k \in 1 .. n PROVE SubSeq(res, r + 1, Len(res))[k] = res[r + k]
      OBVIOUS
    <2> QED
      BY <2>1, <2>2, <2>3
  <1>5. ASSUME NEW o, NEW k, NEW i
        PROVE  Owned(nds2, res2, prog, o, k, i) <=>
                  \/ o # 0 /\ Owned(nds, res, prog, o, k, i)
                  \/ o = 0 /\ k <= r /\ Owned(nds, res, prog, 0, k, i)
                  \/ o = 0 /\ k = r + 1 /\ i = N + 1
                  \/ o = N + 1 /\ k \in 1 .. n /\ Owned(nds, res, prog, 0, r + k, i)
    <2>1. CASE o = 0
      <3>1. /\ PartsIn(nds2, res2, prog, o) = res2 /\ PartsIn(nds, res, prog, 0) = res
            /\ 0 \in -1 .. Len(nds) /\ o \in -1 .. Len(nds2)
        BY <1>1, <1>2, <2>1 DEF PartsIn
      <3>2. Owned(nds2, res2, prog, o, k, i) <=> k \in 1 .. r + 1 /\ i = res2[k]
        BY <1>3, <3>1 DEF Owned
      <3>3. k <= r /\ Owned(nds, res, prog, 0, k, i) <=> k <= r /\ k \in 1 .. r /\ i = res[k]
        BY <3>1 DEF Owned
      <3>4. k \in 1 .. r + 1 <=> (k <= r /\ k \in 1 .. r) \/ k = r + 1
        OBVIOUS
      <3> QED
        BY <1>1, <1>3, <2>1, <3>2, <3>3, <3>4
    <2>2. CASE o = N + 1
      <3>1. /\ PartsIn(nds2, res2, prog, o) = node.kids /\ PartsIn(nds, res, prog, 0) = res
            /\ 0 \in -1 .. Len(nds)
            /\ o \in -1 .. Len(nds2)
            /\ o # 0
            /\ o \notin -1 .. Len(nds)
        BY <1>1, <1>2, <2>2 DEF PartsIn
      <3>2. Owned(nds2, res2, prog, o, k, i) <=> k \in 1 .. n /\ i = node.kids[k]
        BY <1>4, <3>1 DEF Owned
      <3>3. k \in 1 .. n => r + k \in 1 .. Len(res)
        OBVIOUS
      <3>4. k \in 1 .. n => (Owned(nds, res, prog, 0, r + k, i) <=> i = res[r + k])
        BY <3>1, <3>3 DEF Owned
      <3>5. ~Owned(nds, res, prog, o, k, i)
        BY <3>1 DEF Owned
      <3> QED
        BY <1>4, <2>2, <3>1, <3>2, <3>4, <3>5
    <2>3. CASE o # 0 /\ o # N + 1
      <3>1. o \in -1 .. Len(nds2) <=> o \in -1 .. Len(nds)
        BY <1>1, <1>2, <2>3
      <3>2. o \in -1 .. Len(nds) => PartsIn(nds2, res2, prog, o) = PartsIn(nds, res, prog, o)
        <4>1. CASE o = -1
          BY <4>1 DEF PartsIn
        <4>2. CASE o \in 1 .. N
          BY <1>2, <4>2 DEF PartsIn
        <4> QED
          BY <1>1, <2>3, <4>1, <4>2
      <3>3. Owned(nds2, res2, prog, o, k, i) <=> Owned(nds, res, prog, o, k, i)
        BY <3>1, <3>2 DEF Owned
      <3> QED
        BY <2>3, <3>3
    <2> QED
      BY <2>1, <2>2, <2>3
  <1>6. ASSUME NEW o, NEW k, NEW i, Owned(nds, res, prog, o, k, i)
        PROVE  o \in -1 .. N /\ k \in Nat /\ k > 0 /\ i \in 1 .. N /\ (o > 0 => i < o)
               /\ (o = 0 => k <= r + n)
    <2>1. o \in -1 .. N /\ k \in Nat /\ k > 0
      BY <1>1, <1>6, PlacesAreNumbers
    <2>2. i \in 1 .. N /\ (o > 0 => i < o)
      BY <1>1, <1>6 DEF OneOwner
    <2>3. o = 0 => k <= r + n
      BY <1>6 DEF Owned, PartsIn
    <2> QED
      BY <2>1, <2>2, <2>3
  <1>7. ASSUME NEW o, NEW k, NEW i, Owned(nds2, res2, prog, o, k, i)
        PROVE  i \in 1 .. N + 1 /\ (o > 0 => i < o)
    <2>1. CASE o # 0 /\ Owned(nds, res, prog, o, k, i)
      <3>1. i \in 1 .. N /\ (o > 0 => i < o)
        BY <1>6, <2>1
      <3> QED
        BY <3>1
    <2>2. CASE o = 0 /\ (Owned(nds, res, prog, 0, k, i) \/ i = N + 1)
      <3>1. i \in 1 .. N \/ i = N + 1
        BY <1>6, <2>2
      <3> QED
        BY <2>2, <3>1
    <2>3. CASE o = N + 1 /\ Owned(nds, res, prog, 0, r + k, i)
      <3>1. i \in 1 .. N
        BY <1>6, <2>3
      <3> QED
        BY <2>3, <3>1
    <2> QED
      BY <1>5, <1>7, <2>1, <2>2, <2>3
  <1>8. ASSUME NEW i \in 1 .. N + 1 PROVE \E o, k : Owned(nds2, res2, prog, o, k, i)
    <2>1. CASE i = N + 1
      BY <1>5, <2>1
    <2>2. CASE i \in 1 .. N
      <3>1. PICK o, k : Owned(nds, res, prog, o, k, i)
        BY <1>1, <2>2 DEF OneOwner
      <3>2. CASE o # 0
        BY <1>5, <3>1, <3>2
      <3>3. CASE o = 0 /\ k <= r
        BY <1>5, <3>1, <3>3
      <3>4. CASE o = 0 /\ k > r
        <4>1. PICK m \in 1 .. n : r + m = k
          <5>1. k \in Nat /\ k <= r + n
            BY <1>6, <3>1, <3>4
          <5>2. k - r \in 1 .. n /\ r + (k - r) = k
            BY <3>4, <5>1
          <5> QED
            BY <5>2
        <4>2. PICK p : p = N + 1
          OBVIOUS
        <4>3. Owned(nds2, res2, prog, p, m, i)
          BY <1>5, <3>1, <3>4, <4>1, <4>2
        <4> QED
          BY <4>3
      <3> QED
        BY <1>6, <3>1, <3>2, <3>3, <3>4
    <2> QED
      BY <2>1, <2>2
  <1>9. ASSUME NEW o1, NEW o2, NEW k1, NEW k2, NEW i,
               Owned(nds2, res2, prog, o1, k1, i), Owned(nds2, res2, prog, o2, k2, i)
        PROVE  o1 = o2 /\ k1 = k2
    <2> DEFINE Was(o, k, p, m) ==
                  \/ o # 0 /\ o \in -1 .. N /\ p = o /\ m = k
                  \/ o = 0 /\ k \in Nat /\ k <= r /\ p = 0 /\ m = k
                  \/ o = N + 1 /\ k \in 1 .. n /\ p = 0 /\ m = r + k
    <2>1. CASE i = N + 1
      <3>1. i \notin 1 .. N
        BY <2>1
      <3>2. \A o, k : ~Owned(nds, res, prog, o, k, i)
        BY <1>6, <3>1
      <3>3. ASSUME NEW o, NEW k, Owned(nds2, res2, prog, o, k, i)
            PROVE  o = 0 /\ k = r + 1
        <4>1. ~Owned(nds, res, prog, o, k, i) /\ ~Owned(nds, res, prog, 0, k, i)
              /\ ~Owned(nds, res, prog, 0, r + k, i)
          BY <3>2
        <4> QED
          BY <1>5, <3>3, <4>1
      <3> QED
        BY <1>9, <3>3
    <2>2. CASE i # N + 1
      <3>1. ASSUME NEW o, NEW k, Owned(nds2, res2, prog, o, k, i)
            PROVE  \E p, m : Owned(nds, res, prog, p, m, i) /\ Was(o, k, p, m)
        <4>1. CASE o # 0 /\ Owned(nds, res, prog, o, k, i)
          <5>1. o \in -1 .. N
            BY <1>6, <4>1
          <5>2. Was(o, k, o, k)
            BY <4>1, <5>1
          <5> QED
            BY <4>1, <5>2
        <4>2. CASE o = 0 /\ k <= r /\ Owned(nds, res, prog, 0, k, i)
          <5>1. k \in Nat
            BY <1>6, <4>2
          <5>2. Was(o, k, 0, k)
            BY <4>2, <5>1
          <5> QED
            BY <4>2, <5>2
        <4>3. CASE o = N + 1 /\ k \in 1 .. n /\ Owned(nds, res, prog, 0, r + k, i)
          <5>1. Was(o, k, 0, r + k)
            BY <4>3
          <5> QED
            BY <4>3, <5>1
        <4> QED
          BY <1>5, <2>2, <3>1, <4>1, <4>2, <4>3
      <3>2. ASSUME NEW o, NEW k, NEW oo, NEW kk, NEW p, NEW m, Was(o, k, p, m), Was(oo, kk,
                  p, m)
            PROVE  o = oo /\ k = kk
        <4>1. CASE p # 0
          BY <3>2, <4>1
        <4>2. CASE p = 0
          <5>1. \/ o = 0 /\ k \in Nat /\ k <= r /\ m = k
                \/ o = N + 1 /\ k \in 1 .. n /\ m = r + k
            BY <3>2, <4>2
          <5>2. \/ oo = 0 /\ kk \in Nat /\ kk <= r /\ m = kk
                \/ oo = N + 1 /\ kk \in 1 .. n /\ m = r + kk
            BY <3>2, <4>2
          <5>3. (o = 0 /\ m <= r) \/ (o = N + 1 /\ m > r)
            BY <5>1
          <5>4. (oo = 0 /\ m <= r) \/ (oo = N + 1 /\ m > r)
            BY <5>2
          <5>5. m \in Nat
            BY <5>1
          <5>6. o = oo
            BY <5>3, <5>4, <5>5
          <5>7. CASE o = 0
            BY <5>1, <5>2, <5>6, <5>7
          <5>8. CASE o # 0
            BY <5>1, <5>2, <5>6, <5>8
          <5> QED
            BY <5>6, <5>7, <5>8
        <4> QED
          BY <4>1, <4>2
      <3> HIDE DEF Was
      <3>3. PICK p1, m1 : Owned(nds, res, prog, p1, m1, i) /\ Was(o1, k1, p1, m1)
        BY <1>9, <3>1
      <3>4. PICK p2, m2 : Owned(nds, res, prog, p2, m2, i) /\ Was(o2, k2, p2, m2)
        BY <1>9, <3>1
      <3>5. p1 = p2 /\ m1 = m2
        BY <3>3, <3>4 DEF OneOwner
      <3> QED
        BY <3>2, <3>3, <3>4, <3>5
    <2> QED
      BY <2>1, <2>2
  <1> QED
    BY <1>2, <1>7, <1>8, <1>9 DEF OneOwner

\* The program takes all results.
LEMMA KeptOwns ==
    ASSUME NEW nds \in Seq(Nodes), NEW res \in Seq(Nat), NEW prog \in Seq(Nat),
           OneOwner(nds, res, prog)
    PROVE  OneOwner(nds, <<>>, prog \o res)
  <1>1. PICK N \in Nat, p \in Nat, r \in Nat : N = Len(nds) /\ p = Len(prog) /\ r = Len(res)
    OBVIOUS
  <1>2. PICK prog2 : prog2 = prog \o res
    OBVIOUS
  <1>3. PICK res2 : res2 = <<>>
    OBVIOUS
  <1>4. /\ prog2 \in Seq(Nat) /\ Len(prog2) = p + r
        /\ \A k \in 1 .. p : prog2[k] = prog[k]
        /\ \A k \in 1 .. r : prog2[p + k] = res[k]
    BY <1>1, <1>2
  <1>5. ASSUME NEW o, NEW k, NEW i
        PROVE  Owned(nds, res2, prog2, o, k, i) <=>
                  \/ o # -1 /\ o # 0 /\ Owned(nds, res, prog, o, k, i)
                  \/ o = -1 /\ Owned(nds, res, prog, -1, k, i)
                  \/ o = -1 /\ k \in p + 1 .. p + r /\ Owned(nds, res, prog, 0, k - p, i)
    <2>1. CASE o = 0
      <3>1. PartsIn(nds, res2, prog2, o) = <<>>
        BY <1>3, <2>1 DEF PartsIn
      <3>2. ~Owned(nds, res2, prog2, o, k, i)
        BY <3>1 DEF Owned
      <3> QED
        BY <2>1, <3>2
    <2>2. CASE o = -1
      <3>1. /\ PartsIn(nds, res2, prog2, o) = prog2 /\ PartsIn(nds, res, prog, 0) = res
            /\ PartsIn(nds, res, prog, -1) = prog
            /\ 0 \in -1 .. Len(nds) /\ -1 \in -1 .. Len(nds) /\ o \in -1 .. Len(nds)
        BY <1>1, <2>2 DEF PartsIn
      <3>2. Owned(nds, res2, prog2, o, k, i) <=> k \in 1 .. p + r /\ i = prog2[k]
        BY <1>4, <3>1 DEF Owned
      <3>3. Owned(nds, res, prog, -1, k, i) <=> k \in 1 .. p /\ i = prog[k]
        BY <1>1, <3>1 DEF Owned
      <3>4. ASSUME k \in p + 1 .. p + r
            PROVE  /\ Owned(nds, res, prog, 0, k - p, i) <=> i = res[k - p]
                   /\ prog2[k] = res[k - p]
        <4>1. PICK m \in 1 .. r : m = k - p /\ k = p + m
          <5>1. k - p \in 1 .. r /\ k = p + (k - p)
            BY <3>4
          <5> QED
            BY <5>1
        <4>2. prog2[k] = res[m]
          BY <1>4, <4>1
        <4>3. Owned(nds, res, prog, 0, m, i) <=> i = res[m]
          BY <1>1, <3>1 DEF Owned
        <4> QED
          BY <4>1, <4>2, <4>3
      <3>5. k \in 1 .. p + r <=> k \in 1 .. p \/ k \in p + 1 .. p + r
        OBVIOUS
      <3> QED
        BY <1>4, <2>2, <3>2, <3>3, <3>4, <3>5
    <2>3. CASE o # 0 /\ o # -1
      <3>1. PartsIn(nds, res2, prog2, o) = PartsIn(nds, res, prog, o)
        BY <2>3 DEF PartsIn
      <3>2. Owned(nds, res2, prog2, o, k, i) <=> Owned(nds, res, prog, o, k, i)
        BY <3>1 DEF Owned
      <3> QED
        BY <2>3, <3>2
    <2> QED
      BY <2>1, <2>2, <2>3
  <1>6. ASSUME NEW o, NEW k, NEW i, Owned(nds, res, prog, o, k, i)
        PROVE  o \in -1 .. N /\ k \in Nat /\ k > 0 /\ i \in 1 .. N /\ (o > 0 => i < o)
               /\ (o = 0 => k <= r) /\ (o = -1 => k <= p)
    <2>1. o \in -1 .. N /\ k \in Nat /\ k > 0
      BY <1>1, <1>6, PlacesAreNumbers
    <2>2. i \in 1 .. N /\ (o > 0 => i < o)
      BY <1>1, <1>6 DEF OneOwner
    <2>3. (o = 0 => k <= r) /\ (o = -1 => k <= p)
      BY <1>1, <1>6 DEF Owned, PartsIn
    <2> QED
      BY <2>1, <2>2, <2>3
  <1>7. ASSUME NEW o, NEW k, NEW i, Owned(nds, res2, prog2, o, k, i)
        PROVE  i \in 1 .. N /\ (o > 0 => i < o)
    BY <1>5, <1>6, <1>7
  <1>8. ASSUME NEW i \in 1 .. N PROVE \E o, k : Owned(nds, res2, prog2, o, k, i)
    <2>1. PICK o, k : Owned(nds, res, prog, o, k, i)
      BY <1>1 DEF OneOwner
    <2>2. CASE o # 0
      BY <1>5, <2>1, <2>2
    <2>3. CASE o = 0
      <3>1. PICK q : q = -1
        OBVIOUS
      <3>2. PICK m \in p + 1 .. p + r : m - p = k
        <4>1. p + k \in p + 1 .. p + r /\ (p + k) - p = k
          BY <1>6, <2>1, <2>3
        <4> QED
          BY <4>1
      <3>3. Owned(nds, res2, prog2, q, m, i)
        BY <1>5, <2>1, <2>3, <3>1, <3>2
      <3> QED
        BY <3>3
    <2> QED
      BY <2>2, <2>3
  <1>9. ASSUME NEW o1, NEW o2, NEW k1, NEW k2, NEW i,
               Owned(nds, res2, prog2, o1, k1, i), Owned(nds, res2, prog2, o2, k2, i)
        PROVE  o1 = o2 /\ k1 = k2
    <2> DEFINE Was(o, k, q, m) ==
                  \/ o # -1 /\ o # 0 /\ q = o /\ m = k
                  \/ o = -1 /\ k \in Nat /\ q = -1 /\ m = k
                  \/ o = -1 /\ k \in p + 1 .. p + r /\ q = 0 /\ m = k - p
    <2>1. ASSUME NEW o, NEW k, Owned(nds, res2, prog2, o, k, i)
          PROVE  \E q, m : Owned(nds, res, prog, q, m, i) /\ Was(o, k, q, m)
      <3>1. CASE o # -1 /\ o # 0 /\ Owned(nds, res, prog, o, k, i)
        <4>1. Was(o, k, o, k)
          BY <3>1
        <4> QED
          BY <3>1, <4>1
      <3>2. CASE o = -1 /\ Owned(nds, res, prog, -1, k, i)
        <4>1. k \in Nat /\ k <= p
          BY <1>6, <3>2
        <4>2. Was(o, k, -1, k)
          BY <3>2, <4>1
        <4> QED
          BY <3>2, <4>2
      <3>3. CASE o = -1 /\ k \in p + 1 .. p + r /\ Owned(nds, res, prog, 0, k - p, i)
        <4>1. Was(o, k, 0, k - p)
          BY <3>3
        <4> QED
          BY <3>3, <4>1
      <3> QED
        BY <1>5, <2>1, <3>1, <3>2, <3>3
    <2>2. ASSUME NEW o, NEW k, NEW oo, NEW kk, NEW q, NEW m, Was(o, k, q, m), Was(oo, kk,
                q, m)
          PROVE  o = oo /\ k = kk
      <3>1. CASE q # 0
        BY <2>2, <3>1
      <3>2. CASE q = 0
        <4>1. /\ o = -1 /\ k \in p + 1 .. p + r /\ m = k - p
              /\ oo = -1 /\ kk \in p + 1 .. p + r /\ m = kk - p
          BY <2>2, <3>2
        <4> QED
          BY <4>1
      <3> QED
        BY <3>1, <3>2
    <2> HIDE DEF Was
    <2>3. PICK p1, m1 : Owned(nds, res, prog, p1, m1, i) /\ Was(o1, k1, p1, m1)
      BY <1>9, <2>1
    <2>4. PICK p2, m2 : Owned(nds, res, prog, p2, m2, i) /\ Was(o2, k2, p2, m2)
      BY <1>9, <2>1
    <2>5. p1 = p2 /\ m1 = m2
      BY <2>3, <2>4 DEF OneOwner
    <2> QED
      BY <2>2, <2>3, <2>4, <2>5
  <1>10. OneOwner(nds, res2, prog2)
    BY <1>1, <1>7, <1>8, <1>9 DEF OneOwner
  <1> QED
    BY <1>2, <1>3, <1>10

-----------------------------------------------------------------------------
(* The other steps. *)

LEMMA MakeNodeKeeps ==
    ASSUME ParseInv, MakeNode, UNCHANGED program
    PROVE  ParseInv'
  <1>1. /\ phase = "parse" /\ stack # <<>> /\ stack[1].do = "make"
        /\ Made(stack[1].what, stack[1].at, stack[1].n) /\ stack' = Tail(stack)
        /\ UNCHANGED <<source, toks, blamed, phase, program>>
    BY DEF MakeNode, Top
  <1>2. PICK n \in Nat : n = stack[1].n
    BY <1>1, TopFrame
  <1>3. Takes(stack[1]) = n /\ Leaves(stack[1]) = 1
    BY <1>1, <1>2 DEF Takes, Leaves
  <1>4. /\ n <= Len(results) /\ nodes \in Seq(Nodes)
        /\ results \in Seq(Nat) /\ program \in Seq(Nat)
    BY <1>1, <1>3, TopFrame DEF ParseInv, Typed
  <1>5. PICK r \in Nat : r = Len(results) - n /\ Len(results) = r + n
    <2>1. Len(results) - n \in Nat /\ Len(results) = (Len(results) - n) + n
      BY <1>4
    <2> QED
      BY <2>1
  <1>6. PICK node : node = Node(stack[1].what, stack[1].at, SubSeq(results, r + 1,
              Len(results)))
    OBVIOUS
  <1>7. /\ nodes' = Append(nodes, node)
        /\ results' = Append(SubSeq(results, 1, r), Len(nodes) + 1)
    BY <1>1, <1>2, <1>5, <1>6 DEF Made
  <1>8. node \in Nodes /\ node.kids = SubSeq(results, r + 1, Len(results))
    <2>1. stack[1].what \in Whats /\ stack[1].at \in 0 .. pos
      BY <1>1, TopFrame
    <2>2. stack[1].at \in Nat
      BY <2>1, Positions DEF ParseInv
    <2>3. SubSeq(results, r + 1, Len(results)) \in Seq(Nat)
      BY <1>4, <1>5
    <2> QED
      BY <1>6, <2>1, <2>2, <2>3 DEF Nodes, Node
  <1>9. OneOwner(nodes, results, program)'
    <2>1. OneOwner(nodes', results', program)
      BY <1>4, <1>5, <1>7, <1>8, MadeOwns DEF ParseInv
    <2> QED
      BY <1>1, <2>1
  <1>10. results' \in Seq(Nat) /\ Len(results') = r + 1
    <2>1. SubSeq(results, 1, r) \in Seq(Nat) /\ Len(SubSeq(results, 1, r)) = r
      BY <1>4, <1>5
    <2> QED
      BY <1>4, <1>7, <2>1
  <1>11. Supplied'
    <2>1. stack \in Seq(FramesOf(source.start, 0 .. pos))
      BY DEF ParseInv, Typed
    <2>2. PICK c : Does(stack[1], Len(results), c) /\ Runs(Tail(stack), c,
                Final(source.start))
      BY <1>1, <2>1, FirstRuns DEF ParseInv, Supplied
    <2>3. c = r + 1
      BY <1>3, <1>5, <2>2 DEF Does
    <2> QED
      BY <1>1, <1>10, <2>2, <2>3 DEF Supplied
  <1>12. Typed'
    <2>1. nodes' \in Seq(Nodes)
      BY <1>4, <1>7, <1>8
    <2>2. Tail(stack) \in Seq(FramesOf(source.start, 0 .. pos))
      BY <1>1 DEF ParseInv, Typed
    <2>3. pos' = pos /\ phase' # "done"
      BY <1>1 DEF pos
    <2> QED
      BY <1>1, <1>10, <2>1, <2>2, <2>3 DEF ParseInv, Typed
  <1> QED
    BY <1>9, <1>11, <1>12 DEF ParseInv

LEMMA EndKeeps ==
    ASSUME ParseInv, End, UNCHANGED program
    PROVE  ParseInv'
  <1>1. stack = <<>> /\ phase' = "done"
        /\ UNCHANGED <<source, toks, stack, nodes, results, blamed, program>>
    BY DEF End
  <1>2. Typed'
    BY <1>1 DEF ParseInv, Typed, pos
  <1>3. Supplied'
    BY <1>1 DEF ParseInv, Supplied
  <1>4. OneOwner(nodes, results, program)'
    BY <1>1 DEF ParseInv
  <1> QED
    BY <1>2, <1>3, <1>4 DEF ParseInv

\* What a program is parsed with.
LEMMA FunctionIs ==
    ASSUME NEW start, start = "program", NEW ats, 0 \in ats, NEW F, F = FramesOf(start,
          ats),
           NEW r \in Nat
    PROVE  /\ Do("program") \in F /\ Takes(Do("program")) = 0 /\ Leaves(Do("program")) = 0
           /\ <<Do("func"), Do("function")>> \in Seq(F)
           /\ Runs(<<Do("func"), Do("function")>>, r, r)
  <1>1. Do("func") \in F /\ Takes(Do("func")) = 0 /\ Leaves(Do("func")) = 1
    BY DoIs
  <1>2. ASSUME NEW d \in {"program", "function"} PROVE Do(d) \in F
    BY Words DEF Do, Frame, FramesOf
  <1>3. /\ Takes(Do("function")) = 1 /\ Leaves(Do("function")) = 0
        /\ Takes(Do("program")) = 0 /\ Leaves(Do("program")) = 0
    BY DEF Do, Frame, Takes, Leaves
  <1>4. Does(Do("func"), r, r + 1)
    BY <1>1 DEF Does
  <1>5. Does(Do("function"), r + 1, r)
    BY <1>3 DEF Does
  <1>6. Do("function") \in F /\ Do("program") \in F
    BY <1>2
  <1>7. /\ <<Do("func"), Do("function")>> \in Seq(F)
        /\ Runs(<<Do("func"), Do("function")>>, r, r)
    BY <1>1, <1>4, <1>5, <1>6, TwoRun
  <1> QED
    BY <1>3, <1>6, <1>7

LEMMA ProgramStartKeeps ==
    ASSUME ParseInv, ProgramStart
    PROVE  ParseInv'
  <1>1. PICK F, ats : F = FramesOf(source.start, ats) /\ ats = 0 .. pos
    OBVIOUS
  <1>2. /\ phase = "parse" /\ stack # <<>> /\ stack[1].do = "program"
        /\ Become(<<Do("func"), Do("function")>>) /\ UNCHANGED toks /\ UNCHANGED program
    BY DEF ProgramStart, Peek, Top
  <1>3. stack[1] \in F /\ 0 \in ats /\ Len(results) \in Nat
    BY <1>1, <1>2, TopFrame, Positions DEF ParseInv
  <1>4. source.start = "program"
    <2>1. "program" \notin Dos
      BY DEF Dos
    <2> QED
      BY <1>1, <1>2, <1>3, <2>1 DEF FramesOf
  <1>5. /\ <<Do("func"), Do("function")>> \in Seq(F)
        /\ Runs(<<Do("func"), Do("function")>>, Len(results), Len(results))
    <2>1. F = FramesOf(source.start, ats)
      BY <1>1
    <2> QED
      BY <1>3, <1>4, <2>1, FunctionIs
  <1>6. Len(results) = Len(results) - Takes(stack[1]) + Leaves(stack[1])
    <2>1. Takes(stack[1]) = 0 /\ Leaves(stack[1]) = 0
      BY <1>2 DEF Takes, Leaves
    <2> QED
      BY <1>3, <2>1
  <1> QED
    BY <1>1, <1>2, <1>5, <1>6, Continued

LEMMA ProgramNextKeeps ==
    ASSUME ParseInv, ProgramNext
    PROVE  ParseInv'
  <1>1. PICK F, ats : F = FramesOf(source.start, ats) /\ ats = 0 .. pos
    OBVIOUS
  <1>2. /\ phase = "parse" /\ stack # <<>> /\ stack[1].do = "function"
        /\ program' = program \o results /\ results' = <<>>
        /\ stack' = <<>> \/ stack' = <<Do("func"), Do("function")>>
        /\ UNCHANGED <<source, toks, nodes, blamed, phase>>
    BY DEF ProgramNext, Top
  <1>3. stack[1] \in F /\ 0 \in ats
    BY <1>1, <1>2, TopFrame, Positions DEF ParseInv
  <1>4. source.start = "program"
    <2>1. "function" \notin Dos
      BY DEF Dos
    <2> QED
      BY <1>1, <1>2, <1>3, <2>1 DEF FramesOf
  <1>5. stack' \in Seq(F) /\ Runs(stack', 0, 0)
    <2>1. F = FramesOf(source.start, ats)
      BY <1>1
    <2>2. /\ <<Do("func"), Do("function")>> \in Seq(F)
          /\ Runs(<<Do("func"), Do("function")>>, 0, 0)
      BY <1>3, <1>4, <2>1, FunctionIs
    <2>3. <<>> \in Seq(F) /\ Runs(<<>>, 0, 0)
      BY NothingRuns
    <2> QED
      BY <1>2, <2>2, <2>3
  <1>6. Supplied'
    <2>1. Len(results') = 0
      BY <1>2
    <2>2. Final(source'.start) = 0
      BY <1>2, <1>4 DEF Final
    <2> QED
      BY <1>5, <2>1, <2>2 DEF Supplied
  <1>7. OneOwner(nodes, results, program)'
    <2>1. OneOwner(nodes, <<>>, program \o results)
      BY KeptOwns DEF ParseInv, Typed
    <2> QED
      BY <1>2, <2>1
  <1>8. Typed'
    <2>1. program' \in Seq(Nat) /\ results' \in Seq(Nat)
      BY <1>2 DEF ParseInv, Typed
    <2>2. pos' = pos /\ phase' # "done"
      BY <1>2 DEF pos
    <2>3. stack' \in Seq(FramesOf(source'.start, 0 .. pos'))
      BY <1>1, <1>2, <1>5, <2>2
    <2> QED
      BY <1>2, <2>1, <2>2, <2>3 DEF ParseInv, Typed
  <1> QED
    BY <1>6, <1>7, <1>8 DEF ParseInv

LEMMA ParseStarts == ParseInit => ParseInv
  <1> SUFFICES ASSUME ParseInit PROVE ParseInv
    OBVIOUS
  <1>1. /\ source \in Sources /\ stack = <<Do(source.start)>>
        /\ nodes = <<>> /\ results = <<>> /\ program = <<>> /\ blamed = 0 /\ phase = "parse"
    BY DEF ParseInit, Init
  <1>2. toks \in Seq(Tokens) /\ toks # <<>> /\ pos \in Nat
    <2>1. "eof" \in Tokens
      BY DEF Tokens
    <2>2. Coming(source, 0) \subseteq Tokens
      BY <1>1, <2>1, SourcesAssumption DEF Coming
    <2>3. PICK t \in Coming(source, 0) : toks = <<t>>
      BY DEF ParseInit, Init
    <2>4. t \in Tokens
      BY <2>2, <2>3
    <2> QED
      BY <2>3, <2>4 DEF pos
  <1>3. PICK F, ats : F = FramesOf(source.start, ats) /\ ats = 0 .. pos
    OBVIOUS
  <1>4. 0 \in ats
    BY <1>2, <1>3
  <1>5. source.start \in {"exp", "stmt", "program"}
    BY <1>1, SourcesAssumption
  <1>6. /\ <<Do(source.start)>> \in Seq(F)
        /\ Runs(<<Do(source.start)>>, 0, Final(source.start))
    <2>1. F = FramesOf(source.start, ats)
      BY <1>3
    <2>2. CASE source.start = "program"
      <3>1. /\ Do(source.start) \in F
            /\ Takes(Do(source.start)) = 0
            /\ Leaves(Do(source.start)) = 0
        BY <1>4, <2>1, <2>2, FunctionIs
      <3>2. Does(Do(source.start), 0, 0)
        BY <3>1 DEF Does
      <3>3. Final(source.start) = 0
        BY <2>2 DEF Final
      <3> QED
        BY <3>1, <3>2, <3>3, OneRuns
    <2>3. CASE source.start # "program"
      <3>1. source.start \in {"exp", "primary", "stmt", "seq", "vardecl", "func", "funcid",
                  "op"}
        BY <1>5, <2>3
      <3>2. /\ Do(source.start) \in F
            /\ Takes(Do(source.start)) = 0
            /\ Leaves(Do(source.start)) = 1
        BY <1>4, <2>1, <3>1, DoIs
      <3>3. Does(Do(source.start), 0, 1)
        BY <3>2 DEF Does
      <3>4. Final(source.start) = 1
        BY <2>3 DEF Final
      <3> QED
        BY <3>2, <3>3, <3>4, OneRuns
    <2> QED
      BY <2>2, <2>3
  <1>7. Supplied
    <2>1. Len(results) = 0
      BY <1>1
    <2> QED
      BY <1>1, <1>6, <2>1 DEF Supplied
  <1>8. OneOwner(nodes, results, program)
    <2>1. ASSUME NEW o, NEW k, NEW i PROVE ~Owned(<<>>, <<>>, <<>>, o, k, i)
      <3>1. o \in -1 .. Len(<<>>) => o \in {-1, 0}
        OBVIOUS
      <3>2. o \in {-1, 0} => PartsIn(<<>>, <<>>, <<>>, o) = <<>>
        BY DEF PartsIn
      <3> QED
        BY <3>1, <3>2 DEF Owned
    <2>2. 1 .. Len(<<>>) = {}
      OBVIOUS
    <2>3. OneOwner(<<>>, <<>>, <<>>)
      BY <2>1, <2>2 DEF OneOwner
    <2> QED
      BY <1>1, <2>3
  <1>9. Typed
    <2>1. stack \in Seq(FramesOf(source.start, 0 .. pos))
      BY <1>1, <1>3, <1>6
    <2>2. blamed \in 0 .. pos
      BY <1>1, <1>2
    <2> QED
      BY <1>1, <1>2, <2>1, <2>2 DEF Typed
  <1> QED
    BY <1>7, <1>8, <1>9 DEF ParseInv

LEMMA ParseKeeps == ParseInv /\ [Next]_vars => ParseInv'
  <1> SUFFICES ASSUME ParseInv, [Next]_vars PROVE ParseInv'
    OBVIOUS
  <1>1. CASE ExpStep /\ UNCHANGED program
    BY <1>1, ExpKeeps, MakeNodeKeeps, EndKeeps DEF ExpStep
  <1>2. CASE StmtStep /\ UNCHANGED program
    BY <1>2, StmtKeeps
  <1>3. CASE ProgramStart
    BY <1>3, ProgramStartKeeps
  <1>4. CASE ProgramNext
    BY <1>4, ProgramNextKeeps
  <1>5. CASE UNCHANGED vars
    BY <1>5 DEF vars, expvars, ParseInv, Typed, Supplied, pos
  <1> QED
    BY <1>1, <1>2, <1>3, <1>4, <1>5 DEF Next

\* With one owner for every node, the places are in bijection with the nodes.
LEMMA OwnersAreBijective ==
    ASSUME Typed, OneOwner(nodes, results, program)
    PROVE  [p \in Places |-> Parts(p[1])[p[2]]] \in Bijection(Places, DOMAIN nodes)
  <1> DEFINE Own(o, k, i) == Owned(nodes, results, program, o, k, i)
             T == 1 .. Len(nodes)
             M == [p \in Places |-> Parts(p[1])[p[2]]]
  <1>1. nodes \in Seq(Nodes) /\ results \in Seq(Nat) /\ program \in Seq(Nat)
    BY DEF Typed
  <1>2. ASSUME NEW o PROVE Parts(o) = PartsIn(nodes, results, program, o)
    BY DEF Parts, PartsIn
  <1>3. ASSUME NEW o \in -1 .. Len(nodes) PROVE Parts(o) \in Seq(Nat)
    <2>1. CASE o \in {-1, 0}
      BY <1>1, <2>1 DEF Parts
    <2>2. CASE o \notin {-1, 0}
      <3>1. o \in 1 .. Len(nodes)
        BY <1>1, <2>2
      <3>2. nodes[o] \in Nodes
        BY <1>1, <3>1
      <3> QED
        BY <2>2, <3>2 DEF Parts, Nodes
    <2> QED
      BY <2>1, <2>2
  <1>4. ASSUME NEW o, NEW k, NEW i
        PROVE  Own(o, k, i) <=> /\ o \in Owners /\ k \in DOMAIN Parts(o)
                                /\ i = Parts(o)[k]
    BY <1>2, <1>3 DEF Owned, Owners
  <1>5. ASSUME NEW p \in Places
        PROVE  \E o, k : p = <<o, k>> /\ Own(o, k, Parts(o)[k])
    <2>1. PICK o \in Owners : p \in {o} \X DOMAIN Parts(o)
      BY DEF Places
    <2>2. PICK k \in DOMAIN Parts(o) : p = <<o, k>>
      BY <2>1
    <2> QED
      BY <1>4, <2>1, <2>2
  <1>6. ASSUME NEW o, NEW k, NEW i, Own(o, k, i)
        PROVE  <<o, k>> \in Places /\ M[<<o, k>>] = i
    <2>1. o \in Owners /\ k \in DOMAIN Parts(o) /\ i = Parts(o)[k]
      BY <1>4, <1>6
    <2>2. <<o, k>> \in {o} \X DOMAIN Parts(o)
      BY <2>1
    <2>3. <<o, k>> \in Places
      BY <2>1, <2>2 DEF Places
    <2> QED
      BY <2>1, <2>3
  <1>7. /\ \A o, k, i : Own(o, k, i) => i \in T
        /\ \A i \in T : \E o, k : Own(o, k, i)
        /\ \A o1, o2, k1, k2, i : Own(o1, k1, i) /\ Own(o2, k2, i) => o1 = o2 /\ k1 = k2
    BY DEF OneOwner
  <1>8. DOMAIN nodes = T
    BY <1>1
  <1> HIDE DEF Own, T
  <1>9. ASSUME NEW p \in Places
        PROVE  \E o, k : p = <<o, k>> /\ Own(o, k, M[p])
    <2>1. PICK o, k : p = <<o, k>> /\ Own(o, k, Parts(o)[k])
      BY <1>5
    <2>2. M[p] = Parts(o)[k]
      BY <1>6, <2>1
    <2> QED
      BY <2>1, <2>2
  <1>10. M \in [Places -> T]
    <2>1. ASSUME NEW p \in Places PROVE Parts(p[1])[p[2]] \in T
      BY <1>7, <1>9
    <2> QED
      BY <2>1
  <1>11. DOMAIN M = Places
    OBVIOUS
  <1> HIDE DEF M
  <1>12. ASSUME NEW p \in Places, NEW q \in Places, M[p] = M[q] PROVE p = q
    <2>1. PICK o1, k1 : p = <<o1, k1>> /\ Own(o1, k1, M[p])
      BY <1>9
    <2>2. PICK o2, k2 : q = <<o2, k2>> /\ Own(o2, k2, M[q])
      BY <1>9
    <2>3. o1 = o2 /\ k1 = k2
      BY <1>7, <1>12, <2>1, <2>2
    <2> QED
      BY <2>1, <2>2, <2>3
  <1>13. ASSUME NEW i \in T PROVE \E p \in Places : M[p] = i
    <2>1. PICK o, k : Own(o, k, i)
      BY <1>7
    <2>2. <<o, k>> \in Places /\ M[<<o, k>>] = i
      BY <1>6, <2>1
    <2> QED
      BY <2>2
  <1>14. M \in Bijection(Places, T)
    BY <1>10, <1>11, <1>12, <1>13 DEF Bijection, Injection, Surjection, IsInjective
  <1> QED
    BY <1>8, <1>14 DEF M

LEMMA InvGivesType == ParseInv => TypeOK
  <1> SUFFICES ASSUME ParseInv PROVE TypeOK
    OBVIOUS
  <1>1. ASSUME NEW i \in DOMAIN stack PROVE stack[i].at \in 0 .. pos
    <2>1. stack[i] \in FramesOf(source.start, 0 .. pos)
      BY DEF ParseInv, Typed
    <2> QED
      BY <2>1 DEF FramesOf
  <1>2. [p \in Places |-> Parts(p[1])[p[2]]] \in Bijection(Places, DOMAIN nodes)
    BY OwnersAreBijective DEF ParseInv
  <1>3. ASSUME NEW i \in DOMAIN nodes, NEW k \in DOMAIN nodes[i].kids
        PROVE  nodes[i].kids[k] < i
    <2>1. i \in 1 .. Len(nodes) /\ nodes[i] \in Nodes
      BY DEF ParseInv, Typed
    <2>2. nodes[i].kids \in Seq(Nat) /\ i \in -1 .. Len(nodes) /\ i > 0 /\ i # 0 /\ i # -1
      BY <2>1 DEF Nodes
    <2>3. k \in 1 .. Len(nodes[i].kids)
      BY <2>2
    <2>4. Owned(nodes, results, program, i, k, nodes[i].kids[k])
      BY <2>2, <2>3 DEF Owned, PartsIn
    <2> QED
      BY <2>2, <2>4 DEF ParseInv, OneOwner
  <1>4. Top("make") => stack[1].n <= Len(results)
    <2>1. SUFFICES ASSUME Top("make") PROVE stack[1].n <= Len(results)
      OBVIOUS
    <2>2. stack # <<>> /\ stack[1].do = "make"
      BY <2>1 DEF Top
    <2>3. Takes(stack[1]) = stack[1].n
      BY <2>2 DEF Takes
    <2> QED
      BY <2>2, <2>3, TopFrame
  <1>5. phase = "done" => Len(results) = IF source.start = "program" THEN 0 ELSE 1
    <2>1. SUFFICES ASSUME phase = "done" PROVE Len(results) = Final(source.start)
      BY DEF Final
    <2>2. stack = <<>>
      BY <2>1 DEF ParseInv, Typed
    <2> QED
      BY <2>2, NothingRuns DEF ParseInv, Supplied
  <1> QED
    BY <1>1, <1>2, <1>3, <1>4, <1>5 DEF TypeOK, ParseInv, Typed

-----------------------------------------------------------------------------
(* The theorem. *)

\* TypeOK: as the functions of Parser.cpp make nodes and hand them to each other,
\* every node made has exactly one owner, a function never takes a result that
\* is not there, and the parser returns one tree, or the program's functions.
THEOREM ParseTypes == Spec => []TypeOK
  <1>1. ParseInit => ParseInv
    BY ParseStarts
  <1>2. ParseInv /\ [Next]_vars => ParseInv'
    BY ParseKeeps
  <1>3. ParseInv => TypeOK
    BY InvGivesType
  <1> QED
    BY <1>1, <1>2, <1>3, PTL DEF Spec

=============================================================================
