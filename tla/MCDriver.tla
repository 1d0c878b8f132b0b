------------------------------- MODULE MCDriver -------------------------------
(***************************************************************************)
(* Instances of the driver for TLC.                                        *)
(***************************************************************************)
EXTENDS Driver

Do(arg, o, ir, run, tokens, dump) ==
    [arg |-> arg, file |-> "a.in", o |-> o, ir |-> ir, run |-> run, tokens |-> tokens, dump |-> dump]
OnB(c) == [c EXCEPT !.arg = "b.in", !.file = "b.in"]

Object(o) == Do("a.in", o, FALSE, TRUE, FALSE, TRUE)
Run == Do("a.in", "", FALSE, TRUE, FALSE, TRUE)
IR == Do("a.in", "", TRUE, TRUE, FALSE, FALSE)
Nothing == Do("a.in", "", FALSE, FALSE, FALSE, FALSE)
Tokens == Do("a.in", "", FALSE, TRUE, TRUE, TRUE)
OptionFirst == Do("--run", "", FALSE, TRUE, FALSE, TRUE)

Good(size) == Text("v", "good", size)
EveryFate == {Text("v", fate, 1) : fate \in Fates}

Session(c, d, a, edited, closed) ==
    [cmd |-> ("p" :> c @@ "q" :> d), texts |-> ("a.in" :> a @@ "b.in" :> {Good(1)}),
     edited |-> edited, edits |-> IF edited = {} THEN 0 ELSE 1, closed |-> closed]

\* Different sources and outputs, of any text; the same output; the same source;
\* files that cannot be written; an edit; the option first.
All ==
    {Session(Object("a.o"), OnB(Object("b.o")), EveryFate, {}, {}),
     Session(Object("x.o"), OnB(Object("x.o")), {Good(1)}, {}, {}),
     Session(Run, Run, EveryFate, {}, {}),
     Session(Object("a.o"), IR, EveryFate, {}, {"a.o", "a.in.ast"}),
     Session(Object("a.o"), Tokens, {Good(1)}, {Text("w", "good", 2), Text("w", "illtyped", 1)}, {}),
     Session(Tokens, IR, EveryFate, {Text("w", "good", 2)}, {}),
     Session(Nothing, OptionFirst, EveryFate, {}, {})}

=============================================================================
