-------------------------------- MODULE MCCalls --------------------------------
(***************************************************************************)
(* Instances of Calls and Values for TLC.                                  *)
(***************************************************************************)
EXTENDS Values

Of(types, names, called, nfuncs, nparams, nitems) ==
    [types |-> types, names |-> names, called |-> called,
     funcs |-> nfuncs, params |-> nparams, items |-> nitems]

\* Every name a call can use.
EveryName == BuiltinNames \cup {"f"}

\* Nested calls of all builtins; overloads, redefinitions, forward declarations
\* and builtins' names; calls of an overload of a conversion.
All ==
    {Of(AllTypes, {"f"}, EveryName, 1, 0, 5),
     Of({"int", "float"}, {"f", "print"}, {"f", "+", "print"}, 2, 2, 3),
     Of({"int", "float"}, {"float"}, {"float"}, 1, 2, 4)}

Forward == {Of({"int"}, {"f"}, {"f"}, 2, 1, 2)}
Mixed == {Of({"int", "float"}, {"f"}, {"f"}, 2, 2, 3)}

=============================================================================
