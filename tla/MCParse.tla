-------------------------------- MODULE MCParse --------------------------------
(***************************************************************************)
(* Instances of the parser for TLC.                                        *)
(***************************************************************************)
EXTENDS Printer

After(given, start, tokens, most) ==
    [start |-> start, given |-> given, tokens |-> tokens, most |-> most]
Of(start, tokens, most) == After(<<>>, start, tokens, most)

\* Tokens of every kind an expression has, one that ends it, and operators of
\* three precedences.
Mixed(most) ==
    Of("exp", {"id", "type", "num", "(", ")", "[", "]", ",", "-", "*", "==", ";"}, most)

Expressions == {Mixed(5)}

\* Beginnings of a conditional whose branch is a loop.
IfNum == <<"if", "(", "num", ")">>
IfWhile == IfNum \o <<"while", "(", "num", ")">>
IfFor == IfNum \o <<"for", "(", "{", "}", ";", "num", ";", "{", "}", ")">>

\* Beside expressions: branches, headers of for, simple statements, lists of
\* parameters, and functions.
All ==
    {Mixed(8),
     Of("stmt", {"if", "(", ")", "id", "else", "{", "}"}, 13),
     Of("stmt", {"if", "while", "(", ")", "num", "else", "{", "}"}, 11),
     After(IfWhile, "stmt", {"if", "while", "(", ")", "num", "else", "{", "}"}, 19),
     After(IfFor, "stmt", {"if", "while", "(", ")", "num", "else", "{", "}"}, 25),
     Of("stmt", {"for", "(", ")", ";", "id", "=", "type"}, 14),
     Of("stmt", {"for", "(", ")", ";", "id", "=", "[", "]"}, 11),
     Of("stmt", {"type", "id", "=", "[", "]", ";", "return", "num", "{", "}"}, 7),
     Of("program", {"type", "id", "(", ")", ",", ";", "[", "]", "num"}, 12),
     Of("program", {"type", "operator", "-", "id", "(", ")", "{", "}", ";", "return"}, 11)}

=============================================================================
