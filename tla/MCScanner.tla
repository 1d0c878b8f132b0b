------------------------------- MODULE MCScanner -------------------------------
(***************************************************************************)
(* Instances of the scanner for TLC.                                       *)
(***************************************************************************)
EXTENDS Scanner

Of(chars, most) == [chars |-> chars, most |-> most]

\* Numbers; words; symbols of one and two characters, and characters that are
\* none; lines, and the zero byte.
Kinds ==
    {Of({"0", "1", "2", "-", ".", "a"}, 6),
     Of({"i", "f", "n", "t", "_", "1", " "}, 5),
     Of({"e", "l", "s", " "}, 5),
     Of({"=", "!", "<", "&", "|", "+", "#", " "}, 4),
     Of({"a", "1", "-", "\n", " ", ";", NUL}, 5)}

=============================================================================
