------------------------------ MODULE MCLinking ------------------------------
(***************************************************************************)
(* Instances of Linking for TLC.                                           *)
(***************************************************************************)
EXTENDS Linking

\* Sets of forms for the runs' configurations.
ScopeForms == {"var", "decl", "assign", "seq", "if", "for"}
ArrayUseForms == {"var", "access", "arraydecl", "arrayassign", "seq", "if", "while"}

=============================================================================
