--------------------------- MODULE MCCodegenBlocks ---------------------------
(***************************************************************************)
(* Instances of CodegenBlocks for TLC, and its refinement mapping to       *)
(* BlockLifecycle.                                                         *)
(***************************************************************************)
EXTENDS CodegenBlocks

\* Sets of node kinds for the runs' configurations.
ControlForms == {"call", "decl", "return", "if", "while", "for", "&&"}

\* A node makes at most four blocks (a for statement).
MostBlocks == 1 + 4 * MaxNodes

\* The insertion block is current until the function is done.
StatusOf(b) ==
    IF b > nblocks THEN "unborn"
    ELSE IF b = at /\ ~Done THEN "current"
    ELSE IF b \in OpenIn(stack) THEN "waiting"
    ELSE "closed"

Outcome == CASE phase = "emit" -> "working"
             [] phase = "done" -> "finished"
             [] phase = "aborted" -> "abandoned"

Lifecycle == INSTANCE BlockLifecycle WITH
    Block <- 1 .. MostBlocks,
    Entry <- Entry,
    status <- [b \in 1 .. MostBlocks |-> StatusOf(b)],
    outcome <- Outcome

\* The generator keeps the promises of BlockLifecycle: every step of the walk
\* is one of its steps or changes no block's status, and work comes to an end.
ImplementsLifecycle == Lifecycle!Spec

=============================================================================
