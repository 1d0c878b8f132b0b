---------------------------- MODULE BlockLifecycle ----------------------------
(***************************************************************************)
(* What the code generator promises about the blocks of a function, and    *)
(* nothing of how: a block is made, waits its turn, is filled once and is  *)
(* closed for good; exactly one block is being filled at any time; and in  *)
(* the end either every block that was made is closed or the generator     *)
(* has given up.  CodegenBlocks implements this.                           *)
(***************************************************************************)
EXTENDS Naturals

CONSTANTS
    Block,      \* the blocks the function may get
    Entry       \* the one of them it starts with

VARIABLES
    status,     \* of each block
    outcome     \* "working", "finished" or "abandoned"

Statuses == {"unborn", "waiting", "current", "closed"}

Init ==
    /\ status = [b \in Block |-> IF b = Entry THEN "current" ELSE "unborn"]
    /\ outcome = "working"

\* A block moves along unborn -> waiting -> current -> closed, possibly several
\* places at once, and never back.
Forward(old, new) ==
    \/ new = old
    \/ old = "unborn"
    \/ old = "waiting" /\ new \in {"current", "closed"}
    \/ old = "current" /\ new = "closed"

\* Close the current block and take up another.
Advance ==
    /\ outcome = "working"
    /\ status' \in [Block -> Statuses]
    /\ \A b \in Block : Forward(status[b], status'[b])
    /\ \A b \in Block : status[b] = "current" => status'[b] = "closed"
    /\ \E b \in Block : \A c \in Block : status'[c] = "current" <=> c = b
    /\ UNCHANGED outcome

\* Close the last block; none waits.
Finish ==
    /\ outcome = "working"
    /\ \A b \in Block : status[b] # "waiting"
    /\ status' = [b \in Block |->
                     IF status[b] = "current" THEN "closed" ELSE status[b]]
    /\ outcome' = "finished"

Abandon ==
    /\ outcome = "working"
    /\ outcome' = "abandoned"
    /\ UNCHANGED status

Next == Advance \/ Finish \/ Abandon

\* What may happen, ...
Safety == Init /\ [][Next]_<<status, outcome>>

\* ... and that work goes on until there is an outcome.
Spec == Safety /\ <>(outcome # "working")

=============================================================================
