-------------------------- MODULE AtomicDestination --------------------------
(***************************************************************************)
(* What a user may rely on when runs of the program write to one           *)
(* destination: whatever is found there, or was set aside beside it, is    *)
(* complete, and is only ever exchanged for something complete.  The       *)
(* promise ends when the file system fails twice or the user interrupts a  *)
(* run between its two renames.                                            *)
(***************************************************************************)
CONSTANTS
    NONE,
    Complete        \* the complete trees

VARIABLES
    tree,           \* what can be found, or NONE
    broken          \* the promise has ended

Init == tree \in Complete \cup {NONE} /\ broken = FALSE

Publish == tree' \in Complete /\ UNCHANGED broken
Break == broken' = TRUE /\ UNCHANGED tree
Lose == broken /\ tree' = NONE /\ UNCHANGED broken

Next == Publish \/ Break \/ Lose
Spec == Init /\ [][Next]_<<tree, broken>>
=============================================================================
