---------------------------- MODULE MCTurnQueue -----------------------------
(***************************************************************************)
(* Small instances of TurnQueue for TLC.                                   *)
(***************************************************************************)
EXTENDS TurnQueue, TLC

CONSTANTS chat1, chat2, build1, build2, door1, door2

\* Turns of one kind, and doors, are interchangeable (safety runs only).
Symmetry ==
    Permutations({chat1, chat2}) \cup Permutations({build1, build2})
    \cup Permutations({door1, door2})
=============================================================================
