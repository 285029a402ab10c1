---------------------------- MODULE MCModelPolicy ----------------------------
(***************************************************************************)
(* Small instances of ModelPolicy for TLC.                                 *)
(***************************************************************************)
EXTENDS ModelPolicy, TLC

CONSTANTS c1, c2, b1, b2, p1

\* The turns of a kind are interchangeable.
Symmetry == Permutations(Chats) \cup Permutations(Builds)
=============================================================================
