--------------------------- MODULE MCContinuation ---------------------------
(***************************************************************************)
(* Small instances of Continuation for TLC.                                *)
(***************************************************************************)
EXTENDS Continuation, TLC

CONSTANTS c1, c2, c3

\* The clicks are interchangeable.
Symmetry == Permutations(Clicks)
=============================================================================
