-------------------------- MODULE MCWorkbenchDoor --------------------------
(***************************************************************************)
(* The door on a small instance: visits of one viewer in any order.        *)
(***************************************************************************)
EXTENDS WorkbenchDoor, TLC

CONSTANTS visit1, visit2, visit3

Symmetry == Permutations(Visits)
=============================================================================
