---------------------------- MODULE MCBuildGuard ----------------------------
(***************************************************************************)
(* Small instances of BuildGuard for TLC.                                  *)
(***************************************************************************)
EXTENDS BuildGuard

CONSTANTS r1
=============================================================================
