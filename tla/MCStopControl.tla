--------------------------- MODULE MCStopControl ----------------------------
(***************************************************************************)
(* Small instances of StopControl for TLC.                                 *)
(***************************************************************************)
EXTENDS StopControl

CONSTANTS chat1, chat2, decline1, build1, plan1, phased1, reset1, stop1, stop2
=============================================================================
