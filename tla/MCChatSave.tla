----------------------------- MODULE MCChatSave -----------------------------
(***************************************************************************)
(* Small instances of ChatSave for TLC.                                    *)
(***************************************************************************)
EXTENDS ChatSave, TLC

CONSTANTS talk1, build1, deed1, deed2, open1, door1, t1, t2, t3

\* Timers are interchangeable (safety runs only).
Symmetry == Permutations({t1, t2, t3})
=============================================================================
