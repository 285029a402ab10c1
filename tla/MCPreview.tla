----------------------------- MODULE MCPreview -----------------------------
(***************************************************************************)
(* The preview server on a small instance: a gated server, three processes *)
(* and two accepted restarts with one crash restart each.                  *)
(***************************************************************************)
EXTENDS Preview
=============================================================================
