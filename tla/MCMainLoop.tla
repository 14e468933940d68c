----------------------------- MODULE MCMainLoop -----------------------------
(* Instances of MainLoop for TLC. *)
EXTENDS MainLoop
=============================================================================
