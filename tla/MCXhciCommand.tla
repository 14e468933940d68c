---------------------------- MODULE MCXhciCommand ----------------------------
(* Instance of XhciCommand for TLC: rings of five TRBs, so that the commands *)
(* go around after four and their events after five, and up to two commands  *)
(* are given up and answered while others follow them.                       *)
EXTENDS XhciCommand
=============================================================================
