------------------------------ MODULE MCKeyboard ------------------------------
(* Instance of Keyboard for TLC: a lock key, another key and Alt, alone and   *)
(* together, and reports that cannot tell.                                    *)
EXTENDS Keyboard
=============================================================================
