------------------------------ MODULE MCShell -------------------------------
(* Instances of Shell for TLC. *)
EXTENDS Shell

\* The shell starts in a directory below the root.
MCHome == <<<<"h">>>>

a == <<"a">>
up == <<".", ".">>

\* Paths that go down, up, twice up, and up and down again, the last one with
\* the second separator of FatFs.  They have three lengths and mix with what is
\* left in the buffers.
Paths == {a, up, up \o <<"/">> \o up, up \o <<"\\">> \o a}
Up == {up}

\* Older lines have left a separator and a letter in the input buffer.
Left == {<<"\\", "a">>}
=============================================================================
