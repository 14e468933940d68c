------------------------------ MODULE MCLogin -------------------------------
(* Instances of Login for TLC. *)
EXTENDS Login

\* One user, y, with the password n.
One == [u \in {<<"y">>} |-> <<"n">>]

\* The stack behind the password is 0, or holds the character n.
Stack == {<<>>, <<"n">>}
=============================================================================
