----------------------------- MODULE BlockStore -----------------------------
(***************************************************************************)
(* What malloc, realloc and free promise to the code that calls them, from *)
(* tasks and from interrupt handlers: a piece of memory that is handed out *)
(* holds what was asked for, belongs to nobody else until it is given back *)
(* and stays where it is, unless its owner asks for another size.  What the *)
(* pieces contain is not part of it.                                       *)
(***************************************************************************)
EXTENDS Integers

CONSTANTS
  Memory,            \* the addresses of the managed memory
  Sizes              \* the sizes that are asked for

VARIABLES
  owned,             \* the pieces handed out: [at, len]
  down               \* the memory is used up and the system about to halt

vars == <<owned, down>>

Cells(p) == p.at .. p.at + p.len - 1

\* p may be handed out next to the pieces others own.
Apart(p, others) ==
  /\ Cells(p) \subseteq Memory
  /\ \A q \in others : p.at # q.at /\ Cells(p) \cap Cells(q) = {}

Init == owned = {} /\ down = FALSE

Take == \E p \in owned' \ owned :
          p.len \in Sizes /\ Apart(p, owned) /\ owned' = owned \cup {p}

\* realloc: in place, or with a move, for which both pieces are needed.
Resize(p) ==
  \E q \in owned' :
    /\ q.len \in Sizes
    /\ Apart(q, IF q.at = p.at THEN owned \ {p} ELSE owned)
    /\ owned' = (owned \ {p}) \cup {q}

Give(p) == owned' = owned \ {p}

Use == ~down /\ (Take \/ \E p \in owned : Give(p) \/ Resize(p)) /\ UNCHANGED down

\* Out of memory; interrupt handlers go on until the message is written.
Panic == ~down /\ down' = TRUE /\ UNCHANGED owned

Linger == down /\ (Take \/ \E p \in owned : Give(p)) /\ UNCHANGED down

Next == Use \/ Panic \/ Linger

Spec == Init /\ [][Next]_vars
=============================================================================
