------------------------------ MODULE XhciRing ------------------------------
(***************************************************************************)
(* CXHCIRing: an array of TRBs that the driver and the host controller     *)
(* share, one as the producer and the other as the consumer.  Neither sees *)
(* the index of the other: a TRB belongs to the consumer when its cycle    *)
(* bit is the consumer's cycle state, which changes with every lap.  The   *)
(* last TRB of a command or transfer ring is a link to the first one.      *)
(*                                                                         *)
(* The driver's object is a record: the TRBs (body and cycle bit c), the   *)
(* index it enqueues or dequeues at and its cycle state.                   *)
(***************************************************************************)
EXTENDS Integers, Sequences

CONSTANT TRBCount     \* m_nTRBCount; the code wants 16 at least

ASSUME RingAssumption == TRBCount \in Nat /\ TRBCount > 2

LinkIndex == TRBCount - 1

NewRing(body) ==
  [trb |-> [i \in 0 .. TRBCount - 1 |-> [body |-> body, c |-> 0]], index |-> 0, cycle |-> 1]

-----------------------------------------------------------------------------
(* The driver's end.                                                        *)

\* GetDequeueTRB: there is an entry; and IncrementDequeue, behind the last one.
HasEntry(r) == r.trb[r.index].c = r.cycle
IncrementDequeue(r) ==
  IF r.index + 1 = TRBCount THEN [r EXCEPT !.index = 0, !.cycle = 1 - @]
  ELSE [r EXCEPT !.index = @ + 1]

\* GetEnqueueTRB: "ring is full" if not.
HasRoom(r) == r.trb[r.index].c # r.cycle
WriteTRB(r, body) == [r EXCEPT !.trb[r.index] = [body |-> body, c |-> r.cycle]]

BugIncrementEnqueue(r) ==
  IF r.index + 1 = LinkIndex
  THEN [r EXCEPT !.index = 0, !.cycle = 1 - @]
  ELSE [r EXCEPT !.index = @ + 1]

\* The link TRB is handed over, and tells the controller to toggle its cycle
\* state as the driver does.
IncrementEnqueue(r) ==
  IF r.index + 1 = LinkIndex
  THEN [r EXCEPT !.trb[LinkIndex].c = 1 - @, !.index = 0, !.cycle = 1 - @]
  ELSE [r EXCEPT !.index = @ + 1]

-----------------------------------------------------------------------------
(* The indices of the TRBs that are a consumer's at index i with cycle      *)
(* state c, one after the other and around the end of the ring.             *)

Finds(trb, i, c) ==
  LET mine(k) == trb[(i + k) % TRBCount].c = IF i + k < TRBCount THEN c ELSE 1 - c
      n == CHOOSE n \in 0 .. TRBCount :
             (\A k \in 0 .. n - 1 : mine(k)) /\ (n = TRBCount \/ ~mine(n))
  IN  [k \in 1 .. n |-> (i + k - 1) % TRBCount]

\* The indices without that of the link, which is there once at most.
WithoutLink(found) ==
  IF \E k \in DOMAIN found : found[k] = LinkIndex
  THEN LET link == CHOOSE k \in DOMAIN found : found[k] = LinkIndex
       IN  [k \in 1 .. Len(found) - 1 |-> found[IF k < link THEN k ELSE k + 1]]
  ELSE found
=============================================================================
