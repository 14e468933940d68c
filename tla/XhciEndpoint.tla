----------------------------- MODULE XhciEndpoint -----------------------------
(***************************************************************************)
(* CXHCIEndpoint: one request at a time on a transfer ring.  A request of  *)
(* Transfer lies on the stack of the caller, who polls until its           *)
(* completion routine has run, and gives up after a second; a request of   *)
(* TransferAsync lies on the heap until its completion routine frees it.   *)
(*                                                                         *)
(* An endpoint is a record:                                                *)
(*   urb        m_pURB: there is none, it is "live", or it is "stale" and  *)
(*              points to a stack frame that has been left                 *)
(*   completed  m_bTransferCompleted                                       *)
(*   tds        what the controller finds on the ring (module XhciRing     *)
(*              says why this is a queue)                                  *)
(*   running    the doorbell has rung, and there was work since            *)
(*   dead       the controller has stopped the endpoint after an error;    *)
(*              no code here resets it                                     *)
(***************************************************************************)
EXTENDS Naturals, Sequences

NewEndpoint == [urb |-> "none", completed |-> TRUE, tds |-> <<>>, running |-> FALSE, dead |-> FALSE]

\* Transfer: up to TransferAsync.
MayTransfer(ep) == ep.completed
Begin(ep) == [ep EXCEPT !.completed = FALSE]

\* TransferAsync: first the TRBs, then the request and the doorbell.
Enqueue(ep, td) == [ep EXCEPT !.tds = Append(@, td)]
MaySubmit(ep) == ep.urb = "none"
Submit(ep) == [ep EXCEPT !.urb = "live", !.running = TRUE]

\* Transfer: after the polling.  The request goes out of scope.
Leave(ep) == [ep EXCEPT !.completed = TRUE, !.urb = IF @ = "live" THEN "stale" ELSE @]

BugLet(ep) == ep

\* TransferEvent: the request is let go before its completion routine runs.
MayEnd(ep) == ep.urb # "none"
Let(ep) == [ep EXCEPT !.urb = "none"]

\* CompletionRoutine, that of Transfer.
MayComplete(ep) == ~ep.completed
Complete(ep) == [ep EXCEPT !.completed = TRUE]

-----------------------------------------------------------------------------
(* The controller: it goes on until it finds nothing more.                  *)

Works(ep) == ep.running /\ ~ep.dead /\ ep.tds # <<>>
Done(ep) == [ep EXCEPT !.tds = Tail(@), !.running = Len(ep.tds) > 1]
Broken(ep) == [Done(ep) EXCEPT !.dead = TRUE]
=============================================================================
