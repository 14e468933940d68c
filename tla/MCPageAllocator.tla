--------------------------- MODULE MCPageAllocator ---------------------------
(* Instance of PageAllocator for TLC: two pages, and two sections that a     *)
(* context has open at a time.                                               *)
EXTENDS PageAllocator
=============================================================================
