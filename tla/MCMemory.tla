------------------------------ MODULE MCMemory ------------------------------
(* Instances of Memory for TLC.  Bytes come in units of 8: a header has two *)
(* of them, blocks are aligned to two, addresses wrap around at 64.  A      *)
(* header holds every size that fits in a heap: the high heap is smaller    *)
(* than 4 GB.                                                               *)
EXTENDS Memory

MCBase == [h \in Heap |-> IF h = "low" THEN 2 ELSE 32]
MCLimit == [h \in Heap |-> IF h = "low" THEN 16 ELSE 50]
MCBuckets == {2, 4}

\* A size of each bucket, two that no bucket holds and one that wraps the
\* address of the high heap.
MCAsked == {1, 3, 7, 10, 40}
=============================================================================
