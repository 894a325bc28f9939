------------------------------- MODULE MCHeap -------------------------------
(***************************************************************************)
(* Eight pages of 8 bytes in two 4-bit words; MAX_HEAP_ENTRY is BITS_LONG *)
(* pages, as in the build.  The sizes give: 0 and 40 (refused), 4 (one     *)
(* page exactly with the header), 5 (two pages), 13 (three pages, order   *)
(* 2) and 32 (accepted, but five pages with the header: order 3, the      *)
(* whole heap, spanning both words).                                       *)
(***************************************************************************)
EXTENDS Heap

MCSizes == {0, 4, 5, 13, 32, 40}

=============================================================================
