---------------------------- MODULE RegionBitmap ----------------------------
(***************************************************************************)
(* The region allocator of bitmap.c as a library: one map of NWords words *)
(* and the three calls that change it, each one atomic step.  Callers     *)
(* pass orders from Orders and, to allocate_region and release_region,    *)
(* positions from AllocPos(order).                                         *)
(***************************************************************************)
EXTENDS Bitmap

CONSTANTS NWords, Orders, AllocPos(_)

VARIABLES bm, ret

vars == <<bm, ret>>

NumBits == BitsLong * NWords

\* The callers of find_free_region pass a num_bits that every region size
\* divides (HEAP_ENTRY = 1024, s_blocksize * 4), so the scan stops at it.
ASSUME \A o \in Orders : NumBits % 2^o = 0

\* bitmap_clear of heap_init
Init == bm = [k \in 0 .. NWords - 1 |-> 0] /\ ret = 0

FindFree(o) ==
    LET r == FindFreeRegion(bm, NumBits, o) IN bm' = r.map /\ ret' = r.ret

Allocate(pos, o) ==
    LET r == AllocateRegion(bm, pos, o) IN bm' = r.map /\ ret' = r.ret

Release(pos, o) == bm' = ReleaseRegion(bm, pos, o) /\ UNCHANGED ret

Next == \E o \in Orders :
            \/ FindFree(o)
            \/ \E pos \in AllocPos(o) : Allocate(pos, o) \/ Release(pos, o)

Spec == Init /\ [][Next]_vars

-----------------------------------------------------------------------------
TypeOK == bm \in [0 .. NWords - 1 -> 0 .. WordMax - 1] /\ ret \in Int

Abs == INSTANCE RegionAlloc WITH used <- SetBits(bm, NumBits)

(***************************************************************************)
(* The word-level map implements the allocator of spec 4.1: every call of *)
(* find_free_region, allocate_region and release_region changes the set   *)
(* of set bits, and returns, exactly as the bit-level contract says.  This*)
(* covers the masks of _reg_op, the words a region spans when it is wider *)
(* than a word, and the stride of the scan; for order 0 it is the "lowest *)
(* clear bit" that Ext2 assumes of next_free_ino and next_free_blkno.     *)
(***************************************************************************)
RefinesRegionAlloc == Abs!ASpec

=============================================================================
