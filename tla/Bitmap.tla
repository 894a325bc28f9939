------------------------------- MODULE Bitmap -------------------------------
(***************************************************************************)
(* The word-level operations of the region allocator in bitmap.c, as pure *)
(* operators on a bitmap value.  A bitmap is a function from word indices *)
(* to words, a word being a number in 0 .. 2^BitsLong - 1 (BITS_LONG in    *)
(* system.h; 32 in the build, a smaller width in the models).  RegionBitmap *)
(* and Heap use these operators as the state changes of their actions.    *)
(***************************************************************************)
EXTENDS Integers, Bitwise

CONSTANT BitsLong

ASSUME BitsLong \in Nat \ {0}

ENOMEM == 12
EBUSY == 16

WordMax == 2^BitsLong

\* entry_offset and BIT_OFFSET of bitmap.h
EntryOffset(pos) == pos \div BitsLong
BitOffset(pos) == pos % BitsLong

\* bitmap_query_bit: bit i of the map is set.
QueryBit(b, i) == (b[EntryOffset(i)] \div 2^BitOffset(i)) % 2 = 1

\* The set bits among the first numBits, what an abstract allocator sees.
SetBits(b, numBits) == {i \in 0 .. numBits - 1 : QueryBit(b, i)}

(***************************************************************************)
(* _reg_op.  The region of 2^order bits at pos covers BITS_TO_LONG(2^order)*)
(* words from entry_offset(pos); in each of them it uses the same mask:   *)
(* min(2^order, BITS_LONG) low ones, shifted by BIT_OFFSET(pos) and cut   *)
(* to the word (the C shift drops the bits above bit 31).                  *)
(***************************************************************************)
\* Mutant: BITS_TO_LONG without the round-up, no word for a short region.
EntriesTruncated(order) == 2^order \div BitsLong

Entries(order) == (2^order + BitsLong - 1) \div BitsLong

NumBitsEntry(order) == IF 2^order < BitsLong THEN 2^order ELSE BitsLong

BitMask(pos, order) == ((2^NumBitsEntry(order) - 1) * 2^BitOffset(pos)) % WordMax

RegWords(pos, order) == {EntryOffset(pos) + i : i \in 0 .. Entries(order) - 1}

\* REG_OP_ISFREE: no word of the region has a bit of the mask set.
RegIsFree(b, pos, order) ==
    \A k \in RegWords(pos, order) : (b[k] & BitMask(pos, order)) = 0

\* REG_OP_ALLOC: bitmap[index + i] |= bitmask.
RegAlloc(b, pos, order) ==
    [k \in DOMAIN b |-> IF k \in RegWords(pos, order)
                        THEN b[k] | BitMask(pos, order) ELSE b[k]]

\* Mutant: the bits cleared by subtracting the mask.
RegReleaseSubtract(b, pos, order) ==
    [k \in DOMAIN b |-> IF k \in RegWords(pos, order)
                        THEN b[k] - BitMask(pos, order) ELSE b[k]]

\* REG_OP_RELEASE: bitmap[index + i] &= ~bitmask.
RegRelease(b, pos, order) ==
    [k \in DOMAIN b |-> IF k \in RegWords(pos, order)
                        THEN b[k] & (WordMax - 1 - BitMask(pos, order)) ELSE b[k]]

(***************************************************************************)
(* find_free_region: the loop tries pos = 0, 2^order, ... while pos <     *)
(* num_bits and stops at the first free region.  The result is the bit   *)
(* index and the map with the region set, or -ENOMEM and the map as it   *)
(* was.                                                                    *)
(***************************************************************************)
RECURSIVE FreeScan(_, _, _, _)
FreeScan(b, numBits, order, pos) ==
    IF pos >= numBits \/ RegIsFree(b, pos, order) THEN pos
    ELSE FreeScan(b, numBits, order, pos + 2^order)

FindFreeRegion(b, numBits, order) ==
    LET pos == FreeScan(b, numBits, order, 0)
    IN  IF pos = numBits THEN [ret |-> -ENOMEM, map |-> b]
        ELSE [ret |-> pos, map |-> RegAlloc(b, pos, order)]

\* allocate_region: -EBUSY without a write if the region is not free.
AllocateRegion(b, pos, order) ==
    IF ~RegIsFree(b, pos, order) THEN [ret |-> -EBUSY, map |-> b]
    ELSE [ret |-> 0, map |-> RegAlloc(b, pos, order)]

\* release_region
ReleaseRegion(b, pos, order) == RegRelease(b, pos, order)

=============================================================================
