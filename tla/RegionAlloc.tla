----------------------------- MODULE RegionAlloc -----------------------------
(***************************************************************************)
(* What the region allocator promises (spec 4.1), over bits rather than   *)
(* words: the allocated bits are a set, a region of order o at pos is the *)
(* 2^o bits from pos.  find_free_region takes the first free region among *)
(* the positions 0, 2^o, 2^o*2, ...; allocate_region takes the given      *)
(* region if it is entirely free and otherwise fails with no effect;      *)
(* release_region clears the region unconditionally.  RegionBitmap is     *)
(* shown to implement this specification.                                  *)
(***************************************************************************)
EXTENDS Integers

CONSTANTS NumBits, Orders

VARIABLES used, ret

OutOfSpace == -12
Busy == -16

Region(pos, o) == pos .. pos + 2^o - 1

Candidates(o) == {p \in 0 .. NumBits - 1 : p % 2^o = 0 /\ p + 2^o <= NumBits}

FreeCandidates(o) == {p \in Candidates(o) : Region(p, o) \cap used = {}}

AInit == used = {} /\ ret = 0

AFindFree(o) ==
    IF FreeCandidates(o) = {} THEN ret' = OutOfSpace /\ UNCHANGED used
    ELSE LET p == CHOOSE p \in FreeCandidates(o) :
                      \A q \in FreeCandidates(o) : p <= q
         IN  used' = used \cup Region(p, o) /\ ret' = p

AAllocate(pos, o) ==
    IF Region(pos, o) \cap used # {} THEN ret' = Busy /\ UNCHANGED used
    ELSE used' = used \cup Region(pos, o) /\ ret' = 0

ARelease(pos, o) == used' = used \ Region(pos, o) /\ UNCHANGED ret

ANext == \E o \in Orders :
            \/ AFindFree(o)
            \/ \E pos \in 0 .. NumBits - 2^o : AAllocate(pos, o) \/ ARelease(pos, o)

ASpec == AInit /\ [][ANext]_<<used, ret>>

=============================================================================
