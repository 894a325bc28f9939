--------------------------- MODULE MCRegionBitmap ---------------------------
(***************************************************************************)
(* Two 4-bit words: orders 0 to 2 stay inside a word, order 3 spans both.  *)
(***************************************************************************)
EXTENDS RegionBitmap

\* Positions as the comment of _reg_op requires them: aligned to 2^order.
MCAlignedPos(o) == {p \in 0 .. NumBits - 2^o : p % 2^o = 0}

\* Any position whose words are inside the map, as the spec's glossary
\* ("a possibly unaligned run of bits") allows.
MCAnyPos(o) == {p \in 0 .. NumBits - 2^o :
                    EntryOffset(p) + Entries(o) <= NWords}

=============================================================================
