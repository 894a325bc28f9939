------------------------------- MODULE FileData -------------------------------
(***************************************************************************)
(* The data path of an ext2 regular file (ext2.c): file_fopen, file_fread,*)
(* file_fwrite and file_fseek of ext2_file_fops, and under them           *)
(* ext2_read_data, ext2_read_direct, ext2_read_indirect,                   *)
(* ext2_write_direct, ext2_alloc_inode and next_free_blkno.               *)
(*                                                                         *)
(* One file, created empty by icreate, is opened through the fds in Fds.  *)
(* isize, iblocks and iblock are its on-disk inode (i_size, i_blocks,     *)
(* i_block[]); bbm is the set of data blocks the block bitmap marks used; *)
(* data is the content of the data blocks.  fpos is each file_t's f_pos    *)
(* and osize the i_size of the dentry snapshot file_fopen copied into it.  *)
(* A byte is <<w, i>>, byte i of the buffer of the w-th write, or Junk.   *)
(* content is what the file holds by its contract: the bytes written, in  *)
(* a file whose size is the target size alloc_inode is given.  fret is    *)
(* the last read and its result.  Disk I/O never fails here.             *)
(***************************************************************************)
EXTENDS Integers, Sequences, FiniteSetsExt, SequencesExt

CONSTANTS
    BlockSize,   \* superblock.s_blocksize
    NDirect,     \* the 12 direct pointers read_data assumes
    NBlocks,     \* data blocks on the disk
    MaxSize,     \* bound on the file size a write may ask for
    MaxWrites,   \* bound on the number of writes
    Lens,        \* the nbytes a read or write may pass
    Offsets,     \* the offsets a seek may pass
    Huge,        \* a uint32 subtraction that wraps: more than any size
    Fds          \* the file_t objects open on the file

VARIABLES isize, iblocks, iblock, bbm, data, content, nwrites, fpos, osize, fret

fileVars == <<isize, iblocks, iblock, bbm, data, content, nwrites, fpos, osize, fret>>

\* i_block[] has 12 direct, one singly, one doubly and one triply indirect
\* pointer; no code bounds the index alloc_inode and write_direct use.
NPtr == NDirect + 3
Blocks == 1 .. NBlocks
Ptrs == 0 .. NPtr - 1
Junk == <<0, 0>>
Bytes == {Junk} \cup ((1 .. MaxWrites) \X (0 .. Max(Lens) - 1))

SEEK_SET == 1
SEEK_CUR == 2
SEEK_END == 3

ASSUME MaxSize <= NPtr * BlockSize /\ Huge > MaxSize

\* uint32 a - b of the copy loops.
USub(a, b) == IF a >= b THEN a - b ELSE Huge

(***************************************************************************)
(* The copy loop that ext2_read_direct, ext2_write_direct and             *)
(* ext2_read_indirect share: from block index k at byte off, with rmn     *)
(* bytes of file left and nb requested, each turn copies                   *)
(* min(nb, blocksize - off, rmn) bytes and stops when that equals rmn or  *)
(* nb.  A chunk is the block index, the offset in it, the length and the  *)
(* total copied before it.                                                  *)
(***************************************************************************)
RECURSIVE Chunks(_, _, _, _, _)
Chunks(k, off, rmn, nb, total) ==
    LET cpy == Min({nb, BlockSize - off, rmn})
        c == [k |-> k, off |-> off, len |-> cpy, at |-> total]
    IN  IF cpy = rmn \/ cpy = nb THEN <<c>>
        ELSE <<c>> \o Chunks(k + 1, 0, rmn - cpy, nb - cpy, total + cpy)

Copied(cs) == cs[Len(cs)].at + cs[Len(cs)].len

Ptr(p, k) == IF k \in DOMAIN p THEN p[k] ELSE 0

BlockByte(b, o) == IF b \in Blocks THEN data[b][o] ELSE Junk

(***************************************************************************)
(* buf after the chunks cs are copied from the blocks ptr names; chunk j  *)
(* lands at base + at when advancing, at base when not.  A later chunk    *)
(* overwrites an earlier one.                                              *)
(***************************************************************************)
CopyOut(buf, base, cs, ptr, advancing) ==
    LET dst(j) == base + (IF advancing THEN cs[j].at ELSE 0)
    IN  [i \in DOMAIN buf |->
           LET cov == {j \in DOMAIN cs : dst(j) <= i /\ i < dst(j) + cs[j].len}
           IN  IF cov = {} THEN buf[i]
               ELSE LET j == Max(cov)
                    IN  BlockByte(Ptr(ptr, cs[j].k), cs[j].off + i - dst(j))]

\* Mutant: every chunk copied to buf itself, as read_indirect does.
ReadDirectNoAdvance(off, nb, base, buf) ==
    LET cs == Chunks(off \div BlockSize, off % BlockSize, USub(isize, off), nb, 0)
    IN  [len |-> Copied(cs), buf |-> CopyOut(buf, base, cs, iblock, FALSE)]

\* ext2_read_direct: block pointers from i_block[], rmn from the start.
ReadDirect(off, nb, base, buf) ==
    LET cs == Chunks(off \div BlockSize, off % BlockSize, USub(isize, off), nb, 0)
    IN  [len |-> Copied(cs), buf |-> CopyOut(buf, base, cs, iblock, TRUE)]

\* ext2_read_indirect: pointers from the block i_block[12] names (idr),
\* rmn_size = i_size - 12 * blocksize - offset, every chunk copied to buf.
ReadIndirect(off, nb, base, buf, idr) ==
    LET io == off - NDirect * BlockSize
        cs == Chunks(io \div BlockSize, io % BlockSize,
                     USub(isize - NDirect * BlockSize, off), nb, 0)
    IN  [len |-> Copied(cs), buf |-> CopyOut(buf, base, cs, idr, FALSE)]

\* ext2_read_data: clip to i_size, then direct, indirect, or both halves
\* with the indirect half's count returned.
ReadData(off, n, idr) ==
    LET buf0 == [i \in 0 .. n - 1 |-> Junk]
        nb == IF off + n > isize THEN isize - off ELSE n
        edge == NDirect * BlockSize
    IN  IF off >= isize THEN [len |-> 0, buf |-> buf0]
        ELSE IF off + nb <= edge THEN ReadDirect(off, nb, 0, buf0)
        ELSE IF off >= edge THEN ReadIndirect(off, nb, 0, buf0, idr)
        ELSE LET d == ReadDirect(off, edge - off, 0, buf0)
             IN  ReadIndirect(edge, nb - (edge - off), edge - off, d.buf, idr)

\* The pointers of the indirect block are file bytes read as block numbers:
\* any block, or one outside the disk.
IdrTables == [0 .. 2 -> {0} \cup Blocks]

\* fret after any call but a read or a seek.
NoRead == [call |-> "none"]

BlocksFor(sz) == (sz + BlockSize - 1) \div BlockSize

\* Mutant: next_free_blkno does not write the bitmap back; every call of
\* one alloc_inode gets the same block.
NextFreeBlknosNoSet(k) == [i \in 1 .. k |-> Min(Blocks \ bbm)]

\* The first k blocks next_free_blkno hands out: the lowest free bit each
\* time, set before the next call.
NextFreeBlknos(k) == SubSeq(SetToSortSeq(Blocks \ bbm, <), 1, k)

(***************************************************************************)
(* parse_path found the file: f_dentry is a copy of its dentry, with the  *)
(* inode as it is on disk now, and f_pos is 0.                             *)
(***************************************************************************)
FOpen(f) ==
    /\ fpos' = [fpos EXCEPT ![f] = 0]
    /\ osize' = [osize EXCEPT ![f] = isize]
    /\ fret' = NoRead
    /\ UNCHANGED <<isize, iblocks, iblock, bbm, data, content, nwrites>>

(***************************************************************************)
(* file_fread: read the inode from disk, ext2_read_data at f_pos, advance *)
(* f_pos by the count it returns.                                          *)
(***************************************************************************)
FRead(f, n) ==
    LET idrs == IF isize > NDirect * BlockSize /\ fpos[f] + n > NDirect * BlockSize
                THEN IdrTables ELSE {[k \in 0 .. 2 |-> 0]}
    IN  \E idr \in idrs :
          LET r == ReadData(fpos[f], n, idr)
          IN  /\ fpos' = [fpos EXCEPT ![f] = @ + r.len]
              /\ fret' = [call |-> "read", fd |-> f, pos |-> fpos[f], n |-> n,
                          len |-> r.len, buf |-> r.buf]
              /\ UNCHANGED <<isize, iblocks, iblock, bbm, data, content, nwrites, osize>>

(***************************************************************************)
(* ext2_alloc_inode(ino, inode, fsize): i_size and i_blocks become the    *)
(* target; the inode bit is already set, so i_block[] is filled with     *)
(* next_free_blkno from the old i_blocks up.  The new inode, and the      *)
(* blocks handed out.                                                      *)
(***************************************************************************)
AllocInode(fsize) ==
    LET blocks == BlocksFor(fsize)
        need == IF blocks > iblocks THEN blocks - iblocks ELSE 0
        new == NextFreeBlknos(need)
    IN  [size |-> fsize, blocks |-> blocks, new |-> ToSet(new),
         ptr |-> [j \in Ptrs |-> IF iblocks <= j /\ j < blocks
                                THEN new[j - iblocks + 1] ELSE iblock[j]]]

(***************************************************************************)
(* ext2_write_direct(inode, offset, buf, n) with rmn_size = i_size -      *)
(* offset: byte i of the w-th write's buffer lands at offset + i through  *)
(* the new inode's pointers ptr, whatever their index.                     *)
(***************************************************************************)
WriteDirect(ptr, size, off, n, w) ==
    LET cs == Chunks(off \div BlockSize, off % BlockSize, USub(size, off), n, 0)
        lands(b, o) == {j \in DOMAIN cs : /\ Ptr(ptr, cs[j].k) = b
                                          /\ cs[j].off <= o /\ o < cs[j].off + cs[j].len}
    IN  [b \in Blocks |-> [o \in 0 .. BlockSize - 1 |->
           IF lands(b, o) = {} THEN data[b][o]
           ELSE LET j == Max(lands(b, o)) IN <<w, cs[j].at + o - cs[j].off>>]]

(***************************************************************************)
(* file_fwrite: ext2_alloc_inode to f_pos + nbytes, ext2_write_direct at  *)
(* f_pos, f_pos advanced by nbytes, and 0 returned.  Writes are bounded   *)
(* by MaxWrites and MaxSize, and by the free blocks: running out is the   *)
(* Ext2 module's AllocInodeRunsOut.                                         *)
(***************************************************************************)
FWrite(f, n) ==
    LET pos == fpos[f]
        ino == AllocInode(pos + n)
        w == nwrites + 1
    IN  /\ nwrites < MaxWrites
        /\ ino.size <= MaxSize
        /\ ino.blocks - iblocks <= Cardinality(Blocks \ bbm)
        /\ isize' = ino.size
        /\ iblocks' = ino.blocks
        /\ iblock' = ino.ptr
        /\ bbm' = bbm \cup ino.new
        /\ data' = WriteDirect(ino.ptr, ino.size, pos, n, w)
        /\ content' = [p \in 1 .. ino.size |->
                         IF p > pos THEN <<w, p - 1 - pos>>
                         ELSE IF p <= Len(content) THEN content[p] ELSE Junk]
        /\ nwrites' = w
        /\ fpos' = [fpos EXCEPT ![f] = pos + n]
        /\ fret' = NoRead
        /\ UNCHANGED osize

(***************************************************************************)
(* file_fseek: the base is 0, the uninitialised local pos (SEEK_CUR: any  *)
(* value, so any target or a failure), or the i_size of the dentry        *)
(* snapshot; the target must lie in 0 .. that snapshot's i_size.  An      *)
(* unknown whence returns -1.  fret records the call and its result.      *)
(***************************************************************************)
FSeek(f, off, wh) ==
    LET ok(t) == 0 <= t /\ t <= osize[f]
        targets == CASE wh = SEEK_SET -> {off}
                     [] wh = SEEK_CUR -> {-1} \cup (0 .. osize[f])
                     [] wh = SEEK_END -> {osize[f] + off}
                     [] OTHER -> {-1}
    IN  \E t \in targets :
          /\ fpos' = IF ok(t) THEN [fpos EXCEPT ![f] = t] ELSE fpos
          /\ fret' = [call |-> "seek", fd |-> f, off |-> off, wh |-> wh,
                      pos |-> fpos[f], size |-> isize,
                      ret |-> IF ok(t) THEN 0 ELSE -1]
          /\ UNCHANGED <<isize, iblocks, iblock, bbm, data, content, nwrites, osize>>

(***************************************************************************)
(* icreate made the file: size 0, no blocks.  i_block[] is stack garbage  *)
(* there, but nothing reads an entry before alloc_inode writes it.        *)
(***************************************************************************)
Init ==
    /\ isize = 0
    /\ iblocks = 0
    /\ iblock = [k \in Ptrs |-> 0]
    /\ bbm = {}
    /\ data = [b \in Blocks |-> [o \in 0 .. BlockSize - 1 |-> Junk]]
    /\ content = <<>>
    /\ nwrites = 0
    /\ fpos = [f \in Fds |-> 0]
    /\ osize = [f \in Fds |-> 0]
    /\ fret = NoRead

Next ==
    \E f \in Fds :
        \/ FOpen(f)
        \/ \E n \in Lens : FRead(f, n) \/ FWrite(f, n)
        \/ \E off \in Offsets, wh \in {SEEK_SET, SEEK_CUR, SEEK_END, 0} : FSeek(f, off, wh)

Spec == Init /\ [][Next]_fileVars

-----------------------------------------------------------------------------

TypeOK ==
    /\ isize \in 0 .. MaxSize
    /\ iblocks = BlocksFor(isize)
    /\ iblock \in [Ptrs -> {0} \cup Blocks]
    /\ bbm \subseteq Blocks
    /\ data \in [Blocks -> [0 .. BlockSize - 1 -> Bytes]]
    /\ content \in Seq(Bytes) /\ Len(content) = isize
    /\ fpos \in [Fds -> Nat] /\ osize \in [Fds -> 0 .. MaxSize]
    /\ fret.call \in {"none", "read", "seek"}

(***************************************************************************)
(* The blocks the inode names are the file's own: i_block[0 .. i_blocks-1]*)
(* are distinct blocks the bitmap marks used.  It rests on alloc_inode    *)
(* starting at the old i_blocks and on next_free_blkno setting each bit   *)
(* before the next call; were two entries one block, one write would      *)
(* show through the other.                                                  *)
(***************************************************************************)
FileBlocksOwned ==
    \A j \in 0 .. iblocks - 1 :
        /\ iblock[j] \in bbm
        /\ \A k \in 0 .. iblocks - 1 : j # k => iblock[j] # iblock[k]

(***************************************************************************)
(* A file_fread returns the file's bytes: as many as the request and the  *)
(* size allow, each the byte last written at that position (spec §8's     *)
(* read/write round trip, at any offset and after any writes).  A byte    *)
(* the contract leaves open, in a gap a write skipped, may be anything.   *)
(***************************************************************************)
FileReadReturnsData ==
    fret.call = "read" =>
        LET want == IF fret.pos >= Len(content) THEN 0
                    ELSE Min({fret.n, Len(content) - fret.pos})
        IN  /\ fret.len = want
            /\ \A i \in 0 .. want - 1 :
                  content[fret.pos + i + 1] \in {Junk, fret.buf[i]}
=============================================================================
