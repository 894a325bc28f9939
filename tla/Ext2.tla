-------------------------------- MODULE Ext2 --------------------------------
(***************************************************************************)
(* The on-disk filesystem driver of src/src/ext2.c: the inode and block    *)
(* bitmaps, the inode table and the variable-length directory records,    *)
(* and the inode operations create, mkdir and remove and the regular-file *)
(* write that change them.                                                 *)
(*                                                                         *)
(* Every public operation is run to completion: the system-call gate is   *)
(* an interrupt gate (idt.c leaves reserved3 = 0), so no other process    *)
(* runs inside a filesystem call, and one step of this specification is   *)
(* one whole call.  The disk is one record `disk`; each operation is a    *)
(* composition of the writes the C code issues, in the order it issues   *)
(* them, so that a fault part-way through leaves exactly the writes made  *)
(* before it.                                                              *)
(*                                                                         *)
(* A directory block is kept at record granularity: a function from the   *)
(* 4-byte aligned offsets of the block to the directory-record header     *)
(* stored there.  Scans follow rec_len from offset 0 exactly as the C      *)
(* loops do, so a header left behind by a merge stays on disk but is not  *)
(* visited.  File contents are not modelled, only sizes and block lists.  *)
(***************************************************************************)
EXTENDS Integers, SequencesExt

CONSTANTS
    BlockSize,     \* superblock.s_blocksize (1024 in ext2_init, scaled down)
    NDirect,       \* number of direct block pointers in i_block (12)
    NInodes,       \* inode numbers are 1..NInodes
    NBlocks,       \* block numbers are 1..NBlocks
    RootIno,       \* EXT2_ROOT_INO
    Names,         \* file names a caller may pass (strings)
    UserNameLen,   \* strlen of each of Names
    JunkName,      \* name bytes of an uninitialised record header
    WriteLens,     \* byte counts a write may pass
    InitDisk,      \* the mounted image
    InodesPerGroup, \* ext2_sb->s_inodes_per_group
    BlocksPerGroup, \* ext2_sb->s_blocks_per_group
    InodeSize,     \* ext2_sb->s_inode_size, set by the image
    SizeofInode    \* sizeof(ext2_inode_t): 128 bytes, scaled like BlockSize

ASSUME BlockSize % 4 = 0 /\ BlockSize >= 24
ASSUME RootIno \in 1..NInodes

Inos == 1..NInodes
Blks == 1..NBlocks
Offs == {o \in 0..(BlockSize - 1) : o % 4 = 0}

\* Directory-record file types (EXT2_FT_*) and inode modes (i_mode >> 12).
FT_UNKNOWN == 0
FT_REG == 1
FT_DIR == 2
Modes == {"dir", "reg", "free"}

AllNames == Names \cup {".", "..", "", JunkName}

NameLen(n) ==
    CASE n = "."  -> 1
      [] n = ".." -> 2
      [] n = ""   -> 0
      [] n = JunkName -> 4
      [] OTHER    -> UserNameLen[n]

\* The name length rounded up to 4 bytes (ext2_insert_dentry).
Pad4(len) == IF len % 4 = 0 THEN len ELSE len + 4 - (len % 4)

\* A record header: inode, rec_len, name (name_len is NameLen(name)), type.
Rec == [ino : Inos \cup {0}, rec_len : 0..BlockSize, name : AllNames,
        ft : {FT_UNKNOWN, FT_REG, FT_DIR}]

\* Zero bytes read as a header: file type EXT2_FT_UNKNOWN ends every scan.
ZeroRec == [ino |-> 0, rec_len |-> 0, name |-> "", ft |-> FT_UNKNOWN]

\* Headers made of stack bytes that are not zero (see MkdirTail): one of
\* known type whose rec_len reaches the block end, one of unknown type
\* with a name, and one of known type whose rec_len runs past the block.
JunkRec == [ino |-> 0, rec_len |-> BlockSize - 24, name |-> JunkName,
            ft |-> FT_REG]

UnknownJunkRec == [ino |-> 0, rec_len |-> 12, name |-> JunkName,
                   ft |-> FT_UNKNOWN]

OverrunRec == [ino |-> 0, rec_len |-> BlockSize, name |-> JunkName,
               ft |-> FT_REG]

Inode == [i_mode : Modes, i_size : Nat, i_block : Seq(Blks)]

FreeInode == [i_mode |-> "free", i_size |-> 0, i_block |-> << >>]

VARIABLES
    disk,   \* [ibm, bbm, inode, dblk]: bitmaps as sets of used numbers
    op,     \* the call of the last step and its arguments
    ret     \* what it returned: "ok" (0), "err" (-1) or "fault"

vars == <<disk, op, ret>>

-----------------------------------------------------------------------------
(***************************************************************************)
(* Reading the disk.  s is a disk value.                                   *)
(***************************************************************************)
IsDir(s, i) == s.inode[i].i_mode = "dir"

NBlk(s, i) == Len(s.inode[i].i_block)

\* i_block[k], 0-based as in the C code.
BlkOf(s, i, k) == s.inode[i].i_block[k + 1]

RecAt(s, i, k, o) == s.dblk[BlkOf(s, i, k)][o]

(***************************************************************************)
(* The positions [k, off] of the records a by-name scan visits in the     *)
(* directory d: from offset 0 of block 0, step by rec_len, move to the    *)
(* next block when the offset reaches the block size, stop at a header of *)
(* type EXT2_FT_UNKNOWN or after the last block.  A header of known type  *)
(* with rec_len 0 would make the C loop spin; the scan stops there.       *)
(***************************************************************************)
RECURSIVE ScanFrom(_, _, _, _)
ScanFrom(s, d, k, o) ==
    IF o >= BlockSize
    THEN IF k + 1 >= NBlk(s, d) THEN << >> ELSE ScanFrom(s, d, k + 1, 0)
    ELSE LET r == RecAt(s, d, k, o) IN
         IF r.ft = FT_UNKNOWN \/ r.rec_len = 0 THEN << >>
         ELSE << [k |-> k, off |-> o] >> \o ScanFrom(s, d, k, o + r.rec_len)

Scan(s, d) == IF NBlk(s, d) = 0 THEN << >> ELSE ScanFrom(s, d, 0, 0)

RecOf(s, d, p) == RecAt(s, d, p.k, p.off)

\* Index in Scan(s, d) of the first record named n, 0 if there is none.
FindIdx(s, d, n) == SelectInSeq(Scan(s, d), LAMBDA p : RecOf(s, d, p).name = n)

\* Mutant: the scan gives up at the end of the first block.
ReadDentryByNameFirstBlock(s, d, n) ==
    IF ~IsDir(s, d) THEN -1
    ELSE IF \E j \in 1..Len(Scan(s, d)) : Scan(s, d)[j].k = 0 /\
                                          RecOf(s, d, Scan(s, d)[j]).name = n
         THEN 1 ELSE 0

\* ext2_read_dentry_by_name: -1 if d is no directory, 0 if n is absent,
\* positive if found.
ReadDentryByName(s, d, n) ==
    IF ~IsDir(s, d) THEN -1 ELSE IF FindIdx(s, d, n) = 0 THEN 0 ELSE 1

\* The records of d a scan visits, "." and ".." included.
Entries(s, d) == {RecOf(s, d, Scan(s, d)[j]) : j \in 1..Len(Scan(s, d))}

\* Inodes named by the entries of d other than ".", ".." and garbage.
Children(s, d) == {r.ino : r \in {e \in Entries(s, d) :
                                   e.name \notin {".", "..", JunkName}}}

RECURSIVE ReachFrom(_, _)
ReachFrom(s, S) ==
    LET S2 == S \cup UNION {Children(s, d) : d \in {x \in S : IsDir(s, x)}}
    IN IF S2 = S THEN S ELSE ReachFrom(s, S2)

\* The inodes path resolution can reach from the root.
Reachable(s) == ReachFrom(s, {RootIno})

(***************************************************************************)
(* Allocation (next_free_ino, next_free_blkno, ino_try_set, release_ino,  *)
(* release_blkno).                                                        *)
(* find_free_region with order 0 returns the lowest clear bit; bit b      *)
(* stands for number b + 1.                                                *)
(***************************************************************************)
NextFreeIno(s) == Min(Inos \ s.ibm)

\* Mutant: the bit index returned without the + 1.
NextFreeBlknoNoInc(s) == Min(Blks \ s.bbm) - 1

NextFreeBlkno(s) == Min(Blks \ s.bbm)

\* The m block numbers m successive next_free_blkno calls return.
RECURSIVE FreeBlknos(_, _)
FreeBlknos(s, m) ==
    IF m = 0 THEN << >>
    ELSE << NextFreeBlkno(s) >> \o
         FreeBlknos([s EXCEPT !.bbm = @ \cup {NextFreeBlkno(s)}], m - 1)

\* release_ino / release_blkno call bitmap_set_bit on the bit.
\* ino_exist: inode 0 never exists, else its bit in the inode bitmap.
InoExist(s, ino) == ino # 0 /\ ino \in s.ibm

(***************************************************************************)
(* Where ext2_access_inode reads or writes inode ino (when InoExist): the *)
(* block group, the block whose first descriptor it reads as the group's  *)
(* (s_blocks_per_group * bgno + 2), the block within the group's inode    *)
(* table, and the byte offset in that block; it copies sizeof(ext2_inode_t)*)
(* bytes.  The inodes per block come from s_inode_size, the offset from   *)
(* sizeof(ext2_inode_t).                                                   *)
(***************************************************************************)
\* Mutant: the offset taken from the index in the group, not in the block.
InodeSlotNoMod(ino) ==
    LET iidx == (ino - 1) % InodesPerGroup
        bgno == (ino - 1) \div InodesPerGroup
    IN  [bg |-> bgno, desc |-> BlocksPerGroup * bgno + 2,
         blk |-> iidx \div (BlockSize \div InodeSize), off |-> iidx * SizeofInode]

InodeSlot(ino) ==
    LET iidx == (ino - 1) % InodesPerGroup
        bgno == (ino - 1) \div InodesPerGroup
        perBlk == BlockSize \div InodeSize
    IN  [bg |-> bgno, desc |-> BlocksPerGroup * bgno + 2,
         blk |-> iidx \div perBlk, off |-> (iidx % perBlk) * SizeofInode]

ReleaseIno(s, i) == [s EXCEPT !.ibm = @ \cup {i}]

ReleaseBlkno(s, b) == [s EXCEPT !.bbm = @ \cup {b}]

BlocksFor(fsize) == (fsize + BlockSize - 1) \div BlockSize

(***************************************************************************)
(* ext2_alloc_inode(ino, inode, fsize): claim the inode number if it is   *)
(* clear (then start filling i_block from 0, else from i_blocks), set     *)
(* i_size and i_blocks, take one block per missing slot and write the     *)
(* inode.  AllocInodeFits says every next_free_blkno call finds a block.  *)
(***************************************************************************)
AllocStart(s, i, in) == IF i \in s.ibm THEN Len(in.i_block) ELSE 0

AllocNeed(s, i, in, fsize) ==
    LET n == BlocksFor(fsize) - AllocStart(s, i, in) IN IF n > 0 THEN n ELSE 0

AllocInodeFits(s, i, in, fsize) ==
    AllocNeed(s, i, in, fsize) <= Cardinality(Blks \ s.bbm)

AllocInode(s, i, in, fsize) ==
    LET start == AllocStart(s, i, in)
        blocks == BlocksFor(fsize)
        new == FreeBlknos(s, AllocNeed(s, i, in, fsize))
        keep == SubSeq(in.i_block, 1, IF start < blocks THEN start ELSE blocks)
    IN [s EXCEPT !.ibm = @ \cup {i},
                 !.bbm = @ \cup ToSet(new),
                 !.inode[i] = [i_mode |-> in.i_mode, i_size |-> fsize,
                               i_block |-> keep \o new]]

\* The same call when the blocks run out: every free block is taken and
\* the failing next_free_blkno faults (see NoFreeFaults); the inode is not
\* written.
AllocInodeRunsOut(s, i) ==
    [s EXCEPT !.ibm = @ \cup {i}, !.bbm = Blks]

-----------------------------------------------------------------------------
(***************************************************************************)
(* ext2_insert_dentry: where the walk for a record named n stops.          *)
(*   "split":    a record with rec_len > its padded size + 8 + the new    *)
(*               padded size + 8; it keeps prev bytes, the new record      *)
(*               takes the rest;                                            *)
(*   "sentinel": a header of type EXT2_FT_UNKNOWN at off;                  *)
(*   "newblock": the offset ran past the last block: a block is added.    *)
(***************************************************************************)
RECURSIVE InsWalk(_, _, _, _, _)
InsWalk(s, d, n, k, o) ==
    IF o >= BlockSize
    THEN IF k + 1 >= NBlk(s, d)
         THEN [kind |-> "newblock", k |-> k + 1, off |-> 0, prev |-> 0]
         ELSE InsWalk(s, d, n, k + 1, 0)
    ELSE LET r == RecAt(s, d, k, o)
             last == Pad4(NameLen(r.name))
         IN IF r.ft = FT_UNKNOWN
            THEN [kind |-> "sentinel", k |-> k, off |-> o, prev |-> 0]
            ELSE IF r.rec_len > last + 8 + Pad4(NameLen(n)) + 8
            THEN [kind |-> "split", k |-> k, off |-> o, prev |-> last + 8]
            ELSE InsWalk(s, d, n, k, o + r.rec_len)

InsertWalk(s, d, n) == InsWalk(s, d, n, 0, 0)

FtOf(mode) == IF mode = "dir" THEN FT_DIR ELSE FT_REG

(***************************************************************************)
(* The record write of ext2_insert_dentry into block b at w.off: the      *)
(* current record is cut to w.prev bytes and the new one, for inode i,    *)
(* takes the rest of its rec_len.  prevLen is the rec_len the current     *)
(* record had after the walk (BlockSize - off at a sentinel or in a fresh *)
(* block, whose header is first given that length).                       *)
(***************************************************************************)
\* Mutant: the new record's length with the subtraction reversed.
WriteNewRecSwapped(s, b, w, prevLen, i, n, mode) ==
    LET cur == s.dblk[b][w.off]
        blk1 == [s.dblk[b] EXCEPT ![w.off] = [cur EXCEPT !.rec_len = w.prev]]
    IN [s EXCEPT !.dblk[b] =
          [blk1 EXCEPT ![w.off + w.prev] =
              [ino |-> i, rec_len |-> w.prev - prevLen, name |-> n,
               ft |-> FtOf(mode)]]]

WriteNewRec(s, b, w, prevLen, i, n, mode) ==
    LET cur == s.dblk[b][w.off]
        blk1 == [s.dblk[b] EXCEPT ![w.off] = [cur EXCEPT !.rec_len = w.prev]]
    IN [s EXCEPT !.dblk[b] =
          [blk1 EXCEPT ![w.off + w.prev] =
              [ino |-> i, rec_len |-> prevLen - w.prev, name |-> n,
               ft |-> FtOf(mode)]]]

(***************************************************************************)
(* The insert of n into d does not complete: either d has no block (a     *)
(* mkdir that faulted after its insert leaves such a directory, whose     *)
(* i_block[0] is a stack word the walk reads as a block number: undefined *)
(* behaviour, recorded as a fault), or the walk needs a new block and     *)
(* next_free_blkno faults before any write.                                *)
(***************************************************************************)
InsertFails(s, d, n) ==
    IF NBlk(s, d) = 0 THEN TRUE
    ELSE InsertWalk(s, d, n).kind = "newblock" /\ Blks \ s.bbm = {}

(***************************************************************************)
(* The whole of ext2_insert_dentry for a new entry n -> i of mode `mode`. *)
(* In the "newblock" case ext2_alloc_iblock takes a block and the record  *)
(* is written to it, but only the caller's copy of the directory inode    *)
(* learns of the block: the function never writes the directory inode.   *)
(* It ends with ext2_alloc_inode(i, {mode, size 0, blocks 0}, 0).         *)
(***************************************************************************)
InsertDentry(s, d, n, i, mode) ==
    LET w == InsertWalk(s, d, n)
        nb == NextFreeBlkno(s)
        s1 == IF w.kind = "newblock"
              THEN WriteNewRec([s EXCEPT !.bbm = @ \cup {nb}], nb, w,
                               BlockSize, i, n, mode)
              ELSE LET b == BlkOf(s, d, w.k)
                       len == IF w.kind = "sentinel"
                              THEN BlockSize - w.off
                              ELSE RecAt(s, d, w.k, w.off).rec_len
                   IN WriteNewRec(s, b, w, len, i, n, mode)
    IN AllocInode(s1, i, [i_mode |-> mode, i_size |-> 0, i_block |-> << >>], 0)

-----------------------------------------------------------------------------
(***************************************************************************)
(* ext2_read_dentry_by_index(2, rm_dir, 0) as ext2_remove_dentry calls it: *)
(* step over three records, crossing to the next block at each block end;  *)
(* if the blocks run out first it returns 0.  Otherwise it fills the       *)
(* dentry it was given, a null pointer: setup_utility_page maps virtual    *)
(* page 0 present and writable for the kernel, so the write lands in       *)
(* physical page 0 without a fault, and the name_len of the third record   *)
(* is returned.  IdxWalk gives that record, or ZeroRec (name_len 0) when    *)
(* the blocks run out.                                                      *)
(***************************************************************************)
RECURSIVE IdxWalk(_, _, _, _, _)
IdxWalk(s, i, steps, k, o) ==
    IF o >= BlockSize
    THEN IF k + 1 >= NBlk(s, i) THEN ZeroRec ELSE IdxWalk(s, i, steps, k + 1, 0)
    ELSE IF steps = 1 THEN RecAt(s, i, k, o)
    ELSE IdxWalk(s, i, steps - 1, k, o + RecAt(s, i, k, o).rec_len)

\* What the probe returns for directory i (it has a block).
ByIndex2(s, i) == NameLen(IdxWalk(s, i, 3, 0, 0).name)

\* ext2_read_dentry_by_index(idx, inode): the record the loop stops on after
\* idx + 1 headers; its name_len is the return value.
ReadDentryByIndex(s, i, idx) == IdxWalk(s, i, idx + 1, 0, 0)

\* dir_fread on directory d at f_pos pos: -1 for a file that is no
\* directory, else the name_len of record pos (nbytes is never smaller);
\* f_pos then moves on by one.
DirFread(s, d, pos) ==
    IF ~IsDir(s, d) THEN -1 ELSE NameLen(ReadDentryByIndex(s, d, pos).name)

\* The names successive dir_fread calls from f_pos 0 return on directory
\* d, up to the first that returns 0 or -1.  fuel bounds the records a
\* directory of NBlk(s, d) blocks can hold.
RECURSIVE LsFrom(_, _, _, _)
LsFrom(s, d, pos, fuel) ==
    IF fuel = 0 \/ DirFread(s, d, pos) <= 0 THEN << >>
    ELSE << ReadDentryByIndex(s, d, pos).name >> \o LsFrom(s, d, pos + 1, fuel - 1)

Ls(s, d) == LsFrom(s, d, 0, NBlk(s, d) * (BlockSize \div 12) + 1)

\* The inode named by the first record called n in directory x.
InoByName(s, x, n) == RecOf(s, x, Scan(s, x)[FindIdx(s, x, n)]).ino

(***************************************************************************)
(* ext2_is_ancestor(that, this): from the "." of `this`, follow ".." until *)
(* the root inode number, answering 1 when the "." of `that` is met.  The  *)
(* C loop has no bound; fuel stands for "the chain reaches the root".     *)
(***************************************************************************)
RECURSIVE AncFrom(_, _, _, _)
AncFrom(s, that, cur, fuel) ==
    IF cur = RootIno THEN FALSE
    ELSE IF cur = that THEN TRUE
    ELSE IF fuel = 0 THEN FALSE
    ELSE AncFrom(s, that, InoByName(s, cur, ".."), fuel - 1)

IsAncestor(s, that, this) ==
    AncFrom(s, InoByName(s, that, "."), InoByName(s, this, "."), NInodes)

(***************************************************************************)
(* The block written by ext2_mkdir for the new directory i in parent p.   *)
(* The whole block is copied from the stack starting at the "." header,   *)
(* so everything after ".." (offset 24 on) is uninitialised memory; the   *)
(* header found there is `tail`.  MkdirTail keeps one header for each way *)
(* the walks can read it: zero bytes (the sentinel), an unknown type with  *)
(* a name (the by-name scan stops, the by-index walk does not), a known   *)
(* type that ends at the block end, and one whose rec_len runs past it.   *)
(* Its inode number is 0: no walk reads it before the name matches, and   *)
(* JunkName is no name a call passes.  A known type with rec_len 0 is left *)
(* out: every later call that scans the directory would spin.             *)
(***************************************************************************)
\* Mutant: ".." written with the new directory's own inode number.
MkdirBlockSelfParent(i, p, tail) ==
    [o \in Offs |->
        CASE o = 0  -> [ino |-> i, rec_len |-> 12, name |-> ".", ft |-> FT_DIR]
          [] o = 12 -> [ino |-> i, rec_len |-> 12, name |-> "..", ft |-> FT_DIR]
          [] o = 24 -> tail
          [] OTHER  -> ZeroRec]

MkdirBlock(i, p, tail) ==
    [o \in Offs |->
        CASE o = 0  -> [ino |-> i, rec_len |-> 12, name |-> ".", ft |-> FT_DIR]
          [] o = 12 -> [ino |-> p, rec_len |-> 12, name |-> "..", ft |-> FT_DIR]
          [] o = 24 -> tail
          [] OTHER  -> ZeroRec]

MkdirTail == {ZeroRec, JunkRec, UnknownJunkRec, OverrunRec}

-----------------------------------------------------------------------------
(***************************************************************************)
(* Init: the mounted image.                                                *)
(***************************************************************************)
Init ==
    /\ disk = InitDisk
    /\ op = [call |-> "mount", ino |-> RootIno, name |-> ""]
    /\ ret = "ok"

Call(c, i, n) == op' = [call |-> c, ino |-> i, name |-> n]

(***************************************************************************)
(* sys_create -> icreate(d, n, 0x81FF).  The caller passes the parent that *)
(* parse_path resolved, whether or not n exists.                           *)
(***************************************************************************)
CreateRejected(d, n) ==
    /\ ReadDentryByName(disk, d, n) # 0
    /\ ret' = "err"
    /\ UNCHANGED disk

\* next_free_ino: find_free_region returns -ENOMEM, which the `bit == -1`
\* test misses; bitmap_set_bit(-12) writes far past the buffer and faults.
CreateNoInode(d, n) ==
    /\ ReadDentryByName(disk, d, n) = 0
    /\ Inos \ disk.ibm = {}
    /\ ret' = "fault"
    /\ UNCHANGED disk

CreateNoBlock(d, n) ==
    /\ ReadDentryByName(disk, d, n) = 0
    /\ Inos \ disk.ibm # {}
    /\ InsertFails(disk, d, n)
    /\ disk' = [disk EXCEPT !.ibm = @ \cup {NextFreeIno(disk)}]
    /\ ret' = "fault"

CreateOk(d, n) ==
    /\ ReadDentryByName(disk, d, n) = 0
    /\ Inos \ disk.ibm # {}
    /\ ~InsertFails(disk, d, n)
    /\ LET i == NextFreeIno(disk)
       IN disk' = InsertDentry([disk EXCEPT !.ibm = @ \cup {i}], d, n, i, "reg")
    /\ ret' = "ok"

Create(d, n) ==
    /\ Call("create", d, n)
    /\ \/ CreateRejected(d, n)
       \/ CreateNoInode(d, n)
       \/ CreateNoBlock(d, n)
       \/ CreateOk(d, n)

(***************************************************************************)
(* sys_mkdir -> imkdir(d, n), called only when parse_path answered 1 (n   *)
(* not found in d).  imkdir ignores what create returns: when create     *)
(* fails before setting the inode number, dir_ino is an uninitialised    *)
(* stack word; that run is recorded as a fault and not followed further. *)
(***************************************************************************)
MkdirNotDir(d, n) ==
    /\ ~IsDir(disk, d)
    /\ ret' = "fault"
    /\ UNCHANGED disk

MkdirNoInode(d, n) ==
    /\ IsDir(disk, d)
    /\ Inos \ disk.ibm = {}
    /\ ret' = "fault"
    /\ UNCHANGED disk

MkdirNoBlock(d, n) ==
    /\ IsDir(disk, d)
    /\ Inos \ disk.ibm # {}
    /\ LET i == NextFreeIno(disk)
           s0 == [disk EXCEPT !.ibm = @ \cup {i}]
       IN IF InsertFails(s0, d, n)
          THEN disk' = s0
          ELSE LET s1 == InsertDentry(s0, d, n, i, "dir")
               IN /\ Blks \ s1.bbm = {}
                  /\ disk' = s1
    /\ ret' = "fault"

MkdirOk(d, n) ==
    /\ IsDir(disk, d)
    /\ Inos \ disk.ibm # {}
    /\ LET i == NextFreeIno(disk)
           s0 == [disk EXCEPT !.ibm = @ \cup {i}]
           s1 == InsertDentry(s0, d, n, i, "dir")
           b == NextFreeBlkno(s1)
       IN /\ ~InsertFails(s0, d, n)
          /\ Blks \ s1.bbm # {}
          /\ \E tail \in MkdirTail :
                disk' = [s1 EXCEPT
                           !.bbm = @ \cup {b},
                           !.inode[i] = [i_mode |-> "dir", i_size |-> BlockSize,
                                         i_block |-> << b >>],
                           !.dblk[b] = MkdirBlock(i, d, tail)]
    /\ ret' = "ok"

Mkdir(d, n) ==
    /\ ReadDentryByName(disk, d, n) # 1
    /\ Call("mkdir", d, n)
    /\ \/ MkdirNotDir(d, n)
       \/ MkdirNoInode(d, n)
       \/ MkdirNoBlock(d, n)
       \/ MkdirOk(d, n)

(***************************************************************************)
(* iremove(d, n) -> ext2_remove_dentry(n, d).                              *)
(***************************************************************************)
RemoveRejected(d, n) ==
    /\ IF IsDir(disk, d) THEN FindIdx(disk, d, n) = 0 ELSE TRUE
    /\ ret' = "err"
    /\ UNCHANGED disk

\* The match is a directory whose probe finds a third record with a
\* name: "not empty", -1.
RemoveDirNotEmpty(d, n) ==
    /\ IsDir(disk, d)
    /\ FindIdx(disk, d, n) # 0
    /\ LET r == RecOf(disk, d, Scan(disk, d)[FindIdx(disk, d, n)])
       IN /\ r.ft = FT_DIR
          /\ NBlk(disk, r.ino) > 0
          /\ ByIndex2(disk, r.ino) # 0
    /\ ret' = "err"
    /\ UNCHANGED disk

\* The match is a directory without blocks (left by a mkdir that faulted):
\* the probe reads i_block[0], a stack word, as a block number; recorded
\* as a fault.
RemoveDirNoBlock(d, n) ==
    /\ IsDir(disk, d)
    /\ FindIdx(disk, d, n) # 0
    /\ LET r == RecOf(disk, d, Scan(disk, d)[FindIdx(disk, d, n)])
       IN /\ r.ft = FT_DIR
          /\ NBlk(disk, r.ino) = 0
    /\ ret' = "fault"
    /\ UNCHANGED disk

(***************************************************************************)
(* The releases of the matched record r, in the order of the C code:     *)
(* block 0 of a directory, the first i_blocks (at most 12) blocks, the     *)
(* inode.  Each call sets its bitmap bit (release_ino, release_blkno).    *)
(* The is_ancestor refusal is kept in the guard, though r is an entry of  *)
(* d and so never an ancestor of it in a reachable state.                 *)
(***************************************************************************)
Released(s, r) ==
    LET s1 == IF r.ft = FT_DIR THEN ReleaseBlkno(s, BlkOf(s, r.ino, 0)) ELSE s
        nb == IF NBlk(s1, r.ino) < NDirect THEN NBlk(s1, r.ino) ELSE NDirect
        s2 == [s1 EXCEPT !.bbm = @ \cup {BlkOf(s1, r.ino, k) : k \in 0..(nb - 1)}]
    IN ReleaseIno(s2, r.ino)

\* The record of d that ext2_remove_dentry matches: its scan position,
\* the record, and the number of the block holding it.
MatchPos(s, d, n) == Scan(s, d)[FindIdx(s, d, n)]

Match(s, d, n) == RecOf(s, d, MatchPos(s, d, n))

MatchBlk(s, d, n) == BlkOf(s, d, MatchPos(s, d, n).k)

\* The match is found and removing it gets past the directory checks.
RemoveAllowed(d, n) ==
    /\ IsDir(disk, d)
    /\ FindIdx(disk, d, n) # 0
    /\ Match(disk, d, n).ft = FT_DIR =>
          /\ NBlk(disk, Match(disk, d, n).ino) > 0
          /\ ByIndex2(disk, Match(disk, d, n).ino) = 0
          /\ ~IsAncestor(disk, Match(disk, d, n).ino, d)

\* Case 1: first record of its block, not the only one: the next record
\* is copied into it and its length annexed.
RemoveAnnexNext(d, n) ==
    /\ RemoveAllowed(d, n)
    /\ LET r == Match(disk, d, n)
           b == MatchBlk(disk, d, n)
           s1 == Released(disk, r)
           swp == s1.dblk[b][r.rec_len]
       IN /\ MatchPos(disk, d, n).off = 0
          /\ r.rec_len # BlockSize
          /\ disk' = [s1 EXCEPT !.dblk[b][0] =
                         [swp EXCEPT !.rec_len = r.rec_len + swp.rec_len]]
    /\ ret' = "ok"

\* Case 2: the only record of its block: the block is released; the
\* directory inode edited is a local copy never written, and the block
\* is written back as it was read.
RemoveOnly(d, n) ==
    /\ RemoveAllowed(d, n)
    /\ LET r == Match(disk, d, n)
       IN /\ MatchPos(disk, d, n).off = 0
          /\ r.rec_len = BlockSize
          /\ disk' = ReleaseBlkno(Released(disk, r), MatchBlk(disk, d, n))
    /\ ret' = "ok"

\* Case 3: the previous record, met just before in the same block,
\* annexes this one.
RemoveMerge(d, n) ==
    /\ RemoveAllowed(d, n)
    /\ LET r == Match(disk, d, n)
           q == Scan(disk, d)[FindIdx(disk, d, n) - 1]
       IN /\ MatchPos(disk, d, n).off # 0
          /\ disk' = [Released(disk, r) EXCEPT
                         !.dblk[MatchBlk(disk, d, n)][q.off].rec_len = @ + r.rec_len]
    /\ ret' = "ok"

IRemove(d, n) ==
    /\ Call("remove", d, n)
    /\ \/ RemoveRejected(d, n)
       \/ RemoveDirNotEmpty(d, n)
       \/ RemoveDirNoBlock(d, n)
       \/ RemoveAnnexNext(d, n)
       \/ RemoveOnly(d, n)
       \/ RemoveMerge(d, n)

(***************************************************************************)
(* file_fwrite on an open regular file f at file position pos:            *)
(* ext2_alloc_inode(f, inode, pos + len) then ext2_write_direct, whose    *)
(* data is not modelled.  The descriptor may outlive a remove of the file *)
(* (ino_exist still answers 1 then), so f is any allocated regular inode. *)
(***************************************************************************)
WriteOk(f, pos, len) ==
    /\ AllocInodeFits(disk, f, disk.inode[f], pos + len)
    /\ disk' = AllocInode(disk, f, disk.inode[f], pos + len)
    /\ ret' = "ok"

WriteRunsOut(f, pos, len) ==
    /\ ~AllocInodeFits(disk, f, disk.inode[f], pos + len)
    /\ disk' = AllocInodeRunsOut(disk, f)
    /\ ret' = "fault"

Write(f, pos, len) ==
    /\ Call("write", f, "")
    /\ WriteOk(f, pos, len) \/ WriteRunsOut(f, pos, len)

RegularFiles(s) == {i \in s.ibm : s.inode[i].i_mode = "reg"}

Next ==
    \/ \E d \in Reachable(disk), n \in Names :
          Create(d, n) \/ Mkdir(d, n) \/ IRemove(d, n)
    \/ \E f \in RegularFiles(disk), len \in WriteLens :
          \E pos \in {0, disk.inode[f].i_size} : Write(f, pos, len)

Spec == Init /\ [][Next]_vars

-----------------------------------------------------------------------------
(***************************************************************************)
(* Properties.                                                             *)
(***************************************************************************)
TypeOK ==
    /\ disk \in [ibm : SUBSET Inos, bbm : SUBSET Blks,
                 inode : [Inos -> Inode], dblk : [Blks -> [Offs -> Rec]]]
    /\ op \in [call : {"mount", "create", "mkdir", "remove", "write"},
               ino : Inos, name : Names \cup {""}]
    /\ ret \in {"ok", "err", "fault"}

ReachableDirs(s) == {d \in Reachable(s) : IsDir(s, d)}

\* The positions of the records of d that name a file (not ".", "..").
NamedPos(s, d) ==
    {j \in 1..Len(Scan(s, d)) : RecOf(s, d, Scan(s, d)[j]).name \in Names}

\* The (inode, slot) pairs of the direct blocks of inode i.
Slots(s, i) == {<<i, k>> : k \in 0..(NBlk(s, i) - 1)}

(***************************************************************************)
(* Every block a reachable inode lists is marked used in the block bitmap *)
(* and is listed by no other slot of any reachable inode.  Blocks come    *)
(* from next_free_blkno in ext2_alloc_inode, ext2_alloc_iblock (insert,   *)
(* mkdir) while the bitmap itself is also written by the release paths of *)
(* ext2_remove_dentry; a block handed out twice would let a file write   *)
(* overwrite a directory.                                                  *)
(***************************************************************************)
BlocksExclusive ==
    LET slots == UNION {Slots(disk, i) : i \in Reachable(disk)}
    IN \A x, y \in slots :
          /\ BlkOf(disk, x[1], x[2]) \in disk.bbm
          /\ x # y => BlkOf(disk, x[1], x[2]) # BlkOf(disk, y[1], y[2])

(***************************************************************************)
(* In every reachable directory no two visible records carry the same     *)
(* name, each names an allocated inode whose mode matches the record's    *)
(* file type, and no inode is named by two records anywhere.  This is     *)
(* what the existence checks of icreate and sys_mkdir, the record split   *)
(* of ext2_insert_dentry and the record merges of ext2_remove_dentry must *)
(* keep together.                                                          *)
(***************************************************************************)
DirectoryEntriesConsistent ==
    LET named == UNION {{<<d, j>> : j \in NamedPos(disk, d)} :
                            d \in ReachableDirs(disk)}
        R(x) == RecOf(disk, x[1], Scan(disk, x[1])[x[2]])
    IN \A x \in named :
          /\ R(x).ino \in disk.ibm
          /\ disk.inode[R(x).ino].i_mode # "free"
          /\ R(x).ft = FtOf(disk.inode[R(x).ino].i_mode)
          /\ \A y \in named : x # y =>
                /\ R(x).ino # R(y).ino
                /\ x[1] = y[1] => R(x).name # R(y).name

(***************************************************************************)
(* The spec: lookup by name and by index both stop at the end-of-directory *)
(* sentinel, so reading a directory with dir_fread from f_pos 0 until it   *)
(* returns 0 (as ls does) gives exactly the names the by-name scan visits, *)
(* in order.  ext2_read_dentry_by_index walks the records by rec_len with  *)
(* no stop at an EXT2_FT_UNKNOWN header and ends a block at a fixed offset.*)
(***************************************************************************)
ListingMatchesLookup ==
    \A d \in ReachableDirs(disk) :
       NBlk(disk, d) > 0 =>
          Ls(disk, d) = [j \in 1..Len(Scan(disk, d)) |-> RecOf(disk, d, Scan(disk, d)[j]).name]

(***************************************************************************)
(* Every inode in use is read and written where the image keeps it, and  *)
(* nowhere else: ext2_access_inode's bytes for it lie inside its own      *)
(* s_inode_size record of the inode table of block group 0, whose         *)
(* descriptor is block 2 (the only group, as ext2_read_bitmap assumes),  *)
(* and inside one block.  Each ext2_read_inode and ext2_write_inode of     *)
(* create, mkdir, remove and write goes through this arithmetic; were two *)
(* inodes' bytes to overlap, a write of one would change the other.       *)
(***************************************************************************)
InodeAccessInRecord ==
    \A ino \in Inos :
       InoExist(disk, ino) =>
          LET sl == InodeSlot(ino)
              at == sl.blk * BlockSize + sl.off
              rec == ((ino - 1) % InodesPerGroup) * InodeSize
          IN  /\ sl.bg = 0 /\ sl.desc = 2
              /\ sl.off + SizeofInode <= BlockSize
              /\ rec <= at /\ at + SizeofInode <= rec + InodeSize

\* The directory k ".." steps above d.
RECURSIVE Up(_, _, _)
Up(s, d, k) ==
    IF k = 0 THEN d
    ELSE LET u == Up(s, d, k - 1)
         IN IF u \in Inos /\ IsDir(s, u) /\ FindIdx(s, u, "..") # 0
            THEN InoByName(s, u, "..") ELSE 0

(***************************************************************************)
(* From every reachable directory that has a block (a mkdir that faults  *)
(* in ext2_alloc_iblock leaves one without) the ".." records lead, through *)
(* directories that list the one below them, to the root inode.  The     *)
(* unbounded loop of ext2_is_ancestor, run by every directory remove,    *)
(* ends only because of this; imkdir writes the ".." record.             *)
(***************************************************************************)
ParentChainReachesRoot ==
    \A d \in {x \in ReachableDirs(disk) : NBlk(disk, x) > 0} :
       \E k \in 0..NInodes :
          /\ Up(disk, d, k) = RootIno
          /\ \A m \in 0..(k - 1) :
                LET c == Up(disk, d, m)
                    p == Up(disk, d, m + 1)
                IN p \in Inos /\ IsDir(disk, p) /\ c \in Children(disk, p)

(***************************************************************************)
(* Properties the code is expected to have and does not (violation runs). *)
(***************************************************************************)
\* A create that returns 0 leaves the name visible in the directory.
CreateVisible ==
    [][op'.call = "create" /\ ret' = "ok" =>
          ReadDentryByName(disk', op'.ino, op'.name) = 1]_vars

\* A remove that returns 0 leaves the name absent from the directory.
RemoveGone ==
    [][op'.call = "remove" /\ ret' = "ok" =>
          ReadDentryByName(disk', op'.ino, op'.name) = 0]_vars

(***************************************************************************)
(* The spec's removal safety: removing a directory (one that has a block) *)
(* succeeds exactly when it is empty, holding only "." and "..";          *)
(* ext2_remove_dentry decides it by what ext2_read_dentry_by_index(2)     *)
(* returns.  A directory made by ext2_mkdir is empty.                     *)
(***************************************************************************)
RemoveDirMeetsSpec ==
    [][LET d == op'.ino
           n == op'.name
       IN  /\ op'.call = "remove"
           /\ IsDir(disk, d)
           /\ FindIdx(disk, d, n) # 0
           /\ Match(disk, d, n).ft = FT_DIR
           /\ NBlk(disk, Match(disk, d, n).ino) > 0
           => (ret' = "ok" <=> NamedPos(disk, Match(disk, d, n).ino) = {})]_vars

(***************************************************************************)
(* The spec's contract of the two calls that edit a directory              *)
(* (ext2_insert_dentry, ext2_remove_dentry and the allocators under them): *)
(* a create in a directory that has blocks never faults, running out of   *)
(* inodes or blocks being -1; a create that returns 0 leaves the name in  *)
(* the directory; a remove that returns 0 leaves the name gone and the    *)
(* removed inode's bit clear; RemoveDirMeetsSpec; and a listing shows    *)
(* the names lookup finds (ListingMatchesLookup).                          *)
(***************************************************************************)
DirOpsMeetSpec ==
    /\ RemoveDirMeetsSpec
    /\ [][ListingMatchesLookup']_vars
    /\ [][/\ op'.call = "create" /\ IsDir(disk, op'.ino) /\ NBlk(disk, op'.ino) > 0
                => ret' # "fault"
          /\ ret' = "ok" /\ op'.call = "create"
                => ReadDentryByName(disk', op'.ino, op'.name) = 1
          /\ ret' = "ok" /\ op'.call = "remove"
                => /\ ReadDentryByName(disk', op'.ino, op'.name) = 0
                   /\ InoByName(disk, op'.ino, op'.name) \notin disk'.ibm]_vars

\* The spec: the rec_len values of a directory block sum to the block
\* size, so a scan of each block ends exactly at its end.
RECURSIVE ChainEnd(_, _)
ChainEnd(blk, o) ==
    IF o >= BlockSize \/ blk[o].ft = FT_UNKNOWN \/ blk[o].rec_len = 0 THEN o
    ELSE ChainEnd(blk, o + blk[o].rec_len)

RecLenSum ==
    \A d \in ReachableDirs(disk) :
       \A k \in 0..(NBlk(disk, d) - 1) :
          ChainEnd(disk.dblk[BlkOf(disk, d, k)], 0) = BlockSize

\* The spec: resource exhaustion reaches the caller as -1; a create in a
\* directory that has blocks returns 0 or -1, it never faults.
CreateNeverFaults ==
    [][op'.call = "create" /\ IsDir(disk, op'.ino) /\ NBlk(disk, op'.ino) > 0
          => ret' # "fault"]_vars

=============================================================================
