------------------------------- MODULE MCExt2 -------------------------------
(***************************************************************************)
(* A small mounted image for Ext2: 48-byte blocks (1024 scaled down, so   *)
(* that a block holds four to six records), seven inodes, eleven blocks.  *)
(*   blocks 1-4   superblock, group descriptor, bitmaps, inode table      *)
(*   inode 2      the root: block 5 = ".", "..", "lf"; block 6 = "f0"     *)
(*   inode 3      "lf", a directory made by mkfs: block 7 = ".", ".."     *)
(*                (".." spans to the end of the block)                     *)
(*   inode 4      "f0", a regular file of 10 bytes in block 8              *)
(* Inodes 5-7 and blocks 9-11 are free, so every allocation path and the  *)
(* exhaustion of both bitmaps are reached.                                 *)
(***************************************************************************)
EXTENDS Ext2

MCNames == {"lf", "f0", "x", "yyyyy"}

MCNameLen == [n \in MCNames |-> IF n = "yyyyy" THEN 5 ELSE IF n = "x" THEN 1 ELSE 2]

MCWriteLens == {48}

R(i, len, n, ft) == [ino |-> i, rec_len |-> len, name |-> n, ft |-> ft]

Block(recs) == [o \in Offs |-> IF o \in DOMAIN recs THEN recs[o] ELSE ZeroRec]

MCInitDisk ==
    [ibm |-> {1, 2, 3, 4},
     bbm |-> 1..8,
     inode |-> [i \in Inos |->
        CASE i = 2 -> [i_mode |-> "dir", i_size |-> 96, i_block |-> <<5, 6>>]
          [] i = 3 -> [i_mode |-> "dir", i_size |-> 48, i_block |-> <<7>>]
          [] i = 4 -> [i_mode |-> "reg", i_size |-> 10, i_block |-> <<8>>]
          [] OTHER -> FreeInode],
     dblk |-> [b \in Blks |->
        CASE b = 5 -> Block((0 :> R(2, 12, ".", FT_DIR)) @@
                            (12 :> R(2, 12, "..", FT_DIR)) @@
                            (24 :> R(3, 24, "lf", FT_DIR)))
          [] b = 6 -> Block(0 :> R(4, 48, "f0", FT_REG))
          [] b = 7 -> Block((0 :> R(3, 12, ".", FT_DIR)) @@
                            (12 :> R(2, 36, "..", FT_DIR)))
          [] OTHER -> Block(<< >>)]]

\* States that differ only in the last call and its result are one disk
\* state; the invariants of MCExt2.cfg read the disk alone.
DiskView == disk
=============================================================================
