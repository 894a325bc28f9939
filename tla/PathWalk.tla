------------------------------ MODULE PathWalk ------------------------------
(***************************************************************************)
(* Ownership of the heap dentries that parse_path (vfs.c) and the system   *)
(* calls sys_create, sys_rm, sys_mkdir, sys_cd and sys_pwd (syscall.c)    *)
(* allocate, link through d_parent and free.                               *)
(*                                                                         *)
(* A dentry is one heap page (sizeof(dentry_t) < 4 kB, order 0), so       *)
(* malloc returns the lowest free page of Cells, and free unmaps it: a   *)
(* later read or free of that page faults.  ROOT is the static            *)
(* superblock.s_root (filename "/", d_parent = &s_root); freeing it is    *)
(* undefined behaviour.  cur is the static cur_dentry.  A dentry's data   *)
(* is what the code reads of it: the inode number, whether filename[0] is *)
(* '/', and d_parent.  The directory tree is fixed: Ext2 models how the   *)
(* calls change it; here only their lookups matter.  Each call is one     *)
(* atomic step (system calls run through an interrupt gate).              *)
(***************************************************************************)
EXTENDS Integers, Sequences, FiniteSets

CONSTANTS
    Cells,        \* heap pages available to dentries, numbers 1 .. N
    RootIno,      \* EXT2_ROOT_INO
    DirInos,      \* inodes that are directories
    Entries,      \* directory entries: triples <<dir ino, name, ino>>
    Names,        \* names in paths
    NameLen(_),   \* strlen of a name
    Paths,        \* path arguments: [abs |-> BOOLEAN, comps |-> Seq(component)]
    FnameLen,     \* FNAME_LEN
    AboveRoot     \* whether paths may go up with ".." from the root

VARIABLES heap, cur, ret

vars == <<heap, cur, ret>>

ROOT == 0
UNINIT == -1     \* d_tmp before any assignment
NoIno == 0
RUN == 2         \* parse_path returns -1, 0 or 1; RUN while it walks

Inos == {NoIno, RootIno} \cup {e[3] : e \in Entries}

Dentry == [ino : Inos, root : BOOLEAN,
           parent : Cells \cup {ROOT}]

RootDentry == [ino |-> RootIno, root |-> TRUE, parent |-> ROOT]

\* What a freed page holds for the model: nothing that is read again.
Junk == [ino |-> NoIno, root |-> FALSE, parent |-> ROOT]

\* ilookup: ext2_read_dentry_by_name in directory d.  A regular file's
\* data is taken to hold no record of the name.
Lookup(d, n) ==
    IF \E e \in Entries : e[1] = d /\ e[2] = n
    THEN (CHOOSE e \in Entries : e[1] = d /\ e[2] = n)[3] ELSE NoIno

(***************************************************************************)
(* A walk: the heap, d_trav, d_tmp, the result code (rc RUN while the   *)
(* walk goes on) and err: "fault" for a page fault (a read or free of an  *)
(* unmapped page), "oom" for a write through the NULL of a failed malloc, *)
(* "ub" for a free of static memory or of an uninitialised pointer.       *)
(***************************************************************************)
\* A heap page holding dentry d.
Page(d, u) == [ino |-> d.ino, root |-> d.root, parent |-> d.parent, used |-> u]

Live(w, p) == p = ROOT \/ (p \in Cells /\ w.h[p].used)

Get(w, p) ==
    IF p = ROOT THEN RootDentry
    ELSE [ino |-> w.h[p].ino, root |-> w.h[p].root, parent |-> w.h[p].parent]

Fail(w, e) == [w EXCEPT !.err = e]

Stopped(w) == w.err # "none" \/ w.rc # RUN

\* free(p): ub on static memory or garbage, fault on an unmapped page.
FreeCell(w, p) ==
    IF w.err # "none" THEN w
    ELSE IF p \notin Cells THEN Fail(w, "ub")
    ELSE IF ~w.h[p].used THEN Fail(w, "fault")
    ELSE [w EXCEPT !.h[p] = Page(Junk, FALSE)]

\* free_dentry: free along d_parent until &superblock.s_root.
RECURSIVE FreeDentry(_, _)
FreeDentry(w, p) ==
    IF w.err # "none" \/ p = ROOT THEN w
    ELSE IF p \notin Cells THEN Fail(w, "ub")
    ELSE IF ~w.h[p].used THEN Fail(w, "fault")
    ELSE FreeDentry(FreeCell(w, p), w.h[p].parent)

\* malloc(sizeof(dentry_t)): the lowest free page, its content d, in w.new.
Malloc(w, d) ==
    IF w.err # "none" THEN w
    ELSE IF \A c \in Cells : w.h[c].used THEN Fail(w, "oom")
    ELSE LET c == CHOOSE c \in Cells : ~w.h[c].used /\
                                       \A q \in Cells : ~w.h[q].used => c <= q
         IN  [w EXCEPT !.h[c] = Page(d, TRUE), !.new = c]

Set(w, p, d) == IF w.err # "none" THEN w ELSE [w EXCEPT !.h[p] = Page(d, TRUE)]

(***************************************************************************)
(* parse_path lines 39-53: copy cur_dentry, then each ancestor until one  *)
(* whose filename starts with '/', linking the copies.  d_trav ends at    *)
(* the copy of cur_dentry; d_tmp at the last original copied.             *)
(***************************************************************************)
RECURSIVE CopyChain(_, _)
CopyChain(w, t) ==
    LET par == w.h[t].parent
    IN  IF w.err # "none" THEN w
        ELSE IF ~Live(w, par) THEN Fail(w, "fault")
        ELSE IF Get(w, par).root THEN w
        ELSE LET w1 == Malloc(w, Get(w, par))
             IN  IF w1.err # "none" THEN w1
                 ELSE CopyChain([w1 EXCEPT !.h[t].parent = w1.new, !.tmp = par], w1.new)

(***************************************************************************)
(* The main loop of parse_path, at the '/' after component k of cs (the   *)
(* path after its leading '/').  The loop returns -1 as soon as its index *)
(* reaches FNAME_LEN; a '/' followed by the end of the path ends the walk *)
(* with component k as the last name, or fails if k is empty.             *)
(***************************************************************************)
CompLen(c) == CASE c = "" -> 0 [] c = "." -> 1 [] c = ".." -> 2 [] OTHER -> NameLen(c)

RECURSIVE SepPos(_, _)
SepPos(cs, k) == IF k = 0 THEN -1 ELSE SepPos(cs, k - 1) + 1 + CompLen(cs[k])

Trailing(cs) == Len(cs) >= 2 /\ cs[Len(cs)] = ""

LastName(cs) == IF Trailing(cs) THEN cs[Len(cs) - 1] ELSE cs[Len(cs)]

\* One intermediate component: "" frees d_tmp's chain and fails, "." does
\* nothing, ".." frees d_trav and moves to its parent, a name is looked up
\* in a new dentry linked to d_trav.
Step(w, c) ==
    IF c = "" THEN [FreeDentry(w, w.tmp) EXCEPT !.rc = -1]
    ELSE IF c = "." THEN w
    ELSE IF ~Live(w, w.trav) THEN Fail(w, "fault")
    ELSE IF c = ".." THEN
        FreeCell([w EXCEPT !.tmp = w.trav, !.trav = Get(w, w.trav).parent], w.trav)
    ELSE LET w1 == Malloc(w, [Junk EXCEPT !.parent = w.trav])
             child == Lookup(Get(w, w.trav).ino, c)
         IN  IF w1.err # "none" THEN w1
             ELSE IF child = NoIno THEN [FreeDentry([w1 EXCEPT !.tmp = w1.new], w1.new) EXCEPT !.rc = -1]
             ELSE [Set(w1, w1.new, [ino |-> child, root |-> FALSE, parent |-> w.trav])
                      EXCEPT !.tmp = w1.new, !.trav = w1.new]

RECURSIVE Loop(_, _, _)
Loop(w, cs, k) ==
    IF Stopped(w) \/ k >= Len(cs) \/ (Trailing(cs) /\ k = Len(cs) - 1) THEN w
    ELSE IF SepPos(cs, k) >= FnameLen THEN [w EXCEPT !.rc = -1]
    ELSE Loop(Step(w, cs[k]), cs, k + 1)

\* The end of the loop: the trailing '/' of an empty component, or the
\* index reaching FNAME_LEN in the last component.
AfterLoop(w, cs) ==
    IF Stopped(w) THEN w
    ELSE IF Trailing(cs) THEN
        IF SepPos(cs, Len(cs) - 1) >= FnameLen THEN [w EXCEPT !.rc = -1]
        ELSE IF cs[Len(cs) - 1] = "" THEN [FreeDentry(w, w.tmp) EXCEPT !.rc = -1]
        ELSE w
    ELSE IF SepPos(cs, Len(cs)) > FnameLen THEN [w EXCEPT !.rc = -1]
    ELSE w

(***************************************************************************)
(* parse_path lines 103-145: the last name.  "." gives d_trav and its     *)
(* parent and frees the parent; ".." gives the parent and grandparent and *)
(* frees both; "" (the path "/") gives the root twice; a name is looked   *)
(* up, 1 when absent.  Then node->d_parent = parent and d_trav is freed.  *)
(* Frees skip &superblock.s_root.                                          *)
(***************************************************************************)
\* Mutant: the test against &superblock.s_root dropped.
FreeUnlessRootAlways(w, p) == FreeCell(w, p)

FreeUnlessRoot(w, p) == IF p = ROOT THEN w ELSE FreeCell(w, p)

FinalName(w, name, base, dent) ==
    LET t == Get(w, w.trav)
        p == t.parent
        g == Get(w, p).parent
        w1 ==
          CASE name = "." ->
                 IF ~Live(w, p) THEN Fail(w, "fault")
                 ELSE [FreeUnlessRoot(Set(Set(w, dent, t), base, Get(w, p)), p) EXCEPT !.rc = 0]
            [] name = ".." ->
                 IF ~Live(w, p) \/ ~Live(w, g) THEN Fail(w, "fault")
                 ELSE [FreeUnlessRoot(FreeUnlessRoot(
                         Set(Set(w, dent, Get(w, p)), base, Get(w, g)), g), p) EXCEPT !.rc = 0]
            [] name = "" ->
                 [Set(Set(w, base, RootDentry), dent, RootDentry) EXCEPT !.rc = 0]
            [] OTHER ->
                 LET child == Lookup(t.ino, name)
                     old == Get(w, dent)
                 IN  IF child = NoIno
                     THEN [Set(Set(w, base, t), dent, [old EXCEPT !.root = FALSE]) EXCEPT !.rc = 1]
                     ELSE [Set(Set(w, base, t), dent, [ino |-> child, root |-> FALSE, parent |-> old.parent])
                             EXCEPT !.rc = 0]
    IN  IF Stopped(w) THEN w
        ELSE IF ~Live(w, w.trav) THEN Fail(w, "fault")
        ELSE IF w1.err # "none" THEN w1
        ELSE FreeUnlessRoot(Set(w1, dent, [Get(w1, dent) EXCEPT !.parent = base]), w.trav)

\* parse_path(path, base, dent) on the walk w.
ParsePath(w, path, base, dent) ==
    LET cs == path.comps
        Walk(w0) == FinalName(AfterLoop(Loop(w0, cs, 1), cs), LastName(cs), base, dent)
    IN  IF ~path.abs /\ cs = <<"">> THEN [w EXCEPT !.rc = -1]
        ELSE IF path.abs \/ cur.root THEN
            IF path.abs /\ Len(cs) >= 2 /\ cs[1] = "" THEN [w EXCEPT !.rc = -1]
            ELSE Walk(w)
        ELSE LET w1 == Malloc(w, cur)
             IN  IF w1.err # "none" THEN w1
                 ELSE Walk([CopyChain([w1 EXCEPT !.trav = w1.new], w1.new) EXCEPT !.trav = w1.new])

(***************************************************************************)
(* The system calls: base and dent are malloc'ed (a NULL result is taken  *)
(* to fault at once), then parse_path, then the call's own checks and     *)
(* frees.  The inode operation itself (create, remove, mkdir) is modelled *)
(* in Ext2 and allocates no dentry.                                        *)
(***************************************************************************)
W0 == [h |-> heap, trav |-> ROOT, tmp |-> UNINIT, rc |-> RUN, err |-> "none", new |-> ROOT]

Parsed(path) ==
    LET wa == Malloc(W0, Junk)
        wb == Malloc(wa, Junk)
    IN  [w |-> IF wb.err # "none" THEN wb ELSE ParsePath(wb, path, wa.new, wb.new),
         dent |-> wb.new]

Done(call, w, c, r) ==
    /\ heap' = w.h
    /\ cur' = c
    /\ ret' = [call |-> call, rc |-> r, err |-> w.err]

\* sys_create: -1 from parse_path returns at once (the free is dead code).
SysCreate(path) ==
    LET r == Parsed(path) IN
    IF r.w.err # "none" \/ r.w.rc = -1 THEN Done("create", r.w, cur, -1)
    ELSE Done("create", FreeDentry(r.w, r.dent), cur, 0)

\* sys_rm: 1 frees dent's chain, -1 does not; removing the cwd returns -1.
SysRm(path) ==
    LET r == Parsed(path) IN
    IF r.w.err # "none" \/ r.w.rc = -1 THEN Done("rm", r.w, cur, -1)
    ELSE IF r.w.rc = 1 THEN Done("rm", FreeDentry(r.w, r.dent), cur, -1)
    ELSE IF Get(r.w, r.dent).ino = cur.ino THEN Done("rm", r.w, cur, -1)
    ELSE Done("rm", FreeDentry(r.w, r.dent), cur, 0)

\* Mutant: parse_path's result returned as the call's own.
SysMkdirPassesRc(path) ==
    LET r == Parsed(path) IN
    IF r.w.err # "none" \/ r.w.rc = -1 THEN Done("mkdir", r.w, cur, -1)
    ELSE Done("mkdir", FreeDentry(r.w, r.dent), cur, r.w.rc)

\* sys_mkdir: only 1 (name absent) goes on; 0 frees, -1 does not.
SysMkdir(path) ==
    LET r == Parsed(path) IN
    IF r.w.err # "none" \/ r.w.rc = -1 THEN Done("mkdir", r.w, cur, -1)
    ELSE IF r.w.rc = 0 THEN Done("mkdir", FreeDentry(r.w, r.dent), cur, -1)
    ELSE Done("mkdir", FreeDentry(r.w, r.dent), cur, 0)

\* Mutant: the old chain freed after cur_dentry = *dent, i.e. the new one.
CdTailFreesNew(w, d) ==
    LET par == Get(w, d).parent
        w1 == IF Get(w, par).root /\ par # ROOT
              THEN Set(FreeCell(w, par), d, [Get(w, d) EXCEPT !.parent = ROOT]) ELSE w
        w2 == FreeDentry(w1, Get(w1, d).parent)
    IN  IF ~Live(w, par) THEN Done("cd", Fail(w, "fault"), cur, -1)
        ELSE IF Get(w1, d).ino \notin DirInos THEN Done("cd", FreeDentry(w1, d), cur, -1)
        ELSE IF w2.err = "none" /\ ~Live(w2, d) THEN Done("cd", Fail(w2, "fault"), cur, -1)
        ELSE Done("cd", FreeUnlessRoot(w2, d), IF w2.err = "none" THEN Get(w2, d) ELSE cur, 0)

\* sys_cd lines 578-605.
CdTail(w, d) ==
    LET par == Get(w, d).parent
        w1 == IF Get(w, par).root /\ par # ROOT
              THEN Set(FreeCell(w, par), d, [Get(w, d) EXCEPT !.parent = ROOT]) ELSE w
        w2 == FreeDentry(w1, cur.parent)
    IN  IF ~Live(w, par) THEN Done("cd", Fail(w, "fault"), cur, -1)
        ELSE IF Get(w1, d).ino \notin DirInos THEN Done("cd", FreeDentry(w1, d), cur, -1)
        ELSE IF w2.err = "none" /\ ~Live(w2, d) THEN Done("cd", Fail(w2, "fault"), cur, -1)
        ELSE Done("cd", FreeUnlessRoot(w2, d), IF w2.err = "none" THEN Get(w2, d) ELSE cur, 0)

SysCd(path) ==
    LET r == Parsed(path) IN
    IF r.w.err # "none" \/ r.w.rc = -1 THEN Done("cd", r.w, cur, -1)
    ELSE IF r.w.rc = 1 THEN Done("cd", FreeDentry(r.w, r.dent), cur, -1)
    ELSE CdTail(r.w, IF Get(r.w, r.dent).root THEN ROOT ELSE r.dent)

\* sys_pwd: follows d_parent from cur_dentry to a '/' name, holding two
\* string buffers at a time.
RECURSIVE PwdWalk(_, _)
PwdWalk(w, p) ==
    IF ~Live(w, p) THEN Fail(w, "fault")
    ELSE IF Get(w, p).root THEN w ELSE PwdWalk(w, Get(w, p).parent)

SysPwd ==
    LET w == IF cur.root THEN W0
             ELSE IF Cardinality({c \in Cells : ~heap[c].used}) < 2 THEN Fail(W0, "oom")
             ELSE PwdWalk(W0, cur.parent)
    IN  Done("pwd", w, cur, 0)

Init ==
    /\ heap = [c \in Cells |-> Page(Junk, FALSE)]
    /\ cur = RootDentry
    /\ ret = [call |-> "init", rc |-> 0, err |-> "none"]

\* The parent directory of inode i in the tree.
TreeParent(i) == (CHOOSE e \in Entries : e[3] = i)[1]

\* An intermediate ".." of the path would be taken at the root.
RECURSIVE Climbs(_, _, _)
Climbs(ino, cs, k) ==
    IF k >= Len(cs) \/ (Trailing(cs) /\ k = Len(cs) - 1) THEN FALSE
    ELSE IF cs[k] = ".." THEN ino = RootIno \/ Climbs(TreeParent(ino), cs, k + 1)
    ELSE IF cs[k] \in {".", ""} THEN Climbs(ino, cs, k + 1)
    ELSE Lookup(ino, cs[k]) # NoIno /\ Climbs(Lookup(ino, cs[k]), cs, k + 1)

Allowed(path) ==
    AboveRoot \/ ~Climbs(IF path.abs THEN RootIno ELSE cur.ino, path.comps, 1)

Next ==
    \/ \E path \in {q \in Paths : Allowed(q)} : SysCreate(path) \/ SysRm(path) \/ SysMkdir(path) \/ SysCd(path)
    \/ SysPwd

Spec == Init /\ [][Next]_vars

-----------------------------------------------------------------------------
TypeOK ==
    /\ heap \in [Cells -> [ino : Inos, root : BOOLEAN,
                           parent : Cells \cup {ROOT}, used : BOOLEAN]]
    /\ cur \in Dentry
    /\ ret \in [call : {"init", "create", "rm", "mkdir", "cd", "pwd"}, rc : {-1, 0},
               err : {"none", "oom", "fault", "ub"}]

(***************************************************************************)
(* No call reads or frees an unmapped heap page, or frees static memory   *)
(* or an uninitialised pointer: the dentries parse_path and the system    *)
(* calls free along d_parent chains are theirs, and still allocated.      *)
(***************************************************************************)
MemorySafe == ret.err \notin {"fault", "ub"}

\* The dentry of inode ino has parent pointer p; the chain from p is whole.
RECURSIVE ChainOK(_, _, _)
ChainOK(ino, p, k) ==
    /\ k > 0
    /\ p = ROOT \/ (p \in Cells /\ heap[p].used)
    /\ Get([h |-> heap], p).ino = TreeParent(ino)
    /\ IF Get([h |-> heap], p).root THEN p = ROOT
       ELSE ChainOK(Get([h |-> heap], p).ino, Get([h |-> heap], p).parent, k - 1)

(***************************************************************************)
(* Between calls, cur_dentry is a directory and its d_parent chain, which *)
(* sys_pwd prints, parse_path copies and sys_cd frees, is made of heap    *)
(* dentries still allocated, naming the directory's ancestors in order,   *)
(* and ends at the static root itself, not at a heap copy of it.          *)
(***************************************************************************)
CurChainIntact ==
    /\ cur.ino \in DirInos
    /\ cur.root <=> cur.ino = RootIno
    /\ cur.root \/ ChainOK(cur.ino, cur.parent, Cardinality(Cells) + 1)

\* The heap pages on cur_dentry's chain.
RECURSIVE ChainCells(_, _)
ChainCells(p, k) ==
    IF p = ROOT \/ k = 0 \/ p \notin Cells THEN {}
    ELSE {p} \cup ChainCells(heap[p].parent, k - 1)

(***************************************************************************)
(* spec 3: the dentry chains "must be freed ... failing to free this chain*)
(* leaks memory".  Between calls, the only heap dentries are those of     *)
(* cur_dentry's chain.                                                     *)
(***************************************************************************)
NoLeak ==
    {c \in Cells : heap[c].used} =
        IF cur.root THEN {} ELSE ChainCells(cur.parent, Cardinality(Cells))

=============================================================================
