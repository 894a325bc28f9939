# TLA+ models of the nochOS kernel: filesystem, files, processes, network

This directory holds TLA+ specifications of the filesystem, the file and
process system calls and the e1000 receive path of nochOS (`src/src`). They are checked with TLC. `PROJECT.json` lists:

- every component, and which module covers it;
- every TLC run, with the properties it checks;
- the mutants that show each property can fail;
- the source lines each definition translates (`map`);
- the findings;
- the hazards of the code.

## 1. The system

The filesystem has four layers. A system call in `syscall.c` (`sys_create`,
`sys_mkdir`, `sys_rm`, `sys_cd`, `sys_open`, ...) resolves a path with
`parse_path` (`vfs.c`). That function walks the directory chain by calling
the driver's `lookup` once per path component. On each step it allocates a
heap dentry whose parent pointer leads back to the static root sentinel. The
system call then calls an inode operation (`create`, `mkdir`, `remove`) or a
file operation (`open`, `read`, `write`, `seek`) of the ext2 driver
(`ext2.c`). To get a free inode or block number, the driver reads the bitmap
block, calls the region allocator of `bitmap.c` (`find_free_region`, order 0),
sets the bit and writes the block back. The kernel heap (`mem.c`) uses the
same allocator for its pages.

### Components: state, operations, what is hard

| Component | State | Operations that change it | What is hard to test |
|---|---|---|---|
| ext2 driver (`ext2.c`) | inode bitmap, block bitmap, inode table, directory blocks (records chained by `rec_len`), file data | `icreate`, `imkdir`, `iremove`/`ext2_remove_dentry`, `ext2_insert_dentry`, `ext2_alloc_inode`, `ext2_alloc_iblock`, `next_free_ino`/`next_free_blkno`, `release_ino`/`release_blkno`, `file_fwrite` (+`ext2_write_direct`), `file_fseek`, `setkey` | long sequences of splits and merges in one block; running out of inodes or blocks part-way through an operation; removes in each of the three cases; what an uninitialised stack block puts on disk |
| region bitmap (`bitmap.c`) | bit array | `find_free_region`, `allocate_region`, `release_region`, `_reg_op` | unaligned regions spanning words; the stride of the scan |
| VFS (`vfs.c`) | heap dentries, their parent chain, `cur_dentry` | `parse_path`, `free_dentry` | which dentries each path and error exit frees; `..` at the root |
| FS system calls (`syscall.c`) | the same heap | `sys_create`, `sys_rm`, `sys_mkdir`, `sys_cd`, `sys_pwd` | error paths that leak, the cwd check of `sys_rm` |
| heap (`mem.c`) | page bitmap | `alloc_request_pages`, `free_request_pages` | order > 0 regions |
| fd table and file data (`syscall.c`, `proc.c`, `ext2.c`) | `fd_bitmap`, each `file_t`'s `f_op` and `f_pos`, the file's inode and data blocks | `sys_open`, `sys_close`, `sys_read`, `sys_write`, `sys_seek`, `file_fopen`, `file_fread`, `file_fwrite`, `file_fseek` | files past the 12 direct blocks; reads that straddle the boundary; a seek against a size cached at open |
| line discipline (`keyboard.c`, `terminal.c`) | `kbd_buf`, `cmd_buf`, `cmd_available` | `keyboard_handler` (keys, backspace, ENTER, ctrl-L), `terminal_fread` | ENTER arriving inside `terminal_fread`, which runs with interrupts on |
| processes (`proc.c`, `sched.c`, `signal.c`) | PCB status, parent, session, pending signals; `cur_proc_pcb`, `cur_sess_id`, `sa_pcb` | `sys_execute`, `sys_halt`, `sys_kill`, `sys_set_handler`, `sys_vidmap`, `sys_map_modex`, `do_signal`, `do_sched`, ctrl-C, alt-F | timer ticks between any two calls; sessions switched while a program runs |
| paging (`paging.c`, module `Paging`, composed into `Proc` and `Heap`) | `page_directory`, `first_page_table`, `prog_page_table`, `heap_page_table` | `setup_paging`, `map_virtual_4mb`, `map_virtual_4kb_first`, `map_virtual_4kb_prog`, `set_virtual_4mb_heap`, `set_virtual_4kb_heap`, `free_virtual_4kb_heap` | a remap forgotten on one of the paths that change the current process; a boot mapping left user accessible; heap pages left present after `free` |
| screen and history (`terminal.c`, `mouse.c`, module `Screen`) | `vid_x`, `vid_y`, `history_ptr`, `screen_head` per session, `cur_sess_id`, the VGA cursor | `sess_putc`, `newline`, `backspace`, `clear_screen`, `load_screen`, `terminal_fwrite`, `sess_switch`, `scroll_up`, `scroll_down` | output of a background session while the user scrolls back; BACKSPACE across a wrapped line |
| e1000 driver (`network.c`) | RX descriptors, RDH/RDT, `rx_cur`, ICR, `e1000_rx_temp`, `package_buf`/`package_len`, `SEND_DHCP`, `ip` | `fire`, `handleReceive`, `sendPacket`, `get_package`, `get_ip` | packets written into the shared buffer during the copy loop; causes read together; a late DHCP offer; `realloc` failing |

**Concurrency.** There is none inside a filesystem call. The system-call gate
is an interrupt gate: `idt.c` leaves `reserved3 = 0`, so IF is cleared on
entry. The timer therefore cannot preempt a process inside the driver. Spec §5
warns about a preemption between "read bitmap" and "write bitmap", but that
cannot happen in this build. Each operation is one atomic step. The
behaviours that matter are:

- **Sequences of operations.** What one call leaves on disk, the next one
  reads.
- **Faults part-way through a call.** A fault (a null write, or an
  out-of-range bitmap write) kills the process. The disk keeps the writes
  made before it.

Three places do interleave:

- The PIT handler runs `do_sched` between any two system calls of a
  process (module `Proc`).
- `terminal_fread` executes `sti()` and spins on `cmd_available`, so the
  keyboard handler runs between its steps (module `Terminal`).
- The e1000 NIC writes packets while the driver's handler and `get_ip`'s
  spin run (module `Network`). Frames on the wire may be lost, delayed,
  duplicated or reordered.

Nothing is persisted across a crash, so there is no crash/restart. The
fairness assumed is weak fairness of `do_sched` (section 4d) and of the
NIC interrupt handler (section 4f). The filesystem properties are safety
properties. The one liveness concern there, the unbounded loop of
`ext2_is_ancestor`, is reduced to the invariant that makes the loop end.

## 2. Plan

In order of importance:

1. **`Ext2`** (done): directory records and allocation, on the whole disk as
   one value. It has:
   - the actions Create, Mkdir, IRemove (three success cases and two
     failures) and Write (allocation only);
   - **`MCExt2`**, a model on a small mounted image.
2. **`RegionBitmap`** and **`Heap`** (done): the allocator of `bitmap.c` at
   word level, shown to refine the bit-level contract `RegionAlloc`, and its
   client, the page heap of `mem.c`. See section 4b.
3. **`FileData`**, **`Terminal`**, **`FdTable`** (done): the file data
   path, the line discipline and the fd system calls that dispatch to them.
   See section 4e.
4. **`PathWalk`** (done): `parse_path`, `free_dentry` and the dentry
   handling of the system calls, as ownership of heap dentries. See
   section 4c. Still open: composing it with `Ext2`, so that the tree its
   lookups read is the one `Ext2` changes. It now uses a fixed tree.
5. **`Proc`** (done): processes, sessions, scheduling and signals. See
   section 4d.
   **`Paging`** (done): the page tables as a value with one operator per
   function of `paging.c` and the MMU's translation (`Translate`); `Proc`
   keeps the directory and the two small tables, `Heap` the heap table.
   **`Network`** (done): the e1000 receive path and DHCP. See section 4f.
   **`Screen`** (done): the echo, program output, session switch and
   mouse wheel on the cursor, history pointer and screen head of every
   session. See section 4g.
6. Later: I/O errors of the block device as a nondeterministic failure of
   each read or write (partial failure), and `setkey`/`getkey`.
7. The dentry chain `file_fopen` keeps in the file object
   (ext2.c:564-632), added to `PathWalk`.

## 3. Ext2: how the model corresponds to the code

### State

| Variable | What it holds |
|---|---|
| `disk.ibm`, `disk.bbm` | The bitmaps, as sets of used numbers (bit b is number b+1). |
| `disk.inode[i]` | Mode (`dir`/`reg`/`free`), `i_size`, and `i_block` as a sequence (its length is `i_blocks`). |
| `disk.dblk[b]` | A directory block at record granularity: a function from 4-aligned offsets to the record header stored there (`ino`, `rec_len`, `name`, `ft`; `name_len` is the name's length). |
| `op`, `ret` | The call of the last step and what it returned (`ok`, `err`, or `fault` when the process is killed). |

File contents are not modelled.

**Scans.** `Scan`, `InsWalk` and `IdxWalk` follow `rec_len` from offset 0
exactly as the three C loops do. A header left behind by a merge stays in the
block but is not visited. The C code compares offsets with the literal 1024;
the model uses `BlockSize`.

### Actions

Each action is one whole call, its writes composed in the order the C code
makes them:

- **Create**, from `sys_create` → `icreate` → `next_free_ino` →
  `ext2_insert_dentry` → `ext2_alloc_inode`:
  - `CreateRejected`: the name exists, or the parent is not a directory;
  - `CreateNoInode`: inodes exhausted, fault;
  - `CreateNoBlock`: the insert needs a block and none is left, or the
    parent has no block; fault after the inode bit is set;
  - `CreateOk`.
- **Mkdir**, from `sys_mkdir` → `imkdir`, called only when the name is
  absent:
  - `MkdirNotDir` / `MkdirNoInode`: the create fails, and `imkdir` goes on
    with an uninitialised `dir_ino`. This is undefined behaviour, recorded as
    a fault.
  - `MkdirNoBlock`: a fault in the insert, or in `ext2_alloc_iblock` after
    the entry and the inode are written.
  - `MkdirOk`: the new block holds `.` and `..` with `rec_len` 12 each. The
    rest of the block is stack memory (`this_dir.name` past its first
    byte, then other locals), so the header at offset 24 is any header.
    `MkdirTail` keeps one of each kind the walks tell apart: zero bytes
    (the sentinel), an unknown type with a name (the by-name scan stops
    there, the by-index walk does not), a known type ending at the block
    end, and a known type whose `rec_len` runs past the block. A known
    type with `rec_len` 0 is left out: every later scan of the directory
    would spin.
- **IRemove**, from `sys_rm` → `iremove` → `ext2_remove_dentry`:
  - `RemoveRejected`;
  - `RemoveDirNotEmpty`: the emptiness probe `ext2_read_dentry_by_index(2,
    …, 0)` (`ByIndex2`) finds a third record with a name and the call
    returns -1. The probe fills a NULL dentry; virtual page 0 is mapped for
    the kernel (`setup_utility_page`), so that write does not fault;
  - `RemoveDirNoBlock`: the matched directory has no block, and the probe
    reads a stack word as a block number (recorded as a fault);
  - `RemoveAnnexNext` (case 1), `RemoveOnly` (case 2), `RemoveMerge`
    (case 3). Each is preceded by the releases (`Released`), which set
    bitmap bits, as the code does.
- **Write**, from `file_fwrite` at `f_pos` 0 (after open) or `i_size`
  (after seek to the end). It covers `ext2_alloc_inode(f, inode, pos+len)`:
  - `WriteOk`;
  - `WriteRunsOut`: the blocks run out and it faults.

**Reads.** `DirFread` is `dir_fread`: -1 on a file that is no directory,
else the `name_len` of the record `ReadDentryByIndex` (the by-index walk,
`IdxWalk`) stops on for the file position. `InoExist` is `ino_exist`, and
`InodeSlot` is the arithmetic of `ext2_access_inode`: block group, the block
read as the group descriptor (`s_blocks_per_group * bgno + 2`), the block
within the inode table and the byte offset. The inodes per block come from
`s_inode_size` (`InodeSize`), the offset from `sizeof(ext2_inode_t)`
(`SizeofInode`); both are 128 in MCExt2.cfg, scaled to 12 like the block
size (1024 to 48). The inode table itself stays a function of the inode
number.

**Properties.** Every property in `Ext2.tla` is preceded by a comment
stating it.

## 4. Runs

### `ext2_safety` (MCExt2.cfg, pass)

It checks four properties besides `TypeOK`, whatever header `imkdir`'s
stack bytes leave after `..`:

- **`BlocksExclusive`**: every block listed by a reachable inode is marked
  used and is listed by no other slot.
- **`DirectoryEntriesConsistent`**:
  - names are unique per directory;
  - each entry names an allocated inode of the matching type;
  - no inode is named twice.
- **`ParentChainReachesRoot`**: from every directory with a block, the `..`
  records lead to the root, and each parent lists its child. The loop of
  `ext2_is_ancestor` relies on this.
- **`InodeAccessInRecord`**: for every inode in use, the bytes
  `ext2_access_inode` reads and writes lie inside that inode's own record
  of the inode table of group 0 (descriptor in block 2), and inside one
  block. With 128-byte inodes it holds. MCExt2_InodeSize.cfg, kept beside
  the runs, gives the image 256-byte inodes. There TLC finds the property
  violated in the initial state: inode 2 is read at byte 128 of the table,
  the second half of inode 1's record, because the offset uses
  `sizeof(ext2_inode_t)`. The repository has no disk image, so this is a
  hazard of the image, listed in PROJECT.json.

All hold. Each is broken by one mutant of the code (listed in PROJECT.json):

- `next_free_blkno` returning the bit index without `+ 1`;
- a lookup that gives up after the first block;
- `..` written with the new directory's own number;
- a reversed subtraction in the record write;
- the inode offset taken from the index in the group, not in the block.

### `dir_ops_contract` (MCExt2_DirOps.cfg, violation)

`DirOpsMeetSpec` is the spec's contract for create and remove:

- a create in a directory that has blocks never faults;
- a create that returns 0 leaves the name in the directory;
- a remove that returns 0 leaves the name gone and the inode's bit clear;
- `RemoveDirMeetsSpec`: removing a directory succeeds exactly when it holds
  only `.` and `..`;
- `ListingMatchesLookup`: the spec says lookup by name and by index both
  stop at the end-of-directory sentinel, so reading a directory with
  `dir_fread` from position 0 until it returns 0 (as `ls` does) gives
  exactly the names the by-name scan visits, in order.

TLC's shortest trace is create x, remove x: the inode bit stays set,
because `release_ino` sets bits. Each other clause fails too, and each has a
cfg of its own beside the runs. Run them with `tlc -config <cfg> MCExt2`:

| cfg | What TLC finds |
|---|---|
| `MCExt2_CreateVisible.cfg` | a create that needs a new directory block returns 0 and the name is not found (the directory inode is never written back) |
| `MCExt2_RemoveGone.cfg` | remove of `f0`, the only record of its block, returns 0 and `f0` is still listed |
| `MCExt2_CreateNeverFaults.cfg` | a create with every inode used faults (`== -1` against `-ENOMEM`) |
| `MCExt2_RecLenSum.cfg` | after one mkdir, the `rec_len` chain of the new block does not end at the block end: the stack header at offset 24 stops it or runs past it (the spec: `rec_len` fields sum to one block) |
| `MCExt2_Listing.cfg` | mkdir x: the stack header at offset 24 is of unknown type with a name; the by-name scan stops there, `dir_fread` returns it, so `ls` lists a name lookup does not find |
| `MCExt2_RemoveEmpty.cfg` | mkdir x, remove x returns -1: the stack bytes after `..` read as a third record with a name |

## 4b. The region allocator and the heap

**Modules.**

| Module | What it is |
|---|---|
| `Bitmap` | Pure operators over a bitmap value (a function from word index to a `BitsLong`-bit word): `_reg_op`'s mask, words and three operations, `find_free_region` (a RECURSIVE scan), `allocate_region`, `release_region`, `bitmap_query_bit`. Bitwise `&`/`|` do the word operations. |
| `RegionAlloc` | The contract of spec 4.1 over a set of used bits: first free aligned region, allocate-if-free, release. |
| `RegionBitmap` | The three library calls on one map, each one step. `Abs == INSTANCE RegionAlloc WITH used <- SetBits(bm, NumBits)` is the refinement mapping; `RefinesRegionAlloc == Abs!ASpec`. |
| `Heap` | `malloc`, `free` and `realloc` of `mem.c`. `heap` holds `heap_map`, the header word at each page, and `alloc_info`; `live` is the set of pointers (first-page indices) callers hold; `ret` is the last result. `AllocOp` is `__alloc` with `alloc_request_pages`; `FreeOp` is `__free` with `free_request_pages`; `realloc` is `AllocOp`, then `FreeOp` of the old pointer if the first succeeded. `heap.pt` is `heap_page_table`: `__alloc` maps the object's pages with `CreateHeapPages` (`create_heap_pages`), `__free` unmaps them with `DestroyHeapPages`, both through `Paging`'s `set_virtual_4kb_heap`/`free_virtual_4kb_heap`. |

**Concurrency.** Every caller of the heap runs with interrupts disabled:
the filesystem and process code run inside system calls (an interrupt
gate), and `realloc`'s one caller is the network receive handler. So each
call is one step.

**Runs.**

| Run | Expect | What it shows |
|---|---|---|
| `region_bitmap_refinement` (MCRegionBitmap.cfg) | pass, 2,560 states | With positions aligned to `2^order` (the comment of `_reg_op`), every call on a map of two 4-bit words does what `RegionAlloc` says, for orders 0-2 (inside a word) and 3 (both words). |
| (MCRegionBitmap_Unaligned.cfg, kept beside the runs) | violation | With any position (the spec's glossary allows unaligned regions): `find_free_region(0)` takes bit 0, then `allocate_region(1, 2)` returns 0 having set bits 1-3 only; bit 4 is neither tested nor set. |
| `heap_safety` (MCHeap.cfg) | pass, 108,881 states | `HeapMapMatchesObjects`: the set bits of `heap_map` are exactly the pages of the live objects, which are disjoint and inside the heap. `AllocInfoAccurate`: `page_alloc` and `obj_alloc` count them. `AllocRequestOrderIsLeast`: every object got the least order that holds it and its header, checked against a direct definition. `HeapPagesMapped`: a page of `heap_page_table` is present exactly when it belongs to a live object, so `destroy_heap_pages` unmaps what `create_heap_pages` mapped. |
| (MCHeap_MaxEntry.cfg, kept beside the runs) | violation | `malloc(32)` with a 4-page limit and 8-byte pages passes the test (32/8 = 4) and, with the header, takes 8 pages. In the build, `malloc(32*4096)` takes 64 pages against "at most 32". |

Mutants that each run's properties catch: `BITS_TO_LONG` without the
round-up; release by subtraction; the free order computed without the
header; a missing `obj_alloc--`; `alloc_request_order` never rounding
down; `alloc_info` counted before the `-ENOMEM` test; `destroy_heap_pages`
unmapping one page too few.

**Bounds.** `BitsLong` is 4 instead of 32: `_reg_op` works the same way for
any word width, and 4 lets a region span words at order 3 with a map of
only 8 bits. The heap has 8 pages of 8 bytes, `MAX_HEAP_ENTRY = BITS_LONG`
as in the build. The sizes 0 and 40 are refused; 4, 5, 13 and 32 give
objects of 1, 2, 4 and 8 pages (totals 8, 9, 17, 36: exactly one page, a
power of two, a rounded-up 3 and a rounded-up 5). Eight pages fill with two
or three objects, so every failure of `find_free_region` is reached.

## 4c. Path resolution and dentry ownership (`PathWalk`)

**What is modelled.** `parse_path` (vfs.c:22-146) turns a path into two
dentries, `base` (the parent) and `dent` (the node). It allocates dentries
along the way: copies of `cur_dentry`'s `d_parent` chain for a relative
path, and one per looked-up component. It must free all of them except
`dent`'s chain. `free_dentry` frees a chain up to `&superblock.s_root`. The
system calls (syscall.c:520-739) allocate `base` and `dent`, call
`parse_path`, and free what they think they own. `sys_cd` replaces
`cur_dentry`, whose chain it owns, by `*dent`.

| Model | Code |
|---|---|
| `heap[c]` (`ino`, `root` = `filename[0] == '/'`, `parent`, `used`) | heap page `c` holding a dentry (one page each, order 0) |
| `ROOT` | `&superblock.s_root`, static, its own parent |
| `cur` | `cur_dentry` |
| `ret` | the call, its result, and `err`: "fault" (read or free of a freed page), "ub" (free of static memory or an uninitialised pointer), "oom" (a write through the NULL of a failed malloc) |
| `Malloc`, `FreeCell`, `FreeDentry` | `malloc` (the lowest free page, as `find_free_region` gives), `free`, `free_dentry` |
| `CopyChain`, `Step`, `Loop`, `AfterLoop`, `FinalName`, `ParsePath` | the copy loop (39-53), one intermediate component (64-93), the main loop with its `FNAME_LEN` test (58-101), the last name (103-145), the whole |
| `SysCreate`, `SysRm`, `SysMkdir`, `SysCd` + `CdTail`, `SysPwd` + `PwdWalk` | the five calls |

A path is a record `[abs, comps]`. Its characters matter only through
component lengths, which give the `FNAME_LEN` test. A walk is a record
threaded through the operators: the heap, `d_trav`, `d_tmp`, the result,
and the error. Each call is one step, since system calls run with
interrupts off.

**Properties.**
- `MemorySafe`: no call faults or frees what it must not.
- `CurChainIntact`: between calls, `cur_dentry`'s chain is made of live
  dentries naming its ancestors in order, and ends at `&s_root` itself.
  This is what `sys_pwd`, the copy loop and `sys_cd`'s free rely on.
- `NoLeak`: the only live dentries are that chain's.

**Runs.**

| Run | Expect | What it shows |
|---|---|---|
| `pathwalk_safety` (MCPathWalk.cfg) | pass, 2,241 states | With paths that do not take `..` at the root and have no empty component, any sequence of the five calls keeps `MemorySafe` and `CurChainIntact`, including `cd` two levels down and back, lookups that fail, `..` and `.` as the last name, names too long, and the heap running out. |
| (MCPathWalk_BadPath.cfg, kept beside the runs) | violation | Two calls suffice. The trace TLC prints ends in a free of static memory or of the uninitialised `d_tmp`. This happens when an empty component (`.//a`) or a `..` at the root (`/../a`) reaches the frees at vfs.c:68/96 or vfs.c:80. After a `..`, the same free at 68 releases a page already freed. |
| `pathwalk_leak` (MCPathWalk_Leak.cfg) | violation | an `rm` of the cwd (`/`) returns -1 and leaves `base` and `dent` allocated; every failing call, and `cd("/")`, does the same. |

`MCPathWalk_CwdFreed.cfg` (kept beside the runs) shows the worst case of
the empty-component bug: `cd a/b`, then `create(".//a")` frees
`cur_dentry`'s own chain and returns -1. `CurChainIntact` fails after the
call, and the next `pwd` reads a freed page.

Mutants the pass run catches:
- a free in the last-name cleanup without the `&s_root` test;
- `sys_cd` freeing the chain after `cur_dentry = *dent`, which frees the
  new chain;
- `sys_mkdir` returning `parse_path`'s 1.

**Bounds.** The tree is `/` holding the directory `a` and the file `f`,
with `a` holding the directory `b`. `z` names nothing. Paths have one or
two components from `. .. a b f z`, with or without a leading or trailing
`/`. The bad-path set adds `x//y`, `//a` and `x//`. `FNAME_LEN` is 4, so
`../..` is too long. Six pages let the heap fill within a few leaking
calls. Depth two is the least at which the copy loop copies an ancestor,
which is where the empty-component bug frees the cwd chain.

## 4d. Processes, sessions, scheduling and signals (`Proc`)

**State.**

| Variable | Code |
|---|---|
| `status[p]` | `proc_status` of PCB `p` (INACTIVE, ACTIVE, DAEMON, PENDING, IDLE) |
| `parent[p]`, `sess[p]` | `parent_pid`, `active_sess` (`NoPid` = `NUM_PROC` marks a session's shell) |
| `cur`, `curSess` | `cur_proc_pcb`, `cur_sess_id` |
| `saPcb[s]` | `sess_desc[s].sa_pcb`, the process ctrl-C signals |
| `pending[p]`, `handled[p]` | the pending-signal queue; the signals with a handler of the program's own |
| `mmu` | `page_directory`, `first_page_table` and `prog_page_table` (a `Paging` table value). `progPage` and `vidPage` read the frames mapped at 128MB (`GetPhysAddrByPid`) and at 132MB, where `sess_putc` writes (`VIDEO` or a session's `GetCachedVidmem`) |
| `err` | `"nopid"` once `do_sched` would take `NUM_PROC` as a pid; `"nullsig"` after ctrl-C with `sa_pcb` NULL |

**Actions.**

- `Execute(loads)` is `sys_execute`, with `loads` choosing whether the
  program can be loaded.
- `Halt` is `sys_halt`, through `KillPid` (`kill_pid`).
- `SetHandler` is `sys_set_handler`, which refuses signal numbers above
  USER1; `Kill` is `sys_kill`; `Exception(sig)` is `do_exp` (DIV_ZERO
  for a divide error, SEGFAULT otherwise); `StackFault` is `do_sys`'s
  `chk_usr_esp`, which requests STACKFAULT instead of the system call.
- `DoSignal` is `do_signal` on the way back to user mode, built from the
  functions of `signal.c`: `GetSignal` (`get_signal`), then
  `HandleSignal` (`handle_signal`, no model state) for a signal with a
  handler, or `DflKills`, the SIG_DFL switch, and `DoSignalDfl`
  (`do_signal_dfl`, i.e. `kill_pid`). ALARM and USER1, which the switch
  ignores, are requested nowhere in the kernel, so that arm is not an
  alternative of the model. `Execute` resets the child's signals with
  `ProcSignalInit` (`proc_signal_init`).
- `CtrlC` and `SessSwitch` are the ctrl-C and alt-F branches of
  `keyboard_handler`; `SessSwitch` is `sess_switch`, including its remap
  of 132MB.
- `SysVidmap` is `sys_vidmap` with a valid pointer (an invalid one
  returns -1 and changes nothing). `SysMapModex` is `sys_map_modex`: its
  loop (`MapModexFrom`) maps the `MODEX_PAGE_NUM` pages from `VIDEO` at
  `MODEX_VIRT_START` in `prog_page_table`.
- `DoSys` is `do_sys`, the system-call entry: a bad user stack is
  `StackFault`, else one of the calls above that changes `Proc`'s state.
  Its `switch` has no `break` after SYS_HALT and SYS_EXECUTE. That costs
  nothing: `kill_pid` never returns, and a failed execute falls into
  `sys_read` with a pointer as the fd, which returns -1.
- `Sched` is `do_sched`, with `GetNextPid` (`get_next_pid`),
  `ShellToLoad` and `LoadShellImg` (`load_shell_img`).

`Init` is the tables after boot: `setup_paging`, `init_terminal`'s
`map_virtual_4kb_first` of each cached screen, `set_virtual_4mb_heap`
(`BootTables`), then the first shell's pages. Every action that changes
the current process also remaps its pages (`MapProcess`), as
the code does: the image of the new process at 128MB, and at 132MB
`VidFor(its session)`, the screen or that session's cached copy
(`kill_pid`, `do_sched`). `sys_execute` and `sess_switch` choose the
cached copy of `cur_sess_id` instead.

Each of these is one step. System calls enter through an interrupt gate, and
the handlers run with interrupts off.

**Fairness.** `pit_handler` calls `do_sched` every `TIME_QUANTUM` ticks while
`cur_proc_pcb` is set. The PIT is never masked for long: `kill_pid` spins
with interrupts on. So `Sched` is weakly fair. Nothing else is fair,
because the user may stop typing or calling.

**Runs.**

- `proc_safety` (MCProc.cfg, pass, 331,776 states, about two minutes)
  checks six properties:
  - `SessionChains`: the live processes of each session form one parent
    chain from its shell;
  - `CurIsRunnableLeaf`: the current process is its session's leaf, and
    the only ACTIVE process;
  - `SchedFindsNext`: `do_sched` always finds a pid;
  - `UserMemoryIsolated`: whenever user code runs, every probed user
    address (`Probes`: page 0, the kernel and history pages, the screen and
    cached screens, 128MB, the video and modex pages at 132MB, and the
    page below it) either faults through `Translate` (the MMU's P and U/S
    test at both levels) or reaches the current process's own image or the
    screen pages `sys_map_modex` hands out. It fails if a path that changes
    `cur_proc_pcb` forgets a remap, or if a boot mapping is user
    accessible. The heap window is not probed: see Not modelled;
  - `ShellRestarts`: a PENDING shell is reloaded (liveness);
  - `StackFaultIsFatal`: when `do_signal` takes a STACKFAULT, the process
    ends, whatever handlers it installed before; this rests on
    `sys_set_handler`'s bound on the signal number.
- `proc_contract` (MCProc_Contract.cfg, violation, `ProcMeetsSpec`)
  checks three claims together:
  - `VideoPageOfOwnSession`: the comments at every remap of 132MB say a
    process of a session not on screen writes to its own session's cached
    video memory. TLC reports this one: after an execute, alt-F2 maps
    session 1's cached copy for session 0's running program
    (`sess_switch` uses `cur_sess_id`). `sys_execute` does the same for a
    program of a background session, and `sys_vidmap` maps the screen
    itself. `MCProc_VidMap.cfg` checks this claim alone;
  - `CtrlCSignalsForeground`: ctrl-C kills the program of the session on
    screen. `sys_execute` links `sa_pcb` of the session on screen, not of
    the child's, so after alt-F2 ctrl-C kills a program of another session
    (`MCProc_CtrlC.cfg`);
  - `EveryProcessRuns`: every DAEMON process runs again (liveness).
    `MCProc_Starvation.cfg` shows it failing on its own: a shell that halts
    on every quantum keeps `do_sched` in its PENDING branch, and DAEMON
    processes of the other sessions never run. `MCProc_CtrlC.cfg` shows
    the ctrl-C claim with the NULL `sa_pcb` case turned off.

**Bounds.** Three pids and two sessions (four for `proc_contract`, so
that both sessions can have a child), one pending signal per PCB, and
signals SEGFAULT, STACKFAULT and SIGKILL (`Sigs` = {1, 5}; SIGKILL is
always sent by `sys_kill` and ctrl-C). In `proc_safety` only SEGFAULT
can get a handler. The contract configurations use `Sigs` = {2}, so that
a program can catch SIGKILL. DIV_ZERO takes the same path as SEGFAULT.
Adding a third signal to `proc_safety` multiplies the states by 2.4,
because of the pending queues. `MCProc`'s `ProcView` forgets the PCB fields
of INACTIVE pids. This is sound because `child_pcb_init` and
`proc_signal_init` overwrite them before anything reads them.

## 4e. Files: fd table, file data and the line discipline

**Modules.**

- `FileData` is the data path of one ext2 regular file.
- `Terminal` is one session's keyboard buffer and `terminal_fread`.
- `FdTable` is a process's fd table. It declares every variable and
  instantiates both components (`File`, `Term`).
- `MCFdTable` adds the model's offsets and the view.

**FileData state.**

| Variable | Code |
|---|---|
| `isize`, `iblocks`, `iblock` | the on-disk inode's `i_size`, `i_blocks`, `i_block[]` |
| `bbm` | the data blocks the block bitmap marks used |
| `data[b]` | the bytes of data block `b` |
| `fpos[fd]`, `osize[fd]` | the `file_t`'s `f_pos`; the `i_size` of the dentry snapshot `file_fopen` copied |
| `content` | ghost: what the file holds by its contract (bytes written, `Junk` in gaps) |
| `nwrites`, `fret` | ghost: the write count (a byte is `<<write, index>>`); the last read and its result |

**FileData actions.**

- `FOpen` is `file_fopen`.
- `FRead` is `file_fread`, through `ReadData`. `ReadData` is
  `ext2_read_data`: it clips to `i_size`, then takes the direct, indirect or
  straddling path.
- `ReadDirect` and `ReadIndirect` share the RECURSIVE chunk loop `Chunks`.
  `ReadIndirect` keeps the code's arithmetic as written:
  - `rmn_size` subtracts the direct area twice; its uint wrap is `Huge`;
  - every chunk is copied to the start of the buffer;
  - pointers are taken from the data block `i_block[12]`, a nondeterministic
    table.
- `FWrite` is `file_fwrite`. It runs:
  - `AllocInode` (`ext2_alloc_inode`), which sets `i_size` and `i_blocks`
    to the target size and adds blocks from `NextFreeBlknos` with no bound
    at 12;
  - `WriteDirect` (`ext2_write_direct`);
  - then `f_pos += n`.
- `FSeek` is `file_fseek`:
  - SEEK_SET and SEEK_END are checked against the cached `osize`;
  - SEEK_CUR reads an uninitialised `pos`, so its outcome is any in-range
    position or a failure.

**Terminal.**

- `kbdLen` is `kbd_buf_idx`.
- `cmd` is `cmd_buf`, as the number of the line it holds and the index of
  its `'\n'`. `cmdAvail` is `cmd_available`.
- `Key`, `Backspace`, `Enter` (`set_newline`) and `CtrlL` are the branches
  of `keyboard_handler` that touch them.
- `terminal_fread` is three steps, because it runs `sti()`:
  - `ReadBegin` clamps `nbytes`;
  - `ReadTake` is the spin seeing `cmd_available` and clearing it;
  - `ReadCopy` copies up to the `'\n'` under `cli`.

**Rtc.**

- `rate` is the rate field of RTC register A, and `wait` is the global
  flag of `rtc.c`. `rpc` is `"wait"` while the process spins in
  `rtc_fread`. `rret` records the last `rtc_fwrite`: its `nbytes`, the
  int32 in its buffer, and its result.
- `Init` is `rtc_init` (rate 15). `Handler` is `rtc_handler`. `Open` is
  `rtc_fopen` (rate 13).
- `rtc_fread` is two steps, because it runs `sti()`:
  - `ReadBegin` clears `wait`;
  - `ReadEnd` is the spin seeing `wait` set by an interrupt.
- `Write` is `rtc_fwrite`. It takes the uint16 low half of the value and
  calls `RtcRate`, the RECURSIVE bit scan `RateScan` of `rtc_rate`.

**FdTable.**

- `fdBitmap` is `fd_bitmap` and `fdOp` the jump table of each fd. `FOps`
  holds the tables of `terminal.c`, `ext2_file_fops` and `rtc_fops`.
  `sys_open` picks `rtc_fops` for the name "rtc".
- `Init` is `file_io_init`: fd 1 is stdout, or the file under an output
  redirection.
- `SysOpen`, `SysClose`, `SysRead`, `SysWrite` and `SysSeek` dispatch
  through `FOps`. A call that returns -1 and changes nothing is a stutter.
- `sys_seek` on stdin or stdout calls a NULL `.seek`. Page 0 is mapped for
  the kernel, so the CPU runs whatever page 0 holds. That is undefined; the
  model takes the outcome where the call never returns (`ppc` = `"hung"`).
- While the process is inside `terminal_fread` or `rtc_fread` it makes no
  other call. The keyboard and the RTC interrupt go on (`RtcInterrupt`,
  `RtcWait`).
- Programs write a 4-byte int only to the RTC. Its values come from
  `RtcValues`.

**Runs.**

- `files_safety` (MCFdTable.cfg, pass, 2,926,720 states) checks three properties:
  - `FileBlocksOwned`: the pointers below `i_blocks` are distinct blocks
    marked used;
  - `FileReadReturnsData`: every file read returns `min(n, size - pos)`
    bytes, each the byte last written there;
  - `RtcRunsAtWrittenFrequency`: `rtc_fwrite` returns 4 exactly when
    `nbytes` is 4 and the uint16 it reads is a power of two from 2 to
    1024, and the RTC then runs at that frequency. `rtc_rate`'s scan is
    checked against this reference.

  The file is kept within the direct blocks (`MaxSize` 4 = 2 blocks of 2).
- `files_contract` (MCFdTable_Contract.cfg, violation, `FilesMeetSpec`)
  checks what spec sections 6-8 say of the file system calls, taken
  together:
  - `ReadReturnsData`: a read returns the bytes written there, and stdin
    returns each typed line once;
  - `SeekMeetsSpec`: a seek returns 0 and moves `f_pos` to the target
    exactly when the target lies in `0 .. i_size`, and otherwise returns
    -1 and leaves `f_pos`. `FSeek` records its call and result in `fret`;
  - `SyscallsReturn`: no call leaves the process unable to return;
  - `RtcWriteMeetsSpec`: a successful RTC write sets the frequency written.

  The file may grow to 3 blocks. TLC reports `SyscallsReturn` first:
  `sys_seek` on fd 0 calls stdin's NULL `.seek` (syscall.c:619). Each
  conjunct also fails on its own, with a kept cfg:
  - `MCFdTable_Seek.cfg` (`SeekMeetsSpec`): `SEEK_CUR` starts from the
    uninitialised local `pos` (ext2.c:641), so a seek of +1 on an empty
    file may land on 0. With `SEEK_CUR` left out, the trace is: write 1
    byte, then `SEEK_END` -1 fails. The bound is the `i_size` copied at
    open, and `file_fwrite` does not update it (ext2.c:649).
  - `MCFdTable_Rtc.cfg` (`RtcWriteMeetsSpec`): `rtc_fwrite` requires
    `nbytes` = 4 but reads a `uint16_t` from the buffer, so writing
    65538 returns 4 and sets 2 Hz (rtc.c:154).
  - `MCFdTable_ReadContract.cfg` (`ReadReturnsData`). The trace:
    1. write 3 bytes via the redirected fd 1, then write 3 more;
    2. open fd 2;
    3. read 3, then read 3 at offset 3;
    4. the second read returns 2, the straddle path's indirect count.
  - `MCFdTable_StdinRace.cfg` keeps the file small and fails
    `ReadReturnsData` through stdin:
    1. ENTER arrives between `ReadTake` and `ReadCopy`;
    2. the earlier line is lost;
    3. the new line is returned twice.

**Bounds and view.** Block size 2 with 2 direct blocks stands in for 12,
which is enough to make the direct, straddling and past-the-end paths
happen:

- lengths {1, 3}: 3 crosses a block;
- seek offsets {-1, 1};
- three fds: stdin, stdout or the file, and one that `sys_open` can fill;
- `KEY_BUF_SIZE` 2 and one typed line (two for the violation runs);
- RTC values 1, 3, 8, 1024, 2048 and 65538: no bit above bit 0, not a
  power of two, two supported frequencies including the top one, one
  above `MAX_REP`, and one whose low 16 bits are 2.

`FdView` drops `cmd`, `tn`, `tret` and `lastLine`. They feed only each
other: no guard reads them, and no other variable is computed from them.
States that differ only in them therefore have the same futures on the
variables the pass run's invariants read. `FdView` also drops `rate` and
`rret`, and `wait` while no read spins. Only `rtc_fopen` and
`rtc_fwrite` write `rate` and `rret`, and what those calls write does not
depend on the old values. `rtc_fread` overwrites `wait` before reading
it. The RTC property is an action property, so TLC checks it on every
step it explores. The violation runs check the
action property on every step they explore.

## 4f. The e1000 receive path and DHCP (`Network`)

**What is modelled.** The code modelled is `network.c` after
`network_init`:

- the receive ring (`rxinit`, `handleReceive`);
- `sendPacket`;
- the interrupt handler `fire`;
- the system calls `get_package` and `get_ip`, which runs the DHCP
  discover/offer/request exchange.

The NIC and the wire are the environment:

- `NicDma` writes a packet into `e1000_rx_temp` when the NIC owns a
  descriptor (`nicPkt` is that packet). `NicWriteBack` later sets the
  descriptor's DD bit and length, advances RDH and raises RXT0, and
  RXDMT0 when the free count falls to half the ring. The driver may run
  between the two. `NicDrop`: when the ring is full the NIC drops the
  packet and raises RXO.
- `LinkChange` raises LSC.
- Offers and acks arrive only for discovers and requests that were sent.
  They may be late, repeated or out of order. Other hosts' traffic comes
  from `Foreign`.

**State.**

- `rxDesc`: the DD bit and length of each descriptor.
- `rxTemp`: `e1000_rx_temp`. `rxinit` gives this one buffer to every
  descriptor, so it holds the last packet written, plus the last one long
  enough to reach the DHCP cookie.
- `rdh`, `rdt`, `rxCur`: the ring registers and the driver's cursor.
- `icr`: the ICR register.
- `pkgData`, `pkgLen`: `package_buf` and `package_len`.
- `sendDhcp`, `ip`: `SEND_DHCP` and `ip`.
- `nicPkt`: the packet the NIC has written into the buffer but not yet
  into a descriptor.
- `cpu`: the interrupted context: user, `get_ip`'s spin, or hung.
- `hpc`: `"rx"` while `handleReceive`'s loop runs.

**Actions.**

- `Fire` reads and clears ICR. It follows the else-if chain: only RXT0,
  without LSC or RXDMT0, enters `handleReceive`.
- `RxStep` is one turn of the loop:
  1. `realloc` of `package_buf`. When `ReallocFails`, the heap may be
     full: realloc returns NULL, the old buffer leaks, and the memcpy
     writes into page 0, which is mapped for the kernel (`bufNull`). On a
     later packet, a successful `realloc(NULL, len)` reads the header of
     NULL at 0xFFFFFFFC (`malloc_info`), which is not mapped. The fault
     handler returns to the same instruction, and the CPU hangs.
  2. The copy from the shared buffer.
  3. The DHCP test, the `ip` copy and the request.
  4. The release of the descriptor.
- `RxEnd` leaves the loop.
- `GetIp`, `GetIpDone` and `GetIpTimeout` are the call and its two exits.
  The 1000 ms timeout is a nondeterministic exit while `SEND_DHCP` is 0.

**Fairness.** `WF(Fire)` and `WF(HandleReceive)`. A pending cause with IF
set is delivered, and the handler runs with interrupts off until it
returns. Nothing on the wire is fair.

**Runs.**

- `network_safety` (MCNetwork.cfg, pass, 2,392,632 states) checks:
  - `RxRingInSync`: RDT is always one behind `rx_cur`, and the
    descriptors with DD set are exactly those from `rx_cur` up to RDH;
  - `TypeOK`.

  `PackageIntact` (`get_package` returns the bytes of the packet whose
  length it returns) fails, and MCNetwork_PackageIntact.cfg, kept beside
  the runs, shows it: a DHCP frame is written back, a short frame is
  DMA'd into the shared buffer, and the interrupt's loop copies the short
  frame's bytes with the DHCP frame's length and stops, the short frame's
  descriptor not yet written back.

  `CHECK_DEADLOCK FALSE`: the system stops on the hung handler.
- `network_contract` (MCNetwork_Contract.cfg, violation, `NetContract`)
  checks three properties:
  - `IpFromOwnOffer`: `ip` changes only to the offer of the current call;
  - `RxNeverFaults`: the handler never faults;
  - `RxEventuallyTaken`: every received packet is taken.

  TLC reports `IpFromOwnOffer` first: before any `get_ip` (calls = 0),
  another host's DHCP frame arrives and `handleReceive`, with `SEND_DHCP`
  still 0 from boot, takes its address as `ip`. Each conjunct also fails
  on its own, with a kept cfg:
  - `MCNetwork_RxNeverFaults.cfg`: two packets. The first realloc fails,
    and the packet is copied into page 0. The second realloc succeeds and
    reads the header of NULL at 0xFFFFFFFC (network.c:506).
  - `MCNetwork_IpFromOwnOffer.cfg`: a short data frame overwrites the
    shared buffer after an offer was received, and `ip` is taken from
    the data frame;
  - `MCNetwork_RxEventuallyTaken.cfg`: LSC or RXDMT0, read together with
    RXT0, drops the receive, and ICR is already cleared (the trace: the
    link changes, a packet arrives, one interrupt reads both).

**Bounds.** A ring of 4 descriptors and 5 arrivals, so that the ring
wraps and fills. There are 2 `get_ip` calls, so that a late offer can
answer the wrong call. The foreign traffic is one DHCP-sized frame and
one short frame.

## 4g. The screen: cursor, history and scroll-back (`Screen`)

Every session keeps its cursor `vid_x`/`vid_y` and two pointers into the
history page of `setup_history_page`. `history_ptr` is where
`write_history` stores the cursor's row at the next newline. `screen_head`
is the history line shown on the top row, and `load_screen` and the
mouse wheel redraw the screen from it. Session s's history starts at
`BOUNDARY1 + s * 0x100000`, and `BOUNDARY1` is the start of the mapped
history page.

**State.** `st.x`, `st.y`, `st.hp`, `st.head` (per session, in bytes
from `BOUNDARY1`), `st.cur` (`cur_sess_id`) and `st.cursor` (the VGA
cursor enabled), and `kbdIdx` (`kbd_buf_idx`). The characters are not
modelled, only where the code writes and reads them.

**Actions.** One per handler, each one step (the keyboard and mouse
handlers run with interrupts off, `terminal_fwrite` inside the system-call
gate):
- `Key`, `Enter`, `DeleteKeystroke`, `CtrlL`: the echo of
  `keyboard_handler` on `cur_sess_id` (`sess_putc`, `newline`,
  `backspace`, `clear_screen`). The line discipline itself is `Terminal`;
- `SessSwitch(s)`: the screen part of `sess_switch`;
- `MouseHandler`: the wheel byte of `mouse_handler`, as `ScrollUp` and
  `ScrollDown`;
- `TerminalFwrite(a, w)`: a program of session `a` writes `w`. `do_sched`
  runs the processes of every session, so `a` is any session.

The functions are operators on `st`, composed as the code calls them:
- `Refresh` is the scrolled-back test at the top of `sess_putc`,
  `newline` and `backspace`;
- `LoadScreen` is `load_screen`, which uses `cur_sess_id`, not its
  argument;
- `CheckScroll` is `check_scroll`/`enable_scroll`;
- `FWrite` is `terminal_fwrite`'s loop with its `line_check` case.

**Run.** `screen_contract` (MCScreen.cfg, violation, `ScreenMeetsSpec`)
checks two claims:
- `CursorRowIsHistoryPtr`: when the cursor is shown, its row is the
  history line `history_ptr` points at. `scroll_up` and `sess_switch`
  test `screen_head + NUM_COLS*(NUM_ROWS-1)` against `history_ptr` for
  this. TLC breaks it in 3 steps: a key on the last column (`line_check`,
  then `newline`) and one BACKSPACE. `backspace` moves `vid_y` up a row
  and leaves `history_ptr` where it was (terminal.c:716);
- `ViewInOwnHistory`: no screen head goes below its session's boundary,
  as `scroll_up`'s comment says. `MCScreen_View.cfg` checks it alone. In
  7 steps: session 0 fills its screen, the wheel scrolls it back, alt-F2,
  and a program of session 0 writes a character. `sess_putc(c, 0)` calls
  `load_screen`, which sets session 1's head to its `history_ptr` minus
  two rows, below `BOUNDARY2`. With the sessions the other way round, the
  head of session 0 goes below `BOUNDARY1`, where nothing is mapped, and
  `load_screen`'s read faults in the kernel.

**Bounds.** 2 sessions of 2 columns and 3 rows, a 4-byte keyboard buffer,
and at most 4 history lines per session (`MaxLines`). `MaxLines` also
bounds how far a head can go below its boundary, because `scroll_up`
tests the boundary with `==`. Programs write a character, `\n`, or both;
the last one reaches `terminal_fwrite`'s skipped `\n`. The real sizes
keep `KEY_BUF_SIZE - 1` typed characters below `NUM_COLS*(NUM_ROWS-1)`.
These sizes keep it too (3 < 4), so BACKSPACE cannot move `vid_y` above
row 0. Without the two claims, TLC explores all 183,196 states and
`TypeOK` (every `vid_y` a row index) holds.

## 5. Bounds

`MCExt2` scales the block size to 48 bytes, which holds 4 to 6 records. The
image:

- root (inode 2) has two blocks:
  - block 5: `.`, `..`, `lf`;
  - block 6: `f0`, alone in its block;
- `lf` (inode 3) is a directory made by mkfs, whose `..` spans to the end of
  its block;
- `f0` (inode 4) is a 10-byte file;
- two inodes and two blocks are free.

Names: `lf`, `f0`, `x` (length 1) and `yyyyy` (length 5, so that a split
needs 36 bytes). Writes are of 48 bytes.

With these bounds:

- all three remove cases are reached:
  - remove `f0` (case 2);
  - create `x` beside `f0`, then remove `f0` (case 1);
  - remove `lf` or `x` (case 3);
- so are the split, sentinel and new-block paths of the insert;
- so is exhaustion of both bitmaps, which makes every fault path fire.

More free inodes or blocks only repeat these shapes with other numbers, and
the state space grows quickly: 7 inodes and 11 blocks give more than
400,000 states without finishing.

`VIEW DiskView` merges states that differ only in `op`/`ret`. This is sound
because `Next` and the invariants read only `disk`. In the violation runs the
action properties read `op'`/`ret'` of each step, and those are still
computed.

## 6. Not modelled, and why

- `setkey`/`getkey` and AES: the key and the cipher are data transforms
  with no state a property here tells apart.
- Directories opened through `sys_open`: `SysOpen` opens only the regular
  file. The record walk `dir_fread` makes is `Ext2`'s `DirFread`, checked
  by `ListingMatchesLookup` (part of `DirOpsMeetSpec`); its file position
  is not kept.
- `sys_encrypt` and `sys_decrypt`: each opens the file on a stack
  `file_t` and makes one read and one write per 16-byte AES block. Modelling
  them means composing `FileData`'s reads and writes within one step, on
  top of a `files_safety` run that already takes over three minutes. A
  reading of the code shows two defects no run checks. `sys_encrypt` copies
  `(fsize/16 + 1) * 16` bytes into `malloc(fsize)`. `sys_decrypt` on a file
  under 16 bytes loops `bytes - 1 = 0xFFFFFFFF` times.
- `FileData` is one file. Blocks of other files are taken as already in
  `bbm`. The doubly and triply indirect pointers are never read by the
  code, and the model does not read them either.
- I/O errors: the block device is taken as always succeeding.
- `Ext2` takes order-0 `find_free_region` as "lowest clear bit"; the
  `region_bitmap_refinement` run shows that this is what the word-level code
  computes for order 0.
- `bitmap_empty`, `bitmap_full`, `bitmap_equal`: queries with no callers in
  the filesystem or the heap. `calloc`'s memset: the model has no page contents.
- `PathWalk`'s tree is fixed, and the inode operations the calls make are
  `Ext2`'s part. The text of paths is abstracted to components and their
  lengths. `sys_pwd`'s string buffers are counted, not modelled.
- Network: the transmit ring's indices (one send is outstanding at a time,
  see `Network`'s header), the EEPROM and MAC reads, `get_ipconfig`,
  `send_arq_request` and the packet formatting. `network_init` has no
  caller in this repository, so the model starts after it.
- The history page's end: `update_historyptr` has no bound. After 13,107
  lines a session writes into the next session's history, and after
  26,214 lines session 2 runs off the mapped page. `MaxLines` keeps the
  model far below this.
- `mod_fs`: unreachable in this build. `sys_open` uses `ext2_file_fop` for
  every name but "rtc", and nothing mounts the mod superblock; only
  `tests.c` calls it.
- The RTC's `wait` flag is one global. `FdTable` has one process, so two
  processes of different sessions spinning in `rtc_fread` at once (the
  PIT can switch between them) are not modelled.
- The device drivers other than the keyboard, the RTC and the NIC, and AES:
  outside the filesystem and the process model, or pure I/O.
- Paging: `Paging` models the tables' entries the kernel writes, keeping
  only the directory and table indices it ever makes present. Not
  modelled: `network_init`'s 4MB map of the e1000's MMIO window (its
  address does not fit TLC's integers, and nothing in this repository
  calls `network_init`), `setup_modex_page` (never called),
  `enable_paging` and `flush_tlb` (the model reads the tables directly),
  and the IDT. The kernel heap's directory entry and pages carry U/S
  (`set_virtual_4mb_heap`, `set_virtual_4kb_heap`), so user code can
  reach the heap. No source text says it must not, and `Proc` does not
  keep the heap table, so `UserMemoryIsolated` leaves that window out.
  `sys_map_modex`'s pages are never unmapped; `UserMemoryIsolated`
  allows them because the call hands them out by design.
