------------------------------- MODULE Paging -------------------------------
(***************************************************************************)
(* The page tables of paging.c: page_directory and the three page tables *)
(* first_page_table (the first 4MB), prog_page_table (the 4kB pages at    *)
(* 132MB) and heap_page_table (the kernel heap at 8MB), with one operator *)
(* per function that writes them.  A table value m is a record with one   *)
(* field per table (pd, first, prog, and heap where a module keeps it);   *)
(* an entry is a record of its P, R/W and U/S bits and the frame address, *)
(* a directory entry also of PS and of the table it points to.  The flags *)
(* EN_A and the TLB flush (flush_tlb) change nothing a property reads.    *)
(*                                                                         *)
(* Addresses are bytes, as in the code.  A table keeps only the entries   *)
(* the kernel ever makes present (PdIdx, FirstIdx, ProgIdx): every other   *)
(* entry keeps its boot value, not present, and any access through it     *)
(* faults.                                                                 *)
(***************************************************************************)
EXTENDS Integers

\* paging.h, system.h and terminal.h
NUM_PTE == 1024
PAGE_SIZE == 4096
PDE_SPAN == NUM_PTE * PAGE_SIZE        \* the 4MB one directory entry spans
PROG_PAGE_SIZE == 4194304
UTIL_ADDR == 0
VIDEO == 753664                        \* 0xB8000
VIDMEM_SIZE == 4096
KERNEL_TOP == 4194304
KERNEL_BOT == 4194304 + 4194304        \* KERNEL_TOP + KERNEL_SIZE
HISTORY_ADDR == 37748736               \* 0x2400000, setup_history_page
HEAP_VIRT_TOP == 8388608
HEAP_PHYS_TOP == 33554432
USER_VIRT_TOP == 134217728
VMEM_VIRT_START == 138412032
MODEX_PAGE_SIZE == 4096
MODEX_PAGE_NUM == 16
MODEX_VIRT_START == VMEM_VIRT_START + MODEX_PAGE_SIZE
NUM_PROC == 6
NUM_SESS == 3

\* virt >> 22 and (virt << 10) >> 22: the directory and the table index.
PdeIdx(virt) == virt \div PDE_SPAN
PteIdx(virt) == (virt \div PAGE_SIZE) % NUM_PTE

\* The entries the kernel sets: the first 4MB, the kernel page, the heap,
\* the history page, the program page at 128MB and the page table at 132MB;
\* in the first table page 0, the screen and the NUM_SESS cached screens
\* above it; in prog_page_table the video page and the MODEX_PAGE_NUM pages
\* after it.
PdIdx == {0, PdeIdx(KERNEL_TOP), PdeIdx(HEAP_VIRT_TOP), PdeIdx(HISTORY_ADDR),
          PdeIdx(USER_VIRT_TOP), PdeIdx(VMEM_VIRT_START)}
FirstIdx == {PteIdx(UTIL_ADDR)} \cup PteIdx(VIDEO) .. PteIdx(VIDEO) + NUM_SESS
ProgIdx == 0 .. MODEX_PAGE_NUM

\* phys & 0xFFFFF000 and phys & 0xFFC00000
Align4kb(a) == a - (a % PAGE_SIZE)
Align4mb(a) == a - (a % PDE_SPAN)

Pte(present, us, frame) == [p |-> present, rw |-> TRUE, us |-> us, frame |-> frame]
PdeTable(tbl, us) == [p |-> TRUE, rw |-> TRUE, us |-> us, ps |-> FALSE, frame |-> 0, tbl |-> tbl]
Pde4mb(frame, us) == [p |-> TRUE, rw |-> TRUE, us |-> us, ps |-> TRUE, frame |-> frame, tbl |-> "none"]

\* The static, zeroed arrays before setup_paging.
ZeroPte == [p |-> FALSE, rw |-> FALSE, us |-> FALSE, frame |-> 0]
ZeroPde == [p |-> FALSE, rw |-> FALSE, us |-> FALSE, ps |-> FALSE, frame |-> 0, tbl |-> "none"]
ZeroTables == [pd |-> [i \in PdIdx |-> ZeroPde],
               first |-> [i \in FirstIdx |-> ZeroPte],
               prog |-> [i \in ProgIdx |-> ZeroPte]]

\* map_virtual_4mb: a 4MB user page (P, R/W, U/S, PS).
MapVirtual4mb(m, phys, virt) ==
    [m EXCEPT !.pd[PdeIdx(virt)] = Pde4mb(Align4mb(phys), TRUE)]

\* map_virtual_4kb_first: a supervisor 4kB page through first_page_table.
MapVirtual4kbFirst(m, phys, virt) ==
    [m EXCEPT !.pd[PdeIdx(virt)] = PdeTable("first", FALSE),
              !.first[PteIdx(virt)] = Pte(TRUE, FALSE, Align4kb(phys))]

\* map_virtual_4kb_prog: a user 4kB page through prog_page_table.
MapVirtual4kbProg(m, phys, virt) ==
    [m EXCEPT !.pd[PdeIdx(virt)] = PdeTable("prog", TRUE),
              !.prog[PteIdx(virt)] = Pte(TRUE, TRUE, Align4kb(phys))]

\* set_virtual_4mb_heap: the heap's directory entry, user accessible.
SetVirtual4mbHeap(m, virt) ==
    [m EXCEPT !.pd[PdeIdx(virt)] = PdeTable("heap", TRUE)]

\* set_virtual_4kb_heap and free_virtual_4kb_heap on heap_page_table t,
\* at table index idx; free clears only the present bit.
SetVirtual4kbHeap(t, phys, idx) == [t EXCEPT ![idx] = Pte(TRUE, TRUE, Align4kb(phys))]
FreeVirtual4kbHeap(t, idx) == [t EXCEPT ![idx].p = FALSE]

\* setup_first_page_table: every entry R/W, not present, frame i * 4kB.
SetupFirstPageTable(m) ==
    [m EXCEPT !.first = [i \in FirstIdx |-> Pte(FALSE, FALSE, i * PAGE_SIZE)],
              !.pd[0] = PdeTable("first", FALSE)]

\* setup_utility_page: page 0 mapped one to one for the kernel.
SetupUtilityPage(m) == MapVirtual4kbFirst(m, UTIL_ADDR, UTIL_ADDR)

\* setup_kernel_page and setup_history_page: 4MB supervisor pages.
SetupKernelPage(m) == [m EXCEPT !.pd[1] = Pde4mb(KERNEL_TOP, FALSE)]
SetupHistoryPage(m) == [m EXCEPT !.pd[9] = Pde4mb(HISTORY_ADDR, FALSE)]

\* setup_video_page: the screen, present and R/W for the kernel.
SetupVideoPage(m) == [m EXCEPT !.first[PteIdx(VIDEO)] = Pte(TRUE, FALSE, VIDEO)]

\* setup_paging, in its order.
SetupPaging ==
    SetupHistoryPage(SetupVideoPage(SetupKernelPage(
        SetupUtilityPage(SetupFirstPageTable(ZeroTables)))))

(***************************************************************************)
(* The address an access to virt reaches, or Fault: the directory entry  *)
(* must be present, and for a 4kB page the table entry too; a user-mode   *)
(* access needs U/S at both levels.                                        *)
(***************************************************************************)
Fault == -1

Translate(m, virt, user) ==
    LET e == m.pd[PdeIdx(virt)]
    IN  IF ~e.p \/ (user /\ ~e.us) THEN Fault
        ELSE IF e.ps THEN e.frame + (virt % PDE_SPAN)
        ELSE LET t == m[e.tbl][PteIdx(virt)]
             IN  IF ~t.p \/ (user /\ ~t.us) THEN Fault ELSE t.frame + (virt % PAGE_SIZE)

\* The program images of the NUM_PROC pids lie between the kernel page and
\* the heap frames (get_phys_addr_by_pid, HEAP_PHYS_TOP).
ASSUME KERNEL_BOT + NUM_PROC * PROG_PAGE_SIZE <= HEAP_PHYS_TOP

=============================================================================
