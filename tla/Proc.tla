-------------------------------- MODULE Proc --------------------------------
(***************************************************************************)
(* Processes, sessions, scheduling and signals: proc.c, sched.c, signal.c,*)
(* the process system calls of syscall.c, and the parts of terminal.c and *)
(* keyboard.c that touch them (session switch, ctrl-C).                    *)
(*                                                                         *)
(* A process is a pid; its PCB fields the model keeps are its status      *)
(* (proc_status), parent_pid, active_sess, its queue of pending signals   *)
(* and the signals it handles itself.  cur is cur_proc_pcb, curSess is    *)
(* cur_sess_id, saPcb is sess_desc[s].sa_pcb, the process ctrl-C signals. *)
(* mmu holds the page tables of Paging: every remap of the code is its   *)
(* map_virtual_4mb (the program image at 128MB) or map_virtual_4kb_prog   *)
(* (the video page at 132MB, where sess_putc writes a program's output,   *)
(* and the sys_map_modex pages after it).  progPage and vidPage read the  *)
(* frames those two entries map.                                           *)
(* System calls enter through an interrupt gate and the keyboard and PIT  *)
(* handlers run with interrupts off, so each is one step.  The PIT        *)
(* handler calls do_sched every TIME_QUANTUM ticks whenever cur_proc_pcb  *)
(* is set, whatever the process is doing.                                  *)
(***************************************************************************)
EXTENDS Integers, Sequences, FiniteSetsExt, Paging

CONSTANTS
    NumProc,      \* NUM_PROC
    NumSess,      \* NUM_SESS
    MaxPending,   \* bound on the queue of pending signals of one PCB
    Sigs,         \* the signals programs fault with or give handlers (SIGKILL is always sent)
    NullCtrlC     \* whether ctrl-C may be pressed while sa_pcb is NULL

VARIABLES status, parent, sess, cur, curSess, saPcb, pending, handled, err,
          mmu

pageVars == <<mmu>>

vars == <<status, parent, sess, cur, curSess, saPcb, pending, handled, err,
          mmu>>

\* The frames mapped at 128MB and at 132MB.
progPage == mmu.pd[PdeIdx(USER_VIRT_TOP)].frame
vidPage == mmu.prog[PteIdx(VMEM_VIRT_START)].frame

Pids == 0 .. NumProc - 1
Sess == 0 .. NumSess - 1
NoPid == NumProc          \* parent_pid of a session's shell; get_next_pid's "none"
NULL == -1

INACTIVE == 0
ACTIVE == 1
DAEMON == 2
PENDING == 3
IDLE == 4

\* signal numbers of signal.h; SIGKILL is INTERRUPT
DIV_ZERO == 0
SEGFAULT == 1
INTERRUPT == 2
ALARM == 3
USER1 == 4
STACKFAULT == 5

\* Mutant: pid 0's image one page above the kernel.
GetPhysAddrByPidSkipOne(p) == KERNEL_BOT + (p + 1) * PROG_PAGE_SIZE

\* get_phys_addr_by_pid: program images follow the kernel, 4MB per pid.
GetPhysAddrByPid(p) == KERNEL_BOT + p * PROG_PAGE_SIZE

\* get_cached_vidmem: the off-screen copy of session s's screen.
GetCachedVidmem(s) == VIDEO + VIDMEM_SIZE + VIDMEM_SIZE * s

\* Mutant: the scan does not wrap round to the pids below c.
GetNextPidNoWrap(st, c, s) ==
    LET after == {i \in c + 1 .. NumProc - 1 : st[i] = s}
    IN  IF after # {} THEN Min(after) ELSE NoPid

\* get_next_pid over the status array st: the first pid after c, wrapping
\* round, with status s; c itself is never returned.
GetNextPid(st, c, s) ==
    LET after == {i \in c + 1 .. NumProc - 1 : st[i] = s}
        before == {i \in 0 .. c - 1 : st[i] = s}
    IN  IF after # {} THEN Min(after) ELSE IF before # {} THEN Min(before) ELSE NoPid

\* A process's two pages: map_virtual_4mb of its image at 128MB, then
\* map_virtual_4kb_prog of the frame vid at 132MB, as every caller does.
MapProcess(m, img, vid) ==
    MapVirtual4kbProg(MapVirtual4mb(m, img, USER_VIRT_TOP), vid, VMEM_VIRT_START)

(***************************************************************************)
(* The tables once the kernel has booted: setup_paging, terminal_init's   *)
(* map_virtual_4kb_first of each session's cached screen, and heap_init's *)
(* set_virtual_4mb_heap.  They write different entries, except that      *)
(* directory entry 0 gets the same value twice, so their order does not   *)
(* matter.                                                                 *)
(***************************************************************************)
BootTables ==
    SetVirtual4mbHeap(
        FoldSet(LAMBDA s, m : MapVirtual4kbFirst(m, GetCachedVidmem(s), GetCachedVidmem(s)),
                SetupPaging, Sess),
        HEAP_VIRT_TOP)

(***************************************************************************)
(* terminal_init and startup_envir_init, then the boot's sys_execute of   *)
(* the first shell with cur_proc_pcb NULL: child_pcb_init(NULL) takes pid *)
(* 0.  The other sessions' shells are PENDING placeholders; sa_pcb is     *)
(* static, NULL until a link_sa_pcb.                                       *)
(***************************************************************************)
Init ==
    /\ status = [p \in Pids |-> IF p = 0 THEN ACTIVE ELSE IF p < NumSess THEN PENDING ELSE INACTIVE]
    /\ parent = [p \in Pids |-> NoPid]
    /\ sess = [p \in Pids |-> IF p < NumSess THEN p ELSE 0]
    /\ cur = 0
    /\ curSess = 0
    /\ saPcb = [s \in Sess |-> IF s = 0 THEN 0 ELSE NULL]
    /\ pending = [p \in Pids |-> <<>>]
    /\ handled = [p \in Pids |-> {}]
    /\ err = "none"
    /\ mmu = MapProcess(BootTables, GetPhysAddrByPid(0), VIDEO)

\* The current process runs user code (not spinning in kill_pid).
UserMode == err = "none" /\ status[cur] \in {ACTIVE, DAEMON}

(***************************************************************************)
(* The frame kill_pid and do_sched map at 132MB for the process they pass *)
(* control to, of session s: the screen itself if s is on screen, else    *)
(* the session's cached copy (sess_desc[s].cached_vidmem).                *)
(***************************************************************************)
VidFor(s) == IF s = curSess THEN VIDEO ELSE GetCachedVidmem(s)

\* child_pcb_init: the lowest INACTIVE pid.
ChildPid(st) == Min({i \in Pids : st[i] = INACTIVE})

\* proc_signal_init: an empty pending list and SIG_DFL for every signal.
ProcSignalInit(p) ==
    /\ pending' = [pending EXCEPT ![p] = <<>>]
    /\ handled' = [handled EXCEPT ![p] = {}]

(***************************************************************************)
(* sys_execute.  No free pid: -1, nothing changed.  The parent goes IDLE; *)
(* if the program cannot be parsed, opened or is not an executable it     *)
(* goes DAEMON and -1 is returned.  Otherwise child_pcb_init takes the    *)
(* lowest INACTIVE pid, in the parent's session, cur_proc_pcb becomes the *)
(* child, link_sa_pcb(child, cur_sess_id), proc_signal_init; the child's  *)
(* image is mapped at 128MB and, unless its session is on screen, the     *)
(* cached video memory of cur_sess_id at 132MB.                            *)
(***************************************************************************)
Execute(loads) ==
    /\ UserMode
    /\ GetNextPid(status, cur, INACTIVE) # NoPid
    /\ IF ~loads
       THEN /\ status' = [status EXCEPT ![cur] = DAEMON]
            /\ UNCHANGED <<parent, sess, cur, saPcb, pending, handled, pageVars>>
       ELSE LET child == ChildPid(status)
            IN  /\ status' = [status EXCEPT ![cur] = IDLE, ![child] = ACTIVE]
                /\ parent' = [parent EXCEPT ![child] = cur]
                /\ sess' = [sess EXCEPT ![child] = sess[cur]]
                /\ cur' = child
                /\ saPcb' = [saPcb EXCEPT ![curSess] = child]
                /\ ProcSignalInit(child)
                /\ mmu' = MapProcess(mmu, GetPhysAddrByPid(child),
                                      IF sess[cur] = curSess THEN VIDEO
                                      ELSE GetCachedVidmem(curSess))
    /\ UNCHANGED <<curSess, err>>

(***************************************************************************)
(* kill_pid(cur): a session's shell (parent_pid NUM_PROC) is marked       *)
(* PENDING and spins with interrupts on until do_sched reloads it.  Any   *)
(* other process becomes INACTIVE, its parent ACTIVE and current, and     *)
(* link_sa_pcb(parent, cur_sess_id).                                       *)
(***************************************************************************)
\* Mutant: the parent is made current but left IDLE.
KillPidNoResume ==
    IF parent[cur] = NoPid
    THEN /\ status' = [status EXCEPT ![cur] = PENDING]
         /\ UNCHANGED <<cur, saPcb, pageVars>>
    ELSE /\ status' = [status EXCEPT ![cur] = INACTIVE]
         /\ cur' = parent[cur]
         /\ saPcb' = [saPcb EXCEPT ![curSess] = parent[cur]]
         /\ mmu' = MapProcess(mmu, GetPhysAddrByPid(parent[cur]), VidFor(sess[parent[cur]]))

\* Mutant: the parent's image is not mapped back at 128MB.
KillPidKeepsPage ==
    IF parent[cur] = NoPid
    THEN /\ status' = [status EXCEPT ![cur] = PENDING]
         /\ UNCHANGED <<cur, saPcb, pageVars>>
    ELSE /\ status' = [status EXCEPT ![cur] = INACTIVE, ![parent[cur]] = ACTIVE]
         /\ cur' = parent[cur]
         /\ saPcb' = [saPcb EXCEPT ![curSess] = parent[cur]]
         /\ mmu' = MapVirtual4kbProg(mmu, VidFor(sess[parent[cur]]), VMEM_VIRT_START)

KillPid ==
    IF parent[cur] = NoPid
    THEN /\ status' = [status EXCEPT ![cur] = PENDING]
         /\ UNCHANGED <<cur, saPcb, pageVars>>
    ELSE /\ status' = [status EXCEPT ![cur] = INACTIVE, ![parent[cur]] = ACTIVE]
         /\ cur' = parent[cur]
         /\ saPcb' = [saPcb EXCEPT ![curSess] = parent[cur]]
         /\ mmu' = MapProcess(mmu, GetPhysAddrByPid(parent[cur]), VidFor(sess[parent[cur]]))

\* sys_halt
Halt ==
    /\ UserMode
    /\ KillPid
    /\ UNCHANGED <<parent, sess, curSess, pending, handled, err>>

\* Mutant: the signum check is dropped.
SetHandlerAnySig(sig, own) ==
    /\ UserMode
    /\ handled' = [handled EXCEPT ![cur] = IF own THEN @ \cup {sig} ELSE @ \ {sig}]
    /\ UNCHANGED <<status, parent, sess, cur, curSess, saPcb, pending, err, pageVars>>

\* sys_set_handler(signum, address): a handler of the program's own, or
\* SIG_DFL again; signal numbers above USER1 are refused with -1.
SetHandler(sig, own) ==
    /\ UserMode
    /\ sig \in DIV_ZERO .. USER1
    /\ handled' = [handled EXCEPT ![cur] = IF own THEN @ \cup {sig} ELSE @ \ {sig}]
    /\ UNCHANGED <<status, parent, sess, cur, curSess, saPcb, pending, err, pageVars>>

\* request_signal: append to the PCB's pending queue.
RequestSignal(sig, p) ==
    /\ Len(pending[p]) < MaxPending
    /\ pending' = [pending EXCEPT ![p] = Append(@, sig)]

\* sys_kill(pid): SIGKILL to the PCB of any pid, whatever its status.
Kill(p) ==
    /\ UserMode
    /\ RequestSignal(INTERRUPT, p)
    /\ UNCHANGED <<status, parent, sess, cur, curSess, saPcb, handled, err,
                   pageVars>>

\* do_exp: a fault of the running program signals it, DIV_ZERO for a
\* divide error and SEGFAULT for any other exception.
Exception(sig) ==
    /\ UserMode
    /\ sig \in {DIV_ZERO, SEGFAULT}
    /\ RequestSignal(sig, cur)
    /\ UNCHANGED <<status, parent, sess, cur, curSess, saPcb, handled, err,
                   pageVars>>

\* do_sys's chk_usr_esp: a system call (not halt or execute) made with the
\* user stack pointer outside the user stack is not performed; STACKFAULT
\* is requested for the caller instead.
StackFault ==
    /\ UserMode
    /\ STACKFAULT \in Sigs
    /\ RequestSignal(STACKFAULT, cur)
    /\ UNCHANGED <<status, parent, sess, cur, curSess, saPcb, handled, err,
                   pageVars>>

\* get_signal: the first pending signal is dequeued (its sigaction freed).
GetSignal(p) == pending' = [pending EXCEPT ![p] = Tail(@)]

\* do_signal's switch on a signal left to SIG_DFL: DIV_ZERO, SEGFAULT,
\* INTERRUPT and STACKFAULT call do_signal_dfl; ALARM and USER1 are ignored.
DflKills(sig) == sig \in {DIV_ZERO, SEGFAULT, INTERRUPT, STACKFAULT}

\* do_signal_dfl: the saved masks are restored (do_panic first prints the
\* registers for ERR_RVAL) and kill_pid ends the current process.
DoSignalDfl == KillPid

\* handle_signal: a frame that calls sys_sigreturn is pushed on the user
\* stack and the program resumes in its handler; no state of the model
\* changes.
HandleSignal == UNCHANGED <<status, cur, saPcb, pageVars>>

(***************************************************************************)
(* do_signal, on the way back to user mode (and replayed by              *)
(* sys_sigreturn): get_signal takes the first pending signal.  With the   *)
(* program's own handler, handle_signal runs it; with SIG_DFL the switch  *)
(* calls do_signal_dfl for every signal the kernel requests (ALARM and    *)
(* USER1, which it ignores, are requested nowhere).  The masks are always *)
(* restored before user code runs again, so no signal is masked here.     *)
(***************************************************************************)
DoSignal ==
    /\ UserMode
    /\ pending[cur] # <<>>
    /\ GetSignal(cur)
    /\ LET sig == Head(pending[cur])
       IN  \/ sig \in handled[cur] /\ HandleSignal
           \/ sig \notin handled[cur] /\ DflKills(sig) /\ DoSignalDfl
    /\ UNCHANGED <<parent, sess, curSess, handled, err>>

\* keyboard_handler, ctrl+c: signal the session's sa_pcb.  With sa_pcb NULL,
\* enqueue_signal links a node into a list head read from page 0 (mapped
\* for the kernel): undefined, so the model stops at that step ("nullsig").
CtrlC ==
    /\ err = "none"
    /\ IF saPcb[curSess] = NULL
       THEN /\ NullCtrlC
            /\ err' = "nullsig"
            /\ UNCHANGED pending
       ELSE /\ RequestSignal(INTERRUPT, saPcb[curSess])
            /\ UNCHANGED err
    /\ UNCHANGED <<status, parent, sess, cur, curSess, saPcb, handled, pageVars>>

(***************************************************************************)
(* sess_switch from alt+F1..F3, to another session (the same one returns  *)
(* at once).  The running process gets the screen at 132MB if it belongs  *)
(* to the new session, else the cached video memory of cur_sess_id, the    *)
(* session just switched to.                                               *)
(***************************************************************************)
SessSwitch(s) ==
    /\ err = "none"
    /\ s # curSess
    /\ curSess' = s
    /\ mmu' = MapVirtual4kbProg(MapVirtual4kbFirst(mmu, VIDEO, VIDEO),
                                 IF sess[cur] = s THEN VIDEO ELSE GetCachedVidmem(s),
                                 VMEM_VIRT_START)
    /\ UNCHANGED <<status, parent, sess, cur, saPcb, pending, handled, err>>

\* sys_vidmap with a pointer inside the program's page (otherwise -1 and
\* nothing changes): the screen itself is mapped at 132MB.
SysVidmap ==
    /\ UserMode
    /\ mmu' = MapVirtual4kbProg(mmu, VIDEO, VMEM_VIRT_START)
    /\ UNCHANGED <<status, parent, sess, cur, curSess, saPcb, pending, handled, err>>

\* sys_map_modex's loop from page i on: page i of the screen up is mapped
\* at MODEX_VIRT_START + i pages.
RECURSIVE MapModexFrom(_, _)
MapModexFrom(m, i) ==
    IF i = MODEX_PAGE_NUM THEN m
    ELSE MapModexFrom(MapVirtual4kbProg(m, VIDEO + i * MODEX_PAGE_SIZE,
                                        MODEX_VIRT_START + i * MODEX_PAGE_SIZE), i + 1)

\* sys_map_modex with a pointer inside the program's page (otherwise -1
\* and nothing changes).
SysMapModex ==
    /\ UserMode
    /\ mmu' = MapModexFrom(mmu, 0)
    /\ UNCHANGED <<status, parent, sess, cur, curSess, saPcb, pending, handled, err>>

\* load_shell_img(pid): /bin/shell is read into the pid's image, which is
\* mapped at 128MB; the frame it maps.
LoadShellImg(p) == GetPhysAddrByPid(p)

\* Mutant: the current process keeps ACTIVE.
DemoteNoop(st, c) == st

\* do_sched's first step: an ACTIVE current process becomes a DAEMON.
Demote(st, c) == IF st[c] = ACTIVE THEN [st EXCEPT ![c] = DAEMON] ELSE st

\* Mutant: get_next_pid's NUM_PROC used as the pid.
ShellToLoadNoFallback(st, c) == GetNextPid(st, c, PENDING)

\* Mutant: the current pid reloaded whichever shell is PENDING.
ShellToLoadSelf(st, c) == c

\* The shell do_sched reloads: the next PENDING pid after c, or c itself.
ShellToLoad(st, c) ==
    LET n == GetNextPid(st, c, PENDING) IN IF n = NoPid THEN c ELSE n

(***************************************************************************)
(* do_sched.  The current process, if ACTIVE, becomes DAEMON.  While a    *)
(* shell is PENDING, ShellToLoad gets a new shell image and becomes       *)
(* ACTIVE and current.  Otherwise the next DAEMON pid after it runs, left *)
(* DAEMON; get_next_pid's NUM_PROC would be taken as a pid (the run is    *)
(* not followed past it).  The process switched to gets its image at      *)
(* 128MB (load_shell_img maps it for a reloaded shell) and VidFor of its  *)
(* session at 132MB.                                                       *)
(***************************************************************************)
Sched ==
    /\ err = "none"
    /\ LET st == Demote(status, cur)
           nextDaemon == GetNextPid(st, cur, DAEMON)
       IN  IF \E i \in Pids : st[i] = PENDING
           THEN LET next == ShellToLoad(st, cur)
                IN  /\ status' = [st EXCEPT ![next] = ACTIVE]
                    /\ cur' = next
                    /\ mmu' = MapProcess(mmu, LoadShellImg(next), VidFor(sess[next]))
                    /\ UNCHANGED err
           ELSE IF nextDaemon = NoPid
           THEN /\ status' = st /\ err' = "nopid" /\ UNCHANGED <<cur, pageVars>>
           ELSE /\ status' = st /\ cur' = nextDaemon /\ UNCHANGED err
                /\ mmu' = MapProcess(mmu, GetPhysAddrByPid(nextDaemon), VidFor(sess[nextDaemon]))
    /\ UNCHANGED <<parent, sess, curSess, saPcb, pending, handled>>

(***************************************************************************)
(* do_sys: chk_usr_esp first, then the switch on the call number.  The    *)
(* calls that change this model's state are its cases; the file, path and *)
(* network calls are other modules', and the rest change nothing here.    *)
(* SYS_HALT and SYS_EXECUTE have no break, but kill_pid never returns, nor *)
(* does a sys_execute that starts its program; a failed one falls into    *)
(* sys_read with the command pointer as fd, which fails the fd check, and *)
(* -1 is returned either way.                                              *)
(***************************************************************************)
DoSys ==
    \/ StackFault
    \/ Halt
    \/ \E loads \in BOOLEAN : Execute(loads)
    \/ SysVidmap
    \/ \E sig \in Sigs, own \in BOOLEAN : SetHandler(sig, own)
    \/ \E p \in Pids : Kill(p)
    \/ SysMapModex

Next ==
    \/ DoSys
    \/ \E sig \in Sigs : Exception(sig)
    \/ DoSignal
    \/ CtrlC
    \/ \E s \in Sess : SessSwitch(s)
    \/ Sched

(***************************************************************************)
(* pit_handler calls do_sched every TIME_QUANTUM ticks while cur_proc_pcb *)
(* is set, and the PIT interrupt is never masked for long (system calls   *)
(* and handlers are short, and kill_pid spins with interrupts on): Sched  *)
(* is weakly fair.  The user's actions (execute, halt, kill, keys) are    *)
(* not fair, and neither is do_signal, whose call on the return to user   *)
(* mode is in the entry code.                                              *)
(***************************************************************************)
Spec == Init /\ [][Next]_vars /\ WF_vars(Sched)

-----------------------------------------------------------------------------
TypeOK ==
    /\ status \in [Pids -> {INACTIVE, ACTIVE, DAEMON, PENDING, IDLE}]
    /\ parent \in [Pids -> Pids \cup {NoPid}]
    /\ sess \in [Pids -> Sess]
    /\ cur \in Pids /\ curSess \in Sess
    /\ saPcb \in [Sess -> Pids \cup {NULL}]
    /\ \A p \in Pids : pending[p] \in Seq(Sigs \cup {INTERRUPT}) /\ Len(pending[p]) <= MaxPending
    /\ handled \in [Pids -> SUBSET Sigs]
    /\ err \in {"none", "nopid", "nullsig"}
    /\ progPage \in {KERNEL_BOT + p * PROG_PAGE_SIZE : p \in Pids}
    /\ vidPage \in {VIDEO + VIDMEM_SIZE * k : k \in 0 .. NumSess}

Live(p) == status[p] # INACTIVE

Children(p) == {c \in Pids : Live(c) /\ parent[c] = p}

\* The process of session s that has no child: the one the user talks to.
Foreground(s) == CHOOSE p \in Pids : Live(p) /\ sess[p] = s /\ Children(p) = {}

(***************************************************************************)
(* The processes of each session form one chain, as sys_execute and       *)
(* kill_pid build and unwind it: the session's shell (pid s, parent_pid   *)
(* NUM_PROC) at the top, each other live process the child of a live,    *)
(* IDLE process of the same session, and an IDLE process has exactly one  *)
(* live child while any other has none.                                    *)
(***************************************************************************)
SessionChains ==
    /\ \A s \in Sess : Live(s) /\ parent[s] = NoPid /\ sess[s] = s
    /\ \A p \in Pids : Live(p) /\ p \notin Sess =>
           /\ parent[p] \in Pids /\ Live(parent[p])
           /\ sess[p] = sess[parent[p]] /\ status[parent[p]] = IDLE
    /\ \A p \in Pids : Live(p) =>
           Cardinality(Children(p)) = IF status[p] = IDLE THEN 1 ELSE 0

(***************************************************************************)
(* cur_proc_pcb is a process that can run, the foreground of its session, *)
(* and the only ACTIVE one: do_sched demotes it to DAEMON before it picks *)
(* the next, and sys_execute and kill_pid pass ACTIVE to the new current. *)
(***************************************************************************)
CurIsRunnableLeaf ==
    /\ status[cur] \in {ACTIVE, DAEMON, PENDING}
    /\ cur = Foreground(sess[cur])
    /\ \A p \in Pids : status[p] = ACTIVE => p = cur

(***************************************************************************)
(* do_sched never takes get_next_pid's NUM_PROC as a pid: when no shell is *)
(* PENDING there is always another DAEMON process to switch to.           *)
(***************************************************************************)
SchedFindsNext == err # "nopid"

\* A page of each region the tables map, except the heap window (Heap).
Probes == {UTIL_ADDR, KERNEL_TOP, HISTORY_ADDR, USER_VIRT_TOP, VMEM_VIRT_START - PAGE_SIZE}
          \cup {VIDEO + VIDMEM_SIZE * k : k \in 0 .. NumSess}
          \cup {VMEM_VIRT_START + MODEX_PAGE_SIZE * k : k \in 0 .. MODEX_PAGE_NUM}

(***************************************************************************)
(* Whenever user code runs, a user-mode access reaches only the running   *)
(* process's own 4MB image or the screen pages (video memory, the cached  *)
(* screens and the sys_map_modex range), and faults anywhere else: page 0,*)
(* the kernel and history pages, another process's image.  Every change  *)
(* of cur_proc_pcb (sys_execute, kill_pid of a program or by a default    *)
(* signal action, both branches of do_sched with load_shell_img) must     *)
(* remap 128MB, and the boot tables must leave the kernel's pages         *)
(* supervisor-only.  A stale mapping runs one program in another's memory.*)
(***************************************************************************)
UserMemoryIsolated ==
    UserMode =>
        \A v \in Probes :
            LET a == Translate(mmu, v, TRUE)
            IN  \/ a = Fault
                \/ a \in GetPhysAddrByPid(cur) .. GetPhysAddrByPid(cur) + PROG_PAGE_SIZE - 1
                \/ a \in VIDEO .. VIDEO + MODEX_PAGE_NUM * MODEX_PAGE_SIZE - 1

(***************************************************************************)
(* A stack fault is fatal: when do_signal takes a STACKFAULT that         *)
(* do_sys's chk_usr_esp requested, the process ends (kill_pid), however   *)
(* the program used sys_set_handler before.  The program cannot run a     *)
(* handler of its own on the stack that caused the fault.                 *)
(***************************************************************************)
StackFaultIsFatal ==
    [][ /\ UserMode
        /\ pending[cur] # <<>>
        /\ Head(pending[cur]) = STACKFAULT
        /\ Len(pending'[cur]) < Len(pending[cur])
        => status'[cur] \in {INACTIVE, PENDING} ]_vars

(***************************************************************************)
(* keyboard_handler's "if ctrl+c is pressed, kill the process": a ctrl-C  *)
(* signals the process the user of the session on screen is running, the *)
(* foreground of cur_sess_id, through its sa_pcb.                          *)
(***************************************************************************)
CtrlCSignalsForeground == [][CtrlC => saPcb[curSess] = Foreground(curSess)]_vars

(***************************************************************************)
(* A shell that exits or is killed (kill_pid marks it PENDING) is loaded  *)
(* again by do_sched.                                                      *)
(***************************************************************************)
ShellRestarts == \A s \in Sess : status[s] = PENDING ~> status[s] # PENDING

(***************************************************************************)
(* Round robin: a process waiting in the background is eventually run,   *)
(* whatever the running processes do meanwhile.                           *)
(***************************************************************************)
EveryProcessRuns == \A p \in Pids : status[p] = DAEMON ~> cur = p


(***************************************************************************)
(* What sched.c, proc.c, syscall.c and terminal.c say at every remap of  *)
(* 132MB: a process of the session on screen writes to video memory, and *)
(* one "switching away from current session ... must run as daemon and    *)
(* write to its assigned cached video memory": the cached copy of its own *)
(* session, whatever sys_execute, sess_switch or sys_vidmap did last.     *)
(***************************************************************************)
VideoPageOfOwnSession == [][(UserMode => vidPage = VidFor(sess[cur]))']_vars

(***************************************************************************)
(* What sched.c, keyboard.c and the video remaps say of the process      *)
(* system: do_sched's round robin runs every background process in turn,  *)
(* ctrl-C kills the program of the session on screen, and each program   *)
(* writes to the screen memory of its own session.                        *)
(***************************************************************************)
ProcMeetsSpec == CtrlCSignalsForeground /\ EveryProcessRuns /\ VideoPageOfOwnSession

=============================================================================
