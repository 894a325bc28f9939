------------------------------- MODULE FdTable -------------------------------
(***************************************************************************)
(* A process's file descriptors (syscall.c, proc.c, terminal.c): the fd   *)
(* system calls sys_open, sys_close, sys_read, sys_write and sys_seek     *)
(* dispatching through each file_t's f_op to the stdin and stdout tables  *)
(* of terminal.c, to ext2_file_fops or to rtc_fops, composed with the    *)
(* ext2 file data path (FileData), the session's line discipline         *)
(* (Terminal) and the real-time clock (Rtc).                              *)
(*                                                                         *)
(* fdBitmap is the set bits of pcb->fd_bitmap and fdOp the jump table of  *)
(* each fd_array entry.  Every fd that is not stdin or stdout names the   *)
(* one ext2 file of FileData, or the RTC.  A system call is one step     *)
(* (interrupt gate), except that terminal_fread and rtc_fread let         *)
(* interrupts in: while the process is in one (tpc # "idle", rpc #        *)
(* "idle") it makes no other call, and the keyboard and the RTC go on.    *)
(* ppc is "hung" once the process has called through a NULL seek pointer. *)
(* A call that returns -1 without touching any state is a stutter step,  *)
(* and so is sys_filemode, which only reads f_dentry.                      *)
(***************************************************************************)
EXTENDS Integers, FiniteSetsExt

CONSTANTS
    MaxOpen,     \* MAX_OPEN_FILES
    BlockSize, NDirect, NBlocks, MaxSize, MaxWrites, Lens, Offsets, Huge,
    KeyBufSize, MaxLines, RtcValues

VARIABLES fdBitmap, fdOp, ppc,
          isize, iblocks, iblock, bbm, data, content, nwrites, fpos, osize, fret,
          kbdLen, cmd, cmdAvail, lineNo, tpc, tn, tret, lastLine,
          rate, wait, rpc, rret

FdNums == 0 .. MaxOpen - 1

File == INSTANCE FileData WITH Fds <- FdNums
Term == INSTANCE Terminal WITH ReadLens <- Lens
Clock == INSTANCE Rtc

fdVars == <<fdBitmap, fdOp, ppc>>
fileVars == <<isize, iblocks, iblock, bbm, data, content, nwrites, fpos, osize, fret>>
dataVars == <<isize, iblocks, iblock, bbm, data, content, nwrites, osize, fret>>
termVars == <<kbdLen, cmd, cmdAvail, lineNo, tpc, tn, tret, lastLine>>
rtcVars == <<rate, wait, rpc, rret>>
vars == <<fdVars, fileVars, termVars, rtcVars>>

(***************************************************************************)
(* sys_execute: fd_array_init clears the bitmap, then                      *)
(* file_io_init("", fout) makes fd 0 stdin and fd 1 stdout, or, with an   *)
(* output redirection to the file, fd 1 the file opened at offset 0; the  *)
(* bitmap becomes 0x3.                                                     *)
(***************************************************************************)
Init ==
    /\ fdBitmap = {0, 1}
    /\ \E out \in {"stdout", "file"} :
          fdOp = [fd \in FdNums |-> CASE fd = 0 -> "stdin"
                                      [] fd = 1 -> out
                                      [] OTHER -> "none"]
    /\ ppc = "run"
    /\ File!Init
    /\ Term!Init
    /\ Clock!Init

(***************************************************************************)
(* The jump tables an fd's f_op points to: stdin_fops and stdout_fops of  *)
(* terminal.c (stdin_fwrite, stdin_fclose, stdout_fread and stdout_fclose *)
(* return -1, and neither has a .seek), ext2_file_fops, and rtc_fops      *)
(* (rtc_fclose returns 0; no .seek either).                               *)
(***************************************************************************)
FOps == [stdin  |-> [read |-> "terminal", write |-> "fail", close |-> "fail", seek |-> "null"],
         stdout |-> [read |-> "fail", write |-> "screen", close |-> "fail", seek |-> "null"],
         file   |-> [read |-> "ext2", write |-> "ext2", close |-> "ext2", seek |-> "ext2"],
         rtc    |-> [read |-> "rtc", write |-> "rtc", close |-> "rtc", seek |-> "null"]]

\* The process is running user code, able to make a system call.
Running == ppc = "run" /\ tpc = "idle" /\ rpc = "idle"

(***************************************************************************)
(* sys_open: the first fd from 2 with its bit clear; none, -1.  f_op is   *)
(* rtc_fop for "rtc", whose rtc_fopen writes register A and f_pos = 0 and *)
(* succeeds, and otherwise ext2_file_fop, set before file_fopen runs; only *)
(* a successful open sets the bit.  Directories are not modelled.         *)
(***************************************************************************)
SysOpen(name) ==
    LET free == {fd \in 2 .. MaxOpen - 1 : fd \notin fdBitmap}
        fd == Min(free)
    IN  /\ Running
        /\ free # {}
        /\ fdOp' = [fdOp EXCEPT ![fd] = IF name = "rtc" THEN "rtc" ELSE "file"]
        /\ CASE name = "rtc"  -> /\ fdBitmap' = fdBitmap \cup {fd}
                                /\ fpos' = [fpos EXCEPT ![fd] = 0]
                                /\ Clock!Open
                                /\ UNCHANGED dataVars
              [] name = "file" -> /\ fdBitmap' = fdBitmap \cup {fd}
                                /\ File!FOpen(fd)
                                /\ UNCHANGED rtcVars
              [] OTHER         -> UNCHANGED <<fdBitmap, fileVars, rtcVars>>
        /\ UNCHANGED <<ppc, termVars>>

\* sys_close: stdin_fclose and stdout_fclose return -1 and keep the bit;
\* file_fclose and rtc_fclose return 0 and the bit is cleared.
SysClose(fd) ==
    /\ Running
    /\ fd \in fdBitmap
    /\ FOps[fdOp[fd]].close \in {"ext2", "rtc"}
    /\ fdBitmap' = fdBitmap \ {fd}
    /\ UNCHANGED <<fdOp, ppc, fileVars, termVars, rtcVars>>

\* sys_read: terminal_fread for stdin, file_fread for the file, rtc_fread
\* for the RTC; stdout_fread returns -1.
SysRead(fd, n) ==
    /\ Running
    /\ fd \in fdBitmap
    /\ \/ FOps[fdOp[fd]].read = "terminal" /\ Term!ReadBegin(n) /\ UNCHANGED <<fileVars, rtcVars>>
       \/ FOps[fdOp[fd]].read = "ext2" /\ File!FRead(fd, n) /\ UNCHANGED <<termVars, rtcVars>>
       \/ FOps[fdOp[fd]].read = "rtc" /\ Clock!ReadBegin /\ UNCHANGED <<fileVars, termVars>>
    /\ UNCHANGED fdVars

\* sys_write(fd, buf, n), buf holding the int32 v: file_fwrite for the file
\* (the bytes are the write's own), rtc_fwrite for the RTC; stdin_fwrite
\* returns -1 and terminal_fwrite only draws on the screen.
SysWrite(fd, n, v) ==
    /\ Running
    /\ fd \in fdBitmap
    /\ \/ FOps[fdOp[fd]].write = "ext2" /\ File!FWrite(fd, n) /\ UNCHANGED rtcVars
       \/ FOps[fdOp[fd]].write = "rtc" /\ Clock!Write(n, v) /\ UNCHANGED fileVars
    /\ UNCHANGED <<fdVars, termVars>>

(***************************************************************************)
(* sys_seek calls f_op->seek.  stdin_fops and stdout_fops have no .seek: *)
(* the kernel calls address 0.  Page 0 is mapped for the kernel           *)
(* (setup_utility_page), so it runs whatever physical page 0 holds as     *)
(* kernel code; the outcome is undefined, and the model takes the one in  *)
(* which the call never returns to the process.                           *)
(***************************************************************************)
SysSeek(fd, off, wh) ==
    /\ Running
    /\ fd \in fdBitmap
    /\ \/ FOps[fdOp[fd]].seek = "ext2" /\ File!FSeek(fd, off, wh) /\ UNCHANGED ppc
       \/ FOps[fdOp[fd]].seek = "null" /\ ppc' = "hung" /\ UNCHANGED fileVars
    /\ UNCHANGED <<fdBitmap, fdOp, termVars, rtcVars>>

\* The two steps of terminal_fread after its sti(), and the keyboard IRQ.
Stdin == (Term!ReadTake \/ Term!ReadCopy) /\ UNCHANGED <<fdVars, fileVars, rtcVars>>
Keyboard == Term!Keyboard /\ UNCHANGED <<fdVars, fileVars, rtcVars>>

\* The RTC's periodic IRQ, and the end of rtc_fread's spin.
RtcInterrupt == Clock!Handler /\ UNCHANGED <<fdVars, fileVars, termVars>>
RtcWait == Clock!ReadEnd /\ UNCHANGED <<fdVars, fileVars, termVars>>

Next ==
    \/ Keyboard
    \/ Stdin
    \/ RtcInterrupt
    \/ RtcWait
    \/ \E name \in {"file", "missing", "rtc"} : SysOpen(name)
    \/ \E fd \in FdNums :
          \/ SysClose(fd)
          \/ \E n \in Lens : SysRead(fd, n) \/ SysWrite(fd, n, 0)
          \* a program writes an int32 (nbytes 4) only to the RTC
          \/ \E v \in RtcValues : fdOp[fd] = "rtc" /\ SysWrite(fd, 4, v)
          \/ \E off \in Offsets, wh \in {File!SEEK_SET, File!SEEK_CUR, File!SEEK_END, 0} :
                SysSeek(fd, off, wh)

Spec == Init /\ [][Next]_vars

-----------------------------------------------------------------------------

TypeOK ==
    /\ fdBitmap \subseteq FdNums
    /\ fdOp \in [FdNums -> {"stdin", "stdout", "file", "rtc", "none"}]
    /\ ppc \in {"run", "hung"}
    /\ File!TypeOK
    /\ Term!TypeOK
    /\ Clock!TypeOK

FileBlocksOwned == File!FileBlocksOwned
FileReadReturnsData == File!FileReadReturnsData
RtcRunsAtWrittenFrequency == [][Clock!RtcRunsAtWrittenFrequency']_vars

(***************************************************************************)
(* Every sys_read returns the data its file holds: from the ext2 file, the*)
(* bytes last written at f_pos, as many as asked and there (spec §8's     *)
(* round trip, within and past the 12 direct blocks); from stdin, a line  *)
(* typed after the last one terminal_fread returned, never one twice.     *)
(***************************************************************************)
ReadReturnsData == [][FileReadReturnsData']_vars /\ Term!StdinLinesOnce
\* The f_pos a seek asks for: offset from 0, from f_pos or from the
\* inode's i_size; none for an unknown whence.
SeekTarget(r) == CASE r.wh = File!SEEK_SET -> r.off
                   [] r.wh = File!SEEK_CUR -> r.pos + r.off
                   [] r.wh = File!SEEK_END -> r.size + r.off
                   [] OTHER -> -1

(***************************************************************************)
(* A file_fseek keeps spec §6's contract: it returns 0 and moves f_pos to *)
(* the target exactly when the target lies in 0 .. the inode's recorded   *)
(* size, and otherwise returns -1 and leaves f_pos.  file_fseek computes  *)
(* SEEK_CUR from an uninitialised local and checks against the i_size    *)
(* copied at open, not the size writes have since given the file.        *)
(***************************************************************************)
SeekMeetsSpec ==
    [][fret'.call = "seek" =>
         LET r == fret'
             t == SeekTarget(r)
         IN  IF 0 <= t /\ t <= r.size
             THEN r.ret = 0 /\ fpos'[r.fd] = t
             ELSE r.ret = -1 /\ fpos' = fpos]_vars

(***************************************************************************)
(* Every system call returns to the process (spec §7: failures come back *)
(* as -1).  sys_seek on stdin or stdout calls the NULL .seek of their     *)
(* fops and the process never returns.                                     *)
(***************************************************************************)
SyscallsReturn == [][ppc' = "run"]_vars

(***************************************************************************)
(* An RTC write that succeeds sets the frequency the program wrote       *)
(* (rtc_fwrite's "frequency of RTC in Hz to be set"), not its low half.   *)
(***************************************************************************)
RtcWriteMeetsSpec == [][Clock!RtcWriteMeetsSpec']_vars

\* What spec §6-§8 and rtc.c say of the file system calls, taken together.
FilesMeetSpec == ReadReturnsData /\ SeekMeetsSpec /\ SyscallsReturn /\ RtcWriteMeetsSpec

=============================================================================
