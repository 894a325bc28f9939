------------------------------- MODULE Terminal -------------------------------
(***************************************************************************)
(* The line discipline of one session (keyboard.c, terminal.c): the       *)
(* keyboard handler filling kbd_buf and handing a line to cmd_buf on      *)
(* ENTER, and terminal_fread, the stdin read of the process running in    *)
(* that session, taking it.  The session is the one on screen; keys typed *)
(* into another session touch other buffers.                               *)
(*                                                                         *)
(* A typed line is its number; kbdLen is kbd_buf_idx.  cmd is cmd_buf:    *)
(* the number of the line it holds (0: none, or cleared by ctrl-L) and    *)
(* the index of its '\n' (NoNl: none).  cmdAvail is cmd_available.       *)
(* terminal_fread runs sti() first, so the keyboard interrupt can come    *)
(* between its steps: tpc is "idle" outside it, "wait" in the spin on     *)
(* cmd_available, "copy" after clearing it and before the cli.  tret is   *)
(* the last read's line and count; lastLine the last line a read gave.    *)
(* Modifier keys (shift, caps, alt) only choose which character a key is, *)
(* and the echo on the screen is module Screen.                           *)
(***************************************************************************)
EXTENDS Integers, FiniteSetsExt

CONSTANTS
    KeyBufSize,  \* KEY_BUF_SIZE
    MaxLines,    \* bound on the lines typed
    ReadLens     \* the nbytes a stdin read may pass

VARIABLES kbdLen, cmd, cmdAvail, lineNo, tpc, tn, tret, lastLine

termVars == <<kbdLen, cmd, cmdAvail, lineNo, tpc, tn, tret, lastLine>>

NoNl == KeyBufSize

\* keyboard_init and the static sess_desc: empty buffers, nothing to read.
Init ==
    /\ kbdLen = 0
    /\ cmd = [line |-> 0, nl |-> NoNl]
    /\ cmdAvail = 0
    /\ lineNo = 0
    /\ tpc = "idle"
    /\ tn = 0
    /\ tret = [line |-> 0, len |-> 0]
    /\ lastLine = 0

\* print_regular_key of a character: appended while kbd_buf_idx < KEY_BUF_SIZE - 1.
Key ==
    /\ kbdLen < KeyBufSize - 1
    /\ kbdLen' = kbdLen + 1
    /\ UNCHANGED <<cmd, cmdAvail, lineNo, tpc, tn, tret, lastLine>>

\* Mutant: delete_keystroke without its check on kbd_buf_idx.
BackspaceNoGuard ==
    /\ kbdLen' = kbdLen - 1
    /\ UNCHANGED <<cmd, cmdAvail, lineNo, tpc, tn, tret, lastLine>>

\* BACKSPACE: delete_keystroke drops the last character if there is one.
Backspace ==
    /\ kbdLen > 0
    /\ kbdLen' = kbdLen - 1
    /\ UNCHANGED <<cmd, cmdAvail, lineNo, tpc, tn, tret, lastLine>>

(***************************************************************************)
(* set_newline: when kbd_buf_idx is below KEY_BUF_SIZE, '\n' goes at it, *)
(* cmd_cached_store strncpy's kbd_buf into cmd_buf, and kbd_buf is        *)
(* emptied; otherwise nothing is stored.                                   *)
(***************************************************************************)
SetNewline ==
    IF kbdLen < KeyBufSize
    THEN /\ cmd' = [line |-> lineNo + 1, nl |-> kbdLen]
         /\ lineNo' = lineNo + 1
         /\ kbdLen' = 0
    ELSE UNCHANGED <<cmd, lineNo, kbdLen>>

\* ENTER: set_newline, then cmd_available = 1 whether or not a line was stored.
Enter ==
    /\ lineNo < MaxLines
    /\ SetNewline
    /\ cmdAvail' = 1
    /\ UNCHANGED <<tpc, tn, tret, lastLine>>

(***************************************************************************)
(* ctrl-L: kbd_buf cleared, but the loop only zeroes cmd_buf[0]: the old  *)
(* line's tail and '\n' stay behind it; cmd_available is set.             *)
(***************************************************************************)
CtrlL ==
    /\ kbdLen' = 0
    /\ cmd' = [line |-> 0, nl |-> IF cmd.nl = 0 THEN NoNl ELSE cmd.nl]
    /\ cmdAvail' = 1
    /\ UNCHANGED <<lineNo, tpc, tn, tret, lastLine>>

\* terminal_fread entered with nbytes n, clamped to KEY_BUF_SIZE.
ReadBegin(n) ==
    /\ tpc = "idle"
    /\ tpc' = "wait"
    /\ tn' = Min({n, KeyBufSize})
    /\ UNCHANGED <<kbdLen, cmd, cmdAvail, lineNo, tret, lastLine>>

\* The spin sees cmd_available set and clears it, interrupts still on.
ReadTake ==
    /\ tpc = "wait"
    /\ cmdAvail = 1
    /\ cmdAvail' = 0
    /\ tpc' = "copy"
    /\ UNCHANGED <<kbdLen, cmd, lineNo, tn, tret, lastLine>>

(***************************************************************************)
(* Under cli: copy cmd_buf up to and including the '\n', at most nbytes,  *)
(* and return the count.                                                   *)
(***************************************************************************)
ReadCopy ==
    /\ tpc = "copy"
    /\ tpc' = "idle"
    /\ tret' = [line |-> cmd.line, len |-> Min({tn, cmd.nl + 1})]
    /\ lastLine' = IF cmd.line = 0 THEN lastLine ELSE cmd.line
    /\ UNCHANGED <<kbdLen, cmd, cmdAvail, lineNo, tn>>

Keyboard == Key \/ Backspace \/ Enter \/ CtrlL

Next == Keyboard \/ ReadTake \/ ReadCopy \/ \E n \in ReadLens : ReadBegin(n)

Spec == Init /\ [][Next]_termVars

-----------------------------------------------------------------------------

TypeOK ==
    /\ kbdLen \in 0 .. KeyBufSize
    /\ cmd \in [line : 0 .. MaxLines, nl : 0 .. NoNl]
    /\ cmdAvail \in {0, 1}
    /\ lineNo \in 0 .. MaxLines
    /\ tpc \in {"idle", "wait", "copy"}
    /\ tret \in [line : 0 .. MaxLines, len : 0 .. KeyBufSize]
    /\ lastLine \in 0 .. MaxLines

(***************************************************************************)
(* Each stdin read gives a line typed after the last one read, never the  *)
(* same line twice (a read cut short by ctrl-L gives no line).  Lines     *)
(* typed ahead of the reader may be lost: cmd_buf holds one.               *)
(***************************************************************************)
StdinLinesOnce ==
    [][tpc = "copy" /\ tpc' = "idle" /\ tret'.line # 0 => tret'.line > lastLine]_termVars
=============================================================================
