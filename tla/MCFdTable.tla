------------------------------ MODULE MCFdTable ------------------------------
(***************************************************************************)
(* cmd, tn, tret and lastLine of Terminal are only ever read to compute   *)
(* themselves: no guard and no other variable depends on them, and the    *)
(* properties of the pass run do not read them.  FdView forgets them, so  *)
(* the file side is not multiplied by the history of the stdin reads.      *)
(* Of Rtc it keeps only rpc, and wait while rtc_fread spins.  rate and     *)
(* rret are only ever written, by rtc_fopen and rtc_fwrite, whose results *)
(* do not depend on them, and wait is overwritten by rtc_fread before it  *)
(* is read.  The RTC property is an action property, checked on every     *)
(* step TLC takes, the writes that set rate and rret included.            *)
(***************************************************************************)
EXTENDS FdTable

\* seek offsets: one back, one forward
MCOffsets == {-1, 1}

(***************************************************************************)
(* Values a program writes to the RTC: 1 (no bit above bit 0), 3 (not a  *)
(* power of two), 8 and 1024 (the smallest shift rtc_open's 13 and the    *)
(* largest frequency), 2048 (above MAX_REP) and 65538, whose low 16 bits  *)
(* are 2.                                                                  *)
(***************************************************************************)
MCRtcValues == {1, 3, 8, 1024, 2048, 65538}

FdView == <<fdVars, fileVars, kbdLen, cmdAvail, lineNo, tpc, rpc,
            IF rpc = "wait" THEN wait ELSE 0>>
=============================================================================
