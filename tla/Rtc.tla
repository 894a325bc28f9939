--------------------------------- MODULE Rtc ---------------------------------
(***************************************************************************)
(* The real-time clock as a file (rtc.c): rtc_fops, opened by sys_open    *)
(* for the name "rtc", and rtc_handler.  rate is the rate field (low      *)
(* nibble) of register A; the RTC interrupts at 32768 >> (rate - 1) Hz.   *)
(* wait is the global flag rtc_handler sets and rtc_fread clears and      *)
(* spins on; rpc is "wait" while the process spins there.  rret is the    *)
(* last rtc_fwrite: its nbytes, the int32 at buf and what it returned.     *)
(***************************************************************************)
EXTENDS Integers

CONSTANTS RtcValues   \* the int32 values a program passes to rtc_fwrite

VARIABLES rate, wait, rpc, rret

rtcVars == <<rate, wait, rpc, rret>>

SHIFT_MAX == 15
MAX_REP == 1024
SHIFT == 15             \* the rate rtc_init writes: 2 Hz

\* The frequency of a rate: the base 32768 Hz shifted right by rate - 1.
Hz(r) == 32768 \div 2^(r - 1)

NoWrite == [n |-> 0, v |-> 0, ret |-> 0]

(***************************************************************************)
(* rtc_rate's loop: from j = SHIFT_MAX down to 1, the first set bit of    *)
(* frequency >> j decides; frequency must then be exactly that power of   *)
(* two.  No bit above bit 0: -1.                                           *)
(***************************************************************************)
RECURSIVE RateScan(_, _)
RateScan(f, j) ==
    IF j = 0 THEN -1
    ELSE IF (f \div 2^j) % 2 = 1
         THEN IF (f \div 2^j) * 2^j # f THEN -1 ELSE SHIFT_MAX - j + 1
         ELSE RateScan(f, j - 1)

\* Mutant: the MAX_REP test is dropped.
RtcRateNoMax(f) == RateScan(f, SHIFT_MAX)

RtcRate(f) == IF f > MAX_REP THEN -1 ELSE RateScan(f, SHIFT_MAX)

\* rtc_init: register A gets rate SHIFT, wait is cleared.
Init ==
    /\ rate = SHIFT
    /\ wait = 0
    /\ rpc = "idle"
    /\ rret = NoWrite

\* rtc_handler: wait = 1 (reading register C re-arms the interrupt).
Handler == wait' = 1 /\ UNCHANGED <<rate, rpc, rret>>

\* rtc_fopen: register A's rate field becomes 13 (8 Hz).
Open == rate' = 13 /\ rret' = NoWrite /\ UNCHANGED <<wait, rpc>>

\* rtc_fread: sti, wait = 0, then spin; the spin ends once wait is set.
ReadBegin == wait' = 0 /\ rpc' = "wait" /\ UNCHANGED <<rate, rret>>
ReadEnd == rpc = "wait" /\ wait = 1 /\ rpc' = "idle" /\ UNCHANGED <<rate, wait, rret>>

(***************************************************************************)
(* rtc_fwrite(buf, nbytes): with nbytes = 4, the frequency is the uint16  *)
(* at buf, the low half of the int32 written; rtc_rate of it, and on      *)
(* success the rate field of register A, nbytes returned.  Otherwise -1.  *)
(***************************************************************************)
Write(n, v) ==
    LET r == RtcRate(v % 2^16)
    IN  /\ IF n = 4 /\ r # -1
           THEN rate' = r /\ rret' = [n |-> n, v |-> v, ret |-> n]
           ELSE rret' = [n |-> n, v |-> v, ret |-> -1] /\ UNCHANGED rate
        /\ UNCHANGED <<wait, rpc>>

TypeOK ==
    /\ rate \in 1 .. 15
    /\ wait \in {0, 1}
    /\ rpc \in {"idle", "wait"}
    /\ rret \in [n : Nat, v : RtcValues \cup {0}, ret : {-1, 0, 4}]

\* The frequencies the RTC can be set to: powers of two from 2 to MAX_REP.
Supported == {2^k : k \in 1 .. 10}

(***************************************************************************)
(* rtc_fwrite accepts a frequency exactly when it is a power of two the  *)
(* driver supports, and the RTC then interrupts at that frequency (the    *)
(* uint16 the driver reads).  rtc_rate's bit scan, its power-of-two test  *)
(* and its SHIFT_MAX - j + 1 are checked against this reference.          *)
(***************************************************************************)
RtcRunsAtWrittenFrequency ==
    rret # NoWrite =>
        /\ rret.ret = 4 <=> rret.n = 4 /\ rret.v % 2^16 \in Supported
        /\ rret.ret = 4 => Hz(rate) = rret.v % 2^16

(***************************************************************************)
(* A successful rtc_fwrite sets the RTC to the int32 the program wrote:  *)
(* the driver checks nbytes = 4 but reads only the low 16 bits, so a      *)
(* value of 65536 + 2 is accepted as 2 Hz.                                  *)
(***************************************************************************)
RtcWriteMeetsSpec == rret.ret = 4 => Hz(rate) = rret.v
=============================================================================
