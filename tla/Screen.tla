------------------------------- MODULE Screen -------------------------------
(***************************************************************************)
(* The screen side of the terminal (terminal.c, keyboard.c, mouse.c): for *)
(* every session the cursor (vid_x, vid_y), the history pointer and the   *)
(* screen head into the history page, the keyboard buffer index, and the *)
(* session on screen (cur_sess_id) with the hardware cursor's on/off.    *)
(*                                                                         *)
(* Addresses are bytes from BOUNDARY1, the start of the history page      *)
(* (setup_history_page): session s's history starts at Boundary(s), and  *)
(* an address below 0 is not mapped.  The characters and the history     *)
(* bytes are not modelled: only where the code writes and reads them.    *)
(* Each handler is one step: keyboard_handler and mouse_handler run with  *)
(* interrupts off, and terminal_fwrite inside the system-call gate.       *)
(***************************************************************************)
EXTENDS Integers, Sequences

CONSTANTS
    NUM_COLS,
    NUM_ROWS,
    KEY_BUF_SIZE,
    NUM_SESS,
    HIST_SIZE,   \* BOUNDARY2 - BOUNDARY1: the history bytes of one session
    MaxLines,    \* bound on the history lines a session writes
    Writes       \* the buffers a terminal_fwrite may pass: sequences of "c" and "nl"

VARIABLES st, kbdIdx

vars == <<st, kbdIdx>>

Sess == 0 .. NUM_SESS - 1

\* BOUNDARY1, BOUNDARY2, BOUNDARY3 (terminal.h), from BOUNDARY1.
Boundary(s) == s * HIST_SIZE

\* The rows above the last one: NUM_COLS * (NUM_ROWS-1) bytes of history.
Span == NUM_COLS * (NUM_ROWS - 1)

\* terminal_init and startup_envir_init: every cursor at (0, 0), history
\* pointer and screen head at the session's boundary, session 0 on screen.
Init ==
    /\ st = [x |-> [s \in Sess |-> 0], y |-> [s \in Sess |-> 0],
             hp |-> [s \in Sess |-> Boundary(s)], head |-> [s \in Sess |-> Boundary(s)],
             cur |-> 0, cursor |-> TRUE]
    /\ kbdIdx = [s \in Sess |-> 0]

\* load_screen(sess_id): redraws from the history of cur_sess_id, whatever
\* sess_id is, and turns the cursor on.
LoadScreen(t) ==
    [t EXCEPT !.head[t.cur] = t.hp[t.cur] - Span, !.cursor = TRUE]

\* The test sess_putc, newline and backspace make first: the session's
\* view was scrolled back above its last line.
Refresh(t, s) ==
    IF t.head[s] + Span < t.hp[s] THEN LoadScreen(t) ELSE t

\* check_scroll, with enable_scroll: one line up once vid_y passes the screen.
CheckScroll(t, s) ==
    IF t.y[s] >= NUM_ROWS
    THEN [t EXCEPT !.head[s] = @ + NUM_COLS, !.y[s] = @ - 1]
    ELSE t

\* newline: write_history, update_historyptr, next row, check_scroll.
Newline(t0, s) ==
    LET t == Refresh(t0, s)
    IN  CheckScroll([t EXCEPT !.hp[s] = @ + NUM_COLS, !.x[s] = 0, !.y[s] = @ + 1], s)

\* sess_putc: '\n' as newline; any other character is stored at the cursor,
\* vid_x moves on modulo NUM_COLS and vid_y by vid_x / NUM_COLS, which is 0
\* after the modulo.
PutC(t0, s, c) ==
    IF c = "nl" THEN Newline(t0, s)
    ELSE LET t == Refresh(t0, s)
             x1 == (t.x[s] + 1) % NUM_COLS
         IN  CheckScroll([t EXCEPT !.x[s] = x1, !.y[s] = (@ + x1 \div NUM_COLS) % NUM_ROWS], s)

\* line_check: the cursor is on the last column.
LineCheck(t, s) == t.x[s] = NUM_COLS - 1

\* backspace: one column back, or to the end of the row above; history_ptr
\* is left where it is.  vid_y is a uint32_t: below 0 it would wrap past
\* every row, which TypeOK's vid_y \in Nat flags.
Backspace(t0, s) ==
    LET t == Refresh(t0, s)
    IN  IF t.x[s] # 0 THEN [t EXCEPT !.x[s] = @ - 1]
        ELSE [t EXCEPT !.x[s] = NUM_COLS - 1, !.y[s] = @ - 1]

\* clear_screen(s): its cursor to (0, 0); clear() resets the screen head and
\* history pointer of cur_sess_id and re-enables the cursor.
ClearScreen(t, s) ==
    [t EXCEPT !.x[s] = 0, !.y[s] = 0, !.head[t.cur] = Boundary(t.cur),
              !.hp[t.cur] = Boundary(t.cur), !.cursor = TRUE]

\* The loop of terminal_fwrite from byte i: at the last column a character
\* is followed by a newline, and a '\n' right after it is skipped.
RECURSIVE FWrite(_, _, _, _)
FWrite(t, a, w, i) ==
    IF i > Len(w) THEN t
    ELSE IF LineCheck(t, a) /\ w[i] # "nl"
         THEN FWrite(Newline(PutC(t, a, w[i]), a), a, w,
                     IF i < Len(w) /\ w[i + 1] = "nl" THEN i + 2 ELSE i + 1)
         ELSE FWrite(PutC(t, a, w[i]), a, w, i + 1)

\* The model's bound: every history pointer at most MaxLines lines past its
\* boundary, every screen head at most MaxLines lines before it (scroll_up
\* tests the boundary with ==, so a head below it scrolls on).
Bounded(t) ==
    \A s \in Sess : /\ t.hp[s] - Boundary(s) <= MaxLines * NUM_COLS
                   /\ Boundary(s) - t.head[s] <= MaxLines * NUM_COLS

-----------------------------------------------------------------------------
(* Keyboard: the echo of keyboard_handler on cur_sess_id.                  *)

\* print_regular_key: while kbd_buf_idx < KEY_BUF_SIZE - 1 the key is
\* stored and echoed; on the last column sess_putc is followed by newline.
Key ==
    LET s == st.cur
    IN  /\ kbdIdx[s] < KEY_BUF_SIZE - 1
        /\ kbdIdx' = [kbdIdx EXCEPT ![s] = @ + 1]
        /\ st' = IF LineCheck(st, s) THEN Newline(PutC(st, s, "c"), s) ELSE PutC(st, s, "c")
        /\ Bounded(st')

\* ENTER: set_newline stores the line and empties kbd_buf, then newline.
Enter ==
    LET s == st.cur
    IN  /\ kbdIdx' = IF kbdIdx[s] < KEY_BUF_SIZE THEN [kbdIdx EXCEPT ![s] = 0] ELSE kbdIdx
        /\ st' = Newline(st, s)
        /\ Bounded(st')

\* BACKSPACE: delete_keystroke backspaces only over a typed character.
DeleteKeystroke ==
    LET s == st.cur
    IN  /\ kbdIdx[s] > 0
        /\ st' = Backspace(st, s)
        /\ kbdIdx' = [kbdIdx EXCEPT ![s] = @ - 1]

\* ctrl-L: clear_screen(cur_sess_id) and kbd_buf emptied.
CtrlL ==
    /\ st' = ClearScreen(st, st.cur)
    /\ kbdIdx' = [kbdIdx EXCEPT ![st.cur] = 0]

\* alt-F: sess_switch turns the cursor off, sets cur_sess_id, and turns the
\* cursor on if the new session's history pointer is on its screen.
SessSwitch(s) ==
    /\ s # st.cur
    /\ st' = [st EXCEPT !.cur = s, !.cursor = st.hp[s] <= st.head[s] + Span]
    /\ UNCHANGED kbdIdx

-----------------------------------------------------------------------------
(* Mouse: mouse_handler's wheel byte, packet[3] = 0xff or 1.               *)

\* scroll_up: not past the boundary; the cursor goes off if the last line
\* was on screen.
ScrollUp ==
    LET s == st.cur
    IN  /\ st.head[s] # Boundary(s)
        /\ st' = [st EXCEPT !.head[s] = @ - NUM_COLS,
                            !.cursor = IF st.head[s] + Span = st.hp[s] THEN FALSE ELSE @]
        /\ Bounded(st')
        /\ UNCHANGED kbdIdx

\* scroll_down: not past the history pointer; the cursor comes back with
\* the last line.
ScrollDown ==
    LET s == st.cur
        h == st.head[s] + NUM_COLS
    IN  /\ st.head[s] + Span < st.hp[s]
        /\ st' = [st EXCEPT !.head[s] = h, !.cursor = IF h + Span = st.hp[s] THEN TRUE ELSE @]
        /\ UNCHANGED kbdIdx

\* mouse_handler: a packet with bad flag bits is dropped and the pointer's
\* position and icon are screen data; the wheel byte scrolls the view.
MouseHandler == ScrollUp \/ ScrollDown

-----------------------------------------------------------------------------
(* A program writing to stdout: terminal_fwrite on the session of          *)
(* cur_proc_pcb, which do_sched may make a process of any session.         *)

TerminalFwrite(a, w) ==
    /\ st' = FWrite(st, a, w, 1)
    /\ Bounded(st')
    /\ UNCHANGED kbdIdx

Next ==
    \/ Key \/ Enter \/ DeleteKeystroke \/ CtrlL
    \/ \E s \in Sess : SessSwitch(s)
    \/ MouseHandler
    \/ \E a \in Sess, w \in Writes : TerminalFwrite(a, w)

Spec == Init /\ [][Next]_vars

-----------------------------------------------------------------------------

TypeOK ==
    /\ st.cur \in Sess
    /\ st.cursor \in BOOLEAN
    /\ \A s \in Sess : st.x[s] \in 0 .. NUM_COLS - 1 /\ st.y[s] \in Nat
    /\ kbdIdx \in [Sess -> 0 .. KEY_BUF_SIZE - 1]

(***************************************************************************)
(* When the cursor is shown, the cursor's row is the history line the    *)
(* code writes next: write_history(vid_y) stores that row at history_ptr, *)
(* load_screen redraws the screen from screen_head, and scroll_up and     *)
(* sess_switch test screen_head + NUM_COLS*(NUM_ROWS-1) against           *)
(* history_ptr to know whether the last line is on screen.                *)
(***************************************************************************)
CursorRowIsHistoryPtr ==
    st.cursor => st.hp[st.cur] = st.head[st.cur] + NUM_COLS * st.y[st.cur]

(***************************************************************************)
(* No session's screen head leaves its own history: "if the screen head   *)
(* is on the boundary then don't scroll" (scroll_up).  load_screen reads  *)
(* NUM_ROWS*NUM_COLS bytes from screen_head; below BOUNDARY1 nothing is   *)
(* mapped.                                                                 *)
(***************************************************************************)
ViewInOwnHistory == \A s \in Sess : st.head[s] >= Boundary(s)

ScreenMeetsSpec == CursorRowIsHistoryPtr /\ ViewInOwnHistory
=============================================================================
