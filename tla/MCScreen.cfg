\* Two sessions of 2 columns and 3 rows, a 4-byte keyboard buffer and up to
\* 4 history lines per session.
CONSTANTS
    NUM_COLS = 2
    NUM_ROWS = 3
    KEY_BUF_SIZE = 4
    NUM_SESS = 2
    HIST_SIZE = 16
    MaxLines = 4
    Writes <- MCWrites

SPECIFICATION Spec

INVARIANTS
    ScreenMeetsSpec
