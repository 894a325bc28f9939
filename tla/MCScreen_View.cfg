\* ViewInOwnHistory alone: the view of the session on screen reset by another
\* session's output.
CONSTANTS
    NUM_COLS = 2
    NUM_ROWS = 3
    KEY_BUF_SIZE = 4
    NUM_SESS = 2
    HIST_SIZE = 16
    MaxLines = 4
    Writes <- MCWrites

SPECIFICATION Spec

INVARIANTS
    ViewInOwnHistory
