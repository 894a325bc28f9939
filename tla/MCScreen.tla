------------------------------ MODULE MCScreen ------------------------------
EXTENDS Screen

\* A program's write: a character, a '\n', or a character then '\n'.
MCWrites == {<<"c">>, <<"nl">>, <<"c", "nl">>}
=============================================================================
