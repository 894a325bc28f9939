----------------------------- MODULE MCPathWalk -----------------------------
(***************************************************************************)
(* The tree: / holds the directory a (3) and the file f (4); a holds the  *)
(* directory b (5).  z names nothing.  Every name is one character and    *)
(* FNAME_LEN is 4, so "../.." (5 characters) is too long.                  *)
(***************************************************************************)
EXTENDS PathWalk

MCEntries == {<<2, "a", 3>>, <<2, "f", 4>>, <<3, "b", 5>>}

MCNameLen(n) == 1

Comps == {".", "..", "a", "b", "f", "z"}

\* Paths of one and two components, absolute and relative, and the same
\* with a trailing '/'.
MCPaths ==
    LET seqs == {<<c>> : c \in Comps} \cup {<<c, d>> : c, d \in Comps}
    IN  {[abs |-> a, comps |-> s] : a \in BOOLEAN, s \in seqs}
        \cup {[abs |-> a, comps |-> <<c, "">>] : a \in BOOLEAN, c \in Comps}
        \cup {[abs |-> TRUE, comps |-> <<"">>]}

\* The same with empty components: "x//y", "//x", ".//", "x//".
MCPathsEmpty ==
    MCPaths \cup {[abs |-> a, comps |-> <<c, "", d>>] : a \in BOOLEAN, c \in {".", "..", "a"}, d \in {"a", ""}}
            \cup {[abs |-> TRUE, comps |-> <<"", "a">>]}

=============================================================================
