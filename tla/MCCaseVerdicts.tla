--------------------------- MODULE MCCaseVerdicts ---------------------------
EXTENDS CaseVerdicts, TLC

\* What the three courts do, without pairs the resolver treats alike.
Kinds == {[level |-> 1, class |-> c] :
            c \in {"grant", "procedural", "simplified"}}
    \cup {[level |-> 2, class |-> c] :
            c \in {"bankruptcy", "grant", "uphold", "remand"}}
    \cup {[level |-> 3, class |-> c] : c \in {"uphold", "restore"}}
    \cup {[level |-> 0, class |-> "grant"]}

Symmetry == Permutations(Act)
=============================================================================
