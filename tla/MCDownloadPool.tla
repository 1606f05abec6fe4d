--------------------------- MODULE MCDownloadPool ---------------------------
(***************************************************************************)
(* DownloadPool for TLC: a run with two workers, and the run the           *)
(* supervisor starts after it, with one.                                   *)
(***************************************************************************)
EXTENDS DownloadPool

CONSTANTS w1, w2, w3

TwoRuns == [w \in {w1, w2, w3} |-> IF w = w3 THEN 2 ELSE 1]

\* A fault in the first run; the second one is clean, whatever was left to it.
FirstOnly == <<1, 0>>
=============================================================================
