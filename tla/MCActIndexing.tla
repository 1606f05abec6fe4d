--------------------------- MODULE MCActIndexing ---------------------------
(* Texts of all lengths beside a long one, and a text at the border. *)
EXTENDS ActIndexing, TLC

CONSTANTS a1, a2

Mixed    == {(a1 :> k) @@ (a2 :> "long") : k \in {"short", "border", "over"}}
AtBorder == {[a \in Act |-> "border"]}
Shorts   == {[a \in Act |-> "short"]}
=============================================================================
