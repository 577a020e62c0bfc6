------------------------------ MODULE MCRagStore ------------------------------
EXTENDS RagStore, TLC

CONSTANTS c1, c2, d1, d2, p1, p2, w1, w2

(* One point for each collection. *)
MCHomeOf == LET all == (p1 :> c1) @@ (p2 :> c2)
            IN  [p \in Points |-> all[p]]
=============================================================================
