---------------------------- MODULE MCToolCatalog ----------------------------
EXTENDS ToolCatalog, TLC

CONSTANTS u1, u2, sys, n, a1, a2, a3, b1, s1, w1, w2

(* One name; up to three versions of u1's tool, one of u2's, one seed.     *)
MCKeyOf ==
    LET all == (a1 :> <<u1, n>>) @@ (a2 :> <<u1, n>>) @@ (a3 :> <<u1, n>>)
               @@ (b1 :> <<u2, n>>) @@ (s1 :> <<sys, n>>)
    IN  [i \in Ids |-> all[i]]
=============================================================================
