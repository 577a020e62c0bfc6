-------------------------- MODULE MCRunConversation --------------------------
EXTENDS RunConversation, TLC

CONSTANTS u1, u2, sys, n, a, b, s, r1

VARIABLE about      \* what a behaviour is about: see MCNext

(* A tool of u1's, a public one of u2's and a seed, all of one name.       *)
MCKeyOf == LET all == (a :> <<u1, n>>) @@ (b :> <<u2, n>>) @@ (s :> <<sys, n>>)
           IN  [i \in Ids |-> all[i]]

(* Either of a record that changes under a first turn, or of several turns *)
(* over a record that stays as it is.                                      *)
MCInit ==
    /\ Init
    /\ about \in {"changes", "turns"}
    /\ about = "turns" => record = "old"

MCNext ==
    /\ Next
    /\ about = "changes" => history' = <<>>
    /\ about = "turns" => record' = record
    /\ UNCHANGED about

MCSpec == MCInit /\ [][MCNext]_<<vars, about>>
=============================================================================
