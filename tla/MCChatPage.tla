------------------------------ MODULE MCChatPage ------------------------------
EXTENDS ChatPage, TLC

CONSTANT t1

(* The memory is checked by itself too, with requests of any client on any *)
(* thread but the page's, as often as they come: a behaviour is about the  *)
(* page or about these.                                                    *)
VARIABLE about

MCInit == ChatInit /\ about \in {"page", "clients"}

MCNext ==
    /\ \/ about = "page" /\ ChatNext
       \/ /\ about = "clients" /\ Next /\ UNCHANGED pageVars
          /\ \A q \in Requests : req'[q].thread # Mine
    /\ UNCHANGED about

MCSpec == MCInit /\ [][MCNext]_<<chatVars, about>>

\* Only safety is checked, and nothing tells requests apart.
Symmetry == Permutations(Requests)
=============================================================================
