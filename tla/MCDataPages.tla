----------------------------- MODULE MCDataPages -----------------------------
EXTENDS KnowledgePage, TLC

CONSTANTS k1, d1, x1

MCSources == {Texts, {x1}}

\* Only safety is checked, and nothing tells the slots or the points apart.
Symmetry == Permutations(Calls) \cup Permutations(Points)

(* The pages meet in the server's data only, and OthersChange stands for   *)
(* what an administrator does elsewhere: a behaviour is about the rows, or *)
(* about the points; the latter with bulk deletions, or with the filter of *)
(* the search, points opened to be shown, and changes elsewhere.  About    *)
(* both are those where the two pages take turns and nothing is lost.      *)
VARIABLE about

MCInit ==
    /\ Init /\ about \in {"rows", "points", "bulk", "both"}
    /\ rows = IF about = "rows" THEN {k1, d1} ELSE Cols \cup {d1}

MCNext ==
    /\ CASE about = "rows"   -> AdminNext /\ UNCHANGED <<ragVars, dropVars>>
         [] about = "points" -> /\ KnowledgeNext \/ (OthersChange /\ UNCHANGED <<ragVars, dropVars>>)
                                /\ "bulk" \notin begun'
                                /\ rows' # Cols \cup {d1} => asked' < 2
         [] about = "bulk"   -> /\ KnowledgeNext
                                /\ filter' = None /\ side'.mode # "show"
         [] about = "both"   -> /\ Next
                                /\ mishap' \subseteq {"emptied"} /\ begun' \subseteq {"rag"}
                                /\ filter' = None /\ side'.mode \in {"closed", "create"}
                                /\ asked' < 3
    /\ UNCHANGED about

MCSpec == MCInit /\ [][MCNext]_<<vars, about>>
=============================================================================
