------------------------------ MODULE MCToolPage ------------------------------
EXTENDS ToolPage, RunTrace, TLC

CONSTANTS m1, s1, o1, c1, c2, t1, t2

\* No term, and one that matches a tool of mine and a shared one.
MCTerms == {Ids, {m1, o1}}

\* Only safety is checked, and nothing tells the slots apart.
Symmetry == Permutations(Calls)

(* The texts in the editor, the picks and the trace of the runs have no    *)
(* effect on each other: a behaviour is about one of them.                 *)
VARIABLE about

MCInit == Init /\ moved = FALSE /\ TraceInit /\ about \in {"texts", "picks", "runs"}

MCNext ==
    \/ /\ about # "runs" /\ Next /\ moved' = (moved \/ MoveOn)
       /\ about = "texts" => begun' \subseteq {"editor"}
       /\ about = "picks" => /\ ~form'.text.hand
                             /\ \A c \in Calls : call'[c].kind # "generate"
       /\ UNCHANGED <<traceVars, about>>
    \/ about = "runs" /\ TraceNext /\ UNCHANGED <<vars, moved, about>>

MCSpec == MCInit /\ [][MCNext]_<<vars, moved, traceVars, about>>
=============================================================================
