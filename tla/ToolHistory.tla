----------------------------- MODULE ToolHistory -----------------------------
(***************************************************************************)
(* What tool registration promises (docs/P07_요구사항.md 5.2): registering  *)
(* a name again adds the version after the last one, and every earlier     *)
(* version is kept.  The history of a tool is therefore always 1..n.       *)
(***************************************************************************)
EXTENDS Naturals

CONSTANT Tools    \* the (owner, name) pairs

VARIABLE history  \* the versions on record of each tool

Init == history = [k \in Tools |-> {}]

\* Tool k gets its next version.
Publish(k) ==
    \E v \in history'[k] : history[k] = 1..(v - 1) /\ history'[k] = 1..v

\* One transaction may publish several tools (the seeds).
Next ==
    /\ history' = [k \in Tools |-> history'[k]]
    /\ \A k \in Tools : history'[k] = history[k] \/ Publish(k)

Spec == Init /\ [][Next]_history
=============================================================================
