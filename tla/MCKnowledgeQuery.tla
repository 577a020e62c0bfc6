--------------------------- MODULE MCKnowledgeQuery ---------------------------
EXTENDS KnowledgeQuery

CONSTANTS c1, c2, d1, d2

\* One initial state of each class that renaming collections and domains
\* makes; hit only where it is read.
MCInit ==
    /\ QueryInit
    /\ req.collection \in {Unset, c1}
    /\ req.domain \in {Unset, d1}
    /\ left \in {<<c1, c2>>, <<c1>>, <<>>}
    /\ req.kind \in {"vector", "list"} => \A p \in Points : point[p].hit

MCSpec == MCInit /\ [][QueryNext]_queryVars /\ WF_queryVars(QueryNext)
=============================================================================
