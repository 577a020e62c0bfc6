------------------------------- MODULE RagStore -------------------------------
(***************************************************************************)
(* The knowledge base: RAGService of libs/core/service.py behind the RAG   *)
(* endpoints of apps/api/api.py.  PostgreSQL holds the collections and the *)
(* domains, Qdrant a collection of the same name with the points, each     *)
(* with the domain_id it was stored under.  Nothing ties the two stores    *)
(* together but the order in which the handlers write them.                *)
(*                                                                         *)
(* The calls to Qdrant and to the embedding model are synchronous: a       *)
(* handler is only interrupted where it awaits the database.  Storing,     *)
(* deleting and bulk-deleting points is therefore one step; creating a     *)
(* collection (commit, refresh, Qdrant), deleting one (load, Qdrant,       *)
(* commit) and deleting a domain (load, list, Qdrant, commit) are several, *)
(* and any number of requests interleave.                                  *)
(*                                                                         *)
(* Texts, vectors, sources and the columns PUT changes are left out.  A    *)
(* point id is a uuid4 of one collection, HomeOf; domain ids are serial    *)
(* and never used again.  Bounds: the finite sets of the constants.        *)
(***************************************************************************)
EXTENDS Naturals, FiniteSets

CONSTANTS
    Collections,  \* collection names
    Domains,      \* domain ids
    Points,       \* point ids
    HomeOf,       \* the collection each point id is drawn for
    Requests,     \* slots for requests served concurrently
    KeepVectors,  \* whether clients delete collections without delete_vector
    StaleForms,   \* whether clients send domains that are deleted by now
    MayFail,      \* whether PostgreSQL, Qdrant or the process may fail
    None

ASSUME RagAssumption ==
    /\ HomeOf \in [Points -> Collections]
    /\ None \notin Collections \cup Domains
    /\ KeepVectors \in BOOLEAN /\ StaleForms \in BOOLEAN /\ MayFail \in BOOLEAN

VARIABLES
    cols,      \* rows of collections
    doms,      \* rows of domains
    retired,   \* ids of deleted domains
    store,     \* collections in Qdrant
    point,     \* the domain_id of each point in Qdrant, None if there is none
    req,       \* the request in each slot
    mishap     \* history: what has happened so far that may spoil the data

vars == <<cols, doms, retired, store, point, req, mishap>>

Request ==
    [pc : {"idle", "loaded", "listed", "purged", "committed", "refreshed"},
     op : {"none", "create", "delete", "domain"},
     col : Collections \cup {None},
     dom : Domains \cup {None},
     vector : BOOLEAN,
     listed : SUBSET Collections]

Idle ==
    [pc |-> "idle", op |-> "none", col |-> None, dom |-> None,
     vector |-> FALSE, listed |-> {}]

Mishaps == {"failed", "kept", "raced", "late"}

RagTypeOK ==
    /\ cols \subseteq Collections /\ store \subseteq Collections
    /\ doms \subseteq Domains /\ retired \subseteq Domains
    /\ point \in [Points -> Domains \cup {None}]
    /\ req \in [Requests -> Request]
    /\ mishap \subseteq Mishaps

Init ==
    /\ cols = {} /\ doms = {} /\ retired = {} /\ store = {}
    /\ point = [p \in Points |-> None]
    /\ req = [w \in Requests |-> Idle]
    /\ mishap = {}

\* The points that S holds of Qdrant are deleted.
Without(S) == [p \in Points |-> IF p \in S THEN None ELSE point[p]]

PointsOf(d, C) == {p \in Points : point[p] = d /\ HomeOf[p] \in C}

\* Another request that deletes or creates collection c is under way.
Contended(w, c) == \E v \in Requests \ {w} : req[v].col = c

BeingDeleted(d) == \E w \in Requests : req[w].dom = d

Note(kind, happened) == mishap' = mishap \cup (IF happened THEN {kind} ELSE {})

-----------------------------------------------------------------------------
(* create_collection *)

\* The INSERT is committed; of a name in use it fails and nothing changes.
CreateCollection(w, c) ==
    /\ req[w].pc = "idle"
    /\ c \notin cols
    /\ cols' = cols \cup {c}
    /\ req' = [req EXCEPT ![w] = [Idle EXCEPT !.pc = "committed", !.op = "create",
                                              !.col = c]]
    /\ Note("raced", Contended(w, c))
    /\ UNCHANGED <<doms, retired, store, point>>

\* db.refresh raises when the row is gone.
RefreshCollection(w) ==
    /\ req[w].pc = "committed"
    /\ req' = [req EXCEPT ![w] = IF req[w].col \in cols
                                   THEN [req[w] EXCEPT !.pc = "refreshed"]
                                   ELSE Idle]
    /\ UNCHANGED <<cols, doms, retired, store, point, mishap>>

\* A collection that exists in Qdrant is taken over with its points.
CreateInQdrant(w) ==
    /\ req[w].pc = "refreshed"
    /\ store' = store \cup {req[w].col}
    /\ req' = [req EXCEPT ![w] = Idle]
    /\ UNCHANGED <<cols, doms, retired, point, mishap>>

-----------------------------------------------------------------------------
(* delete_collection *)

\* Mutant: the row goes first.
DeleteRowFirst(w, c, vector) ==
    /\ req[w].pc = "idle"
    /\ c \in cols
    /\ cols' = cols \ {c}
    /\ req' = [req EXCEPT ![w] = [Idle EXCEPT !.pc = "loaded", !.op = "delete",
                                              !.col = c, !.vector = vector]]
    /\ Note("raced", Contended(w, c))
    /\ UNCHANGED <<doms, retired, store, point>>

DeleteCollection(w, c, vector) ==
    /\ req[w].pc = "idle"
    /\ c \in cols
    /\ req' = [req EXCEPT ![w] = [Idle EXCEPT !.pc = "loaded", !.op = "delete",
                                              !.col = c, !.vector = vector]]
    /\ Note("raced", Contended(w, c))
    /\ UNCHANGED <<cols, doms, retired, store, point>>

\* Mutant: the request ends with the vectors, its DELETE never committed.
DropWithoutCommit(w) ==
    LET c == req[w].col
    IN  /\ req[w].pc = "loaded" /\ req[w].op = "delete" /\ req[w].vector
        /\ store' = store \ {c}
        /\ point' = Without({p \in Points : HomeOf[p] = c})
        /\ req' = [req EXCEPT ![w] = Idle]
        /\ UNCHANGED <<cols, doms, retired, mishap>>

DropFromQdrant(w) ==
    LET c == req[w].col
    IN  /\ req[w].pc = "loaded" /\ req[w].op = "delete"
        /\ IF req[w].vector
             THEN /\ store' = store \ {c}
                  /\ point' = Without({p \in Points : HomeOf[p] = c})
                  /\ UNCHANGED mishap
             ELSE /\ Note("kept", c \in store)
                  /\ UNCHANGED <<store, point>>
        /\ req' = [req EXCEPT ![w].pc = "purged"]
        /\ UNCHANGED <<cols, doms, retired>>

\* The DELETE is committed; it does not mind a row that is gone.
CommitCollection(w) ==
    /\ req[w].pc = "purged" /\ req[w].op = "delete"
    /\ cols' = cols \ {req[w].col}
    /\ req' = [req EXCEPT ![w] = Idle]
    /\ UNCHANGED <<doms, retired, store, point, mishap>>

-----------------------------------------------------------------------------
(* create_domain, delete_domain *)

CreateDomain(d) ==
    /\ d \notin doms \cup retired
    /\ doms' = doms \cup {d}
    /\ UNCHANGED <<cols, retired, store, point, req, mishap>>

\* Mutant: the row goes first.
RetireFirst(w, d) ==
    /\ req[w].pc = "idle"
    /\ d \in doms
    /\ doms' = doms \ {d}
    /\ retired' = retired \cup {d}
    /\ req' = [req EXCEPT ![w] = [Idle EXCEPT !.pc = "loaded", !.op = "domain",
                                              !.dom = d]]
    /\ UNCHANGED <<cols, store, point, mishap>>

DeleteDomain(w, d) ==
    /\ req[w].pc = "idle"
    /\ d \in doms
    /\ req' = [req EXCEPT ![w] = [Idle EXCEPT !.pc = "loaded", !.op = "domain",
                                              !.dom = d]]
    /\ UNCHANGED <<cols, doms, retired, store, point, mishap>>

ListCollections(w) ==
    /\ req[w].pc = "loaded" /\ req[w].op = "domain"
    /\ req' = [req EXCEPT ![w].pc = "listed", ![w].listed = cols]
    /\ UNCHANGED <<cols, doms, retired, store, point, mishap>>

\* The loop over the listed collections.
PurgeDomain(w) ==
    /\ req[w].pc = "listed"
    /\ point' = Without(PointsOf(req[w].dom, req[w].listed \cap store))
    /\ req' = [req EXCEPT ![w].pc = "purged", ![w].listed = {}]
    /\ UNCHANGED <<cols, doms, retired, store, mishap>>

CommitDomain(w) ==
    /\ req[w].pc = "purged" /\ req[w].op = "domain"
    /\ doms' = doms \ {req[w].dom}
    /\ retired' = retired \cup {req[w].dom}
    /\ req' = [req EXCEPT ![w] = Idle]
    /\ UNCHANGED <<cols, store, point, mishap>>

-----------------------------------------------------------------------------
(* Knowledge *)

\* add_knowledge_point, for a new point, an edited one -- be it deleted by
\* now -- or a row of an upload.  Only Qdrant is asked whether the collection
\* exists; the domain is not checked.
StorePoint(p, d) ==
    /\ HomeOf[p] \in store
    /\ \/ d \in doms
       \/ StaleForms /\ d \in retired
    /\ point' = [point EXCEPT ![p] = d]
    /\ Note("late", d \notin doms \/ BeingDeleted(d))
    /\ UNCHANGED <<cols, doms, retired, store, req>>

\* delete_knowledge_point and bulk_delete_knowledge_points: which points of
\* the collection match the filter is left open.
DeletePoints(c, S) ==
    /\ c \in store
    /\ S # {} /\ \A p \in S : HomeOf[p] = c /\ point[p] # None
    /\ point' = Without(S)
    /\ UNCHANGED <<cols, doms, retired, store, req, mishap>>

-----------------------------------------------------------------------------
(* Failures *)

\* Qdrant raises: the request ends where it is.  The collection may exist by
\* then without its indexes; of the loop over the listed collections, some
\* are done.
QdrantFails(w) ==
    /\ MayFail
    /\ \/ /\ req[w].pc = "refreshed"
          /\ store' \in {store, store \cup {req[w].col}}
          /\ UNCHANGED point
       \/ /\ req[w].pc = "loaded" /\ req[w].op = "delete"
          /\ UNCHANGED <<store, point>>
       \/ /\ req[w].pc = "listed"
          /\ UNCHANGED store
          /\ \E C \in SUBSET req[w].listed :
                 point' = Without(PointsOf(req[w].dom, C \cap store))
    /\ req' = [req EXCEPT ![w] = Idle]
    /\ Note("failed", TRUE)
    /\ UNCHANGED <<cols, doms, retired>>

\* The database raises at the refresh, the list or the last commit.
DbFails(w) ==
    /\ MayFail
    /\ \/ req[w].pc \in {"committed", "purged"}
       \/ req[w].pc = "loaded" /\ req[w].op = "domain"
    /\ req' = [req EXCEPT ![w] = Idle]
    /\ Note("failed", TRUE)
    /\ UNCHANGED <<cols, doms, retired, store, point>>

\* The API process stops; both stores survive.
Crash ==
    /\ MayFail
    /\ \E w \in Requests : req[w].pc # "idle"
    /\ req' = [w \in Requests |-> Idle]
    /\ Note("failed", TRUE)
    /\ UNCHANGED <<cols, doms, retired, store, point>>

-----------------------------------------------------------------------------

Step(w) ==
    \/ \E c \in Collections : CreateCollection(w, c)
    \/ RefreshCollection(w) \/ CreateInQdrant(w)
    \/ \E c \in Collections, vector \in {TRUE, ~KeepVectors} :
           DeleteCollection(w, c, vector)
    \/ DropFromQdrant(w) \/ CommitCollection(w)
    \/ \E d \in Domains : DeleteDomain(w, d)
    \/ ListCollections(w) \/ PurgeDomain(w) \/ CommitDomain(w)
    \/ QdrantFails(w) \/ DbFails(w)

Next ==
    \/ \E w \in Requests : Step(w)
    \/ \E d \in Domains : CreateDomain(d)
    \/ \E p \in Points, d \in Domains : StorePoint(p, d)
    \/ \E c \in Collections, S \in SUBSET Points : DeletePoints(c, S)
    \/ Crash

Spec == Init /\ [][Next]_vars

-----------------------------------------------------------------------------
(* Properties *)

Busy(c) == \E w \in Requests : req[w].col = c

(* A listed collection takes knowledge: it exists in Qdrant, but while a   *)
(* request is changing it, unless something failed; not even overlapping   *)
(* creations and deletions end in a row without it.  And Qdrant holds none *)
(* that is not listed, where knowledge can be stored but domains are not   *)
(* purged: no failure or crash leaves one, at whatever step, only a        *)
(* deletion that keeps the vectors or overlaps a creation.  All state has  *)
(* its type.                                                               *)
StoresAgree ==
    /\ RagTypeOK
    /\ "failed" \notin mishap => \A c \in cols \ store : Busy(c)
    /\ mishap \cap {"kept", "raced"} = {} => store \subseteq cols

(* No point refers to a domain that does not exist.  delete_domain purges  *)
(* before it deletes the row, so a failure or crash half way never leaves  *)
(* one; it takes a hidden collection, or a point stored under the domain   *)
(* while or after it is deleted.                                           *)
NoOrphanPoint ==
    mishap \cap {"kept", "raced", "late"} = {} =>
        \A p \in Points : point[p] \in doms \cup {None}
=============================================================================
