---------------------------- MODULE KnowledgeQuery ----------------------------
(***************************************************************************)
(* Reading knowledge: search_rag and get_knowledge_points of RAGService    *)
(* (libs/core/service.py), which visit the collections one by one, merge   *)
(* what Qdrant returns, sort it and cut it to the limit.                   *)
(*                                                                         *)
(* The calls of Qdrant do not await: from the list of the collections to   *)
(* the answer no other request of the process runs, and the contents stay  *)
(* as they are.  They are arbitrary; a listed collection may be missing.   *)
(***************************************************************************)
EXTENDS Integers, Sequences, FiniteSets, SequencesExt

CONSTANTS
    Collections,
    Domains,
    Points,    \* ids, in the order of Qdrant's scroll
    Ranks,     \* creation times and similarities, as far as they are compared
    Limits,
    Unset      \* for a parameter that is not given

ASSUME QueryAssumption ==
    /\ Points \subseteq Nat /\ Ranks \subseteq Nat /\ Limits \subseteq Nat
    /\ IsFiniteSet(Collections) /\ IsFiniteSet(Points)
    /\ Unset \notin Collections \cup Domains \cup Points

VARIABLES
    point,     \* the points in Qdrant
    exists,    \* the collections in Qdrant
    req,       \* the request
    listed,    \* the collections asked for, or those of PostgreSQL
    left,      \* the collections still to visit
    offset,    \* where the next page of the scroll starts
    results,   \* the points found so far
    pc

contents == <<point, exists, req, listed>>
queryVars == <<contents, left, offset, results, pc>>

\* hit: the content contains the query, or the source the one asked for.
Point == [in : Collections, domain : Domains, hit : BOOLEAN, rank : Ranks]

\* vector, text, list: search_rag by similarity, by text, without a query.
\* points: get_knowledge_points
Request == [kind : {"vector", "text", "list", "points"},
            collection : Collections \cup {Unset},
            domain : Domains \cup {Unset},
            limit : Limits]

QueryInit ==
    /\ point \in [Points -> Point]
    /\ exists \in SUBSET Collections
    /\ req \in Request
    /\ req.kind = "points" => req.domain # Unset
    /\ req.kind # "points" => req.limit > 0
    /\ listed \in IF req.collection = Unset THEN SUBSET Collections ELSE {{req.collection}}
    /\ left \in SetToSeqs(listed)
    /\ offset = Unset
    /\ results = <<>>
    /\ pc = "visit"

-----------------------------------------------------------------------------
(* Qdrant *)

\* The filter of the request
Matching(c) ==
    {p \in Points : /\ point[p].in = c
                    /\ req.domain \in {Unset, point[p].domain}
                    /\ req.kind = "text" => point[p].hit}

\* The ways to take n members of S one after the other, or all if it has fewer
Pages(S, n) ==
    {page \in UNION {SetToSeqs(T) : T \in SUBSET S} :
        Len(page) = IF Cardinality(S) < n THEN Cardinality(S) ELSE n}

\* A scroll: the first n points of S by id
First(S, n) ==
    {page \in Pages(S, n) :
        /\ \A j, k \in DOMAIN page : j < k => page[j] < page[k]
        /\ \A p \in ToSet(page), q \in S \ ToSet(page) : p < q}

\* query_points: the n nearest points of S, those of equal similarity in any order
Nearest(S, n) ==
    {page \in Pages(S, n) :
        /\ \A j, k \in DOMAIN page : j < k => point[page[j]].rank >= point[page[k]].rank
        /\ \A p \in ToSet(page), q \in S \ ToSet(page) : point[p].rank >= point[q].rank}

\* The offset after a page; a full last page may come with one all the same.
NextOffsets(S, page) ==
    LET rest == S \ ToSet(page)
    IN  IF rest # {} THEN {CHOOSE p \in rest : \A q \in rest : p <= q}
        ELSE IF Len(page) = req.limit THEN {Unset} \cup {p \in Points : \A q \in S : q < p}
        ELSE {Unset}

-----------------------------------------------------------------------------
(* The visit of a collection *)

SkipMissing ==
    /\ pc = "visit" /\ left # <<>> /\ Head(left) \notin exists
    /\ left' = Tail(left)
    /\ UNCHANGED <<contents, offset, results, pc>>

\* search_rag asks each collection once, for the whole limit.
SearchCollection ==
    /\ pc = "visit" /\ left # <<>> /\ Head(left) \in exists
    /\ req.kind # "points"
    /\ LET S == Matching(Head(left))
       IN  \E page \in IF req.kind = "vector" THEN Nearest(S, req.limit)
                       ELSE First(S, req.limit) :
             results' = results \o page
    /\ left' = Tail(left)
    /\ UNCHANGED <<contents, offset, pc>>

\* What get_knowledge_points keeps of a page, in its order: the sources are
\* compared here, and nothing is taken beyond the limit.
Kept(page) == First({p \in ToSet(page) : point[p].hit}, req.limit - Len(results))

\* Mutant: a page without a match is taken for the end.
LastPageIfNoMatch(page, next) == next = Unset \/ \A p \in ToSet(page) : ~point[p].hit

\* Mutant: only an empty page ends the scroll.
LastPageIfEmpty(page, next) == page = <<>>

LastPage(page, next) == next = Unset \/ page = <<>>

ScrollPage ==
    /\ pc = "visit" /\ left # <<>> /\ Head(left) \in exists
    /\ req.kind = "points" /\ Len(results) < req.limit
    /\ LET S == {p \in Matching(Head(left)) : offset # Unset => p >= offset}
       IN  \E page \in First(S, req.limit) : \E next \in NextOffsets(S, page), kept \in Kept(page) :
             /\ results' = results \o kept
             /\ IF LastPage(page, next)
                THEN left' = Tail(left) /\ offset' = Unset
                ELSE left' = left /\ offset' = next
    /\ UNCHANGED <<contents, pc>>

\* The limit is reached: the scroll ends, and no other collection is scrolled.
ScrollEnough ==
    /\ pc = "visit" /\ left # <<>> /\ Head(left) \in exists
    /\ req.kind = "points" /\ Len(results) >= req.limit
    /\ left' = Tail(left)
    /\ offset' = Unset
    /\ UNCHANGED <<contents, results, pc>>

-----------------------------------------------------------------------------
(* The answer *)

\* What the results are sorted by; text matching scores all of them 1.0.
Key(p) == IF req.kind = "text" THEN 1 ELSE point[p].rank

\* s sorted; sort is stable, also in reverse.
Sortings(s) ==
    LET before(j, k) == Key(s[j]) > Key(s[k]) \/ (Key(s[j]) = Key(s[k]) /\ j < k)
    IN  {[k \in DOMAIN s |-> s[order[k]]] :
            order \in {o \in SetToSeqs(DOMAIN s) :
                         \A j, k \in DOMAIN s : j < k => before(o[j], o[k])}}

Answer ==
    /\ pc = "visit" /\ left = <<>>
    /\ \E sorted \in Sortings(results) :
         results' = SubSeq(sorted, 1, IF Len(sorted) < req.limit THEN Len(sorted) ELSE req.limit)
    /\ pc' = "answered"
    /\ UNCHANGED <<contents, left, offset>>

QueryNext == SkipMissing \/ SearchCollection \/ ScrollPage \/ ScrollEnough \/ Answer

\* One thread runs the request to its end.
QuerySpec == QueryInit /\ [][QueryNext]_queryVars /\ WF_queryVars(QueryNext)

-----------------------------------------------------------------------------
(* Properties *)

(* Types; get_knowledge_points never holds more than the limit, whatever   *)
(* the size of the collections.                                            *)
QueryTypeOK ==
    /\ point \in [Points -> Point]
    /\ exists \subseteq Collections
    /\ req \in Request
    /\ listed \subseteq Collections
    /\ left \in Seq(Collections)
    /\ offset \in Points \cup {Unset}
    /\ results \in Seq(Points)
    /\ pc \in {"visit", "answered"}
    /\ req.kind = "points" => Len(results) <= req.limit

\* The points the request asks for, in the collections that were listed.
Wanted ==
    {p \in UNION {Matching(c) : c \in exists \cap listed} :
        req.kind = "points" => point[p].hit}

\* No collection holds more matching points than the limit.
Uncut == \A c \in exists : Cardinality(Matching(c)) <= req.limit

(* The answer consists of points the request asks for, each once and in    *)
(* descending order, and of all of them or as many as the limit allows,    *)
(* however they are spread over collections and pages.  The best are never *)
(* missing from a vector search, nor from a listing without a query while  *)
(* no collection is cut: a scroll returns the first points by id.  All     *)
(* state has its type.                                                     *)
AnswerRight ==
    /\ QueryTypeOK
    /\ pc = "answered" =>
         LET given == ToSet(results)
         IN  /\ given \subseteq Wanted
             /\ Cardinality(given) = Len(results)
             /\ Len(results) = IF Cardinality(Wanted) < req.limit
                               THEN Cardinality(Wanted) ELSE req.limit
             /\ \A j, k \in DOMAIN results : j < k => Key(results[j]) >= Key(results[k])
             /\ (req.kind = "vector" \/ (req.kind = "list" /\ Uncut)) =>
                  \A p \in given, q \in Wanted \ given : Key(p) >= Key(q)

(* Every request is answered: the paging ends, also on a collection that   *)
(* has fewer matches than the limit or none.                               *)
Answered == <>(pc = "answered")
=============================================================================
