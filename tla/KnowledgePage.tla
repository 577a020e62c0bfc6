----------------------------- MODULE KnowledgePage -----------------------------
(***************************************************************************)
(* The pages of the knowledge base: the search table and the sidebar with  *)
(* the form of a point (apps/api/static/js/rag.js), and the bulk deletion  *)
(* (apps/api/static/js/bulk.js).  They are in one document with the        *)
(* administration page, and share the server's data with it, but nothing   *)
(* on the page tells one of another's changes: the dropdowns are loaded    *)
(* once, on the first visit.                                               *)
(*                                                                         *)
(* Of a point's texts the model keeps which text was typed.  Of the search *)
(* form it keeps the collection; the query, the domain and the limit       *)
(* narrow the result in the same way.  A bulk deletion's source is the set *)
(* of texts that bear it.                                                  *)
(***************************************************************************)
EXTENDS AdminPage

CONSTANT Sources    \* what can be entered as the source: sets of texts

ASSUME KnowledgeAssumption == Texts \in Sources /\ Sources \subseteq SUBSET Texts

VARIABLES
    side,       \* the sidebar and its form
    filter,     \* search-collection, None for all
    found,      \* the search table
    drops,      \* what each page's dropdowns offer
    begun,      \* the pages that were visited
    typed       \* the texts that were typed so far

ragVars == <<side, filter, found, typed>>
dropVars == <<drops, begun>>
vars == <<serverVars, adminVars, call, asked, mishap, ragVars, dropVars>>

Pages == {"rag", "bulk"}

\* id: edit-point-id, which a reset leaves; why and sent: as in Point and Form.
Side == [mode : {"closed", "create", "edit", "show"}, id : Points \cup {None},
         col : Cols \cup {None}, dom : Doms \cup {None}, text : Texts \cup {None},
         why : {"meant", "again", "viewed"}, sent : BOOLEAN]

\* The rows of the search table and the filter they were searched for.
NothingFound == [pts |-> {}, by |-> "nothing"]

KnowledgeTypeOK ==
    /\ AdminTypeOK
    /\ side \in Side /\ filter \in Cols \cup {None} /\ typed \subseteq Texts
    /\ found = NothingFound
       \/ found \in [pts : SUBSET Point, by : Cols \cup {None}]
    /\ drops \in [Pages -> SUBSET Keys] /\ begun \subseteq Pages

Init ==
    /\ AdminInit
    /\ side = [mode |-> "closed", id |-> None, col |-> None, dom |-> None, text |-> None,
               why |-> "meant", sent |-> FALSE]
    /\ filter = None /\ found = NothingFound /\ typed = {}
    /\ drops = [v \in Pages |-> {}] /\ begun = {}

Offered(v, i) == IF i \in drops[v] THEN i ELSE None

Match(sel) == {p \in pts : /\ p.in = sel.in /\ p.text \in sel.source
                           /\ sel.dom # None => p.dom = sel.dom}

-----------------------------------------------------------------------------
(* The dropdowns: initRag, initBulk *)

Visit(v, c) ==
    /\ v \notin begun
    /\ begun' = begun \cup {v}
    /\ Begin(c, [kind |-> "drops", stage |-> "sent", of |-> v])
    /\ UNCHANGED <<serverVars, adminVars, asked, ragVars, drops>>

\* New options leave rag's form with none chosen.
DropsArrive(c) ==
    /\ call[c].kind = "options"
    /\ drops' = [drops EXCEPT ![call[c].of] = call[c].ids]
    /\ IF call[c].of = "rag"
       THEN side' = [side EXCEPT !.col = None, !.dom = None] /\ filter' = None
       ELSE UNCHANGED <<side, filter>>
    /\ Done(c)
    /\ UNCHANGED <<serverVars, adminVars, asked, mishap, found, typed, begun>>

-----------------------------------------------------------------------------
(* The sidebar *)

\* openSidebar('create'), and a text is typed; what is chosen comes next.
OpenCreate(t) ==
    /\ t \notin typed /\ typed' = typed \cup {t}
    /\ side' = [side EXCEPT !.mode = "create", !.col = None, !.dom = None, !.text = t,
                            !.why = "meant", !.sent = FALSE]
    /\ UNCHANGED <<serverVars, adminVars, call, asked, mishap, filter, found, dropVars>>

\* The collection of a point that is edited cannot be chosen.
Choose(k, d) ==
    /\ side.mode \in {"create", "edit"} /\ {k, d} \subseteq drops["rag"]
    /\ side.mode = "edit" => k = side.col
    /\ side' = [side EXCEPT !.col = k, !.dom = d]
    /\ UNCHANGED <<serverVars, adminVars, call, asked, mishap, filter, found, typed, dropVars>>

\* openEditSidebar: a select that offers no such option has none chosen.
OpenPoint(p, mode) ==
    /\ p \in found.pts
    /\ side' = [mode |-> mode, id |-> p.id, col |-> Offered("rag", p.in),
                dom |-> Offered("rag", p.dom), text |-> p.text, why |-> p.why, sent |-> FALSE]
    /\ UNCHANGED <<serverVars, adminVars, call, asked, mishap, filter, found, typed, dropVars>>

Close ==
    /\ side.mode # "closed" /\ side' = [side EXCEPT !.mode = "closed"]
    /\ UNCHANGED <<serverVars, adminVars, call, asked, mishap, filter, found, typed, dropVars>>

\* Mutant: an edit does not name its point.
StoreNameless ==
    [kind |-> "store", stage |-> "sent", in |-> side.col, dom |-> side.dom,
     text |-> side.text, id |-> None, why |-> side.why]

\* The payload of saveKnowledge
Store ==
    [kind |-> "store", stage |-> "sent", in |-> side.col, dom |-> side.dom, text |-> side.text,
     id |-> IF side.mode = "edit" THEN side.id ELSE None,
     why |-> CASE side.mode = "edit" -> side.why
               [] side.mode = "show" -> "viewed"
               [] OTHER -> IF side.sent THEN "again" ELSE "meant"]

\* The form is submitted by its button, or by Enter in its source field, which
\* a form that only shows a point has too.  The browser, or the server, refuses
\* one without a collection or domain.
SaveKnowledge(c) ==
    /\ side.mode # "closed" /\ side.col # None /\ side.dom # None
    /\ Send(c, Store)
    /\ side' = [side EXCEPT !.sent = TRUE]
    /\ UNCHANGED <<serverVars, adminVars, filter, found, typed, dropVars>>

-----------------------------------------------------------------------------
(* The search table *)

Choices == {None} \cup (drops["rag"] \cap Cols)

Narrow(i) ==
    /\ i \in Choices /\ filter' = i
    /\ UNCHANGED <<serverVars, adminVars, call, asked, mishap, side, found, typed, dropVars>>

SearchFor == [kind |-> "search", stage |-> "sent", by |-> filter]

\* performSearch empties the table first.
PerformSearch(c) ==
    /\ "rag" \in begun /\ Send(c, SearchFor)
    /\ found' = NothingFound
    /\ UNCHANGED <<serverVars, adminVars, side, filter, typed, dropVars>>

DeletePoint(p, c) ==
    /\ p \in found.pts
    /\ Send(c, [kind |-> "drop", stage |-> "sent", in |-> p.in, id |-> p.id])
    /\ UNCHANGED <<serverVars, adminVars, ragVars, dropVars>>

\* Mutant: the search is left to the user.
PointChangedSilently(c) ==
    /\ call[c].kind \in {"store", "drop"} /\ call[c].stage = "answered"
    /\ side' = IF call[c].kind = "store" THEN [side EXCEPT !.mode = "closed"] ELSE side
    /\ Done(c)
    /\ UNCHANGED <<serverVars, adminVars, asked, mishap, filter, found, typed, dropVars>>

\* After a save the sidebar closes, whatever it holds by now; then a search.
PointChanged(c) ==
    /\ call[c].kind \in {"store", "drop"} /\ call[c].stage = "answered"
    /\ side' = IF call[c].kind = "store" THEN [side EXCEPT !.mode = "closed"] ELSE side
    /\ call' = [call EXCEPT ![c] = SearchFor]
    /\ found' = NothingFound
    /\ UNCHANGED <<serverVars, adminVars, asked, mishap, filter, typed, dropVars>>

SearchArrives(c) ==
    /\ call[c].kind = "result"
    /\ found' = [pts |-> call[c].pts, by |-> call[c].by]
    /\ Done(c)
    /\ UNCHANGED <<serverVars, adminVars, asked, mishap, side, filter, typed, dropVars>>

-----------------------------------------------------------------------------
(* Bulk deletion *)

\* confirmDelete: a collection, and a domain or a source, are counted first.
ConfirmDelete(sel, c) ==
    /\ sel.in \in drops["bulk"] /\ sel.dom \in drops["bulk"] \cup {None}
    /\ sel.dom = None => sel.source # Texts
    /\ Send(c, [kind |-> "count", stage |-> "sent", sel |-> sel])
    /\ UNCHANGED <<serverVars, adminVars, ragVars, dropVars>>

\* Mutant: the URL of the deletion lacks the source.
StartDeleteWider(c) ==
    /\ call[c].kind = "counted"
    /\ call[c].pts # {}
    /\ call' = [call EXCEPT ![c] = [call[c] EXCEPT !.kind = "purge", !.sel.source = Texts]]
    /\ UNCHANGED <<serverVars, adminVars, asked, mishap, ragVars, dropVars>>

\* The user agrees; of no points, there is nothing to agree to.
StartDelete(c) ==
    /\ call[c].kind = "counted"
    /\ call[c].pts # {}
    /\ call' = [call EXCEPT ![c].kind = "purge"]
    /\ UNCHANGED <<serverVars, adminVars, asked, mishap, ragVars, dropVars>>

-----------------------------------------------------------------------------
(* The server *)

\* The calls after point p was stored for call c.
StoredFor(c, p) ==
    [d \in Calls |-> IF d = c THEN [call[d] EXCEPT !.stage = "answered"]
                     ELSE IF call[d].kind \in {"counted", "purge"}
                          THEN [call[d] EXCEPT !.since = call[d].since \cup {p}]
                     ELSE call[d]]

\* add_knowledge_point minds the collection, not the domain.
ServeStore(c) ==
    /\ call[c].kind = "store" /\ call[c].stage = "sent" /\ call[c].in \in rows
    /\ LET q == call[c] IN
       \E i \in IF q.id = None THEN Points \ used ELSE {q.id} :
         LET p == [in |-> q.in, id |-> i, dom |-> q.dom, text |-> q.text, why |-> q.why] IN
         /\ pts' = {o \in pts : o.in # q.in \/ o.id # i} \cup {p}
         /\ used' = used \cup {i}
         /\ call' = StoredFor(c, p)
    /\ UNCHANGED <<rows, adminVars, asked, mishap, ragVars, dropVars>>

ServeDrop(c) ==
    /\ call[c].kind = "drop" /\ call[c].stage = "sent" /\ call[c].in \in rows
    /\ pts' = {p \in pts : p.in # call[c].in \/ p.id # call[c].id}
    /\ Answered(c)
    /\ UNCHANGED <<rows, used, adminVars, asked, mishap, ragVars, dropVars>>

ServePurge(c) ==
    /\ call[c].kind = "purge" /\ call[c].sel.in \in rows
    /\ pts' = pts \ Match(call[c].sel)
    /\ Done(c)
    /\ Note("emptied", pts' # pts)
    /\ UNCHANGED <<rows, used, adminVars, asked, ragVars, dropVars>>

\* The queries
ServeQuery(c) ==
    /\ call[c].kind \in {"drops", "search", "count"}
    /\ LET q == call[c] IN
       call' = [call EXCEPT ![c] =
         CASE q.kind = "drops"  -> [kind |-> "options", of |-> q.of, ids |-> rows]
           [] q.kind = "search" -> [kind |-> "result", by |-> q.by,
                                    pts |-> {p \in pts : q.by \in {None, p.in}}]
           [] q.kind = "count"  -> [kind |-> "counted", sel |-> q.sel, pts |-> Match(q.sel),
                                    since |-> {}]]
    /\ UNCHANGED <<serverVars, adminVars, asked, mishap, ragVars, dropVars>>

\* Refused, lost, or the user does not confirm; a search leaves a message.
KnowledgeFails(c) ==
    /\ call[c].kind \in {"drops", "options", "store", "drop", "search", "result",
                         "count", "counted", "purge"}
    /\ found' = IF call[c].kind \in {"search", "result"} THEN NothingFound ELSE found
    /\ Done(c)
    /\ Note("lost", call[c].kind \in {"store", "drop"} /\ call[c].stage = "answered")
    /\ UNCHANGED <<serverVars, adminVars, asked, side, filter, typed, dropVars>>

KnowledgeNext ==
    \/ \E c \in Calls :
         \/ DropsArrive(c) \/ SaveKnowledge(c) \/ PerformSearch(c) \/ PointChanged(c)
         \/ SearchArrives(c) \/ StartDelete(c) \/ KnowledgeFails(c)
         \/ ServeStore(c) \/ ServeDrop(c) \/ ServePurge(c) \/ ServeQuery(c)
         \/ \E v \in Pages : Visit(v, c)
         \/ \E p \in found.pts : DeletePoint(p, c)
         \/ \E sel \in [in : Cols, dom : Doms \cup {None}, source : Sources] :
              ConfirmDelete(sel, c)
    \/ \E t \in Texts : OpenCreate(t)
    \/ \E k \in Cols, d \in Doms : Choose(k, d)
    \/ \E i \in Cols \cup {None} : Narrow(i)
    \/ \E p \in found.pts, mode \in {"edit", "show"} : OpenPoint(p, mode)
    \/ Close

Next ==
    \/ AdminNext /\ UNCHANGED <<ragVars, dropVars>>
    \/ KnowledgeNext

Spec == Init /\ [][Next]_vars

-----------------------------------------------------------------------------
(* Properties *)

(* Once every call has been answered the tables that were loaded, the      *)
(* search table among them, show what the server has -- unless calls       *)
(* overlapped or were lost, or the data changed from another page.         *)
TablesCurrent ==
    /\ AdminTablesCurrent
    /\ mishap = {} /\ (\A c \in Calls : call[c] = NoCall) /\ found # NothingFound =>
         found.pts = {p \in pts : found.by \in {None, p.in}}

(* No text is stored twice, whatever is saved, edited and deleted in what  *)
(* order -- unless the user submits a form again, before the answer or     *)
(* after it was lost, or submits one that only shows a point, which stores *)
(* a copy.  All state has its type.                                        *)
NoDuplicates ==
    /\ KnowledgeTypeOK
    /\ \A p, o \in pts : p.text = o.text /\ p # o => "meant" # p.why \/ "meant" # o.why

(* A bulk deletion that was confirmed removes no point that was not in the *)
(* number the user agreed to, except points stored after they were counted.*)
DeletesWhatWasCounted ==
    \A c \in Calls : call[c].kind = "purge" =>
        Match(call[c].sel) \subseteq call[c].pts \cup call[c].since
=============================================================================
