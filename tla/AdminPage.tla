------------------------------- MODULE AdminPage -------------------------------
(***************************************************************************)
(* The administration page (apps/api/static/js/admin.js): a form and a     *)
(* table each for collections and for domains.  No button is disabled      *)
(* while its call is under way, and every answer resets the form, whatever *)
(* it holds by then.  A save edits a collection if its id is locked in the *)
(* form, and a domain if the form hides an id; else it creates.            *)
(*                                                                         *)
(* The server's handlers are one step here; RagStore has their steps and   *)
(* failures.  Names and the other columns are left out, so an edit changes *)
(* nothing, and a name that is taken is a refusal.  Bounds: Calls, the     *)
(* slots for calls under way, and MaxAsked, the calls the user starts.     *)
(***************************************************************************)
EXTENDS Naturals, FiniteSets

CONSTANTS
    Cols,       \* collection ids, typed by the user
    Doms,       \* domain ids, serial: never used twice
    Points,     \* point ids, uuids: never used twice
    Texts,      \* what points hold
    Calls,
    MaxAsked,
    None

Kinds == {"col", "dom"}
KeysOf == [k \in Kinds |-> IF k = "col" THEN Cols ELSE Doms]
Keys == Cols \cup Doms

ASSUME AdminAssumption ==
    /\ Cols \cap Doms = {} /\ None \notin Keys \cup Points /\ MaxAsked \in Nat

VARIABLES
    rows,       \* the ids in the server's tables of collections and domains
    used,       \* the domain and point ids given out so far
    pts,        \* the points in Qdrant
    form,       \* the two forms
    table,      \* the ids in the two tables on the page
    call,       \* the call in each slot
    asked,      \* how many the user started
    mishap      \* history: what has happened that may spoil the tables; "emptied",
                \* points deleted in bulk or with their collection or domain, only
                \* the search table

serverVars == <<rows, used, pts>>
adminVars == <<form, table>>

\* why: history, how the point came to be stored.
Point == [in : Cols, id : Points, dom : Doms, text : Texts,
          why : {"meant", "again", "viewed"}]

\* meant: the row the user opened the form for, if any; wiped: an answer has
\* reset the form since; sent: nothing was done to it since it was sent.
Form == [id : Keys \cup {None}, locked : BOOLEAN, meant : Keys \cup {None},
         wiped : BOOLEAN, sent : BOOLEAN]
Blank == [id |-> None, locked |-> FALSE, meant |-> None, wiped |-> FALSE, sent |-> FALSE]

NotLoaded == {None}
NoCall == [kind |-> "idle"]

AdminTypeOK ==
    /\ rows \subseteq Keys /\ used \subseteq Doms \cup Points /\ pts \subseteq Point
    /\ form \in [Kinds -> Form]
    /\ \A k \in Kinds : table[k] = NotLoaded \/ table[k] \subseteq KeysOf[k]
    /\ asked \in 0..MaxAsked
    /\ mishap \subseteq {"overlap", "lost", "elsewhere", "emptied"}

AdminInit ==
    /\ rows \in SUBSET Keys /\ used = rows \cap Doms /\ pts = {}
    /\ form = [k \in Kinds |-> Blank]
    /\ table = [k \in Kinds |-> NotLoaded]
    /\ call = [c \in Calls |-> NoCall] /\ asked = 0
    /\ mishap = {}

Note(what, happened) == mishap' = mishap \cup (IF happened THEN {what} ELSE {})

\* A call that is not part of another; all but bulk ones end in a new table.
Begin(c, record) ==
    /\ call[c] = NoCall
    /\ call' = [call EXCEPT ![c] = record]
    /\ Note("overlap", \E d \in Calls : call[d] # NoCall)

Send(c, record) == asked < MaxAsked /\ asked' = asked + 1 /\ Begin(c, record)

Done(c) == call' = [call EXCEPT ![c] = NoCall]

-----------------------------------------------------------------------------
(* The forms *)

\* editCollection, editDomain
Open(k, i) ==
    /\ i \in table[k] \cap KeysOf[k]
    /\ form' = [form EXCEPT ![k] = [Blank EXCEPT !.id = i, !.locked = k = "col", !.meant = i]]
    /\ UNCHANGED <<serverVars, table, call, asked, mishap>>

\* resetColForm, resetDomForm, from their buttons
Reset(k) ==
    /\ form' = [form EXCEPT ![k] = Blank]
    /\ UNCHANGED <<serverVars, table, call, asked, mishap>>

\* The user types: the id of a new collection, or in the other fields.
TypeId(i) ==
    /\ ~form["col"].locked
    /\ form' = [form EXCEPT !["col"].id = i, !["col"].sent = FALSE]
    /\ UNCHANGED <<serverVars, table, call, asked, mishap>>

Type(k) ==
    /\ form' = [form EXCEPT ![k].sent = FALSE]
    /\ UNCHANGED <<serverVars, table, call, asked, mishap>>

\* isEdit in saveCollection, id in saveDomain
Edits(k) == IF k = "col" THEN form[k].locked ELSE form[k].id # None

Save(k, c) ==
    /\ k = "col" => form[k].id # None
    /\ Send(c, [kind |-> "save", stage |-> "sent", of |-> k, id |-> form[k].id,
                edit |-> Edits(k), meant |-> form[k].meant, wiped |-> form[k].wiped])
    /\ form' = [form EXCEPT ![k].sent = TRUE]
    /\ UNCHANGED <<serverVars, table>>

Delete(k, i, c) ==
    /\ i \in table[k] \cap KeysOf[k]
    /\ Send(c, [kind |-> "delete", stage |-> "sent", of |-> k, id |-> i])
    /\ UNCHANGED <<serverVars, adminVars>>

LoadOf(k) == [kind |-> "load", stage |-> "sent", of |-> k]

SwitchTab(k, c) ==
    /\ Send(c, LoadOf(k))
    /\ UNCHANGED <<serverVars, adminVars>>

-----------------------------------------------------------------------------
(* The server *)

Answered(c) == call' = [call EXCEPT ![c].stage = "answered"]

Create(q) ==
    \E i \in KeysOf[q.of] \ (rows \cup used) :
        /\ q.of = "col" => i = q.id
        /\ rows' = rows \cup {i}
        /\ used' = used \cup ({i} \cap Doms)

\* A collection is deleted with its points (delete_vector=true), and so is a
\* domain.
Remove(i) ==
    /\ rows' = rows \ {i}
    /\ pts' = {p \in pts : i \notin {p.in, p.dom}}

ServeAdmin(c) ==
    /\ call[c].kind \in {"save", "delete", "load"} /\ call[c].stage = "sent"
    /\ LET q == call[c] IN
         \/ /\ q.kind = "save" /\ q.edit /\ q.id \in rows
            /\ Answered(c) /\ UNCHANGED <<serverVars, mishap>>
         \/ /\ q.kind = "save" /\ ~q.edit
            /\ Create(q) /\ Answered(c) /\ UNCHANGED <<pts, mishap>>
         \/ /\ q.kind = "delete" /\ q.id \in rows
            /\ Remove(q.id) /\ Answered(c) /\ UNCHANGED used
            /\ Note("emptied", pts' # pts)
         \/ /\ q.kind = "load"
            /\ call' = [call EXCEPT ![c] = [kind |-> "list", of |-> q.of,
                                            ids |-> rows \cap KeysOf[q.of]]]
            /\ UNCHANGED <<serverVars, mishap>>
    /\ UNCHANGED <<adminVars, asked>>

\* Another administrator adds or deletes a row.
OthersChange ==
    /\ "elsewhere" \notin mishap
    /\ \/ /\ \E k \in Kinds, i \in Keys : Create([of |-> k, id |-> i])
          /\ UNCHANGED pts
       \/ /\ \E i \in rows : Remove(i)
          /\ UNCHANGED used
    /\ Note("elsewhere", TRUE)
    /\ UNCHANGED <<adminVars, call, asked>>

-----------------------------------------------------------------------------
(* The answers *)

\* Mutant: the id stays in the form, locked or hidden.
WipeHalf(q) == [form[q.of] EXCEPT !.meant = None]

\* The form of q's kind is reset.  It was done with if it was just sent, or
\* was open for the row that is gone; any other loses what it held.
Wipe(q) ==
    LET f == form[q.of]
        done == IF q.kind = "save" THEN f.sent ELSE f.meant = q.id
    IN  IF done THEN Blank ELSE [Blank EXCEPT !.meant = f.meant, !.wiped = f.meant # None]

\* The form is reset and the table loaded, which nothing awaits.
Changed(c) ==
    /\ call[c].kind \in {"save", "delete"} /\ call[c].stage = "answered"
    /\ form' = [form EXCEPT ![call[c].of] = Wipe(call[c])]
    /\ call' = [call EXCEPT ![c] = LoadOf(call[c].of)]
    /\ UNCHANGED <<serverVars, table, asked, mishap>>

LoadArrives(c) ==
    /\ call[c].kind = "list"
    /\ table' = [table EXCEPT ![call[c].of] = call[c].ids]
    /\ Done(c)
    /\ UNCHANGED <<serverVars, form, asked, mishap>>

\* Refused, or the request or its answer is lost: at most a message.
AdminFails(c) ==
    /\ call[c].kind \in {"save", "delete", "load", "list"}
    /\ Done(c)
    /\ Note("lost", call[c].kind \in {"load", "list"} \/ call[c].stage = "answered")
    /\ UNCHANGED <<serverVars, adminVars, asked>>

AdminNext ==
    \/ \E c \in Calls :
         \/ ServeAdmin(c) \/ Changed(c) \/ LoadArrives(c) \/ AdminFails(c)
         \/ \E k \in Kinds :
              \/ Save(k, c) \/ SwitchTab(k, c)
              \/ \E i \in Keys : Delete(k, i, c)
    \/ \E k \in Kinds : Reset(k) \/ Type(k) \/ \E i \in Keys : Open(k, i)
    \/ \E i \in Cols : TypeId(i)
    \/ OthersChange

-----------------------------------------------------------------------------
(* Properties *)

(* A save that edits changes the row its form was opened for, and one from *)
(* a form opened for a row creates nothing -- unless the answer to an      *)
(* earlier call has reset the form in between (admin.js 79-81, 139-140).   *)
SavesWhatWasMeant ==
    \A c \in Calls : call[c].kind = "save" =>
        /\ call[c].edit => call[c].meant = call[c].id
        /\ call[c].meant # None /\ ~call[c].wiped => call[c].edit

(* Once every call has been answered a table that was loaded shows the     *)
(* server's rows -- unless calls overlapped or were lost, or someone else  *)
(* changed a row.                                                          *)
AdminTablesCurrent ==
    mishap \subseteq {"emptied"} /\ (\A c \in Calls : call[c] = NoCall) =>
        \A k \in Kinds : table[k] # NotLoaded => table[k] = rows \cap KeysOf[k]
=============================================================================
