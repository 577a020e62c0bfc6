------------------------------ MODULE PromptPage ------------------------------
(***************************************************************************)
(* The prompt page (apps/api/static/js/prompt.js) on top of the library:   *)
(* the table, the sidebar with its form, and the fetches under way.        *)
(*                                                                         *)
(* openPromptSidebar sets the hidden inputs (mode and id) at once and      *)
(* fills and shows the form when the prompt arrives.  The table can be     *)
(* clicked until then, so several fetches may be under way and answered in *)
(* any order; an open sidebar covers the table.                            *)
(*                                                                         *)
(* Other tabs and other users send requests of their own, so the table is  *)
(* out of date as soon as it is shown.                                     *)
(***************************************************************************)
EXTENDS PromptLibrary

CONSTANTS
    Me,        \* the user at the page
    Fetches    \* slots for the fetches under way

ASSUME PageAssumption == Me \in Users

VARIABLES
    table,     \* the prompts of the table
    form,      \* the sidebar
    fetch,     \* the openPromptSidebar call in each slot
    overlap    \* history: the form was opened with a fetch still under way

pageVars == <<table, form, fetch, overlap>>

vars == <<row, spent, req, table, form, fetch, overlap>>

\* from: the prompt whose texts the form holds; writable: the save button is
\* shown.
Form == [open : BOOLEAN, mode : {"create", "edit", "show"}, id : Ids \cup {None},
         from : Ids \cup {None}, writable : BOOLEAN]

Fetch == [mode : {"edit", "show"}, id : Ids]

PromptsTypeOK ==
    /\ LibraryTypeOK
    /\ table \subseteq Ids
    /\ form \in Form
    /\ fetch \in [Fetches -> Fetch \cup {None}]
    /\ overlap \in BOOLEAN

Init ==
    /\ LibraryInit
    /\ table = {}
    /\ form = [open |-> FALSE, mode |-> "create", id |-> None, from |-> None,
               writable |-> TRUE]
    /\ fetch = [f \in Fetches |-> None]
    /\ overlap = FALSE

FetchUnderWay == \E f \in Fetches : fetch[f] # None

-----------------------------------------------------------------------------
(* The table and the sidebar *)

\* searchPrompts; a failed search empties the table.
SearchPrompts(includeOthers) ==
    /\ ~form.open
    /\ \/ table' = Listed(Me, includeOthers)
       \/ table' = {}
    /\ UNCHANGED <<row, spent, req, form, fetch, overlap>>

\* Edit is only offered for one's own prompts.
OpenPrompt(f, mode, i) ==
    /\ ~form.open
    /\ i \in table
    /\ (mode = "edit" /\ row[i] # None) => row[i].owner = Me
    /\ fetch[f] = None
    /\ fetch' = [fetch EXCEPT ![f] = [mode |-> mode, id |-> i]]
    /\ form' = [form EXCEPT !.mode = mode, !.id = i]
    /\ overlap' = (overlap \/ FetchUnderWay)
    /\ UNCHANGED <<row, spent, req, table>>

OpenNew ==
    /\ ~form.open
    /\ form' = [open |-> TRUE, mode |-> "create", id |-> None, from |-> None,
                writable |-> TRUE]
    /\ overlap' = (overlap \/ FetchUnderWay)
    /\ UNCHANGED <<row, spent, req, table, fetch>>

\* The prompt arrives: it fills the form, whatever that was opened for since.
FetchAnswered(f) ==
    /\ fetch[f] # None
    /\ MayRead(Me, fetch[f].id)
    /\ form' = [form EXCEPT !.open = TRUE, !.from = fetch[f].id,
                            !.writable = fetch[f].mode = "edit"]
    /\ fetch' = [fetch EXCEPT ![f] = None]
    /\ UNCHANGED <<row, spent, req, table, overlap>>

\* Mutant: the alert is not followed by a return.
FetchFailsOpening(f) ==
    /\ fetch[f] # None
    /\ form' = [form EXCEPT !.open = TRUE, !.writable = fetch[f].mode = "edit"]
    /\ fetch' = [fetch EXCEPT ![f] = None]
    /\ UNCHANGED <<row, spent, req, table, overlap>>

\* A 403 or 404, or no answer: an alert, and nothing is opened.
FetchFails(f) ==
    /\ fetch[f] # None
    /\ fetch' = [fetch EXCEPT ![f] = None]
    /\ UNCHANGED <<row, spent, req, table, form, overlap>>

\* closePromptSidebar, by the user or when a save is answered
CloseSidebar ==
    /\ form.open
    /\ form' = [form EXCEPT !.open = FALSE]
    /\ UNCHANGED <<row, spent, req, table, fetch, overlap>>

-----------------------------------------------------------------------------
(* savePrompt: a PUT of the prompt the form was opened for, or a POST *)

SaveEdit(w, public) ==
    /\ form.open /\ form.writable
    /\ form.mode = "edit" /\ form.id # None /\ form.from # None
    /\ UpdatePrompt(w, Me, form.id, form.from, public)
    /\ UNCHANGED pageVars

SaveNew(i, public) ==
    /\ form.open /\ form.writable
    /\ form.mode # "edit"
    /\ CreatePrompt(Me, i, public)
    /\ UNCHANGED pageVars

-----------------------------------------------------------------------------

\* Another tab or another user, where no two forms are mixed up.
OthersChange ==
    /\ \E u \in Users, i \in Ids :
         \/ \E public \in BOOLEAN : CreatePrompt(u, i, public)
         \/ \E w \in Requests, public \in BOOLEAN : UpdatePrompt(w, u, i, i, public)
         \/ \E w \in Requests : DeletePrompt(w, u, i)
    /\ UNCHANGED pageVars

Next ==
    \/ \E f \in Fetches :
         \/ \E i \in Ids, mode \in {"edit", "show"} : OpenPrompt(f, mode, i)
         \/ FetchAnswered(f) \/ FetchFails(f)
    \/ OpenNew \/ CloseSidebar
    \/ \E includeOthers \in BOOLEAN : SearchPrompts(includeOthers)
    \/ \E public \in BOOLEAN :
         \/ \E w \in Requests : SaveEdit(w, public)
         \/ \E i \in Ids : SaveNew(i, public)
    \/ OthersChange
    \/ \E w \in Requests : (CommitChange(w) \/ ChangeFails(w)) /\ UNCHANGED pageVars

Spec == Init /\ [][Next]_vars

-----------------------------------------------------------------------------
(* Properties *)

(* A prompt only ever changes by a request of its owner, though the owner  *)
(* is checked when the row is loaded and the change committed later, and   *)
(* ids of deleted prompts linger in lists and forms.                       *)
OnlyOwnerChanges ==
    [][\A i \in Ids : row[i] # None /\ row'[i] # row[i] =>
          \E w \in Requests :
              req[w].id = i /\ req[w].user = row[i].owner /\ req'[w] = Idle]_vars

(* The texts of one prompt are never saved over another, whatever fetch    *)
(* fails in between -- unless the form was opened for a prompt while the   *)
(* fetch of another was still under way: the late answer then fills the    *)
(* form, and the save goes to the prompt clicked last.  All state has its  *)
(* type.                                                                   *)
TextStaysWithPrompt ==
    /\ PromptsTypeOK
    /\ ~overlap => \A i \in Ids : row[i] # None => row[i].text = i
=============================================================================
