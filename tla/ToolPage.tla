------------------------------- MODULE ToolPage -------------------------------
(***************************************************************************)
(* The two views of Tool Lab (apps/api/static/js/toollab.js) for a user    *)
(* who is no administrator: the editor with its list of tools, and the     *)
(* picker of the tools for a run.  The views share toollabTools, the list  *)
(* that arrived last; each also keeps what it rendered from it.  Every     *)
(* button awaits the server, some twice, and none is disabled meanwhile.   *)
(*                                                                         *)
(* On the server a tool is a row that exists or not and is active or not,  *)
(* as in ToolCatalog; there a PUT always fails, so here it can only be     *)
(* refused.  Of code and schemas in a form the model keeps whose they are. *)
(* Bounds: the calls under way are the slots Calls, at most one of them    *)
(* a POST; New is the one row that POSTs can add.                          *)
(***************************************************************************)
EXTENDS Naturals, FiniteSets

CONSTANTS
    Mine,       \* rows of this user
    Seeds,      \* rows of the system, always active
    Shared,     \* public rows of others
    New,        \* the row of Mine that may not be there yet
    Typed,      \* codes that the user may type
    Terms,      \* for each search term, the ids that match it
    Calls,      \* slots for calls under way
    MaxAsked,   \* how often the user makes the page call the server, first visits apart
    None

\* The rows that can ever be.
Ids == Mine \cup Seeds \cup Shared

ASSUME ToolPageAssumption ==
    /\ New \in Mine /\ None \notin Ids /\ IsFiniteSet(Ids) /\ MaxAsked \in Nat
    /\ Ids \in Terms /\ Terms \subseteq SUBSET Ids
    /\ Typed \cap (Ids \cup {"template", "schemas"}) = {}
    /\ Mine \cap Seeds = {} /\ Mine \cap Shared = {} /\ Seeds \cap Shared = {}

VARIABLES
    rows,       \* the rows that exist
    active,     \* and are active
    text,       \* what each row holds
    view,       \* the view on display
    begun,      \* the views that were initialised
    tools,      \* toollabTools
    form,       \* the editor, with toollabSelected
    inactive,   \* the editor's checkbox
    listed,     \* what the editor's list was rendered from
    picked,     \* toollabPickerSelectedIds
    term,       \* the ids that match the picker's search term
    offered,    \* what the picker was rendered from
    call,       \* the call in each slot
    asked,      \* how many were started
    disturbed   \* history: calls overlapped or were lost, others changed a tool

server == <<rows, active, text>>
editor == <<form, inactive, listed>>
picker == <<picked, term, offered>>
vars == <<server, view, begun, tools, editor, picker, call, asked, disturbed>>

Views == {"editor", "picker"}

\* The code of a row, of the template or typed; the code that the schemas
\* are of, unless they were typed; hand: one was typed since they fitted.
Codes == Ids \cup Typed \cup {"template"}
Text == [code : Codes, schema : Codes \cup {"schemas"}, hand : BOOLEAN]
TextOf(whose) == [code |-> whose, schema |-> whose, hand |-> FALSE]

\* The tools of a list, those of them active, and which view asked for it.
List == [ids : SUBSET Ids, on : SUBSET Ids, by : Views \cup {"none"}]
NoList == [ids |-> {}, on |-> {}, by |-> "none"]

\* id: toollab-edit-id; sel: toollabSelected; was: its is_active, from: in
\* whose list.
Form == [id : Ids \cup {None}, sel : Ids \cup {None}, was : BOOLEAN,
         from : Views \cup {"none"}, text : Text]
Blank == [id |-> None, sel |-> None, was |-> FALSE, from |-> "none",
          text |-> TextOf("template")]

\* row: what the call is about; flag: is_active of its row, once changed;
\* all: include_inactive; then: what follows the list that is awaited.
Call == [kind : {"list", "pick", "generate", "save", "toggle", "delete"},
         stage : {"sent", "answered"}, row : Ids \cup {None}, flag : BOOLEAN,
         all : BOOLEAN, text : Text, list : List, then : {"none", "new", "select"}]
NoCall == [kind |-> "idle"]
CallFor(kind) == [kind |-> kind, stage |-> "sent", row |-> None, flag |-> FALSE,
                  all |-> FALSE, text |-> TextOf("template"), list |-> NoList, then |-> "none"]

ToolPageTypeOK ==
    /\ active \subseteq rows /\ rows \subseteq Ids
    /\ text \in [Ids -> Text]
    /\ view \in Views /\ begun \subseteq Views
    /\ tools \in List /\ listed \in List
    /\ offered \in [ids : SUBSET Ids, by : Views \cup {"none"}]
    /\ form \in Form /\ inactive \in BOOLEAN
    /\ picked \subseteq Ids /\ term \in Terms
    /\ call \in [Calls -> Call \cup {NoCall}] /\ asked \in 0..MaxAsked
    /\ disturbed \in BOOLEAN

Init ==
    /\ rows \in {Ids, Ids \ {New}} /\ active = rows
    /\ text = [i \in Ids |-> TextOf(i)]
    /\ view \in Views /\ begun = {}
    /\ tools = NoList /\ listed = NoList
    /\ form = Blank /\ inactive = FALSE
    /\ picked = {} /\ term = Ids /\ offered = [ids |-> {}, by |-> "none"]
    /\ call = [c \in Calls |-> NoCall] /\ asked = 0
    /\ disturbed = FALSE

Note(if) == disturbed' = (disturbed \/ if)

\* Calls that change a row or end in a new list.
Listing == {c \in Calls : call[c].kind \in {"list", "save", "toggle", "delete"}}

Begin(c, record) ==
    /\ call[c] = NoCall
    /\ call' = [call EXCEPT ![c] = record]
    /\ Note(record.kind \notin {"pick", "generate"} /\ Listing # {})

Send(c, record) == asked < MaxAsked /\ asked' = asked + 1 /\ Begin(c, record)

-----------------------------------------------------------------------------
(* The server *)

\* Mutant: the editor asks for shared tools too.
EditorListShared(all) ==
    LET ids == {i \in rows : all \/ i \in active}
    IN  [ids |-> ids, on |-> ids \cap active, by |-> "editor"]

\* GET /tools for each view
EditorList(all) ==
    LET ids == {i \in rows : i \notin Shared /\ (all \/ i \in active)}
    IN  [ids |-> ids, on |-> ids \cap active, by |-> "editor"]

PickerList == [ids |-> active, on |-> active, by |-> "picker"]

Answered(c, list) == call' = [call EXCEPT ![c].stage = "answered", ![c].list = list]

Serve(c) ==
    /\ call[c] # NoCall /\ call[c].stage = "sent"
    /\ LET q == call[c] IN
         \/ /\ q.kind = "list"
            /\ Answered(c, EditorList(q.all)) /\ UNCHANGED server
         \/ q.kind = "pick" /\ Answered(c, PickerList) /\ UNCHANGED server
         \/ \* POST, of a tool with the name of an active one of mine or not
            /\ q.kind = "save" /\ q.row \in Seeds \cup {None} /\ New \notin rows
            /\ rows' = rows \cup {New}
            /\ \E previous \in SUBSET (active \cap Mine) :
                 /\ Cardinality(previous) <= IF q.row = None THEN 1 ELSE 0
                 /\ active' = (active \ previous) \cup {New}
            /\ text' = [text EXCEPT ![New] = q.text]
            /\ call' = [call EXCEPT ![c].stage = "answered", ![c].row = New,
                                    ![c].flag = TRUE]
         \/ /\ q.kind \in {"toggle", "delete"} /\ q.row \in Mine
            /\ active' = IF q.flag THEN active \cup {q.row} ELSE active \ {q.row}
            /\ Answered(c, NoList) /\ UNCHANGED <<rows, text>>
    /\ UNCHANGED <<asked, view, begun, tools, editor, picker, disturbed>>

\* Another tab of the user, or another user, switches a tool on or off.
OthersChange ==
    /\ ~disturbed
    /\ \E i \in rows \ Seeds :
         active' = IF i \in active THEN active \ {i} ELSE active \cup {i}
    /\ Note(TRUE)
    /\ UNCHANGED <<asked, rows, text, view, begun, tools, editor, picker, call>>

-----------------------------------------------------------------------------
(* The editor *)

\* toollabSelect and toollabNew; both render toollabTools, whoever asked for it.
Opened(i, on, list) == [id |-> i, sel |-> i, was |-> on, from |-> list.by,
                        text |-> text[i]]

Show(f, list) == form' = f /\ listed' = list

Select(i) ==
    /\ view = "editor" /\ i \in listed.ids
    /\ Show(Opened(i, i \in listed.on, listed), tools)
    /\ UNCHANGED <<asked, server, view, begun, tools, inactive, picker, call, disturbed>>

Clear ==
    /\ view = "editor" /\ "editor" \in begun
    /\ Show(Blank, tools)
    /\ UNCHANGED <<asked, server, view, begun, tools, inactive, picker, call, disturbed>>

Write(t) ==
    /\ view = "editor" /\ "editor" \in begun
    /\ form' = [form EXCEPT !.text = t]
    /\ UNCHANGED <<asked, server, view, begun, tools, inactive, listed, picker, call, disturbed>>

TypeCode ==
    \E code \in Typed \ {form.text.code} :
        Write([form.text EXCEPT !.code = code, !.hand = TRUE])

\* The parameters, the returns or both
TypeSchema == Write([form.text EXCEPT !.schema = "schemas", !.hand = TRUE])

\* The editor's buttons, up to their first await
Press(c, record) ==
    /\ view = "editor" /\ "editor" \in begun
    /\ Send(c, record)
    /\ UNCHANGED <<server, view, begun, tools, editor, picker>>

\* Mutant: of the code as it is stored.
GenerateStored(c) ==
    Press(c, [CallFor("generate") EXCEPT !.text = IF form.sel = None THEN form.text
                                                  ELSE text[form.sel]])

GenerateSchemas(c) == Press(c, [CallFor("generate") EXCEPT !.text = form.text])

\* Of a seed, a copy of one's own
Save(c) ==
    /\ \A d \in Calls : call[d].kind # "save"
    /\ Press(c, [CallFor("save") EXCEPT !.row = form.id, !.text = form.text])

ToggleActive(c) ==
    /\ form.id # None /\ form.sel # None
    /\ Press(c, [CallFor("toggle") EXCEPT !.row = form.id, !.flag = ~form.was])

Delete(c) ==
    /\ form.id \notin Seeds \cup {None}
    /\ Press(c, [CallFor("delete") EXCEPT !.row = form.id])

CheckInactive(c) ==
    /\ view = "editor" /\ "editor" \in begun
    /\ inactive' = ~inactive
    /\ Send(c, [CallFor("list") EXCEPT !.all = ~inactive])
    /\ UNCHANGED <<server, view, begun, tools, form, listed, picker>>

\* Generated schemas go to the form that is open by now.
SchemasArrive(c) ==
    /\ call[c].kind = "generate"
    /\ form' = [form EXCEPT !.text.schema = call[c].text.code,
                            !.text.hand = FALSE]
    /\ call' = [call EXCEPT ![c] = NoCall]
    /\ UNCHANGED <<asked, server, view, begun, tools, inactive, listed, picker, disturbed>>

\* The next await of save, toggle and delete: toollabRefresh
Refresh(c, then) ==
    call' = [call EXCEPT ![c] = [CallFor("list") EXCEPT !.row = call[c].row, !.then = then,
                                   !.flag = call[c].flag, !.all = inactive]]

\* Mutant: no list is asked for after a deletion.
ChangeAnsweredForgetting(c) ==
    /\ call[c].kind \in {"save", "toggle", "delete"} /\ call[c].stage = "answered"
    /\ IF call[c].kind = "delete"
       THEN Show(Blank, tools) /\ call' = [call EXCEPT ![c] = NoCall]
       ELSE UNCHANGED <<form, listed>> /\ Refresh(c, "select")
    /\ UNCHANGED <<asked, server, view, begun, tools, inactive, picker, disturbed>>

ChangeAnswered(c) ==
    /\ call[c].kind \in {"save", "toggle", "delete"} /\ call[c].stage = "answered"
    /\ IF call[c].kind = "delete"
       THEN form' = [form EXCEPT !.sel = None] /\ Refresh(c, "new")
       ELSE UNCHANGED form /\ Refresh(c, "select")
    /\ UNCHANGED <<asked, server, view, begun, tools, inactive, listed, picker, disturbed>>

\* Mutant: the tool is looked up before the list has been replaced.
ContinueBefore(q) ==
    CASE q.then = "new"    -> Show(Blank, tools')
      [] q.then = "select" -> Show(Opened(q.row, IF q.row \in tools.ids
                                                 THEN q.row \in tools.on ELSE q.flag,
                                          tools'), tools')
      [] q.then = "none"   -> UNCHANGED form /\ listed' = tools'

\* What awaited the list goes on with toollabTools as they are now: the
\* changed tool, or a blank form, replaces whatever is open.
Continue(q) ==
    CASE q.then = "new"    -> Show(Blank, tools')
      [] q.then = "select" -> Show(Opened(q.row, IF q.row \in tools'.ids
                                                 THEN q.row \in tools'.on ELSE q.flag,
                                          tools'), tools')
      [] q.then = "none"   -> UNCHANGED form /\ listed' = tools'

ListArrives(c) ==
    /\ call[c].kind = "list" /\ call[c].stage = "answered"
    /\ tools' = call[c].list
    /\ Continue(call[c])
    /\ call' = [call EXCEPT ![c] = NoCall]
    /\ UNCHANGED <<asked, server, view, begun, inactive, picker, disturbed>>

\* A list that fails is reported, and what awaited it goes on without.
ListFails(c) ==
    /\ call[c].kind = "list"
    /\ UNCHANGED tools
    /\ IF call[c].then = "none" THEN UNCHANGED <<form, listed>> ELSE Continue(call[c])
    /\ call' = [call EXCEPT ![c] = NoCall]
    /\ Note(TRUE)
    /\ UNCHANGED <<asked, server, view, begun, inactive, picker>>

\* Any other call is refused, or its answer is lost: a message.
Fails(c) ==
    /\ call[c].kind \in {"generate", "save", "toggle", "delete"}
    /\ call' = [call EXCEPT ![c] = NoCall]
    /\ Note(call[c].kind # "generate" /\ call[c].stage = "answered")
    /\ UNCHANGED <<asked, server, view, begun, tools, editor, picker>>

-----------------------------------------------------------------------------
(* The picker *)

\* toollabPickerRender and toollabPickerUpdateCount
Render(list, match) == offered' = [ids |-> list.ids \cap match, by |-> list.by]

Tick(i) ==
    /\ view = "picker" /\ i \in offered.ids
    /\ picked' = IF i \in picked THEN picked \ {i} ELSE picked \cup {i}
    /\ UNCHANGED <<asked, server, view, begun, tools, editor, term, offered, call, disturbed>>

PickAll ==
    /\ view = "picker" /\ "picker" \in begun
    /\ picked' = picked \cup (tools.ids \cap term)
    /\ Render(tools, term)
    /\ UNCHANGED <<asked, server, view, begun, tools, editor, term, call, disturbed>>

PickNone ==
    /\ view = "picker" /\ "picker" \in begun
    /\ picked' = {}
    /\ Render(tools, term)
    /\ UNCHANGED <<asked, server, view, begun, tools, editor, term, call, disturbed>>

Search(match) ==
    /\ view = "picker" /\ "picker" \in begun
    /\ term' = match
    /\ Render(tools, match)
    /\ UNCHANGED <<asked, server, view, begun, tools, editor, picked, call, disturbed>>

PressRefresh(c) ==
    /\ view = "picker" /\ "picker" \in begun
    /\ Send(c, CallFor("pick"))
    /\ UNCHANGED <<server, view, begun, tools, editor, picker>>

\* Mutant: what was picked is kept.
PickerArrivesKeeping(c) ==
    /\ call[c].kind = "pick" /\ call[c].stage = "answered"
    /\ tools' = call[c].list
    /\ Render(call[c].list, term)
    /\ call' = [call EXCEPT ![c] = NoCall]
    /\ UNCHANGED <<asked, server, view, begun, editor, picked, term, disturbed>>

PickerArrives(c) ==
    /\ call[c].kind = "pick" /\ call[c].stage = "answered"
    /\ tools' = call[c].list
    /\ picked' = picked \cap call[c].list.ids
    /\ Render(call[c].list, term)
    /\ call' = [call EXCEPT ![c] = NoCall]
    /\ UNCHANGED <<asked, server, view, begun, editor, term, disturbed>>

\* The list gives way to a message.
PickerFails(c) ==
    /\ call[c].kind = "pick"
    /\ offered' = [ids |-> {}, by |-> "none"]
    /\ call' = [call EXCEPT ![c] = NoCall]
    /\ UNCHANGED <<asked, server, view, begun, tools, editor, picked, term, disturbed>>

-----------------------------------------------------------------------------

\* initView: the editor asks for its list once, the picker on every visit.
Visit(v, c) ==
    /\ v # view \/ v \notin begun
    /\ view' = v /\ begun' = begun \cup {v}
    /\ IF v \notin begun
       THEN /\ Begin(c, IF v = "picker" THEN CallFor("pick")
                        ELSE [CallFor("list") EXCEPT !.then = "new"])
            /\ UNCHANGED asked
       ELSE IF v = "picker" THEN Send(c, CallFor("pick"))
                            ELSE UNCHANGED <<call, asked, disturbed>>
    /\ UNCHANGED <<server, tools, editor, picker>>

Next ==
    \/ \E c \in Calls :
         \/ Serve(c)
         \/ GenerateSchemas(c) \/ Save(c) \/ ToggleActive(c) \/ Delete(c)
         \/ CheckInactive(c) \/ PressRefresh(c)
         \/ SchemasArrive(c) \/ ChangeAnswered(c) \/ ListArrives(c) \/ PickerArrives(c)
         \/ ListFails(c) \/ Fails(c) \/ PickerFails(c)
         \/ \E v \in Views : Visit(v, c)
    \/ \E i \in Ids : Select(i) \/ Tick(i)
    \/ \E match \in Terms : Search(match)
    \/ Clear \/ TypeCode \/ TypeSchema \/ PickAll \/ PickNone \/ OthersChange

Spec == Init /\ [][Next]_vars

(* An auxiliary variable for GeneratedFit: whether the code in the form    *)
(* ever changed while a request to generate schemas was under way.         *)
VARIABLE moved

MoveOn == \E c \in Calls : call[c].kind = "generate" /\ form'.text.code # form.text.code

WatchedSpec ==
    /\ Init /\ moved = FALSE
    /\ [][Next /\ moved' = (moved \/ MoveOn)]_<<vars, moved>>

-----------------------------------------------------------------------------
(* Properties *)

(* The editor lists the user's own tools and the seeds, not those that     *)
(* others share (routers/toollab.py:148-149) -- until the picker's list    *)
(* has replaced toollabTools: the next thing clicked in the editor then    *)
(* renders that list, shared tools and all, as the user's own.  All state  *)
(* has its type.                                                           *)
EditorListsOwn ==
    /\ ToolPageTypeOK
    /\ listed.by # "picker" => listed.ids \cap Shared = {}

(* Nothing is picked that cannot be seen: a tool that is sent with a run   *)
(* is ticked in the picker, or hidden by the search term -- unless the     *)
(* picker shows no list, because its last request failed, or shows the     *)
(* editor's, from a click before its own list had arrived.                 *)
PicksShown == offered.by = "picker" => picked \cap term \subseteq offered.ids

(* Once the editor's calls have been answered, its list shows what the     *)
(* server has, for the checkbox as it stands -- unless calls overlapped or *)
(* were lost, others changed a tool, or the list shown is the picker's.    *)
EditorCurrent ==
    /\ Listing = {} /\ "editor" \in begun
    /\ ~disturbed /\ listed.by = "editor"
    => listed = EditorList(inactive)

(* The button that switches the opened tool on or off, and says which,     *)
(* goes by toollabSelected and not by the server (toollab.js:382-387): once *)
(* the editor's calls have been answered it still does the opposite of     *)
(* what the server has, to the tool whose id is in the form -- unless      *)
(* calls overlapped or were lost, others changed a tool, or the tool was   *)
(* opened from the picker's list, which may be older than the change.      *)
ToggleFlips ==
    Listing = {} /\ ~disturbed /\ form.sel # None /\ form.from = "editor"
    => form.id = form.sel /\ form.was = (form.id \in active)

(* Generated schemas are put into whatever form is open when they arrive   *)
(* (toollab.js:246): as long as the code in the form never changed during  *)
(* such a request, by the user or by the answer to a save, a toggle or a   *)
(* deletion, a form in which nothing was typed since has the schemas of    *)
(* its code, and so has every tool registered from one.                    *)
GeneratedFit ==
    ~moved => \A t \in {form.text} \cup {text[i] : i \in rows} :
                  ~t.hand => t.schema = t.code
=============================================================================
