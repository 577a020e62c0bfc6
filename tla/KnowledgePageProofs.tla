-------------------------- MODULE KnowledgePageProofs --------------------------
(***************************************************************************)
(* Proofs about the administration page and the pages of the knowledge     *)
(* base.  The invariants are inductive in three groups, each with the      *)
(* types: the forms and their saves, the tables with the calls that will   *)
(* bring them up to date, and the points that hold a text that was typed   *)
(* with the saves that will store one.                                     *)
(***************************************************************************)
EXTENDS KnowledgePage, TLAPS

-----------------------------------------------------------------------------
(* Types *)

Stages == {"sent", "answered"}
Whys == {"meant", "again", "viewed"}
Selection == [in : Cols, dom : Doms \cup {None}, source : Sources]

IdleCall == [kind : {"idle"}]
SaveCall == [kind : {"save"}, stage : Stages, of : Kinds, id : Keys \cup {None},
             edit : BOOLEAN, meant : Keys \cup {None}, wiped : BOOLEAN]
DeleteCall == [kind : {"delete"}, stage : Stages, of : Kinds, id : Keys]
LoadCall == [kind : {"load"}, stage : {"sent"}, of : Kinds]
ListCall == [kind : {"list"}, of : Kinds, ids : SUBSET Keys]
AdminCall == SaveCall \cup DeleteCall \cup LoadCall \cup ListCall

DropsCall == [kind : {"drops"}, stage : {"sent"}, of : Pages]
OptionsCall == [kind : {"options"}, of : Pages, ids : SUBSET Keys]
StoreCall == [kind : {"store"}, stage : Stages, in : Cols, dom : Doms, text : Texts,
              id : Points \cup {None}, why : Whys]
DropCall == [kind : {"drop"}, stage : Stages, in : Cols, id : Points]
SearchCall == [kind : {"search"}, stage : {"sent"}, by : Cols \cup {None}]
ResultCall == [kind : {"result"}, by : Cols \cup {None}, pts : SUBSET Point]
CountCall == [kind : {"count"}, stage : {"sent"}, sel : Selection]
CountedCall == [kind : {"counted", "purge"}, sel : Selection, pts : SUBSET Point,
                since : SUBSET Point]
PointCall == StoreCall \cup DropCall
QueryCall == DropsCall \cup OptionsCall \cup SearchCall \cup ResultCall
KnowledgeCall == QueryCall \cup PointCall \cup CountCall \cup CountedCall

Call == IdleCall \cup AdminCall \cup KnowledgeCall

\* A call about a row names one of its kind, and brings back only such rows.
Fits(r) == /\ r.kind = "delete" => r.id \in KeysOf[r.of]
           /\ r.kind = "list" => r.ids \subseteq KeysOf[r.of]

ServerTypes == rows \subseteq Keys /\ used \subseteq Doms \cup Points /\ pts \subseteq Point
TableTypes == /\ table \in [Kinds -> SUBSET (Keys \cup {None})]
              /\ \A k \in Kinds : table[k] = NotLoaded \/ table[k] \subseteq KeysOf[k]
AdminTypes == form \in [Kinds -> Form] /\ TableTypes
CallTypes == call \in [Calls -> Call] /\ \A c \in Calls : Fits(call[c])
NoteTypes == asked \in 0..MaxAsked /\ mishap \subseteq {"overlap", "lost", "elsewhere", "emptied"}
SideTypes == side \in Side /\ (side.mode # "closed" => side.text \in Texts)
FoundTypes == found = NothingFound \/ found \in [pts : SUBSET Point, by : Cols \cup {None}]
RagTypes == SideTypes /\ filter \in Cols \cup {None} /\ FoundTypes /\ typed \subseteq Texts
DropTypes == drops \in [Pages -> SUBSET Keys] /\ begun \subseteq Pages

BaseTypes == ServerTypes /\ AdminTypes /\ CallTypes /\ NoteTypes
Types == BaseTypes /\ RagTypes /\ DropTypes

-----------------------------------------------------------------------------
(* What the invariants say besides *)

\* A form edits the row it was opened for, and so does the save it is sent as.
EditsRow(k, f) == IF k = "col" THEN f.locked ELSE f.id # None
MeansRow(k, f) ==
    /\ EditsRow(k, f) => f.meant = f.id
    /\ f.meant # None /\ ~f.wiped => EditsRow(k, f)
Forms == (\A k \in Kinds : MeansRow(k, form[k])) /\ SavesWhatWasMeant

\* The calls that end in a new table of kind k, and those that end in a search.
Renews(r, k) == /\ r.kind \in {"save", "delete", "load", "list"} /\ r.of = k
                /\ r.kind \in {"save", "delete"} => r.stage = "answered"
Searches(r) == r.kind \in {"store", "drop"} /\ r.stage = "answered"

Shows(by) == {p \in pts : by \in {None, p.in}}

OneCall == \A c, d \in Calls : call[c] # NoCall /\ call[d] # NoCall => c = d

RowsShown ==
    /\ \A k \in Kinds : \/ table[k] = NotLoaded
                        \/ table[k] = rows \cap KeysOf[k]
                        \/ \E c \in Calls : Renews(call[c], k)
    /\ \A c \in Calls : call[c].kind = "list" => call[c].ids = rows \cap KeysOf[call[c].of]

PointsShown ==
    /\ \/ found = NothingFound
       \/ found.pts = Shows(found.by)
       \/ \E c \in Calls : Searches(call[c])
    /\ \A c \in Calls : call[c].kind = "result" => call[c].pts = Shows(call[c].by)

Tables ==
    /\ mishap \subseteq {"emptied"} => OneCall /\ RowsShown
    /\ mishap = {} => PointsShown

\* The text t was meant to be stored as point i of collection k: some point
\* holds it, or a call or the sidebar will store it there.
HeldIn(S, k, i, t) ==
    \E p \in S : p.why = "meant" /\ p.in = k /\ p.id = i /\ p.text = t
HeldByCall(r, k, i, t) ==
    \/ r.kind = "result" /\ HeldIn(r.pts, k, i, t)
    \/ /\ r.kind = "store" /\ r.stage = "sent" /\ r.why = "meant" /\ r.id # None
       /\ r.in = k /\ r.id = i /\ r.text = t
HeldBySide(s, k, i, t) ==
    s.mode = "edit" /\ s.why = "meant" /\ s.col = k /\ s.id = i /\ s.text = t
Held(k, i, t) ==
    \/ HeldIn(pts, k, i, t) \/ HeldIn(found.pts, k, i, t)
    \/ \E c \in Calls : HeldByCall(call[c], k, i, t)
    \/ k # None /\ HeldBySide(side, k, i, t)

\* The text t is about to be stored as a new point.
CallPends(r, t) ==
    r.kind = "store" /\ r.stage = "sent" /\ r.why = "meant" /\ r.id = None /\ r.text = t
SidePends(s, t) == s.mode = "create" /\ ~s.sent /\ s.text = t

Once ==
    /\ \A k, i, t, l, j : Held(k, i, t) /\ Held(l, j, t) => k = l /\ i = j
    /\ \A k, i, t : Held(k, i, t) =>
         t \in typed /\ ~SidePends(side, t) /\ \A c \in Calls : ~CallPends(call[c], t)
    /\ \A t : SidePends(side, t) => t \in typed /\ \A c \in Calls : ~CallPends(call[c], t)
    /\ \A c \in Calls : \A t : CallPends(call[c], t) =>
         t \in typed /\ \A d \in Calls : CallPends(call[d], t) => c = d
    /\ \A p, o \in pts : p.in = o.in /\ p.id = o.id => p = o
    /\ side.mode = "edit" => side.id # None

\* Whatever a deletion would remove was counted, or was stored since.
MatchIn(S, sel) == {p \in S : /\ p.in = sel.in /\ p.text \in sel.source
                              /\ sel.dom # None => p.dom = sel.dom}
Counted ==
    \A c \in Calls : call[c].kind \in {"counted", "purge"} =>
        MatchIn(pts, call[c].sel) \subseteq call[c].pts \cup call[c].since


-----------------------------------------------------------------------------
(* Types are kept *)

LEMMA Sorts ==
    ASSUME NEW r \in Call
    PROVE  /\ r.kind = "idle" => r = NoCall
           /\ r.kind = "save" => r \in SaveCall
           /\ r.kind = "delete" => r \in DeleteCall
           /\ r.kind = "load" => r \in LoadCall
           /\ r.kind = "list" => r \in ListCall
           /\ r.kind = "drops" => r \in DropsCall
           /\ r.kind = "options" => r \in OptionsCall
           /\ r.kind = "store" => r \in StoreCall
           /\ r.kind = "drop" => r \in DropCall
           /\ r.kind = "search" => r \in SearchCall
           /\ r.kind = "result" => r \in ResultCall
           /\ r.kind = "count" => r \in CountCall
           /\ r.kind \in {"counted", "purge"} => r \in CountedCall
<1>1. \/ r \in IdleCall \/ r \in SaveCall \/ r \in DeleteCall \/ r \in LoadCall
      \/ r \in ListCall \/ r \in DropsCall \/ r \in OptionsCall \/ r \in StoreCall
      \/ r \in DropCall \/ r \in SearchCall \/ r \in ResultCall \/ r \in CountCall
      \/ r \in CountedCall
    BY DEF Call, AdminCall, KnowledgeCall, QueryCall, PointCall
<1>2. r \in IdleCall => r = NoCall /\ r.kind = "idle"
    BY DEF IdleCall, NoCall
<1>3. /\ r \in SaveCall => r.kind = "save"
      /\ r \in DeleteCall => r.kind = "delete"
      /\ r \in LoadCall => r.kind = "load"
      /\ r \in ListCall => r.kind = "list"
    BY DEF SaveCall, DeleteCall, LoadCall, ListCall
<1>4. /\ r \in DropsCall => r.kind = "drops"
      /\ r \in OptionsCall => r.kind = "options"
      /\ r \in StoreCall => r.kind = "store"
      /\ r \in DropCall => r.kind = "drop"
      /\ r \in SearchCall => r.kind = "search"
    BY DEF DropsCall, OptionsCall, StoreCall, DropCall, SearchCall
<1>5. /\ r \in ResultCall => r.kind = "result"
      /\ r \in CountCall => r.kind = "count"
      /\ r \in CountedCall => r.kind \in {"counted", "purge"}
    BY DEF ResultCall, CountCall, CountedCall
<1> QED BY <1>1, <1>2, <1>3, <1>4, <1>5

LEMMA IdleIsCall == NoCall \in Call /\ Fits(NoCall)
BY DEF NoCall, Call, IdleCall, Fits

\* A slot takes a record that is a call.
LEMMA CallStep ==
    ASSUME Types, NEW c \in Calls, NEW r \in Call, Fits(r),
           call' = [call EXCEPT ![c] = r]
    PROVE  /\ CallTypes'
           /\ call'[c] = r
           /\ \A d \in Calls : d # c => call'[d] = call[d]
<1>1. call \in [Calls -> Call] /\ \A d \in Calls : Fits(call[d])
    BY DEF Types, BaseTypes, CallTypes
<1>2. call' \in [Calls -> Call] /\ call'[c] = r /\ \A d \in Calls : d # c => call'[d] = call[d]
    BY <1>1
<1>3. \A d \in Calls : Fits(call'[d])
    BY <1>1, <1>2
<1> QED BY <1>2, <1>3 DEF CallTypes

LEMMA DoneStep ==
    ASSUME Types, NEW c \in Calls, Done(c)
    PROVE  /\ CallTypes'
           /\ call'[c] = NoCall
           /\ \A d \in Calls : d # c => call'[d] = call[d]
BY CallStep, IdleIsCall DEF Done

LEMMA AnswerStep ==
    ASSUME Types, NEW c \in Calls, Answered(c),
           call[c].kind \in {"save", "delete", "store", "drop"}
    PROVE  /\ CallTypes'
           /\ call'[c] = [call[c] EXCEPT !.stage = "answered"]
           /\ \A d \in Calls : d # c => call'[d] = call[d]
<1> DEFINE r == [call[c] EXCEPT !.stage = "answered"]
<1>1. call[c] \in Call /\ Fits(call[c])
    BY DEF Types, BaseTypes, CallTypes
<1>2. CASE call[c].kind = "save"
  <2>1. r \in SaveCall
      BY <1>1, <1>2, Sorts DEF SaveCall, Stages
  <2>2. r \in Call /\ Fits(r)
      BY <1>1, <1>2, <2>1 DEF Call, AdminCall, SaveCall, Fits
  <2> QED BY <2>2, CallStep DEF Answered
<1>3. CASE call[c].kind = "delete"
  <2>1. r \in DeleteCall
      BY <1>1, <1>3, Sorts DEF DeleteCall, Stages
  <2>2. r \in Call /\ Fits(r)
      BY <1>1, <1>3, <2>1 DEF Call, AdminCall, DeleteCall, Fits
  <2> QED BY <2>2, CallStep DEF Answered
<1>4. CASE call[c].kind = "store"
  <2>1. r \in StoreCall
      BY <1>1, <1>4, Sorts DEF StoreCall, Stages
  <2>2. r \in Call /\ Fits(r)
      BY <1>1, <1>4, <2>1 DEF Call, KnowledgeCall, PointCall, StoreCall, Fits
  <2> QED BY <2>2, CallStep DEF Answered
<1>5. CASE call[c].kind = "drop"
  <2>1. r \in DropCall
      BY <1>1, <1>5, Sorts DEF DropCall, Stages
  <2>2. r \in Call /\ Fits(r)
      BY <1>1, <1>5, <2>1 DEF Call, KnowledgeCall, PointCall, DropCall, Fits
  <2> QED BY <2>2, CallStep DEF Answered
<1> QED BY <1>2, <1>3, <1>4, <1>5


\* What is unchanged keeps its type.
LEMMA ServerTypesKept == Types /\ UNCHANGED serverVars => ServerTypes'
BY DEF Types, BaseTypes, ServerTypes, serverVars

LEMMA TableTypesKept == Types /\ UNCHANGED table => TableTypes'
BY DEF Types, BaseTypes, AdminTypes, TableTypes

LEMMA AdminTypesKept == Types /\ UNCHANGED adminVars => AdminTypes'
BY DEF Types, BaseTypes, AdminTypes, TableTypes, adminVars

LEMMA CallTypesKept == Types /\ UNCHANGED call => CallTypes'
BY DEF Types, BaseTypes, CallTypes

LEMMA NoteTypesKept == Types /\ UNCHANGED <<asked, mishap>> => NoteTypes'
BY DEF Types, BaseTypes, NoteTypes

LEMMA RagTypesKept == Types /\ UNCHANGED ragVars => RagTypes'
BY DEF Types, BaseTypes, RagTypes, SideTypes, FoundTypes, ragVars

LEMMA DropTypesKept == Types /\ UNCHANGED dropVars => DropTypes'
BY DEF Types, BaseTypes, DropTypes, dropVars

LEMMA KnowledgeTypesKept == Types /\ UNCHANGED <<ragVars, dropVars>> => RagTypes' /\ DropTypes'
BY RagTypesKept, DropTypesKept

LEMMA NotedTypes ==
    ASSUME Types, NEW what \in {"overlap", "lost", "elsewhere", "emptied"}, NEW happened,
           Note(what, happened), UNCHANGED asked
    PROVE  NoteTypes'
BY DEF Types, BaseTypes, NoteTypes, Note

LEMMA SendTypes ==
    ASSUME Types, NEW c \in Calls, NEW r \in Call, Fits(r), Send(c, r)
    PROVE  CallTypes' /\ NoteTypes'
<1>1. CallTypes'
    BY CallStep DEF Send, Begin
<1>2. mishap' \subseteq {"overlap", "lost", "elsewhere", "emptied"}
    BY DEF Types, BaseTypes, NoteTypes, Send, Begin, Note
<1>3. asked' \in 0..MaxAsked
    BY AdminAssumption DEF Types, BaseTypes, NoteTypes, Send
<1> QED BY <1>1, <1>2, <1>3 DEF NoteTypes

LEMMA KindsFacts ==
    /\ KeysOf["col"] = Cols /\ KeysOf["dom"] = Doms
    /\ Keys = Cols \cup Doms /\ Kinds = {"col", "dom"}
    /\ \A k \in Kinds : KeysOf[k] \subseteq Keys
BY DEF KeysOf, Kinds, Keys

LEMMA BlankIsForm == Blank \in Form
BY DEF Blank, Form

LEMMA FormTypes ==
    ASSUME Types, NEW k \in Kinds, NEW f \in Form, form' = [form EXCEPT ![k] = f],
           UNCHANGED table
    PROVE  AdminTypes'
<1>1. form' \in [Kinds -> Form]
    BY DEF Types, BaseTypes, AdminTypes
<1> QED BY <1>1, TableTypesKept DEF AdminTypes

LEMMA TypesOpen ==
    ASSUME Types, NEW k \in Kinds, NEW i \in Keys, Open(k, i) PROVE BaseTypes'
<1> DEFINE f == [Blank EXCEPT !.id = i, !.locked = k = "col", !.meant = i]
<1>1. f \in Form
    BY DEF Blank, Form
<1>2. AdminTypes'
    BY <1>1, FormTypes DEF Open
<1> QED BY <1>2, ServerTypesKept, CallTypesKept, NoteTypesKept DEF Open, BaseTypes

LEMMA TypesReset ==
    ASSUME Types, NEW k \in Kinds, Reset(k) PROVE BaseTypes'
BY FormTypes, BlankIsForm, ServerTypesKept, CallTypesKept, NoteTypesKept DEF Reset, BaseTypes

LEMMA TypesTyping ==
    ASSUME Types,
           \/ \E i \in Cols : TypeId(i)
           \/ \E k \in Kinds : Type(k)
    PROVE  BaseTypes'
<1>1. AdminTypes'
  <2>1. ASSUME NEW i \in Cols, TypeId(i) PROVE AdminTypes'
    <3> DEFINE f == [[form["col"] EXCEPT !.id = i] EXCEPT !.sent = FALSE]
    <3>0. form \in [Kinds -> Form] /\ form["col"] \in Form /\ i \in Keys
        BY KindsFacts DEF Types, BaseTypes, AdminTypes
    <3>1. f \in Form
        BY <3>0 DEF Form
    <3>2. form' = [form EXCEPT !["col"] = f]
        BY <2>1, <3>0, KindsFacts DEF Form, TypeId
    <3> QED BY <2>1, <3>1, <3>2, FormTypes, KindsFacts DEF TypeId
  <2>2. ASSUME NEW k \in Kinds, Type(k) PROVE AdminTypes'
    <3> DEFINE f == [form[k] EXCEPT !.sent = FALSE]
    <3>1. f \in Form
        BY DEF Types, BaseTypes, AdminTypes, Form
    <3> QED BY <2>2, <3>1, FormTypes DEF Type
  <2> QED BY <2>1, <2>2
<1>2. UNCHANGED <<serverVars, call, asked, mishap>>
    BY DEF TypeId, Type
<1> QED BY <1>1, <1>2, ServerTypesKept, CallTypesKept, NoteTypesKept DEF BaseTypes

LEMMA TypesSave ==
    ASSUME Types, NEW k \in Kinds, NEW c \in Calls, Save(k, c)
    PROVE  /\ BaseTypes'
           /\ call'[c].kind = "save" /\ call'[c].stage = "sent" /\ call'[c].id = form[k].id
           /\ call'[c].edit = Edits(k) /\ call'[c].meant = form[k].meant
           /\ call'[c].wiped = form[k].wiped
           /\ \A d \in Calls : d # c => call'[d] = call[d]
<1> DEFINE r == [kind |-> "save", stage |-> "sent", of |-> k, id |-> form[k].id,
                 edit |-> Edits(k), meant |-> form[k].meant, wiped |-> form[k].wiped]
<1>1. form[k] \in Form
    BY DEF Types, BaseTypes, AdminTypes
<1>2. Edits(k) \in BOOLEAN
    BY <1>1 DEF Edits, Form
<1>3. r \in SaveCall
    BY <1>1, <1>2 DEF SaveCall, Stages, Form
<1>4. r \in Call /\ Fits(r)
    BY <1>3 DEF Call, AdminCall, Fits
<1>5. Send(c, r)
    BY DEF Save
<1>6. call' = [call EXCEPT ![c] = r]
    BY <1>5 DEF Send, Begin
<1>9. /\ r.kind = "save" /\ r.stage = "sent" /\ r.id = form[k].id /\ r.edit = Edits(k)
      /\ r.meant = form[k].meant /\ r.wiped = form[k].wiped
    OBVIOUS
<1> HIDE DEF r
<1>7. CallTypes' /\ NoteTypes' /\ call'[c] = r /\ \A d \in Calls : d # c => call'[d] = call[d]
    BY <1>4, <1>5, <1>6, SendTypes, CallStep
<1>8. AdminTypes'
  <2> DEFINE f == [form[k] EXCEPT !.sent = TRUE]
  <2>1. f \in Form
      BY <1>1 DEF Form
  <2> QED BY <2>1, FormTypes DEF Save
<1> QED BY <1>7, <1>8, <1>9, ServerTypesKept DEF Save, BaseTypes

LEMMA TypesDelete ==
    ASSUME Types, NEW k \in Kinds, NEW i \in Keys, NEW c \in Calls, Delete(k, i, c)
    PROVE  /\ BaseTypes'
           /\ call'[c].kind = "delete" /\ call'[c].stage = "sent"
           /\ \A d \in Calls : d # c => call'[d] = call[d]
<1> DEFINE r == [kind |-> "delete", stage |-> "sent", of |-> k, id |-> i]
<1>1. r \in DeleteCall /\ i \in KeysOf[k] /\ r.kind = "delete" /\ r.stage = "sent"
    BY DEF DeleteCall, Stages, Delete
<1>2. r \in Call /\ Fits(r)
    BY <1>1 DEF Call, AdminCall, Fits
<1>3. Send(c, r)
    BY DEF Delete
<1>4. call' = [call EXCEPT ![c] = r]
    BY <1>3 DEF Send, Begin
<1> HIDE DEF r
<1>5. CallTypes' /\ NoteTypes' /\ call'[c] = r /\ \A d \in Calls : d # c => call'[d] = call[d]
    BY <1>2, <1>3, <1>4, SendTypes, CallStep
<1> QED BY <1>1, <1>5, ServerTypesKept, AdminTypesKept DEF Delete, BaseTypes

LEMMA LoadIsCall ==
    ASSUME NEW k \in Kinds PROVE LoadOf(k) \in Call /\ Fits(LoadOf(k))
<1>1. LoadOf(k) \in LoadCall
    BY DEF LoadCall, LoadOf
<1> QED BY <1>1 DEF Call, AdminCall, LoadOf, Fits

LEMMA TypesSwitchTab ==
    ASSUME Types, NEW k \in Kinds, NEW c \in Calls, SwitchTab(k, c)
    PROVE  /\ BaseTypes'
           /\ call'[c] = LoadOf(k)
           /\ \A d \in Calls : d # c => call'[d] = call[d]
<1>1. Send(c, LoadOf(k)) /\ call' = [call EXCEPT ![c] = LoadOf(k)]
    BY DEF SwitchTab, Send, Begin
<1>2. /\ CallTypes' /\ NoteTypes' /\ call'[c] = LoadOf(k)
      /\ \A d \in Calls : d # c => call'[d] = call[d]
    BY <1>1, SendTypes, CallStep, LoadIsCall
<1> QED BY <1>2, ServerTypesKept, AdminTypesKept DEF SwitchTab, BaseTypes

\* What the server may do to the rows.
LEMMA CreateTypes ==
    ASSUME Types, NEW q, q.of \in Kinds, Create(q), UNCHANGED pts
    PROVE  ServerTypes'
<1>1. KeysOf[q.of] \subseteq Keys
    BY KindsFacts
<1> QED BY <1>1, KindsFacts DEF Types, BaseTypes, ServerTypes, Create

LEMMA RemoveTypes ==
    ASSUME Types, NEW i \in Keys, Remove(i), UNCHANGED used
    PROVE  ServerTypes'
BY DEF Types, BaseTypes, ServerTypes, Remove

LEMMA TypesServeAdmin ==
    ASSUME Types, NEW c \in Calls, ServeAdmin(c)
    PROVE  /\ BaseTypes'
           /\ \A d \in Calls : d # c => call'[d] = call[d]
<1> DEFINE q == call[c]
<1>1. q \in Call
    BY DEF Types, BaseTypes, CallTypes
<1>2. UNCHANGED <<adminVars, asked>>
    BY DEF ServeAdmin
<1>3. CASE q.kind = "save"
  <2>1. Answered(c) /\ UNCHANGED mishap /\ (UNCHANGED serverVars \/ (Create(q) /\ UNCHANGED pts))
      BY <1>3 DEF ServeAdmin, serverVars
  <2>2. CallTypes' /\ \A d \in Calls : d # c => call'[d] = call[d]
      BY <1>3, <2>1, AnswerStep
  <2>3. q.of \in Kinds
      BY <1>1, <1>3, Sorts DEF SaveCall
  <2> QED BY <1>2, <2>1, <2>2, <2>3, CreateTypes, ServerTypesKept, AdminTypesKept, NoteTypesKept
          DEF BaseTypes
<1>4. CASE q.kind = "delete"
  <2>1. Answered(c) /\ Remove(q.id) /\ UNCHANGED used /\ Note("emptied", pts' # pts)
      BY <1>4 DEF ServeAdmin
  <2>2. CallTypes' /\ \A d \in Calls : d # c => call'[d] = call[d]
      BY <1>4, <2>1, AnswerStep
  <2>3. q.id \in Keys
      BY <1>1, <1>4, Sorts DEF DeleteCall
  <2>4. NoteTypes'
      BY <1>2, <2>1, NotedTypes
  <2> QED BY <1>2, <2>1, <2>2, <2>3, <2>4, RemoveTypes, AdminTypesKept DEF BaseTypes
<1>5. CASE q.kind = "load"
  <2> DEFINE r == [kind |-> "list", of |-> q.of, ids |-> rows \cap KeysOf[q.of]]
  <2>1. call' = [call EXCEPT ![c] = r] /\ UNCHANGED <<serverVars, mishap>>
      BY <1>5 DEF ServeAdmin
  <2>2. q.of \in Kinds
      BY <1>1, <1>5, Sorts DEF LoadCall
  <2>3. r \in ListCall /\ Fits(r)
      BY <2>2, KindsFacts DEF ListCall, Fits
  <2>4. r \in Call
      BY <2>3 DEF Call, AdminCall
  <2> HIDE DEF r
  <2>5. CallTypes' /\ \A d \in Calls : d # c => call'[d] = call[d]
      BY <2>1, <2>3, <2>4, CallStep
  <2> QED BY <1>2, <2>1, <2>5, ServerTypesKept, AdminTypesKept, NoteTypesKept DEF BaseTypes
<1> QED BY <1>3, <1>4, <1>5 DEF ServeAdmin

LEMMA TypesOthersChange ==
    ASSUME Types, OthersChange PROVE BaseTypes'
<1>1. ServerTypes'
  <2>1. ASSUME NEW i \in rows, Remove(i), UNCHANGED used PROVE ServerTypes'
      BY <2>1, RemoveTypes DEF Types, BaseTypes, ServerTypes
  <2>2. ASSUME NEW k \in Kinds, NEW i, Create([of |-> k, id |-> i]), UNCHANGED pts
        PROVE  ServerTypes'
      BY <2>2, CreateTypes
  <2> QED BY <2>1, <2>2 DEF OthersChange
<1>2. NoteTypes'
    BY NotedTypes DEF OthersChange
<1> QED BY <1>1, <1>2, AdminTypesKept, CallTypesKept DEF OthersChange, BaseTypes

LEMMA WipeIsForm ==
    ASSUME Types, NEW q, q.of \in Kinds PROVE Wipe(q) \in Form
<1>1. form[q.of] \in Form
    BY DEF Types, BaseTypes, AdminTypes
<1>2. [Blank EXCEPT !.meant = form[q.of].meant, !.wiped = form[q.of].meant # None] \in Form
    BY <1>1 DEF Blank, Form
<1> QED BY <1>2, BlankIsForm DEF Wipe

LEMMA TypesChanged ==
    ASSUME Types, NEW c \in Calls, Changed(c)
    PROVE  /\ BaseTypes'
           /\ call[c].of \in Kinds
           /\ call'[c] = LoadOf(call[c].of)
           /\ \A d \in Calls : d # c => call'[d] = call[d]
<1>1. call[c] \in Call
    BY DEF Types, BaseTypes, CallTypes
<1>2. call[c].of \in Kinds
    BY <1>1, Sorts DEF Changed, SaveCall, DeleteCall
<1>3. /\ CallTypes' /\ call'[c] = LoadOf(call[c].of)
      /\ \A d \in Calls : d # c => call'[d] = call[d]
    BY <1>2, CallStep, LoadIsCall DEF Changed
<1>4. AdminTypes'
    BY <1>2, WipeIsForm, FormTypes DEF Changed
<1> QED BY <1>2, <1>3, <1>4, ServerTypesKept, NoteTypesKept DEF Changed, BaseTypes

LEMMA TypesLoadArrives ==
    ASSUME Types, NEW c \in Calls, LoadArrives(c)
    PROVE  /\ BaseTypes'
           /\ call[c].of \in Kinds
           /\ table'[call[c].of] = call[c].ids
           /\ \A k \in Kinds : k # call[c].of => table'[k] = table[k]
<1>1. call[c] \in Call /\ Fits(call[c])
    BY DEF Types, BaseTypes, CallTypes
<1>2. call[c].of \in Kinds /\ call[c].ids \subseteq KeysOf[call[c].of] /\ call[c].ids \subseteq Keys
    BY <1>1, Sorts DEF LoadArrives, ListCall, Fits
<1>3. /\ TableTypes'
      /\ table'[call[c].of] = call[c].ids
      /\ \A k \in Kinds : k # call[c].of => table'[k] = table[k]
    BY <1>2 DEF Types, BaseTypes, AdminTypes, TableTypes, LoadArrives
<1>4. form' \in [Kinds -> Form]
    BY DEF Types, BaseTypes, AdminTypes, LoadArrives
<1> QED BY <1>2, <1>3, <1>4, DoneStep, ServerTypesKept, NoteTypesKept
       DEF LoadArrives, AdminTypes, BaseTypes

LEMMA TypesAdminFails ==
    ASSUME Types, NEW c \in Calls, AdminFails(c) PROVE BaseTypes'
<1>1. NoteTypes'
    BY NotedTypes DEF AdminFails
<1> QED BY <1>1, DoneStep, ServerTypesKept, AdminTypesKept DEF AdminFails, BaseTypes

LEMMA TypesAdmin ==
    ASSUME Types, AdminNext, UNCHANGED <<ragVars, dropVars>> PROVE Types'
<1>1. BaseTypes'
  <2>1. ASSUME NEW c \in Calls,
               ServeAdmin(c) \/ Changed(c) \/ LoadArrives(c) \/ AdminFails(c)
        PROVE  BaseTypes'
      BY <2>1, TypesServeAdmin, TypesChanged, TypesLoadArrives, TypesAdminFails
  <2>2. ASSUME NEW c \in Calls, NEW k \in Kinds,
               Save(k, c) \/ SwitchTab(k, c) \/ \E i \in Keys : Delete(k, i, c)
        PROVE  BaseTypes'
      BY <2>2, TypesSave, TypesSwitchTab, TypesDelete
  <2>3. ASSUME NEW k \in Kinds, Reset(k) \/ Type(k) \/ \E i \in Keys : Open(k, i)
        PROVE  BaseTypes'
      BY <2>3, TypesReset, TypesTyping, TypesOpen
  <2> QED BY <2>1, <2>2, <2>3, TypesTyping, TypesOthersChange DEF AdminNext
<1> QED BY <1>1, KnowledgeTypesKept DEF Types

\* The same for the pages of the knowledge base.
LEMMA BeginTypes ==
    ASSUME Types, NEW c \in Calls, NEW r \in Call, Fits(r), Begin(c, r), UNCHANGED asked
    PROVE  CallTypes' /\ NoteTypes'
<1>1. CallTypes'
    BY CallStep DEF Begin
<1> QED BY <1>1, NotedTypes DEF Begin

LEMMA PlainSlots ==
    ASSUME NEW r \in Call, r.kind \notin {"delete", "list"} PROVE Fits(r)
BY DEF Fits

LEMMA TypesVisit ==
    ASSUME Types, NEW v \in Pages, NEW c \in Calls, Visit(v, c) PROVE Types'
<1> DEFINE r == [kind |-> "drops", stage |-> "sent", of |-> v]
<1>1. r \in DropsCall /\ r.kind = "drops"
    BY DEF DropsCall
<1>2. r \in Call /\ Fits(r)
    BY <1>1, PlainSlots DEF Call, KnowledgeCall, QueryCall
<1>3. CallTypes' /\ NoteTypes'
    BY <1>2, BeginTypes DEF Visit
<1>4. DropTypes'
    BY DEF Types, DropTypes, Visit
<1> QED BY <1>3, <1>4, ServerTypesKept, AdminTypesKept, RagTypesKept
       DEF Visit, BaseTypes, Types

LEMMA SideTypesFrom ==
    ASSUME Types, side' \in Side, side'.mode # "closed" => side'.text \in Texts,
           filter' \in Cols \cup {None}, UNCHANGED <<found, typed>>
    PROVE  RagTypes'
BY DEF Types, RagTypes, SideTypes, FoundTypes

LEMMA SideKept ==
    Types => /\ side \in Side /\ (side.mode # "closed" => side.text \in Texts)
             /\ filter \in Cols \cup {None} /\ typed \subseteq Texts
BY DEF Types, RagTypes, SideTypes

LEMMA TypesDropsArrive ==
    ASSUME Types, NEW c \in Calls, DropsArrive(c) PROVE Types'
<1>1. call[c] \in OptionsCall
    BY Sorts DEF Types, BaseTypes, CallTypes, DropsArrive
<1>2. call[c].of \in Pages /\ call[c].ids \subseteq Keys
    BY <1>1 DEF OptionsCall
<1>3. DropTypes'
    BY <1>2 DEF Types, DropTypes, DropsArrive
<1>4. RagTypes'
  <2>1. CASE call[c].of = "rag"
    <3> DEFINE s == [[side EXCEPT !.col = None] EXCEPT !.dom = None]
    <3>1. s \in Side /\ s.mode = side.mode /\ s.text = side.text
        BY SideKept DEF Side
    <3>2. side' = s /\ filter' = None /\ UNCHANGED <<found, typed>>
        BY <2>1 DEF DropsArrive
    <3> HIDE DEF s
    <3> QED BY <3>1, <3>2, SideKept, SideTypesFrom
  <2>2. CASE call[c].of # "rag"
      BY <2>2, RagTypesKept DEF DropsArrive, ragVars
  <2> QED BY <2>1, <2>2
<1> QED BY <1>3, <1>4, DoneStep, ServerTypesKept, AdminTypesKept, NoteTypesKept
       DEF DropsArrive, BaseTypes, Types

\* The user works at the sidebar or at the filter.
LEMMA PageStep ==
    ASSUME Types, UNCHANGED <<serverVars, adminVars, call, asked, mishap>>
    PROVE  BaseTypes'
BY ServerTypesKept, AdminTypesKept, CallTypesKept, NoteTypesKept DEF BaseTypes

LEMMA TypesOpenCreate ==
    ASSUME Types, NEW t \in Texts, OpenCreate(t) PROVE Types'
<1> DEFINE s1 == [[side EXCEPT !.mode = "create"] EXCEPT !.col = None]
<1> DEFINE s2 == [[s1 EXCEPT !.dom = None] EXCEPT !.text = t]
<1> DEFINE s3 == [[s2 EXCEPT !.why = "meant"] EXCEPT !.sent = FALSE]
<1>1. s1 \in Side
    BY SideKept DEF Side
<1>2. side' = s3 /\ UNCHANGED <<filter, found>> /\ typed' = typed \cup {t}
    BY DEF OpenCreate
<1> HIDE DEF s1
<1>3. s2 \in Side /\ s2.text = t
    BY <1>1 DEF Side
<1> HIDE DEF s2
<1>4. s3 \in Side /\ s3.text = t
    BY <1>3 DEF Side
<1> HIDE DEF s3
<1>5. RagTypes'
    BY <1>2, <1>4 DEF Types, RagTypes, SideTypes, FoundTypes
<1> QED BY <1>5, PageStep, DropTypesKept DEF OpenCreate, Types

LEMMA TypesChoose ==
    ASSUME Types, NEW k \in Cols, NEW d \in Doms, Choose(k, d) PROVE Types'
<1> DEFINE s == [[side EXCEPT !.col = k] EXCEPT !.dom = d]
<1>1. s \in Side /\ s.mode = side.mode /\ s.text = side.text
    BY SideKept DEF Side
<1>2. side' = s /\ UNCHANGED <<filter, found, typed>>
    BY DEF Choose
<1> HIDE DEF s
<1>3. RagTypes'
    BY <1>1, <1>2, SideKept, SideTypesFrom
<1> QED BY <1>3, PageStep, DropTypesKept DEF Choose, Types

LEMMA FoundPoints ==
    ASSUME Types PROVE found.pts \subseteq Point
BY DEF Types, RagTypes, FoundTypes, NothingFound

LEMMA TypesOpenPoint ==
    ASSUME Types, NEW p \in found.pts, NEW mode \in {"edit", "show"}, OpenPoint(p, mode)
    PROVE  Types'
<1> DEFINE s == [mode |-> mode, id |-> p.id, col |-> Offered("rag", p.in),
                 dom |-> Offered("rag", p.dom), text |-> p.text, why |-> p.why,
                 sent |-> FALSE]
<1>1. p \in Point
    BY FoundPoints
<1>2. Offered("rag", p.in) \in Cols \cup {None} /\ Offered("rag", p.dom) \in Doms \cup {None}
    BY <1>1 DEF Offered, Point
<1>3. s \in Side /\ s.text \in Texts
    BY <1>1, <1>2 DEF Side, Point
<1>4. side' = s /\ UNCHANGED <<filter, found, typed>>
    BY DEF OpenPoint
<1> HIDE DEF s
<1>5. RagTypes'
    BY <1>3, <1>4, SideKept, SideTypesFrom
<1> QED BY <1>5, PageStep, DropTypesKept DEF OpenPoint, Types

LEMMA TypesClose ==
    ASSUME Types, Close PROVE Types'
<1> DEFINE s == [side EXCEPT !.mode = "closed"]
<1>1. s \in Side /\ s.mode = "closed"
    BY SideKept DEF Side
<1>2. side' = s /\ UNCHANGED <<filter, found, typed>>
    BY DEF Close
<1> HIDE DEF s
<1>3. RagTypes'
    BY <1>1, <1>2, SideKept, SideTypesFrom
<1> QED BY <1>3, PageStep, DropTypesKept DEF Close, Types

LEMMA StoreIsCall ==
    ASSUME Types, side.mode # "closed", side.col # None, side.dom # None
    PROVE  Store \in StoreCall /\ Store \in Call /\ Fits(Store)
<1>1. /\ side.col \in Cols /\ side.dom \in Doms /\ side.text \in Texts
      /\ side.id \in Points \cup {None} /\ side.why \in Whys /\ side.sent \in BOOLEAN
    BY SideKept DEF Side, Whys
<1>2. Store.why \in Whys
    BY <1>1 DEF Store, Whys
<1>3. Store \in StoreCall /\ Store.kind = "store"
    BY <1>1, <1>2 DEF Store, StoreCall, Stages
<1>4. Store \in Call
    BY <1>3 DEF Call, KnowledgeCall, PointCall
<1> QED BY <1>3, <1>4, PlainSlots

LEMMA TypesSaveKnowledge ==
    ASSUME Types, NEW c \in Calls, SaveKnowledge(c)
    PROVE  /\ Types'
           /\ call'[c] = Store
           /\ \A d \in Calls : d # c => call'[d] = call[d]
<1>1. Store \in Call /\ Fits(Store)
    BY StoreIsCall DEF SaveKnowledge
<1>2. CallTypes' /\ NoteTypes'
    BY <1>1, SendTypes DEF SaveKnowledge
<1>3. call'[c] = Store /\ \A d \in Calls : d # c => call'[d] = call[d]
    BY <1>1, CallStep DEF SaveKnowledge, Send, Begin
<1> DEFINE s == [side EXCEPT !.sent = TRUE]
<1>4. s \in Side /\ s.mode = side.mode /\ s.text = side.text
    BY SideKept DEF Side
<1>5. side' = s /\ UNCHANGED <<filter, found, typed>>
    BY DEF SaveKnowledge
<1> HIDE DEF s
<1>6. RagTypes'
    BY <1>4, <1>5, SideKept, SideTypesFrom
<1> QED BY <1>2, <1>3, <1>6, ServerTypesKept, AdminTypesKept, DropTypesKept
       DEF SaveKnowledge, BaseTypes, Types

LEMMA TypesNarrow ==
    ASSUME Types, NEW i \in Cols \cup {None}, Narrow(i) PROVE Types'
<1>1. RagTypes'
    BY SideKept, SideTypesFrom DEF Narrow
<1> QED BY <1>1, PageStep, DropTypesKept DEF Narrow, Types

LEMMA SearchIsCall ==
    ASSUME Types PROVE SearchFor \in Call /\ Fits(SearchFor)
<1>1. SearchFor \in SearchCall /\ SearchFor.kind = "search"
    BY SideKept DEF SearchFor, SearchCall
<1> QED BY <1>1, PlainSlots DEF Call, KnowledgeCall, QueryCall

\* The search table is emptied, or filled with points.
LEMMA FoundTypesFrom ==
    ASSUME Types, UNCHANGED <<side, filter, typed>>, FoundTypes' PROVE RagTypes'
BY DEF Types, RagTypes, SideTypes

LEMMA EmptyIsFound ==
    ASSUME found' = NothingFound PROVE FoundTypes'
BY DEF FoundTypes

LEMMA TypesPerformSearch ==
    ASSUME Types, NEW c \in Calls, PerformSearch(c)
    PROVE  /\ Types'
           /\ call'[c] = SearchFor
           /\ \A d \in Calls : d # c => call'[d] = call[d]
<1>1. CallTypes' /\ NoteTypes'
    BY SearchIsCall, SendTypes DEF PerformSearch
<1>2. call'[c] = SearchFor /\ \A d \in Calls : d # c => call'[d] = call[d]
    BY SearchIsCall, CallStep DEF PerformSearch, Send, Begin
<1>3. RagTypes'
    BY EmptyIsFound, FoundTypesFrom DEF PerformSearch
<1> QED BY <1>1, <1>2, <1>3, ServerTypesKept, AdminTypesKept, DropTypesKept
       DEF PerformSearch, BaseTypes, Types

LEMMA TypesDeletePoint ==
    ASSUME Types, NEW p \in found.pts, NEW c \in Calls, DeletePoint(p, c)
    PROVE  /\ Types'
           /\ call'[c].kind = "drop" /\ call'[c].stage = "sent"
           /\ \A d \in Calls : d # c => call'[d] = call[d]
<1> DEFINE r == [kind |-> "drop", stage |-> "sent", in |-> p.in, id |-> p.id]
<1>1. p \in Point
    BY FoundPoints
<1>2. r \in DropCall /\ r.kind = "drop" /\ r.stage = "sent"
    BY <1>1 DEF DropCall, Stages, Point
<1>3. r \in Call /\ Fits(r)
    BY <1>2, PlainSlots DEF Call, KnowledgeCall, PointCall
<1>4. Send(c, r) /\ call' = [call EXCEPT ![c] = r]
    BY DEF DeletePoint, Send, Begin
<1> HIDE DEF r
<1>5. /\ CallTypes' /\ NoteTypes' /\ call'[c] = r
      /\ \A d \in Calls : d # c => call'[d] = call[d]
    BY <1>3, <1>4, SendTypes, CallStep
<1> QED BY <1>2, <1>5, ServerTypesKept, AdminTypesKept, RagTypesKept, DropTypesKept
       DEF DeletePoint, BaseTypes, Types

LEMMA TypesPointChanged ==
    ASSUME Types, NEW c \in Calls, PointChanged(c)
    PROVE  /\ Types'
           /\ call'[c] = SearchFor
           /\ \A d \in Calls : d # c => call'[d] = call[d]
<1>1. CallTypes' /\ call'[c] = SearchFor /\ \A d \in Calls : d # c => call'[d] = call[d]
    BY SearchIsCall, CallStep DEF PointChanged
<1> DEFINE s == [side EXCEPT !.mode = "closed"]
<1>2. s \in Side /\ s.mode = "closed"
    BY SideKept DEF Side
<1>3. (side' = s \/ side' = side) /\ UNCHANGED <<filter, typed>> /\ found' = NothingFound
    BY DEF PointChanged
<1> HIDE DEF s
<1>4. RagTypes'
    BY <1>2, <1>3, SideKept, EmptyIsFound DEF RagTypes, SideTypes
<1> QED BY <1>1, <1>4, ServerTypesKept, AdminTypesKept, NoteTypesKept, DropTypesKept
       DEF PointChanged, BaseTypes, Types

LEMMA TypesSearchArrives ==
    ASSUME Types, NEW c \in Calls, SearchArrives(c) PROVE Types'
<1>1. call[c] \in ResultCall
    BY Sorts DEF Types, BaseTypes, CallTypes, SearchArrives
<1>2. FoundTypes'
    BY <1>1 DEF FoundTypes, SearchArrives, ResultCall
<1>3. RagTypes'
    BY <1>2, FoundTypesFrom DEF SearchArrives
<1> QED BY <1>3, DoneStep, ServerTypesKept, AdminTypesKept, NoteTypesKept, DropTypesKept
       DEF SearchArrives, BaseTypes, Types

LEMMA TypesConfirmDelete ==
    ASSUME Types, NEW sel \in Selection, NEW c \in Calls, ConfirmDelete(sel, c)
    PROVE  /\ Types'
           /\ call'[c].kind = "count"
           /\ \A d \in Calls : d # c => call'[d] = call[d]
<1> DEFINE r == [kind |-> "count", stage |-> "sent", sel |-> sel]
<1>1. r \in CountCall /\ r.kind = "count"
    BY DEF CountCall
<1>2. r \in Call /\ Fits(r)
    BY <1>1, PlainSlots DEF Call, KnowledgeCall
<1>3. Send(c, r) /\ call' = [call EXCEPT ![c] = r]
    BY DEF ConfirmDelete, Send, Begin
<1> HIDE DEF r
<1>4. /\ CallTypes' /\ NoteTypes' /\ call'[c] = r
      /\ \A d \in Calls : d # c => call'[d] = call[d]
    BY <1>2, <1>3, SendTypes, CallStep
<1> QED BY <1>1, <1>4, ServerTypesKept, AdminTypesKept, RagTypesKept, DropTypesKept
       DEF ConfirmDelete, BaseTypes, Types

LEMMA TypesStartDelete ==
    ASSUME Types, NEW c \in Calls, StartDelete(c)
    PROVE  /\ Types'
           /\ call'[c].kind = "purge" /\ call'[c].sel = call[c].sel
           /\ call'[c].pts = call[c].pts /\ call'[c].since = call[c].since
           /\ \A d \in Calls : d # c => call'[d] = call[d]
<1> DEFINE r == [call[c] EXCEPT !.kind = "purge"]
<1>1. call[c] \in CountedCall
    BY Sorts DEF Types, BaseTypes, CallTypes, StartDelete
<1>2. /\ r \in CountedCall /\ r.kind = "purge" /\ r.sel = call[c].sel
      /\ r.pts = call[c].pts /\ r.since = call[c].since
    BY <1>1 DEF CountedCall
<1>3. r \in Call /\ Fits(r)
    BY <1>2, PlainSlots DEF Call, KnowledgeCall
<1>4. call' = [call EXCEPT ![c] = r]
    BY DEF StartDelete
<1> HIDE DEF r
<1>5. CallTypes' /\ call'[c] = r /\ \A d \in Calls : d # c => call'[d] = call[d]
    BY <1>3, <1>4, CallStep
<1> QED BY <1>2, <1>5, ServerTypesKept, AdminTypesKept, NoteTypesKept, RagTypesKept,
          DropTypesKept
       DEF StartDelete, BaseTypes, Types

LEMMA TypesServeDrop ==
    ASSUME Types, NEW c \in Calls, ServeDrop(c)
    PROVE  /\ Types'
           /\ call'[c] = [call[c] EXCEPT !.stage = "answered"]
           /\ \A d \in Calls : d # c => call'[d] = call[d]
<1>1. /\ CallTypes' /\ call'[c] = [call[c] EXCEPT !.stage = "answered"]
      /\ \A d \in Calls : d # c => call'[d] = call[d]
    BY AnswerStep DEF ServeDrop
<1>2. ServerTypes'
    BY DEF Types, BaseTypes, ServerTypes, ServeDrop
<1> QED BY <1>1, <1>2, AdminTypesKept, NoteTypesKept, RagTypesKept, DropTypesKept
       DEF ServeDrop, BaseTypes, Types

LEMMA TypesServePurge ==
    ASSUME Types, NEW c \in Calls, ServePurge(c) PROVE Types'
<1>1. ServerTypes'
    BY DEF Types, BaseTypes, ServerTypes, ServePurge
<1>2. NoteTypes'
    BY NotedTypes DEF ServePurge
<1> QED BY <1>1, <1>2, DoneStep, AdminTypesKept, RagTypesKept, DropTypesKept
       DEF ServePurge, BaseTypes, Types

LEMMA TypesKnowledgeFails ==
    ASSUME Types, NEW c \in Calls, KnowledgeFails(c) PROVE Types'
<1>1. NoteTypes'
    BY NotedTypes DEF KnowledgeFails
<1>2. FoundTypes'
  <2>1. CASE call[c].kind \in {"search", "result"}
      BY <2>1, EmptyIsFound DEF KnowledgeFails
  <2>2. CASE call[c].kind \notin {"search", "result"}
    <3>1. found' = found
        BY <2>2 DEF KnowledgeFails
    <3> QED BY <3>1 DEF Types, RagTypes, FoundTypes
  <2> QED BY <2>1, <2>2
<1>3. RagTypes'
    BY <1>2, FoundTypesFrom DEF KnowledgeFails
<1> QED BY <1>1, <1>3, DoneStep, ServerTypesKept, AdminTypesKept, DropTypesKept
       DEF KnowledgeFails, BaseTypes, Types

LEMMA TypesServeQuery ==
    ASSUME Types, NEW c \in Calls, ServeQuery(c)
    PROVE  /\ Types'
           /\ call[c].kind = "drops" => call'[c].kind = "options"
           /\ call[c].kind = "search" =>
                /\ call'[c].kind = "result" /\ call'[c].by = call[c].by
                /\ call'[c].pts = Shows(call[c].by)
           /\ call[c].kind = "count" =>
                /\ call'[c].kind = "counted" /\ call'[c].sel = call[c].sel
                /\ call'[c].pts = Match(call[c].sel)
           /\ \A d \in Calls : d # c => call'[d] = call[d]
<1> DEFINE q == call[c]
<1>1. q \in Call
    BY DEF Types, BaseTypes, CallTypes
<1>2. ServerTypes
    BY DEF Types, BaseTypes
<1>3. PICK r : /\ r \in Call /\ Fits(r) /\ call' = [call EXCEPT ![c] = r]
               /\ q.kind = "drops" => r.kind = "options"
               /\ q.kind = "search" => /\ r.kind = "result" /\ r.by = q.by
                                       /\ r.pts = Shows(q.by)
               /\ q.kind = "count" => /\ r.kind = "counted" /\ r.sel = q.sel
                                      /\ r.pts = Match(q.sel)
  <2>1. CASE q.kind = "drops"
    <3> DEFINE r == [kind |-> "options", of |-> q.of, ids |-> rows]
    <3>1. q.of \in Pages /\ rows \subseteq Keys
        BY <1>1, <1>2, <2>1, Sorts DEF DropsCall, ServerTypes
    <3>2. r \in OptionsCall /\ r.kind = "options"
        BY <3>1 DEF OptionsCall
    <3>3. r \in Call /\ Fits(r)
        BY <3>2, PlainSlots DEF Call, KnowledgeCall, QueryCall
    <3>4. call' = [call EXCEPT ![c] = r]
        BY <2>1 DEF ServeQuery
    <3> HIDE DEF r
    <3> QED BY <2>1, <3>2, <3>3, <3>4
  <2>2. CASE q.kind = "search"
    <3> DEFINE r == [kind |-> "result", by |-> q.by, pts |-> Shows(q.by)]
    <3>1. q.by \in Cols \cup {None} /\ Shows(q.by) \subseteq Point
        BY <1>1, <1>2, <2>2, Sorts DEF SearchCall, ServerTypes, Shows
    <3>2. r \in ResultCall /\ r.kind = "result" /\ r.by = q.by /\ r.pts = Shows(q.by)
        BY <3>1 DEF ResultCall
    <3>3. r \in Call /\ Fits(r)
        BY <3>2, PlainSlots DEF Call, KnowledgeCall, QueryCall
    <3>4. call' = [call EXCEPT ![c] = r]
        BY <2>2 DEF ServeQuery, Shows
    <3> HIDE DEF r
    <3> QED BY <2>2, <3>2, <3>3, <3>4
  <2>3. CASE q.kind = "count"
    <3> DEFINE r == [kind |-> "counted", sel |-> q.sel, pts |-> Match(q.sel), since |-> {}]
    <3>1. q.sel \in Selection /\ Match(q.sel) \subseteq Point
        BY <1>1, <1>2, <2>3, Sorts DEF CountCall, ServerTypes, Match
    <3>2. r \in CountedCall /\ r.kind = "counted" /\ r.sel = q.sel /\ r.pts = Match(q.sel)
        BY <3>1 DEF CountedCall
    <3>3. r \in Call /\ Fits(r)
        BY <3>2, PlainSlots DEF Call, KnowledgeCall
    <3>4. call' = [call EXCEPT ![c] = r]
        BY <2>3 DEF ServeQuery
    <3> HIDE DEF r
    <3> QED BY <2>3, <3>2, <3>3, <3>4
  <2> QED BY <2>1, <2>2, <2>3 DEF ServeQuery
<1>4. CallTypes' /\ call'[c] = r /\ \A d \in Calls : d # c => call'[d] = call[d]
    BY <1>3, CallStep
<1> QED BY <1>3, <1>4, ServerTypesKept, AdminTypesKept, NoteTypesKept, RagTypesKept,
          DropTypesKept
       DEF ServeQuery, BaseTypes, Types

\* A point is stored: it takes its place among the points, and the counts that
\* a deletion rests on note it.
LEMMA TypesServeStore ==
    ASSUME Types, NEW c \in Calls, ServeStore(c)
    PROVE  /\ Types'
           /\ \E p \in Point :
                /\ p.in = call[c].in /\ p.text = call[c].text /\ p.why = call[c].why
                /\ call[c].id # None => p.id = call[c].id
                /\ pts' = {o \in pts : o.in # p.in \/ o.id # p.id} \cup {p}
                /\ \A d \in Calls : d # c /\ call[d].kind \in {"counted", "purge"} =>
                     /\ call'[d].kind = call[d].kind /\ call'[d].sel = call[d].sel
                     /\ call'[d].pts = call[d].pts
                     /\ call'[d].since = call[d].since \cup {p}
           /\ call'[c] = [call[c] EXCEPT !.stage = "answered"]
           /\ call'[c].kind = "store" /\ call'[c].stage = "answered"
           /\ \A d \in Calls : d # c /\ call[d].kind \notin {"counted", "purge"} =>
                call'[d] = call[d]
<1> DEFINE q == call[c]
<1>1. q \in StoreCall
    BY Sorts DEF Types, BaseTypes, CallTypes, ServeStore
<1>2. PICK i \in IF q.id = None THEN Points \ used ELSE {q.id} :
        /\ pts' = {o \in pts : o.in # q.in \/ o.id # i}
                  \cup {[in |-> q.in, id |-> i, dom |-> q.dom, text |-> q.text, why |-> q.why]}
        /\ used' = used \cup {i}
        /\ call' = StoredFor(c, [in |-> q.in, id |-> i, dom |-> q.dom, text |-> q.text,
                                 why |-> q.why])
    BY DEF ServeStore
<1>3. i \in Points /\ (q.id # None => i = q.id)
    BY <1>1, <1>2 DEF StoreCall
<1>4. PICK p : p = [in |-> q.in, id |-> i, dom |-> q.dom, text |-> q.text, why |-> q.why]
    OBVIOUS
<1>5. /\ p \in Point /\ p.in = q.in /\ p.id = i /\ p.text = q.text /\ p.why = q.why
    BY <1>1, <1>3, <1>4 DEF StoreCall, Point, Whys
<1>6. pts' = {o \in pts : o.in # p.in \/ o.id # p.id} \cup {p}
    BY <1>2, <1>4, <1>5
<1>7. call' = StoredFor(c, p)
    BY <1>2, <1>4
<1>8. ASSUME NEW d \in Calls
      PROVE  /\ d = c => call'[d] = [call[c] EXCEPT !.stage = "answered"]
             /\ d # c /\ call[d].kind \in {"counted", "purge"} =>
                  call'[d] = [call[d] EXCEPT !.since = call[d].since \cup {p}]
             /\ d # c /\ call[d].kind \notin {"counted", "purge"} => call'[d] = call[d]
    BY <1>7 DEF StoredFor
<1>9. ASSUME NEW d \in Calls, d # c, call[d].kind \in {"counted", "purge"}
      PROVE  /\ call'[d].kind = call[d].kind /\ call'[d].sel = call[d].sel
             /\ call'[d].pts = call[d].pts /\ call'[d].since = call[d].since \cup {p}
             /\ call'[d] \in Call /\ Fits(call'[d])
  <2>1. call[d] \in CountedCall
      BY <1>9, Sorts DEF Types, BaseTypes, CallTypes
  <2>2. call'[d] = [call[d] EXCEPT !.since = call[d].since \cup {p}]
      BY <1>8, <1>9
  <2>3. /\ call'[d].kind = call[d].kind /\ call'[d].sel = call[d].sel
        /\ call'[d].pts = call[d].pts /\ call'[d].since = call[d].since \cup {p}
        /\ call'[d] \in CountedCall
      BY <1>5, <2>1, <2>2 DEF CountedCall
  <2>4. call'[d] \in Call /\ Fits(call'[d])
      BY <1>9, <2>3, PlainSlots DEF Call, KnowledgeCall
  <2> QED BY <2>3, <2>4
<1>10. /\ call'[c] = [call[c] EXCEPT !.stage = "answered"]
       /\ call'[c].kind = "store" /\ call'[c].stage = "answered"
       /\ call'[c] \in Call /\ Fits(call'[c])
  <2>1. call'[c] = [call[c] EXCEPT !.stage = "answered"]
      BY <1>8
  <2>2. call'[c] \in StoreCall /\ call'[c].kind = "store" /\ call'[c].stage = "answered"
      BY <1>1, <2>1 DEF StoreCall, Stages
  <2>3. call'[c] \in Call
      BY <2>2 DEF Call, KnowledgeCall, PointCall
  <2> QED BY <2>1, <2>2, <2>3, PlainSlots
<1>11. CallTypes'
  <2>1. \A d \in Calls : call'[d] \in Call /\ Fits(call'[d])
    <3> TAKE d \in Calls
    <3>1. CASE d = c
        BY <3>1, <1>10
    <3>2. CASE d # c /\ call[d].kind \in {"counted", "purge"}
        BY <3>2, <1>9
    <3>3. CASE d # c /\ call[d].kind \notin {"counted", "purge"}
      <4>1. call'[d] = call[d]
          BY <3>3, <1>8
      <4> QED BY <4>1 DEF Types, BaseTypes, CallTypes
    <3> QED BY <3>1, <3>2, <3>3
  <2>2. call' = [d \in Calls |-> call'[d]]
      BY <1>7 DEF StoredFor
  <2> QED BY <2>1, <2>2 DEF CallTypes
<1>12. ServerTypes'
    BY <1>2, <1>3, <1>5, <1>6 DEF Types, BaseTypes, ServerTypes, ServeStore
<1>13. Types'
    BY <1>11, <1>12, AdminTypesKept, NoteTypesKept, RagTypesKept, DropTypesKept
    DEF ServeStore, BaseTypes, Types
<1> QED BY <1>3, <1>5, <1>6, <1>8, <1>9, <1>10, <1>13

LEMMA TypesKnowledge ==
    ASSUME Types, KnowledgeNext PROVE Types'
<1>1. ASSUME NEW c \in Calls,
             \/ DropsArrive(c) \/ SaveKnowledge(c) \/ PerformSearch(c) \/ PointChanged(c)
             \/ SearchArrives(c) \/ StartDelete(c) \/ KnowledgeFails(c)
             \/ ServeStore(c) \/ ServeDrop(c) \/ ServePurge(c) \/ ServeQuery(c)
      PROVE  Types'
    BY <1>1, TypesDropsArrive, TypesSaveKnowledge, TypesPerformSearch, TypesPointChanged,
       TypesSearchArrives, TypesStartDelete, TypesKnowledgeFails, TypesServeStore,
       TypesServeDrop, TypesServePurge, TypesServeQuery
<1>2. ASSUME NEW c \in Calls,
             \/ \E v \in Pages : Visit(v, c)
             \/ \E p \in found.pts : DeletePoint(p, c)
             \/ \E sel \in Selection : ConfirmDelete(sel, c)
      PROVE  Types'
    BY <1>2, TypesVisit, TypesDeletePoint, TypesConfirmDelete
<1>3. ASSUME \/ \E t \in Texts : OpenCreate(t)
             \/ \E k \in Cols, d \in Doms : Choose(k, d)
             \/ \E i \in Cols \cup {None} : Narrow(i)
             \/ \E p \in found.pts, mode \in {"edit", "show"} : OpenPoint(p, mode)
             \/ Close
      PROVE  Types'
    BY <1>3, TypesOpenCreate, TypesChoose, TypesNarrow, TypesOpenPoint, TypesClose
<1> QED BY <1>1, <1>2, <1>3 DEF KnowledgeNext, Selection

LEMMA TypesUnchanged ==
    ASSUME Types, UNCHANGED vars PROVE Types'
BY PageStep, RagTypesKept, DropTypesKept DEF vars, dropVars, ragVars, Types

LEMMA TypesInit ==
    ASSUME Init PROVE Types
<1> USE DEF Init, AdminInit
<1>1. ServerTypes /\ NoteTypes /\ DropTypes
    BY AdminAssumption, KindsFacts DEF ServerTypes, NoteTypes, DropTypes
<1>2. AdminTypes
    BY BlankIsForm DEF AdminTypes, TableTypes, NotLoaded
<1>3. CallTypes
    BY IdleIsCall DEF CallTypes
<1>4. RagTypes
    BY DEF RagTypes, SideTypes, FoundTypes, Side
<1> QED BY <1>1, <1>2, <1>3, <1>4 DEF BaseTypes, Types

LEMMA TypesStep ==
    ASSUME Types, [Next]_vars PROVE Types'
BY TypesAdmin, TypesKnowledge, TypesUnchanged DEF Next

\* All state has its type.
LEMMA KnowledgeTypes == Spec => []Types
<1>1. Init => Types
    BY TypesInit
<1>2. Types /\ [Next]_vars => Types'
    BY TypesStep
<1> QED BY <1>1, <1>2, PTL DEF Spec

-----------------------------------------------------------------------------
(* The forms *)

CallIsFunction == call \in [Calls -> Call]

LEMMA CallsTyped ==
    ASSUME Types PROVE CallIsFunction /\ \A c \in Calls : Fits(call[c])
BY DEF CallIsFunction, Types, BaseTypes, CallTypes

AdminKinds == {"save", "delete", "load", "list"}

\* What the pages of the knowledge base do is none of the forms' business.
LEMMA KnowledgeAside ==
    ASSUME Types, KnowledgeNext
    PROVE  /\ UNCHANGED <<adminVars>>
           /\ \A d \in Calls : call[d].kind \in AdminKinds \/ call'[d].kind \in AdminKinds =>
                call'[d] = call[d]
<1> USE CallsTyped DEF CallIsFunction, AdminKinds
<1> DEFINE Aside ==
             \A d \in Calls : call[d].kind \in AdminKinds \/ call'[d].kind \in AdminKinds =>
                 call'[d] = call[d]
<1>1. ASSUME NEW c \in Calls, DropsArrive(c) \/ SearchArrives(c) \/ ServePurge(c)
                              \/ KnowledgeFails(c)
      PROVE  UNCHANGED adminVars /\ Aside
    BY <1>1 DEF DropsArrive, SearchArrives, ServePurge, KnowledgeFails, Done, NoCall
<1>2. ASSUME NEW c \in Calls, SaveKnowledge(c) PROVE UNCHANGED adminVars /\ Aside
  <2>1. Store.kind = "store"
      BY DEF Store
  <2> QED BY <1>2, <2>1, TypesSaveKnowledge DEF SaveKnowledge, Send, Begin, NoCall
<1>3. ASSUME NEW c \in Calls, PerformSearch(c) \/ PointChanged(c)
      PROVE  UNCHANGED adminVars /\ Aside
  <2>1. SearchFor.kind = "search"
      BY DEF SearchFor
  <2>2. call'[c] = SearchFor /\ \A d \in Calls : d # c => call'[d] = call[d]
      BY <1>3, TypesPerformSearch, TypesPointChanged
  <2>3. CASE PerformSearch(c)
    <3>1. call[c].kind = "idle" /\ UNCHANGED adminVars
        BY <2>3 DEF PerformSearch, Send, Begin, NoCall
    <3> QED BY <2>1, <2>2, <3>1
  <2>4. CASE PointChanged(c)
    <3>1. call[c].kind \in {"store", "drop"} /\ UNCHANGED adminVars
        BY <2>4 DEF PointChanged
    <3> QED BY <2>1, <2>2, <3>1
  <2> QED BY <1>3, <2>3, <2>4
<1>4. ASSUME NEW c \in Calls, StartDelete(c) PROVE UNCHANGED adminVars /\ Aside
    BY <1>4, TypesStartDelete DEF StartDelete
<1>5. ASSUME NEW c \in Calls, ServeStore(c) PROVE UNCHANGED adminVars /\ Aside
    BY <1>5, TypesServeStore DEF ServeStore
<1>6. ASSUME NEW c \in Calls, ServeDrop(c) PROVE UNCHANGED adminVars /\ Aside
  <2>1. call[c] \in DropCall
      BY <1>6, Sorts DEF ServeDrop
  <2>2. call'[c].kind = "drop"
      BY <1>6, <2>1, TypesServeDrop DEF DropCall
  <2> QED BY <1>6, <2>2, TypesServeDrop DEF ServeDrop
<1>7. ASSUME NEW c \in Calls, ServeQuery(c) PROVE UNCHANGED adminVars /\ Aside
    BY <1>7, TypesServeQuery DEF ServeQuery
<1>8. ASSUME NEW c \in Calls, NEW v \in Pages, Visit(v, c) PROVE UNCHANGED adminVars /\ Aside
    BY <1>8 DEF Visit, Begin, NoCall
<1>9. ASSUME NEW c \in Calls, NEW p \in found.pts, DeletePoint(p, c)
      PROVE  UNCHANGED adminVars /\ Aside
    BY <1>9, TypesDeletePoint DEF DeletePoint, Send, Begin, NoCall
<1>10. ASSUME NEW c \in Calls, NEW sel \in Selection, ConfirmDelete(sel, c)
       PROVE  UNCHANGED adminVars /\ Aside
    BY <1>10, TypesConfirmDelete DEF ConfirmDelete, Send, Begin, NoCall
<1>11. ASSUME \/ \E t \in Texts : OpenCreate(t)
              \/ \E k \in Cols, d \in Doms : Choose(k, d)
              \/ \E i \in Cols \cup {None} : Narrow(i)
              \/ \E p \in found.pts, mode \in {"edit", "show"} : OpenPoint(p, mode)
              \/ Close
       PROVE  UNCHANGED adminVars /\ Aside
    BY <1>11 DEF OpenCreate, Choose, Narrow, OpenPoint, Close
<1> HIDE DEF Aside
<1>12. UNCHANGED adminVars /\ Aside
    BY <1>1, <1>2, <1>3, <1>4, <1>5, <1>6, <1>7, <1>8, <1>9, <1>10, <1>11
    DEF KnowledgeNext, Selection
<1> QED BY <1>12 DEF Aside

\* A save under way goes on, or another call takes its slot.
SavesGoOn ==
    \A d \in Calls : call'[d].kind = "save" =>
        /\ call[d].kind = "save" /\ call'[d].edit = call[d].edit
        /\ call'[d].id = call[d].id
        /\ call'[d].meant = call[d].meant /\ call'[d].wiped = call[d].wiped

LEMMA SavesKept ==
    ASSUME SavesWhatWasMeant, SavesGoOn PROVE SavesWhatWasMeant'
BY DEF SavesGoOn, SavesWhatWasMeant

LEMMA FormsKept ==
    ASSUME Forms, UNCHANGED form, SavesGoOn PROVE Forms'
BY SavesKept DEF Forms

\* One form takes another value, of which the same holds.
LEMMA FormsSet ==
    ASSUME Types, Forms, NEW k \in Kinds, NEW f \in Form, MeansRow(k, f),
           form' = [form EXCEPT ![k] = f]
    PROVE  \A j \in Kinds : MeansRow(j, form'[j])
<1>1. form'[k] = f /\ \A j \in Kinds : j # k => form'[j] = form[j]
    BY DEF Types, BaseTypes, AdminTypes
<1> QED BY <1>1 DEF Forms

LEMMA FormsOpen ==
    ASSUME Types, Forms, NEW k \in Kinds, NEW i \in Keys, Open(k, i) PROVE Forms'
<1> DEFINE f == [[[Blank EXCEPT !.id = i] EXCEPT !.locked = k = "col"] EXCEPT !.meant = i]
<1>1. i # None
    BY AdminAssumption
<1>2. f \in Form /\ f.id = i /\ f.meant = i /\ f.locked = (k = "col")
    BY DEF Blank, Form
<1>3. form' = [form EXCEPT ![k] = f]
    BY DEF Open
<1> HIDE DEF f
<1>4. MeansRow(k, f)
    BY <1>1, <1>2 DEF MeansRow, EditsRow
<1>5. SavesGoOn
    BY DEF Open, SavesGoOn
<1> QED BY <1>2, <1>3, <1>4, <1>5, FormsSet, SavesKept DEF Forms

LEMMA BlankMeans ==
    ASSUME NEW k \in Kinds PROVE MeansRow(k, Blank)
BY DEF Blank, MeansRow, EditsRow

LEMMA FormsReset ==
    ASSUME Types, Forms, NEW k \in Kinds, Reset(k) PROVE Forms'
<1>1. SavesGoOn
    BY DEF Reset, SavesGoOn
<1> QED BY <1>1, BlankMeans, BlankIsForm, FormsSet, SavesKept DEF Forms, Reset

LEMMA FormsTypeId ==
    ASSUME Types, Forms, NEW i \in Cols, TypeId(i) PROVE Forms'
<1> DEFINE f == [[form["col"] EXCEPT !.id = i] EXCEPT !.sent = FALSE]
<1>1. form \in [Kinds -> Form] /\ "col" \in Kinds /\ form["col"] \in Form /\ i \in Keys
    BY KindsFacts DEF Types, BaseTypes, AdminTypes
<1>2. f \in Form /\ f.id = i /\ f.meant = form["col"].meant
      /\ f.locked = form["col"].locked /\ f.wiped = form["col"].wiped
    BY <1>1 DEF Form
<1>3. form' = [form EXCEPT !["col"] = f] /\ ~form["col"].locked
    BY <1>1 DEF TypeId, Form
<1> HIDE DEF f
<1>4. MeansRow("col", form["col"])
    BY <1>1 DEF Forms
<1>5. MeansRow("col", f)
    BY <1>2, <1>3, <1>4 DEF MeansRow, EditsRow
<1>6. SavesGoOn
    BY DEF TypeId, SavesGoOn
<1> QED BY <1>1, <1>2, <1>3, <1>5, <1>6, FormsSet, SavesKept DEF Forms

\* Only whether it was just sent changes.
LEMMA FormsTouched ==
    ASSUME Types, Forms, NEW k \in Kinds, NEW b \in BOOLEAN,
           form' = [form EXCEPT ![k].sent = b]
    PROVE  \A j \in Kinds : MeansRow(j, form'[j])
<1> DEFINE f == [form[k] EXCEPT !.sent = b]
<1>1. form[k] \in Form
    BY DEF Types, BaseTypes, AdminTypes
<1>2. f \in Form /\ f.id = form[k].id /\ f.meant = form[k].meant
      /\ f.locked = form[k].locked /\ f.wiped = form[k].wiped
    BY <1>1 DEF Form
<1>3. form' = [form EXCEPT ![k] = f]
    OBVIOUS
<1> HIDE DEF f
<1>4. MeansRow(k, f)
    BY <1>2 DEF MeansRow, EditsRow, Forms
<1> QED BY <1>2, <1>3, <1>4, FormsSet

LEMMA FormsType ==
    ASSUME Types, Forms, NEW k \in Kinds, Type(k) PROVE Forms'
<1>1. SavesGoOn
    BY DEF Type, SavesGoOn
<1> QED BY <1>1, FormsTouched, SavesKept DEF Forms, Type

LEMMA FormsSave ==
    ASSUME Types, Forms, NEW k \in Kinds, NEW c \in Calls, Save(k, c) PROVE Forms'
<1>1. /\ call'[c].kind = "save" /\ call'[c].id = form[k].id /\ call'[c].edit = Edits(k)
      /\ call'[c].meant = form[k].meant /\ call'[c].wiped = form[k].wiped
      /\ \A d \in Calls : d # c => call'[d] = call[d]
    BY TypesSave
<1>2. MeansRow(k, form[k])
    BY DEF Forms
<1>3. SavesWhatWasMeant'
    BY <1>1, <1>2 DEF Forms, SavesWhatWasMeant, MeansRow, EditsRow, Edits
<1> QED BY <1>3, FormsTouched DEF Forms, Save

LEMMA FormsDelete ==
    ASSUME Types, Forms, NEW k \in Kinds, NEW i \in Keys, NEW c \in Calls, Delete(k, i, c)
    PROVE  Forms'
<1>1. SavesGoOn
    BY TypesDelete DEF SavesGoOn
<1> QED BY <1>1, FormsKept DEF Delete, adminVars

LEMMA FormsSwitchTab ==
    ASSUME Types, Forms, NEW k \in Kinds, NEW c \in Calls, SwitchTab(k, c) PROVE Forms'
<1>1. LoadOf(k).kind = "load"
    BY DEF LoadOf
<1>2. SavesGoOn
    BY <1>1, TypesSwitchTab DEF SavesGoOn
<1> QED BY <1>2, FormsKept DEF SwitchTab, adminVars

LEMMA FormsServeAdmin ==
    ASSUME Types, Forms, NEW c \in Calls, ServeAdmin(c) PROVE Forms'
<1>1. call[c] \in Call /\ CallIsFunction
    BY CallsTyped DEF CallIsFunction
<1>2. CASE call[c].kind = "save"
  <2>1. call[c] \in SaveCall
      BY <1>1, <1>2, Sorts
  <2>2. Answered(c)
      BY <1>2 DEF ServeAdmin
  <2>3. call'[c] = [call[c] EXCEPT !.stage = "answered"]
      BY <1>2, <2>2, AnswerStep
  <2>4. /\ call'[c].edit = call[c].edit /\ call'[c].id = call[c].id
        /\ call'[c].meant = call[c].meant /\ call'[c].wiped = call[c].wiped
      BY <2>1, <2>3 DEF SaveCall
  <2>5. SavesGoOn
      BY <1>2, <2>4, TypesServeAdmin DEF SavesGoOn
  <2> QED BY <2>5, FormsKept DEF ServeAdmin, adminVars
<1>3. CASE call[c].kind = "delete"
  <2>1. call[c] \in DeleteCall
      BY <1>1, <1>3, Sorts
  <2>2. Answered(c)
      BY <1>3 DEF ServeAdmin
  <2>3. call'[c] = [call[c] EXCEPT !.stage = "answered"]
      BY <1>3, <2>2, AnswerStep
  <2>4. call'[c].kind = "delete"
      BY <1>3, <2>1, <2>3 DEF DeleteCall
  <2>5. SavesGoOn
      BY <2>4, TypesServeAdmin DEF SavesGoOn
  <2> QED BY <2>5, FormsKept DEF ServeAdmin, adminVars
<1>4. CASE call[c].kind = "load"
  <2>1. call'[c].kind = "list"
      BY <1>1, <1>4 DEF ServeAdmin, CallIsFunction
  <2>2. SavesGoOn
      BY <2>1, TypesServeAdmin DEF SavesGoOn
  <2> QED BY <2>2, FormsKept DEF ServeAdmin, adminVars
<1> QED BY <1>2, <1>3, <1>4 DEF ServeAdmin

LEMMA FormsChanged ==
    ASSUME Types, Forms, NEW c \in Calls, Changed(c) PROVE Forms'
<1> DEFINE k == call[c].of
<1>1. k \in Kinds /\ call'[c] = LoadOf(k) /\ \A d \in Calls : d # c => call'[d] = call[d]
    BY TypesChanged
<1>2. SavesGoOn
    BY <1>1 DEF SavesGoOn, LoadOf
<1>3. form' = [form EXCEPT ![k] = Wipe(call[c])]
    BY DEF Changed
<1>4. Wipe(call[c]) \in Form
    BY <1>1, WipeIsForm
<1>5. MeansRow(k, Wipe(call[c]))
  <2> DEFINE w == [[Blank EXCEPT !.meant = form[k].meant] EXCEPT !.wiped = form[k].meant # None]
  <2>1. w.meant = form[k].meant /\ w.wiped = (form[k].meant # None) /\ w.id = None
        /\ w.locked = FALSE
      BY DEF Blank
  <2>2. Wipe(call[c]) \in {Blank, w}
      BY DEF Wipe
  <2> HIDE DEF w
  <2>3. MeansRow(k, w)
      BY <2>1 DEF MeansRow, EditsRow
  <2> QED BY <1>1, <2>2, <2>3, BlankMeans
<1> QED BY <1>1, <1>2, <1>3, <1>4, <1>5, FormsSet, SavesKept DEF Forms

LEMMA FormsAnswered ==
    ASSUME Types, Forms, NEW c \in Calls, LoadArrives(c) \/ AdminFails(c) PROVE Forms'
<1>1. Done(c) /\ UNCHANGED form
    BY DEF LoadArrives, AdminFails, adminVars
<1>2. SavesGoOn
    BY <1>1, DoneStep DEF SavesGoOn, NoCall
<1> QED BY <1>1, <1>2, FormsKept

LEMMA FormsStep ==
    ASSUME Types, Forms, [Next]_vars PROVE Forms'
<1>1. CASE AdminNext
  <2>1. ASSUME NEW c \in Calls,
               ServeAdmin(c) \/ Changed(c) \/ LoadArrives(c) \/ AdminFails(c)
        PROVE  Forms'
      BY <2>1, FormsServeAdmin, FormsChanged, FormsAnswered
  <2>2. ASSUME NEW c \in Calls, NEW k \in Kinds,
               Save(k, c) \/ SwitchTab(k, c) \/ \E i \in Keys : Delete(k, i, c)
        PROVE  Forms'
      BY <2>2, FormsSave, FormsSwitchTab, FormsDelete
  <2>3. ASSUME NEW k \in Kinds, Reset(k) \/ Type(k) \/ \E i \in Keys : Open(k, i)
        PROVE  Forms'
      BY <2>3, FormsReset, FormsType, FormsOpen
  <2>4. ASSUME OthersChange PROVE Forms'
    <3>1. SavesGoOn /\ UNCHANGED form
        BY <2>4 DEF OthersChange, adminVars, SavesGoOn
    <3> QED BY <3>1, FormsKept
  <2> QED BY <1>1, <2>1, <2>2, <2>3, <2>4, FormsTypeId DEF AdminNext
<1>2. CASE KnowledgeNext
  <2>1. SavesGoOn /\ UNCHANGED form
      BY <1>2, KnowledgeAside DEF SavesGoOn, AdminKinds, adminVars
  <2> QED BY <2>1, FormsKept
<1>3. CASE UNCHANGED vars
  <2>1. SavesGoOn /\ UNCHANGED form
      BY <1>3 DEF vars, adminVars, SavesGoOn
  <2> QED BY <2>1, FormsKept
<1> QED BY <1>1, <1>2, <1>3 DEF Next

LEMMA FormsInit ==
    ASSUME Init PROVE Forms
<1>1. \A k \in Kinds : MeansRow(k, form[k])
    BY BlankMeans DEF Init, AdminInit
<1>2. SavesWhatWasMeant
    BY DEF Init, AdminInit, NoCall, SavesWhatWasMeant
<1> QED BY <1>1, <1>2 DEF Forms

(* A save that edits changes the row its form was opened for, and one from *)
(* a form opened for a row creates nothing -- unless an answer has reset   *)
(* the form in between (admin.js 79-81, 139-140): what a form will send    *)
(* fits the row it was opened for at every moment.                         *)
THEOREM PageSavesWhatWasMeant == Spec => []SavesWhatWasMeant
<1>1. Init => Types /\ Forms
    BY TypesInit, FormsInit
<1>2. Types /\ Forms /\ [Next]_vars => (Types /\ Forms)'
    BY TypesStep, FormsStep
<1>3. Types /\ Forms => SavesWhatWasMeant
    BY DEF Forms
<1> QED BY <1>1, <1>2, <1>3, PTL DEF Spec


-----------------------------------------------------------------------------
(* Bulk deletions *)

\* What the administration page does is none of the other calls' business.
LEMMA AdminAside ==
    ASSUME Types, AdminNext
    PROVE  /\ pts' \subseteq pts
           /\ mishap' = {} => UNCHANGED pts
           /\ \A d \in Calls : \/ call[d].kind \notin AdminKinds \cup {"idle"}
                              \/ call'[d].kind \notin AdminKinds \cup {"idle"} =>
                call'[d] = call[d]
<1> USE CallsTyped DEF CallIsFunction, AdminKinds
<1> DEFINE Aside == /\ pts' \subseteq pts
                    /\ mishap' = {} => UNCHANGED pts
                    /\ \A d \in Calls : \/ call[d].kind \notin AdminKinds \cup {"idle"}
                                       \/ call'[d].kind \notin AdminKinds \cup {"idle"} =>
                         call'[d] = call[d]
<1>1. ASSUME NEW c \in Calls, ServeAdmin(c) PROVE Aside
  <2>1. pts' \subseteq pts /\ (mishap' = {} => UNCHANGED pts)
      BY <1>1 DEF ServeAdmin, Create, Remove, Note, serverVars
  <2>2. call'[c].kind \in AdminKinds
    <3>1. CASE call[c].kind = "save"
      <4>1. call[c] \in SaveCall /\ Answered(c)
          BY <1>1, <3>1, Sorts DEF ServeAdmin
      <4>2. call'[c] = [call[c] EXCEPT !.stage = "answered"]
          BY <3>1, <4>1, AnswerStep
      <4> QED BY <4>1, <4>2 DEF SaveCall
    <3>2. CASE call[c].kind = "delete"
      <4>1. call[c] \in DeleteCall /\ Answered(c)
          BY <1>1, <3>2, Sorts DEF ServeAdmin
      <4>2. call'[c] = [call[c] EXCEPT !.stage = "answered"]
          BY <3>2, <4>1, AnswerStep
      <4> QED BY <4>1, <4>2 DEF DeleteCall
    <3>3. CASE call[c].kind = "load"
        BY <1>1, <3>3 DEF ServeAdmin
    <3> QED BY <1>1, <3>1, <3>2, <3>3 DEF ServeAdmin
  <2>3. call[c].kind \in AdminKinds
      BY <1>1 DEF ServeAdmin
  <2> QED BY <1>1, <2>1, <2>2, <2>3, TypesServeAdmin
<1>2. ASSUME NEW c \in Calls, Changed(c) PROVE Aside
  <2>1. LoadOf(call[c].of).kind = "load"
      BY DEF LoadOf
  <2> QED BY <1>2, <2>1, TypesChanged DEF Changed, serverVars
<1>3. ASSUME NEW c \in Calls, LoadArrives(c) \/ AdminFails(c) PROVE Aside
    BY <1>3 DEF LoadArrives, AdminFails, Done, NoCall, serverVars
<1>4. ASSUME NEW c \in Calls, NEW k \in Kinds, Save(k, c) PROVE Aside
    BY <1>4, TypesSave DEF Save, Send, Begin, NoCall, serverVars
<1>5. ASSUME NEW c \in Calls, NEW k \in Kinds, SwitchTab(k, c) PROVE Aside
  <2>1. LoadOf(k).kind = "load"
      BY DEF LoadOf
  <2> QED BY <1>5, <2>1, TypesSwitchTab DEF SwitchTab, Send, Begin, NoCall, serverVars
<1>6. ASSUME NEW c \in Calls, NEW k \in Kinds, NEW i \in Keys, Delete(k, i, c) PROVE Aside
    BY <1>6, TypesDelete DEF Delete, Send, Begin, NoCall, serverVars
<1>7. ASSUME \/ \E k \in Kinds : Reset(k) \/ Type(k) \/ \E i \in Keys : Open(k, i)
             \/ \E i \in Cols : TypeId(i)
      PROVE  Aside
    BY <1>7 DEF Reset, Type, Open, TypeId, serverVars
<1>8. ASSUME OthersChange PROVE Aside
    BY <1>8 DEF OthersChange, Create, Remove, Note
<1> HIDE DEF Aside
<1>9. Aside
    BY <1>1, <1>2, <1>3, <1>4, <1>5, <1>6, <1>7, <1>8 DEF AdminNext
<1> QED BY <1>9 DEF Aside

\* A count goes on, or another call takes its slot.
CountsGoOn ==
    \A d \in Calls : call'[d].kind \in {"counted", "purge"} =>
        /\ call[d].kind \in {"counted", "purge"} /\ call'[d].sel = call[d].sel
        /\ call'[d].pts = call[d].pts /\ call'[d].since = call[d].since

LEMMA CountedKept ==
    ASSUME Counted, pts' \subseteq pts, CountsGoOn PROVE Counted'
BY DEF Counted, CountsGoOn, MatchIn

LEMMA CountedServeStore ==
    ASSUME Types, Counted, NEW c \in Calls, ServeStore(c) PROVE Counted'
<1>1. PICK p \in Point :
        /\ pts' = {o \in pts : o.in # p.in \/ o.id # p.id} \cup {p}
        /\ \A d \in Calls : d # c /\ call[d].kind \in {"counted", "purge"} =>
             /\ call'[d].kind = call[d].kind /\ call'[d].sel = call[d].sel
             /\ call'[d].pts = call[d].pts
             /\ call'[d].since = call[d].since \cup {p}
    BY TypesServeStore
<1>2. /\ call'[c].kind = "store"
      /\ \A d \in Calls : d # c /\ call[d].kind \notin {"counted", "purge"} =>
           call'[d] = call[d]
    BY TypesServeStore
<1> SUFFICES ASSUME NEW d \in Calls, call'[d].kind \in {"counted", "purge"}
             PROVE  MatchIn(pts', call'[d].sel) \subseteq call'[d].pts \cup call'[d].since
    BY DEF Counted
<1>3. d # c /\ call[d].kind \in {"counted", "purge"}
    BY <1>2
<1>4. MatchIn(pts, call[d].sel) \subseteq call[d].pts \cup call[d].since
    BY <1>3 DEF Counted
<1>5. MatchIn(pts', call[d].sel) \subseteq MatchIn(pts, call[d].sel) \cup {p}
    BY <1>1 DEF MatchIn
<1> QED BY <1>1, <1>3, <1>4, <1>5

LEMMA CountedServeQuery ==
    ASSUME Types, Counted, NEW c \in Calls, ServeQuery(c) PROVE Counted'
<1>1. UNCHANGED pts /\ \A d \in Calls : d # c => call'[d] = call[d]
    BY TypesServeQuery DEF ServeQuery, serverVars
<1>2. call'[c].kind \in {"counted", "purge"} =>
        call'[c].pts = MatchIn(pts, call'[c].sel)
    BY TypesServeQuery DEF ServeQuery, Match, MatchIn
<1> SUFFICES ASSUME NEW d \in Calls, call'[d].kind \in {"counted", "purge"}
             PROVE  MatchIn(pts', call'[d].sel) \subseteq call'[d].pts \cup call'[d].since
    BY DEF Counted
<1>3. CASE d = c
    BY <1>1, <1>2, <1>3
<1>4. CASE d # c
    BY <1>1, <1>4 DEF Counted
<1> QED BY <1>3, <1>4

\* The calls that are about points and no count: what else may happen to them
\* is said with the tables and the texts.
LEMMA CountsAside ==
    ASSUME Types, KnowledgeNext
    PROVE  \/ \E c \in Calls : ServeStore(c) \/ ServeQuery(c)
           \/ CountsGoOn /\ pts' \subseteq pts
<1> USE CallsTyped DEF CallIsFunction
<1> DEFINE Aside == CountsGoOn /\ pts' \subseteq pts
<1>1. ASSUME NEW c \in Calls, DropsArrive(c) \/ SearchArrives(c) \/ ServePurge(c)
                              \/ KnowledgeFails(c)
      PROVE  Aside
    BY <1>1 DEF DropsArrive, SearchArrives, ServePurge, KnowledgeFails, Done, NoCall,
                CountsGoOn, serverVars
<1>2. ASSUME NEW c \in Calls, SaveKnowledge(c) PROVE Aside
  <2>1. Store.kind = "store"
      BY DEF Store
  <2> QED BY <1>2, <2>1, TypesSaveKnowledge DEF SaveKnowledge, CountsGoOn, serverVars
<1>3. ASSUME NEW c \in Calls, PerformSearch(c) \/ PointChanged(c) PROVE Aside
  <2>1. SearchFor.kind = "search"
      BY DEF SearchFor
  <2> QED BY <1>3, <2>1, TypesPerformSearch, TypesPointChanged
          DEF PerformSearch, PointChanged, CountsGoOn, serverVars
<1>4. ASSUME NEW c \in Calls, StartDelete(c) PROVE Aside
    BY <1>4, TypesStartDelete DEF StartDelete, CountsGoOn, serverVars
<1>5. ASSUME NEW c \in Calls, ServeDrop(c) PROVE Aside
  <2>1. call[c] \in DropCall
      BY <1>5, Sorts DEF ServeDrop
  <2>2. call'[c].kind = "drop"
      BY <1>5, <2>1, TypesServeDrop DEF DropCall
  <2> QED BY <1>5, <2>2, TypesServeDrop DEF ServeDrop, CountsGoOn
<1>6. ASSUME NEW c \in Calls, NEW v \in Pages, Visit(v, c) PROVE Aside
    BY <1>6 DEF Visit, Begin, CountsGoOn, serverVars
<1>7. ASSUME NEW c \in Calls, NEW p \in found.pts, DeletePoint(p, c) PROVE Aside
    BY <1>7, TypesDeletePoint DEF DeletePoint, CountsGoOn, serverVars
<1>8. ASSUME NEW c \in Calls, NEW sel \in Selection, ConfirmDelete(sel, c) PROVE Aside
    BY <1>8, TypesConfirmDelete DEF ConfirmDelete, CountsGoOn, serverVars
<1>9. ASSUME \/ \E t \in Texts : OpenCreate(t)
             \/ \E k \in Cols, d \in Doms : Choose(k, d)
             \/ \E i \in Cols \cup {None} : Narrow(i)
             \/ \E p \in found.pts, mode \in {"edit", "show"} : OpenPoint(p, mode)
             \/ Close
      PROVE  Aside
    BY <1>9 DEF OpenCreate, Choose, Narrow, OpenPoint, Close, CountsGoOn, serverVars
<1> HIDE DEF Aside
<1>10. Aside \/ \E c \in Calls : ServeStore(c) \/ ServeQuery(c)
    BY <1>1, <1>2, <1>3, <1>4, <1>5, <1>6, <1>7, <1>8, <1>9 DEF KnowledgeNext, Selection
<1> QED BY <1>10 DEF Aside

LEMMA CountedStep ==
    ASSUME Types, Counted, [Next]_vars PROVE Counted'
<1>1. CASE AdminNext
  <2>1. CountsGoOn /\ pts' \subseteq pts
      BY <1>1, AdminAside DEF CountsGoOn, AdminKinds
  <2> QED BY <2>1, CountedKept
<1>2. CASE KnowledgeNext
    BY <1>2, CountsAside, CountedKept, CountedServeStore, CountedServeQuery
<1>3. CASE UNCHANGED vars
    BY <1>3, CountedKept DEF vars, serverVars, CountsGoOn
<1> QED BY <1>1, <1>2, <1>3 DEF Next

(* A bulk deletion that was confirmed removes no point that was not in the *)
(* number the user agreed to, except points stored after they were counted *)
(* (bulk.js 57-100): from the moment of the count on, whatever bears the   *)
(* filter was counted or was stored since.                                 *)
THEOREM PageDeletesWhatWasCounted == Spec => []DeletesWhatWasCounted
<1>1. Init => Types /\ Counted
    BY TypesInit DEF Init, AdminInit, NoCall, Counted
<1>2. Types /\ Counted /\ [Next]_vars => (Types /\ Counted)'
    BY TypesStep, CountedStep
<1>3. Counted => DeletesWhatWasCounted
    BY DEF Counted, DeletesWhatWasCounted, Match, MatchIn
<1> QED BY <1>1, <1>2, <1>3, PTL DEF Spec

-----------------------------------------------------------------------------
(* Texts *)

\* Nothing holds a text that was not held, and nothing will store one anew
\* that would not have.
PointsQuiet ==
    /\ \A k, i, t : HeldIn(pts', k, i, t) => Held(k, i, t)
    /\ \A p, o \in pts' : p.in = o.in /\ p.id = o.id => p = o
FoundQuiet == \A k, i, t : HeldIn(found'.pts, k, i, t) => Held(k, i, t)
CallsQuiet ==
    \A d \in Calls :
        /\ \A k, i, t : HeldByCall(call'[d], k, i, t) => Held(k, i, t)
        /\ \A t : CallPends(call'[d], t) => CallPends(call[d], t)
SideQuiet ==
    /\ \A k, i, t : k # None /\ HeldBySide(side', k, i, t) => Held(k, i, t)
    /\ \A t : SidePends(side', t) => SidePends(side, t)
    /\ side'.mode = "edit" => side'.id # None

LEMMA HeldQuiet ==
    ASSUME PointsQuiet, FoundQuiet, CallsQuiet, SideQuiet, NEW k, NEW i, NEW t, Held(k, i, t)'
    PROVE  Held(k, i, t)
<1>1. \/ HeldIn(pts', k, i, t) \/ HeldIn(found'.pts, k, i, t)
      \/ \E c \in Calls : HeldByCall(call'[c], k, i, t)
      \/ k # None /\ HeldBySide(side', k, i, t)
    BY DEF Held
<1> QED BY <1>1 DEF PointsQuiet, FoundQuiet, CallsQuiet, SideQuiet

LEMMA OnceKept ==
    ASSUME Once, PointsQuiet, FoundQuiet, CallsQuiet, SideQuiet, UNCHANGED typed
    PROVE  Once'
<1>1. \A k, i, t : Held(k, i, t)' => Held(k, i, t)
    BY HeldQuiet
<1>2. (\A k, i, t, l, j : Held(k, i, t) /\ Held(l, j, t) => k = l /\ i = j)'
    BY <1>1 DEF Once
<1>3. (\A k, i, t : Held(k, i, t) =>
          t \in typed /\ ~SidePends(side, t) /\ \A c \in Calls : ~CallPends(call[c], t))'
    BY <1>1 DEF Once, SideQuiet, CallsQuiet
<1>4. (\A t : SidePends(side, t) => t \in typed /\ \A c \in Calls : ~CallPends(call[c], t))'
    BY DEF Once, SideQuiet, CallsQuiet
<1>5. (\A c \in Calls : \A t : CallPends(call[c], t) =>
          t \in typed /\ \A d \in Calls : CallPends(call[d], t) => c = d)'
    BY DEF Once, CallsQuiet
<1> QED BY <1>2, <1>3, <1>4, <1>5 DEF Once, PointsQuiet, SideQuiet

LEMMA PointsFewer ==
    ASSUME Once, pts' \subseteq pts PROVE PointsQuiet
BY DEF Once, PointsQuiet, Held, HeldIn

LEMMA FoundFewer ==
    ASSUME found' = found \/ found' = NothingFound PROVE FoundQuiet
BY DEF FoundQuiet, Held, HeldIn, NothingFound

LEMMA SideSame ==
    ASSUME Once, UNCHANGED side PROVE SideQuiet
BY DEF Once, SideQuiet, Held

\* A call that neither brings points nor will store one is none of the texts'
\* business.
Idles(r) == r.kind \notin {"store", "result"} \/ (r.kind = "store" /\ r.stage = "answered")

LEMMA CallsIdle ==
    ASSUME \A d \in Calls : call'[d] = call[d] \/ Idles(call'[d])
    PROVE  CallsQuiet
<1> SUFFICES ASSUME NEW d \in Calls
             PROVE  /\ \A k, i, t : HeldByCall(call'[d], k, i, t) => Held(k, i, t)
                    /\ \A t : CallPends(call'[d], t) => CallPends(call[d], t)
    BY DEF CallsQuiet
<1>1. CASE call'[d] = call[d]
    BY <1>1 DEF Held
<1>2. CASE Idles(call'[d])
    BY <1>2 DEF Idles, HeldByCall, CallPends
<1> QED BY <1>1, <1>2

LEMMA OnceAdmin ==
    ASSUME Types, Once, AdminNext, UNCHANGED ragVars PROVE Once'
<1>1. pts' \subseteq pts /\ \A d \in Calls : call'[d] = call[d] \/ Idles(call'[d])
    BY AdminAside DEF AdminKinds, Idles
<1>2. UNCHANGED <<side, found, typed>>
    BY DEF ragVars
<1> QED BY <1>1, <1>2, PointsFewer, FoundFewer, SideSame, CallsIdle, OnceKept

LEMMA OnceDropsArrive ==
    ASSUME Types, Once, NEW c \in Calls, DropsArrive(c) PROVE Once'
<1>1. UNCHANGED <<pts, found, typed>> /\ Done(c)
    BY DEF DropsArrive, serverVars
<1>2. CallsQuiet
    BY <1>1, DoneStep, CallsIdle DEF Idles, NoCall
<1>3. SideQuiet
  <2>1. CASE UNCHANGED side
      BY <2>1, SideSame
  <2>2. CASE ~UNCHANGED side
    <3>1. side' = [[side EXCEPT !.col = None] EXCEPT !.dom = None]
        BY <2>2 DEF DropsArrive
    <3>2. /\ side'.col = None /\ side'.mode = side.mode /\ side'.sent = side.sent
          /\ side'.text = side.text /\ side'.id = side.id
        BY <3>1, SideKept DEF Side
    <3> QED BY <3>2 DEF Once, SideQuiet, HeldBySide, SidePends
  <2> QED BY <2>1, <2>2
<1> QED BY <1>1, <1>2, <1>3, PointsFewer, FoundFewer, OnceKept

LEMMA OnceOpenCreate ==
    ASSUME Types, Once, NEW t \in Texts, OpenCreate(t) PROVE Once'
<1> DEFINE s1 == [[side EXCEPT !.mode = "create"] EXCEPT !.col = None]
<1> DEFINE s2 == [[s1 EXCEPT !.dom = None] EXCEPT !.text = t]
<1> DEFINE s3 == [[s2 EXCEPT !.why = "meant"] EXCEPT !.sent = FALSE]
<1>1. s1 \in Side /\ s1.mode = "create"
    BY SideKept DEF Side
<1>2. side' = s3 /\ UNCHANGED <<pts, found, call>> /\ t \notin typed /\ typed' = typed \cup {t}
    BY DEF OpenCreate, serverVars
<1> HIDE DEF s1
<1>3. s2 \in Side /\ s2.mode = "create" /\ s2.text = t
    BY <1>1 DEF Side
<1> HIDE DEF s2
<1>4. s3.mode = "create" /\ s3.text = t
    BY <1>3 DEF Side
<1> HIDE DEF s3
<1>5. side'.mode = "create" /\ side'.text = t
    BY <1>2, <1>4
<1>6. ASSUME NEW k, NEW i, NEW x, Held(k, i, x)' PROVE Held(k, i, x)
    BY <1>2, <1>5, <1>6 DEF Held, HeldBySide
<1>7. ASSUME NEW x, SidePends(side', x) PROVE x = t
    BY <1>5, <1>7 DEF SidePends
<1>8. (\A k, i, x, l, j : Held(k, i, x) /\ Held(l, j, x) => k = l /\ i = j)'
    BY <1>6 DEF Once
<1>9. (\A k, i, x : Held(k, i, x) =>
          x \in typed /\ ~SidePends(side, x) /\ \A c \in Calls : ~CallPends(call[c], x))'
    BY <1>2, <1>6, <1>7 DEF Once
<1>10. (\A x : SidePends(side, x) => x \in typed /\ \A c \in Calls : ~CallPends(call[c], x))'
    BY <1>2, <1>7 DEF Once
<1>11. (\A c \in Calls : \A x : CallPends(call[c], x) =>
          x \in typed /\ \A d \in Calls : CallPends(call[d], x) => c = d)'
    BY <1>2 DEF Once
<1>12. (\A p, o \in pts : p.in = o.in /\ p.id = o.id => p = o)'
    BY <1>2 DEF Once
<1> QED BY <1>5, <1>8, <1>9, <1>10, <1>11, <1>12 DEF Once

LEMMA OnceSide ==
    ASSUME Once, SideQuiet, UNCHANGED <<pts, found, call, typed>> PROVE Once'
<1>1. CallsQuiet
    BY CallsIdle
<1> QED BY <1>1, PointsFewer, FoundFewer, OnceKept

LEMMA OnceChoose ==
    ASSUME Types, Once, NEW k \in Cols, NEW d \in Doms, Choose(k, d) PROVE Once'
<1>1. side' = [[side EXCEPT !.col = k] EXCEPT !.dom = d] /\ UNCHANGED <<pts, found, call, typed>>
    BY DEF Choose, serverVars
<1>2. /\ side'.mode = side.mode /\ side'.sent = side.sent /\ side'.why = side.why
      /\ side'.text = side.text /\ side'.id = side.id /\ side'.col = k
    BY <1>1, SideKept DEF Side
<1>3. side.mode = "edit" => side.col = k
    BY DEF Choose
<1>4. SideQuiet
    BY <1>2, <1>3 DEF Once, SideQuiet, SidePends, HeldBySide, Held
<1> QED BY <1>1, <1>4, OnceSide

LEMMA OnceOpenPoint ==
    ASSUME Types, Once, NEW p \in found.pts, NEW mode \in {"edit", "show"}, OpenPoint(p, mode)
    PROVE  Once'
<1>1. p \in Point /\ p.id # None
    BY FoundPoints, AdminAssumption DEF Point
<1>2. /\ side'.mode = mode /\ side'.id = p.id /\ side'.col = Offered("rag", p.in)
      /\ side'.text = p.text /\ side'.why = p.why
      /\ UNCHANGED <<pts, found, call, typed>>
    BY DEF OpenPoint, serverVars
<1>3. side'.col \in {p.in, None}
    BY <1>2 DEF Offered
<1>4. SideQuiet
    BY <1>1, <1>2, <1>3 DEF SideQuiet, SidePends, HeldBySide, Held, HeldIn
<1> QED BY <1>2, <1>4, OnceSide

LEMMA ClosedIsQuiet ==
    ASSUME Types, side' = [side EXCEPT !.mode = "closed"] PROVE SideQuiet
<1>1. side'.mode = "closed"
    BY SideKept DEF Side
<1> QED BY <1>1 DEF SideQuiet, SidePends, HeldBySide

LEMMA OnceClose ==
    ASSUME Types, Once, Close PROVE Once'
BY ClosedIsQuiet, OnceSide DEF Close, serverVars

LEMMA OnceNarrow ==
    ASSUME Types, Once, NEW i \in Cols \cup {None}, Narrow(i) PROVE Once'
BY SideSame, OnceSide DEF Narrow, serverVars

\* The steps that only move calls about.
LEMMA OnceCalls ==
    ASSUME Once, CallsQuiet, pts' \subseteq pts, found' = found \/ found' = NothingFound,
           UNCHANGED <<side, typed>>
    PROVE  Once'
BY PointsFewer, FoundFewer, SideSame, OnceKept

LEMMA OnceDone ==
    ASSUME Types, Once, NEW c \in Calls, Done(c), pts' \subseteq pts,
           found' = found \/ found' = NothingFound, UNCHANGED <<side, typed>>
    PROVE  Once'
BY DoneStep, CallsIdle, OnceCalls DEF Idles, NoCall

LEMMA OnceVisit ==
    ASSUME Types, Once, NEW v \in Pages, NEW c \in Calls, Visit(v, c) PROVE Once'
<1>1. \A d \in Calls : call'[d] = call[d] \/ Idles(call'[d])
    BY CallsTyped DEF CallIsFunction, Visit, Begin, Idles
<1> QED BY <1>1, CallsIdle, OnceCalls DEF Visit, serverVars, ragVars

LEMMA OncePerformSearch ==
    ASSUME Types, Once, NEW c \in Calls, PerformSearch(c) PROVE Once'
<1>1. Idles(SearchFor)
    BY DEF Idles, SearchFor
<1> QED BY <1>1, TypesPerformSearch, CallsIdle, OnceCalls DEF PerformSearch, serverVars

LEMMA OnceDeletePoint ==
    ASSUME Types, Once, NEW p \in found.pts, NEW c \in Calls, DeletePoint(p, c) PROVE Once'
<1>1. \A d \in Calls : call'[d] = call[d] \/ Idles(call'[d])
    BY TypesDeletePoint DEF Idles
<1> QED BY <1>1, CallsIdle, OnceCalls DEF DeletePoint, serverVars, ragVars

LEMMA OncePointChanged ==
    ASSUME Types, Once, NEW c \in Calls, PointChanged(c) PROVE Once'
<1>1. Idles(SearchFor)
    BY DEF Idles, SearchFor
<1>2. CallsQuiet
    BY <1>1, TypesPointChanged, CallsIdle
<1>3. SideQuiet
    BY ClosedIsQuiet, SideSame DEF PointChanged
<1> QED BY <1>2, <1>3, PointsFewer, FoundFewer, OnceKept DEF PointChanged, serverVars

LEMMA OnceSearchArrives ==
    ASSUME Types, Once, NEW c \in Calls, SearchArrives(c) PROVE Once'
<1>1. CallsQuiet
    BY DoneStep, CallsIdle DEF SearchArrives, Idles, NoCall
<1>2. FoundQuiet
    BY DEF SearchArrives, FoundQuiet, Held, HeldByCall
<1> QED BY <1>1, <1>2, PointsFewer, SideSame, OnceKept DEF SearchArrives, serverVars

LEMMA OnceConfirmDelete ==
    ASSUME Types, Once, NEW sel \in Selection, NEW c \in Calls, ConfirmDelete(sel, c)
    PROVE  Once'
<1>1. \A d \in Calls : call'[d] = call[d] \/ Idles(call'[d])
    BY TypesConfirmDelete DEF Idles
<1> QED BY <1>1, CallsIdle, OnceCalls DEF ConfirmDelete, serverVars, ragVars

LEMMA OnceStartDelete ==
    ASSUME Types, Once, NEW c \in Calls, StartDelete(c) PROVE Once'
<1>1. \A d \in Calls : call'[d] = call[d] \/ Idles(call'[d])
    BY TypesStartDelete DEF Idles
<1> QED BY <1>1, CallsIdle, OnceCalls DEF StartDelete, serverVars, ragVars

LEMMA OnceServeDrop ==
    ASSUME Types, Once, NEW c \in Calls, ServeDrop(c) PROVE Once'
<1>1. call[c] \in DropCall
    BY Sorts DEF Types, BaseTypes, CallTypes, ServeDrop
<1>2. call'[c].kind = "drop"
    BY <1>1, TypesServeDrop DEF DropCall
<1>3. \A d \in Calls : call'[d] = call[d] \/ Idles(call'[d])
    BY <1>2, TypesServeDrop DEF Idles
<1> QED BY <1>3, CallsIdle, OnceCalls DEF ServeDrop, ragVars

LEMMA OnceServeQuery ==
    ASSUME Types, Once, NEW c \in Calls, ServeQuery(c) PROVE Once'
<1>1. \A d \in Calls : d # c => call'[d] = call[d]
    BY TypesServeQuery
<1>2. \/ call'[c].kind \in {"options", "counted"}
      \/ call'[c].kind = "result" /\ call'[c].pts \subseteq pts
    BY TypesServeQuery DEF ServeQuery, Shows
<1>3. CallsQuiet
  <2>1. /\ \A k, i, t : HeldByCall(call'[c], k, i, t) => HeldIn(pts, k, i, t)
        /\ \A t : ~CallPends(call'[c], t)
      BY <1>2 DEF HeldByCall, HeldIn, CallPends
  <2> QED BY <1>1, <2>1 DEF CallsQuiet, Held
<1> QED BY <1>3, OnceCalls DEF ServeQuery, serverVars, ragVars

\* The sidebar's form is sent: what it edits stays the same, and what it would
\* store anew will now be stored by the call.
LEMMA OnceSaveKnowledge ==
    ASSUME Types, Once, NEW c \in Calls, SaveKnowledge(c) PROVE Once'
<1>1. call'[c] = Store /\ \A d \in Calls : d # c => call'[d] = call[d]
    BY TypesSaveKnowledge
<1>2. UNCHANGED <<pts, found, typed>> /\ side.mode # "closed" /\ side.col # None
    BY DEF SaveKnowledge, serverVars
<1>3. /\ side'.mode = side.mode /\ side'.sent = TRUE /\ side'.why = side.why
      /\ side'.text = side.text /\ side'.id = side.id /\ side'.col = side.col
  <2>1. side' = [side EXCEPT !.sent = TRUE]
      BY DEF SaveKnowledge
  <2> QED BY <2>1, SideKept DEF Side
<1>4. SideQuiet
    BY <1>3 DEF Once, SideQuiet, SidePends, HeldBySide, Held
<1>5. Store.kind = "store" /\ Store.in = side.col /\ Store.text = side.text
      /\ Store.stage = "sent"
    BY DEF Store
<1>6. CASE side.mode = "edit"
  <2>1. Store.id = side.id /\ Store.why = side.why /\ side.id # None
      BY <1>6 DEF Store, Once
  <2>2. /\ \A k, i, t : HeldByCall(Store, k, i, t) => Held(k, i, t)
        /\ \A t : ~CallPends(Store, t)
      BY <1>2, <1>5, <1>6, <2>1 DEF HeldByCall, CallPends, Held, HeldBySide
  <2>3. CallsQuiet
      BY <1>1, <2>2 DEF CallsQuiet, Held
  <2> QED BY <1>2, <1>4, <2>3, PointsFewer, FoundFewer, OnceKept
<1>7. CASE side.mode # "edit" /\ ~(side.mode = "create" /\ ~side.sent)
  <2>1. Store.id = None /\ Store.why # "meant"
    <3>1. side.mode \in {"create", "show"} /\ side.sent \in BOOLEAN
        BY <1>2, <1>7, SideKept DEF Side
    <3>2. CASE side.mode = "create"
        BY <1>7, <3>1, <3>2 DEF Store
    <3>3. CASE side.mode = "show"
        BY <3>3 DEF Store
    <3> QED BY <3>1, <3>2, <3>3
  <2>2. /\ \A k, i, t : ~HeldByCall(Store, k, i, t)
        /\ \A t : ~CallPends(Store, t)
      BY <1>5, <2>1 DEF HeldByCall, CallPends
  <2>3. CallsQuiet
      BY <1>1, <2>2 DEF CallsQuiet, Held
  <2> QED BY <1>2, <1>4, <2>3, PointsFewer, FoundFewer, OnceKept
<1>8. CASE side.mode = "create" /\ ~side.sent
  <2>1. Store.id = None
      BY <1>8 DEF Store
  <2>2. \A k, i, t : ~HeldByCall(Store, k, i, t)
      BY <1>5, <2>1 DEF HeldByCall
  <2>3. \A t : CallPends(Store, t) => SidePends(side, t)
      BY <1>5, <1>8 DEF CallPends, SidePends
  <2>4. \A t : ~SidePends(side', t)
      BY <1>3 DEF SidePends
  <2>5. ASSUME NEW k, NEW i, NEW t, Held(k, i, t)' PROVE Held(k, i, t)
      BY <1>1, <1>2, <1>4, <2>2, <2>5 DEF Held, SideQuiet
  <2>6. ASSUME NEW d \in Calls, NEW t, CallPends(call'[d], t)
        PROVE  \/ d = c /\ SidePends(side, t)
               \/ d # c /\ CallPends(call[d], t)
      BY <1>1, <2>3, <2>6
  <2>7. (\A k, i, t, l, j : Held(k, i, t) /\ Held(l, j, t) => k = l /\ i = j)'
      BY <2>5 DEF Once
  <2>8. (\A k, i, t : Held(k, i, t) =>
            t \in typed /\ ~SidePends(side, t) /\ \A d \in Calls : ~CallPends(call[d], t))'
      BY <1>2, <2>4, <2>5, <2>6 DEF Once
  <2>9. (\A t : SidePends(side, t) => t \in typed /\ \A d \in Calls : ~CallPends(call[d], t))'
      BY <2>4
  <2>10. (\A d \in Calls : \A t : CallPends(call[d], t) =>
            t \in typed /\ \A e \in Calls : CallPends(call[e], t) => d = e)'
    <3> SUFFICES ASSUME NEW d \in Calls, NEW t, CallPends(call'[d], t)
                 PROVE  t \in typed /\ \A e \in Calls : CallPends(call'[e], t) => d = e
        BY <1>2
    <3>1. t \in typed
        BY <2>6 DEF Once
    <3>2. ASSUME NEW e \in Calls, CallPends(call'[e], t) PROVE d = e
      <4>1. \/ d = c /\ SidePends(side, t)
            \/ d # c /\ CallPends(call[d], t)
          BY <2>6
      <4>2. \/ e = c /\ SidePends(side, t)
            \/ e # c /\ CallPends(call[e], t)
          BY <2>6, <3>2
      <4> QED BY <4>1, <4>2 DEF Once
    <3> QED BY <3>1, <3>2
  <2>11. (\A p, o \in pts : p.in = o.in /\ p.id = o.id => p = o)'
      BY <1>2 DEF Once
  <2> QED BY <1>3, <1>8, <2>7, <2>8, <2>9, <2>10, <2>11 DEF Once
<1> QED BY <1>6, <1>7, <1>8

\* The point takes over from the call what is held, or is held from now on.
LEMMA OnceServeStore ==
    ASSUME Types, Once, NEW c \in Calls, ServeStore(c) PROVE Once'
<1> DEFINE q == call[c]
<1>1. PICK p \in Point :
        /\ p.in = q.in /\ p.text = q.text /\ p.why = q.why
        /\ q.id # None => p.id = q.id
        /\ pts' = {o \in pts : o.in # p.in \/ o.id # p.id} \cup {p}
        /\ \A d \in Calls : d # c /\ call[d].kind \in {"counted", "purge"} =>
             call'[d].kind = call[d].kind
    BY TypesServeStore
<1>2. /\ call'[c].kind = "store" /\ call'[c].stage = "answered"
      /\ \A d \in Calls : d # c /\ call[d].kind \notin {"counted", "purge"} =>
           call'[d] = call[d]
    BY TypesServeStore
<1>3. UNCHANGED <<side, found, typed>> /\ q.kind = "store" /\ q.stage = "sent"
    BY DEF ServeStore, ragVars
<1>4. \A d \in Calls : call'[d] = call[d] \/ Idles(call'[d])
    BY <1>1, <1>2 DEF Idles
<1>5. CallsQuiet /\ FoundQuiet /\ SideQuiet
    BY <1>3, <1>4, CallsIdle, FoundFewer, SideSame
<1>6. \A o, e \in pts' : o.in = e.in /\ o.id = e.id => o = e
    BY <1>1 DEF Once
<1>7. \A k, i, t : HeldIn(pts', k, i, t) =>
        \/ HeldIn(pts, k, i, t)
        \/ p.why = "meant" /\ k = p.in /\ i = p.id /\ t = p.text
    BY <1>1 DEF HeldIn
<1>8. CASE p.why # "meant" \/ q.id # None
  <2>1. p.why = "meant" => HeldByCall(q, p.in, p.id, p.text)
      BY <1>1, <1>3, <1>8 DEF HeldByCall
  <2>2. PointsQuiet
      BY <1>6, <1>7, <2>1 DEF PointsQuiet, Held
  <2> QED BY <1>3, <1>5, <2>2, OnceKept
<1>9. CASE p.why = "meant" /\ q.id = None
  <2> DEFINE x == p.text
  <2>1. CallPends(q, x)
      BY <1>1, <1>3, <1>9 DEF CallPends
  <2>2. /\ x \in typed /\ ~SidePends(side, x)
        /\ \A k, i : ~Held(k, i, x)
        /\ \A d \in Calls : CallPends(call[d], x) => d = c
      BY <2>1 DEF Once
  <2>3. ASSUME NEW k, NEW i, NEW t, Held(k, i, t)'
        PROVE  Held(k, i, t) \/ (k = p.in /\ i = p.id /\ t = x)
    <3>1. \/ HeldIn(pts', k, i, t) \/ HeldIn(found'.pts, k, i, t)
          \/ \E d \in Calls : HeldByCall(call'[d], k, i, t)
          \/ k # None /\ HeldBySide(side', k, i, t)
        BY <2>3 DEF Held
    <3>2. HeldIn(pts', k, i, t) => Held(k, i, t) \/ (k = p.in /\ i = p.id /\ t = x)
        BY <1>7 DEF Held
    <3> QED BY <1>5, <3>1, <3>2 DEF FoundQuiet, CallsQuiet, SideQuiet
  <2>4. \A d \in Calls : \A t : CallPends(call'[d], t) => CallPends(call[d], t)
      BY <1>5 DEF CallsQuiet
  <2>5. ~CallPends(call'[c], x)
      BY <1>2 DEF CallPends
  <2> HIDE DEF x
  <2>6. (\A k, i, t, l, j : Held(k, i, t) /\ Held(l, j, t) => k = l /\ i = j)'
      BY <2>2, <2>3 DEF Once
  <2>7. (\A k, i, t : Held(k, i, t) =>
            t \in typed /\ ~SidePends(side, t) /\ \A d \in Calls : ~CallPends(call[d], t))'
      BY <1>3, <2>2, <2>3, <2>4, <2>5 DEF Once
  <2>8. (\A t : SidePends(side, t) => t \in typed /\ \A d \in Calls : ~CallPends(call[d], t))'
      BY <1>3, <2>4 DEF Once
  <2>9. (\A d \in Calls : \A t : CallPends(call[d], t) =>
            t \in typed /\ \A e \in Calls : CallPends(call[e], t) => d = e)'
      BY <1>3, <2>4 DEF Once
  <2> QED BY <1>3, <1>6, <2>6, <2>7, <2>8, <2>9 DEF Once
<1> QED BY <1>8, <1>9

LEMMA OnceKnowledge ==
    ASSUME Types, Once, KnowledgeNext PROVE Once'
<1>1. ASSUME NEW c \in Calls, ServePurge(c) \/ KnowledgeFails(c) PROVE Once'
    BY <1>1, OnceDone DEF ServePurge, KnowledgeFails, serverVars, ragVars
<1>2. ASSUME NEW c \in Calls,
             \/ DropsArrive(c) \/ SaveKnowledge(c) \/ PerformSearch(c) \/ PointChanged(c)
             \/ SearchArrives(c) \/ StartDelete(c)
             \/ ServeStore(c) \/ ServeDrop(c) \/ ServeQuery(c)
      PROVE  Once'
    BY <1>2, OnceDropsArrive, OnceSaveKnowledge, OncePerformSearch, OncePointChanged,
       OnceSearchArrives, OnceStartDelete, OnceServeStore, OnceServeDrop, OnceServeQuery
<1>3. ASSUME NEW c \in Calls,
             \/ \E v \in Pages : Visit(v, c)
             \/ \E p \in found.pts : DeletePoint(p, c)
             \/ \E sel \in Selection : ConfirmDelete(sel, c)
      PROVE  Once'
    BY <1>3, OnceVisit, OnceDeletePoint, OnceConfirmDelete
<1>4. ASSUME \/ \E t \in Texts : OpenCreate(t)
             \/ \E k \in Cols, d \in Doms : Choose(k, d)
             \/ \E i \in Cols \cup {None} : Narrow(i)
             \/ \E p \in found.pts, mode \in {"edit", "show"} : OpenPoint(p, mode)
             \/ Close
      PROVE  Once'
    BY <1>4, OnceOpenCreate, OnceChoose, OnceNarrow, OnceOpenPoint, OnceClose
<1> QED BY <1>1, <1>2, <1>3, <1>4 DEF KnowledgeNext, Selection

LEMMA OnceStep ==
    ASSUME Types, Once, [Next]_vars PROVE Once'
<1>1. CASE AdminNext /\ UNCHANGED <<ragVars, dropVars>>
    BY <1>1, OnceAdmin
<1>2. CASE UNCHANGED vars
    BY <1>2, CallsIdle, OnceCalls DEF vars, serverVars, ragVars
<1> QED BY <1>1, <1>2, OnceKnowledge DEF Next

LEMMA OnceInit ==
    ASSUME Init PROVE Once
<1>1. /\ pts = {} /\ found.pts = {} /\ side.mode = "closed"
      /\ \A c \in Calls : call[c].kind = "idle"
    BY DEF Init, AdminInit, NothingFound, NoCall
<1>2. \A k, i, t : ~Held(k, i, t)
    BY <1>1 DEF Held, HeldIn, HeldByCall, HeldBySide
<1>3. \A t : ~SidePends(side, t) /\ \A c \in Calls : ~CallPends(call[c], t)
    BY <1>1 DEF SidePends, CallPends
<1> QED BY <1>1, <1>2, <1>3 DEF Once

LEMMA TypesImplyTypeOK ==
    ASSUME Types PROVE KnowledgeTypeOK
BY DEF Types, BaseTypes, ServerTypes, AdminTypes, TableTypes, NoteTypes, RagTypes, SideTypes,
       FoundTypes, DropTypes, KnowledgeTypeOK, AdminTypeOK

(* No text is stored twice, whatever is saved, edited and deleted in what  *)
(* order -- unless the user submits a form again or submits one that only  *)
(* shows a point (rag.js 199-233): a text that was typed is held as one    *)
(* point, wherever a copy of it is, or is about to be stored by one form   *)
(* or one call.                                                            *)
THEOREM PageStoresOnce == Spec => []NoDuplicates
<1>1. Init => Types /\ Once
    BY TypesInit, OnceInit
<1>2. Types /\ Once /\ [Next]_vars => (Types /\ Once)'
    BY TypesStep, OnceStep
<1>3. Types /\ Once => NoDuplicates
  <2> SUFFICES ASSUME Types, Once, NEW p \in pts, NEW o \in pts, p.text = o.text, p # o,
                      p.why = "meant", o.why = "meant"
               PROVE  FALSE
      BY TypesImplyTypeOK DEF NoDuplicates
  <2>1. Held(p.in, p.id, p.text) /\ Held(o.in, o.id, p.text)
      BY DEF Held, HeldIn
  <2>2. p.in = o.in /\ p.id = o.id
      BY <2>1 DEF Once
  <2> QED BY <2>2 DEF Once
<1> QED BY <1>1, <1>2, <1>3, PTL DEF Spec

-----------------------------------------------------------------------------
(* The tables *)

\* A call that begins while another is under way is noted.
LEMMA BegunAlone ==
    ASSUME Types, NEW c \in Calls, NEW r, Begin(c, r), "overlap" \notin mishap'
    PROVE  OneCall'
<1>1. \A d \in Calls : call[d] = NoCall
    BY DEF Begin, Note
<1>2. \A d \in Calls : d # c => call'[d] = call[d]
    BY CallsTyped DEF CallIsFunction, Begin
<1> QED BY <1>1, <1>2 DEF OneCall

LEMMA OneCallKept ==
    ASSUME OneCall, \A d \in Calls : call'[d] # NoCall => call[d] # NoCall
    PROVE  OneCall'
BY DEF OneCall

LEMMA AdminOneCall ==
    ASSUME Types, OneCall, AdminNext, "overlap" \notin mishap' PROVE OneCall'
<1> USE CallsTyped DEF CallIsFunction
<1>1. ASSUME NEW c \in Calls, ServeAdmin(c) \/ Changed(c) \/ LoadArrives(c) \/ AdminFails(c)
      PROVE  OneCall'
    BY <1>1, OneCallKept DEF ServeAdmin, Answered, Changed, LoadArrives, AdminFails, Done,
                             NoCall
<1>2. ASSUME NEW c \in Calls, NEW k \in Kinds,
             Save(k, c) \/ SwitchTab(k, c) \/ \E i \in Keys : Delete(k, i, c)
      PROVE  OneCall'
    BY <1>2, BegunAlone DEF Save, SwitchTab, Delete, Send
<1>3. ASSUME \/ \E k \in Kinds : Reset(k) \/ Type(k) \/ \E i \in Keys : Open(k, i)
             \/ \E i \in Cols : TypeId(i)
             \/ OthersChange
      PROVE  OneCall'
    BY <1>3, OneCallKept DEF Reset, Type, Open, TypeId, OthersChange
<1> QED BY <1>1, <1>2, <1>3 DEF AdminNext

LEMMA KnowledgeOneCall ==
    ASSUME Types, OneCall, KnowledgeNext, "overlap" \notin mishap' PROVE OneCall'
<1> USE CallsTyped DEF CallIsFunction
<1>1. ASSUME NEW c \in Calls,
             \/ DropsArrive(c) \/ PointChanged(c) \/ SearchArrives(c) \/ StartDelete(c)
             \/ KnowledgeFails(c) \/ ServeDrop(c) \/ ServePurge(c) \/ ServeQuery(c)
      PROVE  OneCall'
  <2>1. call[c] # NoCall
      BY <1>1 DEF DropsArrive, PointChanged, SearchArrives, StartDelete, KnowledgeFails,
                  ServeDrop, ServePurge, ServeQuery, NoCall
  <2>2. \A d \in Calls : d # c => call'[d] = call[d]
      BY <1>1, DoneStep, TypesPointChanged, TypesStartDelete, TypesServeDrop, TypesServeQuery
      DEF DropsArrive, SearchArrives, KnowledgeFails, ServePurge
  <2> QED BY <2>1, <2>2, OneCallKept
<1>2. ASSUME NEW c \in Calls, ServeStore(c) PROVE OneCall'
  <2>1. call[c] # NoCall
      BY <1>2 DEF ServeStore, NoCall
  <2>2. \A d \in Calls : d # c /\ call[d].kind \notin {"counted", "purge"} =>
          call'[d] = call[d]
      BY <1>2, TypesServeStore
  <2>3. NoCall.kind = "idle"
      BY DEF NoCall
  <2>4. \A d \in Calls : d # c /\ call[d] = NoCall => call'[d] = NoCall
      BY <2>2, <2>3
  <2> QED BY <2>1, <2>4, OneCallKept
<1>3. ASSUME NEW c \in Calls,
             \/ SaveKnowledge(c) \/ PerformSearch(c)
             \/ \E v \in Pages : Visit(v, c)
             \/ \E p \in found.pts : DeletePoint(p, c)
             \/ \E sel \in Selection : ConfirmDelete(sel, c)
      PROVE  OneCall'
    BY <1>3, BegunAlone DEF SaveKnowledge, PerformSearch, Visit, DeletePoint, ConfirmDelete,
                            Send
<1>4. ASSUME \/ \E t \in Texts : OpenCreate(t)
             \/ \E k \in Cols, d \in Doms : Choose(k, d)
             \/ \E i \in Cols \cup {None} : Narrow(i)
             \/ \E p \in found.pts, mode \in {"edit", "show"} : OpenPoint(p, mode)
             \/ Close
      PROVE  OneCall'
    BY <1>4, OneCallKept DEF OpenCreate, Choose, Narrow, OpenPoint, Close
<1> QED BY <1>1, <1>2, <1>3, <1>4 DEF KnowledgeNext, Selection

LEMMA NotesStay ==
    ASSUME [Next]_vars PROVE mishap \subseteq mishap'
<1>1. ASSUME NEW c \in Calls,
             \/ ServeAdmin(c) \/ Changed(c) \/ LoadArrives(c) \/ AdminFails(c)
             \/ \E k \in Kinds : \/ Save(k, c) \/ SwitchTab(k, c)
                                 \/ \E i \in Keys : Delete(k, i, c)
      PROVE  mishap \subseteq mishap'
    BY <1>1 DEF ServeAdmin, Changed, LoadArrives, AdminFails, Save, SwitchTab, Delete, Send,
                Begin, Note
<1>2. ASSUME \/ \E k \in Kinds : Reset(k) \/ Type(k) \/ \E i \in Keys : Open(k, i)
             \/ \E i \in Cols : TypeId(i)
             \/ OthersChange
      PROVE  mishap \subseteq mishap'
    BY <1>2 DEF Reset, Type, Open, TypeId, OthersChange, Note
<1>3. ASSUME NEW c \in Calls,
             \/ DropsArrive(c) \/ PointChanged(c) \/ SearchArrives(c) \/ StartDelete(c)
             \/ KnowledgeFails(c) \/ ServeDrop(c) \/ ServePurge(c) \/ ServeQuery(c)
             \/ ServeStore(c)
      PROVE  mishap \subseteq mishap'
    BY <1>3 DEF DropsArrive, PointChanged, SearchArrives, StartDelete, KnowledgeFails,
                ServeDrop, ServePurge, ServeQuery, ServeStore, Note
<1>4. ASSUME NEW c \in Calls,
             \/ SaveKnowledge(c) \/ PerformSearch(c)
             \/ \E v \in Pages : Visit(v, c)
             \/ \E p \in found.pts : DeletePoint(p, c)
             \/ \E sel \in Selection : ConfirmDelete(sel, c)
      PROVE  mishap \subseteq mishap'
    BY <1>4 DEF SaveKnowledge, PerformSearch, Visit, DeletePoint, ConfirmDelete, Send, Begin,
                Note
<1>5. ASSUME \/ \E t \in Texts : OpenCreate(t)
             \/ \E k \in Cols, d \in Doms : Choose(k, d)
             \/ \E i \in Cols \cup {None} : Narrow(i)
             \/ \E p \in found.pts, mode \in {"edit", "show"} : OpenPoint(p, mode)
             \/ Close
      PROVE  mishap \subseteq mishap'
    BY <1>5 DEF OpenCreate, Choose, Narrow, OpenPoint, Close
<1>6. CASE UNCHANGED vars
    BY <1>6 DEF vars
<1> QED BY <1>1, <1>2, <1>3, <1>4, <1>5, <1>6 DEF Next, AdminNext, KnowledgeNext, Selection

\* The rows stay, and so does what will renew their tables.
RowsQuiet ==
    /\ UNCHANGED <<rows, table>>
    /\ \A d \in Calls, k \in Kinds : Renews(call[d], k) => Renews(call'[d], k)
    /\ \A d \in Calls : call'[d].kind = "list" => call'[d] = call[d]

LEMMA RowsKept ==
    ASSUME RowsShown, RowsQuiet PROVE RowsShown'
BY DEF RowsShown, RowsQuiet

LEMMA RowsKnowledge ==
    ASSUME Types, RowsShown, KnowledgeNext, UNCHANGED rows PROVE RowsShown'
<1>1. RowsQuiet
    BY KnowledgeAside DEF RowsQuiet, Renews, AdminKinds, adminVars
<1> QED BY <1>1, RowsKept

LEMMA KnowledgeKeepsRows ==
    ASSUME KnowledgeNext PROVE UNCHANGED rows
<1>1. ASSUME NEW c \in Calls,
             \/ DropsArrive(c) \/ PointChanged(c) \/ SearchArrives(c) \/ StartDelete(c)
             \/ KnowledgeFails(c) \/ ServeDrop(c) \/ ServePurge(c) \/ ServeQuery(c)
             \/ ServeStore(c)
      PROVE  UNCHANGED rows
    BY <1>1 DEF DropsArrive, PointChanged, SearchArrives, StartDelete, KnowledgeFails,
                ServeDrop, ServePurge, ServeQuery, ServeStore, serverVars
<1>2. ASSUME NEW c \in Calls,
             \/ SaveKnowledge(c) \/ PerformSearch(c)
             \/ \E v \in Pages : Visit(v, c)
             \/ \E p \in found.pts : DeletePoint(p, c)
             \/ \E sel \in Selection : ConfirmDelete(sel, c)
      PROVE  UNCHANGED rows
    BY <1>2 DEF SaveKnowledge, PerformSearch, Visit, DeletePoint, ConfirmDelete, serverVars
<1>3. ASSUME \/ \E t \in Texts : OpenCreate(t)
             \/ \E k \in Cols, d \in Doms : Choose(k, d)
             \/ \E i \in Cols \cup {None} : Narrow(i)
             \/ \E p \in found.pts, mode \in {"edit", "show"} : OpenPoint(p, mode)
             \/ Close
      PROVE  UNCHANGED rows
    BY <1>3 DEF OpenCreate, Choose, Narrow, OpenPoint, Close, serverVars
<1> QED BY <1>1, <1>2, <1>3 DEF KnowledgeNext, Selection

\* A call that takes a free slot renews nothing yet.
LEMMA RowsBegun ==
    ASSUME Types, RowsShown, NEW c \in Calls, call[c] = NoCall, call'[c].kind # "list",
           \A d \in Calls : d # c => call'[d] = call[d], UNCHANGED <<rows, table>>
    PROVE  RowsShown'
<1>1. \A k \in Kinds : ~Renews(call[c], k)
    BY DEF Renews, NoCall
<1>2. RowsQuiet
    BY <1>1 DEF RowsQuiet
<1> QED BY <1>2, RowsKept

LEMMA RowsSent ==
    ASSUME Types, RowsShown, NEW k \in Kinds, NEW c \in Calls,
           Save(k, c) \/ SwitchTab(k, c) \/ \E i \in Keys : Delete(k, i, c)
    PROVE  RowsShown'
<1>1. CASE Save(k, c)
  <2>1. call[c] = NoCall /\ UNCHANGED <<rows, table>>
      BY <1>1 DEF Save, Send, Begin, serverVars
  <2>2. call'[c].kind = "save" /\ \A d \in Calls : d # c => call'[d] = call[d]
      BY <1>1, TypesSave
  <2> QED BY <2>1, <2>2, RowsBegun
<1>2. CASE SwitchTab(k, c)
  <2>1. call[c] = NoCall /\ UNCHANGED <<rows, table>>
      BY <1>2 DEF SwitchTab, Send, Begin, serverVars, adminVars
  <2>2. call'[c] = LoadOf(k) /\ \A d \in Calls : d # c => call'[d] = call[d]
      BY <1>2, TypesSwitchTab
  <2>3. call'[c].kind # "list"
      BY <2>2 DEF LoadOf
  <2> QED BY <2>1, <2>2, <2>3, RowsBegun
<1>3. ASSUME NEW i \in Keys, Delete(k, i, c) PROVE RowsShown'
  <2>1. call[c] = NoCall /\ UNCHANGED <<rows, table>>
      BY <1>3 DEF Delete, Send, Begin, serverVars, adminVars
  <2>2. call'[c].kind = "delete" /\ \A d \in Calls : d # c => call'[d] = call[d]
      BY <1>3, TypesDelete
  <2> QED BY <2>1, <2>2, RowsBegun
<1> QED BY <1>1, <1>2, <1>3

\* A row of kind k changes while its only call is answered.
LEMMA RowsChange ==
    ASSUME OneCall, RowsShown, NEW c \in Calls, NEW k \in Kinds, call[c] # NoCall,
           Renews(call'[c], k), call'[c].kind # "list",
           \A j \in Kinds : ~Renews(call[c], j),
           \A d \in Calls : d # c => call'[d] = call[d], UNCHANGED table,
           \A j \in Kinds : j # k => rows' \cap KeysOf[j] = rows \cap KeysOf[j]
    PROVE  RowsShown'
<1>1. \A d \in Calls : d # c => call[d] = NoCall
    BY DEF OneCall
<1>2. NoCall.kind # "list"
    BY DEF NoCall
<1>3. (\A d \in Calls : call[d].kind = "list" => call[d].ids = rows \cap KeysOf[call[d].of])'
    BY <1>1, <1>2
<1>4. (\A j \in Kinds : \/ table[j] = NotLoaded
                        \/ table[j] = rows \cap KeysOf[j]
                        \/ \E d \in Calls : Renews(call[d], j))'
  <2> SUFFICES ASSUME NEW j \in Kinds
               PROVE  \/ table'[j] = NotLoaded
                      \/ table'[j] = rows' \cap KeysOf[j]
                      \/ \E d \in Calls : Renews(call'[d], j)
      OBVIOUS
  <2>1. CASE j = k
      BY <2>1
  <2>2. CASE j # k
      BY <2>2 DEF RowsShown
  <2> QED BY <2>1, <2>2
<1> QED BY <1>3, <1>4 DEF RowsShown

LEMMA KeysApart ==
    ASSUME NEW k \in Kinds, NEW j \in Kinds, j # k PROVE KeysOf[k] \cap KeysOf[j] = {}
BY KindsFacts, AdminAssumption

LEMMA RowsServed ==
    ASSUME Types, OneCall, RowsShown, NEW c \in Calls, ServeAdmin(c) PROVE RowsShown'
<1> DEFINE q == call[c]
<1>1. q \in Call /\ Fits(q) /\ CallIsFunction
    BY CallsTyped DEF CallIsFunction
<1>2. UNCHANGED table /\ q # NoCall /\ q.stage = "sent"
    BY DEF ServeAdmin, adminVars, NoCall
<1>3. \A d \in Calls : d # c => call'[d] = call[d]
    BY TypesServeAdmin
<1>4. CASE q.kind = "save"
  <2>1. Answered(c) /\ (UNCHANGED rows \/ Create(q)) /\ q \in SaveCall
      BY <1>1, <1>4, Sorts DEF ServeAdmin, serverVars
  <2>2. call'[c] = [q EXCEPT !.stage = "answered"]
      BY <1>4, <2>1, AnswerStep
  <2>3. q.of \in Kinds /\ Renews(call'[c], q.of) /\ call'[c].kind = "save"
      BY <1>4, <2>1, <2>2 DEF SaveCall, Renews
  <2>4. \A j \in Kinds : ~Renews(q, j)
      BY <1>2, <1>4 DEF Renews
  <2>5. \A j \in Kinds : j # q.of => rows' \cap KeysOf[j] = rows \cap KeysOf[j]
      BY <2>1, <2>3, KeysApart DEF Create
  <2> QED BY <1>2, <1>3, <2>3, <2>4, <2>5, RowsChange
<1>5. CASE q.kind = "delete"
  <2>1. Answered(c) /\ Remove(q.id) /\ q \in DeleteCall /\ q.id \in KeysOf[q.of]
      BY <1>1, <1>5, Sorts DEF ServeAdmin, Fits
  <2>2. call'[c] = [q EXCEPT !.stage = "answered"]
      BY <1>5, <2>1, AnswerStep
  <2>3. q.of \in Kinds /\ Renews(call'[c], q.of) /\ call'[c].kind = "delete"
      BY <1>5, <2>1, <2>2 DEF DeleteCall, Renews
  <2>4. \A j \in Kinds : ~Renews(q, j)
      BY <1>2, <1>5 DEF Renews
  <2>5. \A j \in Kinds : j # q.of => rows' \cap KeysOf[j] = rows \cap KeysOf[j]
      BY <2>1, <2>3, KeysApart DEF Remove
  <2> QED BY <1>2, <1>3, <2>3, <2>4, <2>5, RowsChange
<1>6. CASE q.kind = "load"
  <2>1. UNCHANGED rows
      BY <1>6 DEF ServeAdmin, serverVars
  <2>2. /\ call'[c].kind = "list" /\ call'[c].of = q.of
        /\ call'[c].ids = rows \cap KeysOf[q.of]
      BY <1>1, <1>6 DEF ServeAdmin, CallIsFunction
  <2>3. \A j \in Kinds : Renews(q, j) => Renews(call'[c], j)
      BY <2>2 DEF Renews
  <2>4. \A j \in Kinds, d \in Calls : Renews(call[d], j) => Renews(call'[d], j)
      BY <1>3, <2>3
  <2> QED BY <1>2, <1>3, <2>1, <2>2, <2>4 DEF RowsShown
<1> QED BY <1>4, <1>5, <1>6 DEF ServeAdmin

LEMMA RowsAnswered ==
    ASSUME Types, RowsShown, NEW c \in Calls, "lost" \notin mishap',
           Changed(c) \/ LoadArrives(c) \/ AdminFails(c)
    PROVE  RowsShown'
<1>1. CASE Changed(c)
  <2>1. /\ call'[c] = LoadOf(call[c].of) /\ UNCHANGED <<rows, table>>
        /\ \A d \in Calls : d # c => call'[d] = call[d]
      BY <1>1, TypesChanged DEF Changed, serverVars
  <2>2. call'[c].kind = "load" /\ call'[c].of = call[c].of
      BY <2>1 DEF LoadOf
  <2>3. \A k \in Kinds : Renews(call[c], k) => Renews(call'[c], k)
      BY <2>2 DEF Renews
  <2>4. RowsQuiet
      BY <2>1, <2>2, <2>3 DEF RowsQuiet
  <2> QED BY <2>4, RowsKept
<1>2. CASE LoadArrives(c)
  <2>1. /\ call[c].of \in Kinds /\ table'[call[c].of] = call[c].ids
        /\ \A k \in Kinds : k # call[c].of => table'[k] = table[k]
      BY <1>2, TypesLoadArrives
  <2>2. call'[c] = NoCall /\ UNCHANGED rows /\ \A d \in Calls : d # c => call'[d] = call[d]
      BY <1>2, DoneStep DEF LoadArrives, serverVars
  <2>3. call[c].ids = rows \cap KeysOf[call[c].of]
      BY <1>2 DEF RowsShown, LoadArrives
  <2>4. \A k \in Kinds : k # call[c].of => ~Renews(call[c], k)
      BY DEF Renews
  <2>5. NoCall.kind # "list"
      BY DEF NoCall
  <2>6. (\A d \in Calls : call[d].kind = "list" => call[d].ids = rows \cap KeysOf[call[d].of])'
      BY <2>2, <2>5 DEF RowsShown
  <2>7. ASSUME NEW k \in Kinds
        PROVE  \/ table'[k] = NotLoaded
               \/ table'[k] = rows' \cap KeysOf[k]
               \/ \E d \in Calls : Renews(call'[d], k)
    <3>1. CASE k = call[c].of
        BY <2>1, <2>2, <2>3, <3>1
    <3>2. CASE k # call[c].of
        BY <2>1, <2>2, <2>4, <3>2 DEF RowsShown
    <3> QED BY <3>1, <3>2
  <2> QED BY <2>6, <2>7 DEF RowsShown
<1>3. CASE AdminFails(c)
  <2>1. ~(call[c].kind \in {"load", "list"} \/ call[c].stage = "answered")
      BY <1>3 DEF AdminFails, Note
  <2>2. \A k \in Kinds : ~Renews(call[c], k)
      BY <2>1 DEF Renews
  <2>3. call'[c] = NoCall /\ \A d \in Calls : d # c => call'[d] = call[d]
      BY <1>3, DoneStep DEF AdminFails
  <2>4. UNCHANGED <<rows, table>>
      BY <1>3 DEF AdminFails, serverVars, adminVars
  <2>5. NoCall.kind # "list"
      BY DEF NoCall
  <2>6. RowsQuiet
      BY <2>2, <2>3, <2>4, <2>5 DEF RowsQuiet
  <2> QED BY <2>6, RowsKept
<1> QED BY <1>1, <1>2, <1>3

LEMMA RowsAdmin ==
    ASSUME Types, OneCall, RowsShown, AdminNext,
           "lost" \notin mishap', "elsewhere" \notin mishap'
    PROVE  RowsShown'
<1>1. ASSUME NEW c \in Calls, ServeAdmin(c) \/ Changed(c) \/ LoadArrives(c) \/ AdminFails(c)
      PROVE  RowsShown'
    BY <1>1, RowsServed, RowsAnswered
<1>2. ASSUME \/ \E k \in Kinds : Reset(k) \/ Type(k) \/ \E i \in Keys : Open(k, i)
             \/ \E i \in Cols : TypeId(i)
      PROVE  RowsShown'
  <2>1. UNCHANGED <<rows, table, call>>
      BY <1>2 DEF Reset, Type, Open, TypeId, serverVars
  <2> QED BY <2>1, RowsKept DEF RowsQuiet
<1>3. ~OthersChange
    BY DEF OthersChange, Note
<1> QED BY <1>1, <1>2, <1>3, RowsSent DEF AdminNext

\* The points stay, and so does what will search for them again.
LEMMA PointsKept ==
    ASSUME PointsShown, UNCHANGED <<pts, found>>,
           \A d \in Calls : Searches(call[d]) => Searches(call'[d]),
           \A d \in Calls : call'[d].kind = "result" => call'[d] = call[d]
    PROVE  PointsShown'
BY DEF PointsShown, Shows

\* The same when the search table is emptied.
LEMMA PointsEmptied ==
    ASSUME PointsShown, UNCHANGED pts, found' = NothingFound,
           \A d \in Calls : call'[d].kind = "result" => call'[d] = call[d]
    PROVE  PointsShown'
BY DEF PointsShown, Shows

\* A call about a point is answered: a search will follow.
LEMMA PointsServed ==
    ASSUME OneCall, NEW c \in Calls, call[c] # NoCall, Searches(call'[c]),
           \A d \in Calls : d # c /\ call[d] = NoCall => call'[d] = NoCall
    PROVE  PointsShown'
<1>1. \A d \in Calls : d # c => call'[d] = NoCall
    BY DEF OneCall
<1>2. NoCall.kind # "result" /\ call'[c].kind # "result"
    BY DEF NoCall, Searches
<1>3. \A d \in Calls : call'[d].kind # "result"
    BY <1>1, <1>2
<1> QED BY <1>3 DEF PointsShown

LEMMA PointsAdmin ==
    ASSUME Types, PointsShown, AdminNext, UNCHANGED ragVars, mishap' = {} PROVE PointsShown'
<1>1. UNCHANGED <<pts, found>>
    BY AdminAside DEF ragVars
<1>2. \A d \in Calls : /\ Searches(call[d]) => Searches(call'[d])
                       /\ call'[d].kind = "result" => call'[d] = call[d]
    BY AdminAside DEF AdminKinds, Searches
<1> QED BY <1>1, <1>2, PointsKept

\* The calls that begin.
LEMMA PointsBegun ==
    ASSUME Types, PointsShown, NEW c \in Calls, call[c] = NoCall, call'[c].kind # "result",
           \A d \in Calls : d # c => call'[d] = call[d],
           UNCHANGED pts, found' = found \/ found' = NothingFound
    PROVE  PointsShown'
<1>1. ~Searches(call[c])
    BY DEF NoCall, Searches
<1> QED BY <1>1, PointsKept, PointsEmptied

LEMMA PointsSent ==
    ASSUME Types, PointsShown, NEW c \in Calls,
           \/ SaveKnowledge(c) \/ PerformSearch(c)
           \/ \E v \in Pages : Visit(v, c)
           \/ \E p \in found.pts : DeletePoint(p, c)
           \/ \E sel \in Selection : ConfirmDelete(sel, c)
    PROVE  PointsShown'
<1>1. CASE SaveKnowledge(c)
  <2>1. Store.kind = "store"
      BY DEF Store
  <2>2. call[c] = NoCall /\ UNCHANGED <<pts, found>>
      BY <1>1 DEF SaveKnowledge, Send, Begin, serverVars
  <2>3. call'[c] = Store /\ \A d \in Calls : d # c => call'[d] = call[d]
      BY <1>1, TypesSaveKnowledge
  <2> QED BY <2>1, <2>2, <2>3, PointsBegun
<1>2. CASE PerformSearch(c)
  <2>1. SearchFor.kind = "search"
      BY DEF SearchFor
  <2>2. call[c] = NoCall /\ UNCHANGED pts /\ found' = NothingFound
      BY <1>2 DEF PerformSearch, Send, Begin, serverVars
  <2>3. call'[c] = SearchFor /\ \A d \in Calls : d # c => call'[d] = call[d]
      BY <1>2, TypesPerformSearch
  <2> QED BY <2>1, <2>2, <2>3, PointsBegun
<1>3. ASSUME NEW v \in Pages, Visit(v, c) PROVE PointsShown'
  <2>1. call[c] = NoCall /\ UNCHANGED <<pts, found>>
      BY <1>3 DEF Visit, Begin, serverVars, ragVars
  <2>2. call'[c].kind = "drops" /\ \A d \in Calls : d # c => call'[d] = call[d]
      BY <1>3, CallsTyped DEF CallIsFunction, Visit, Begin
  <2> QED BY <2>1, <2>2, PointsBegun
<1>4. ASSUME NEW p \in found.pts, DeletePoint(p, c) PROVE PointsShown'
  <2>1. call[c] = NoCall /\ UNCHANGED <<pts, found>>
      BY <1>4 DEF DeletePoint, Send, Begin, serverVars, ragVars
  <2>2. call'[c].kind = "drop" /\ \A d \in Calls : d # c => call'[d] = call[d]
      BY <1>4, TypesDeletePoint
  <2> QED BY <2>1, <2>2, PointsBegun
<1>5. ASSUME NEW sel \in Selection, ConfirmDelete(sel, c) PROVE PointsShown'
  <2>1. call[c] = NoCall /\ UNCHANGED <<pts, found>>
      BY <1>5 DEF ConfirmDelete, Send, Begin, serverVars, ragVars
  <2>2. call'[c].kind = "count" /\ \A d \in Calls : d # c => call'[d] = call[d]
      BY <1>5, TypesConfirmDelete
  <2> QED BY <2>1, <2>2, PointsBegun
<1> QED BY <1>1, <1>2, <1>3, <1>4, <1>5

\* The calls that end, and those the server answers with no point changed.
LEMMA PointsEnded ==
    ASSUME Types, PointsShown, NEW c \in Calls, mishap' = {},
           DropsArrive(c) \/ ServePurge(c) \/ KnowledgeFails(c)
    PROVE  PointsShown'
<1>1. call'[c] = NoCall /\ \A d \in Calls : d # c => call'[d] = call[d]
    BY DoneStep DEF DropsArrive, ServePurge, KnowledgeFails
<1>2. ~Searches(call[c])
    BY DEF DropsArrive, ServePurge, KnowledgeFails, Note, Searches
<1>3. UNCHANGED pts
    BY DEF DropsArrive, ServePurge, KnowledgeFails, Note, serverVars
<1>4. found' = found \/ found' = NothingFound
    BY DEF DropsArrive, ServePurge, KnowledgeFails, ragVars
<1>5. NoCall.kind # "result"
    BY DEF NoCall
<1> QED BY <1>1, <1>2, <1>3, <1>4, <1>5, PointsKept, PointsEmptied

LEMMA PointsSearched ==
    ASSUME Types, PointsShown, NEW c \in Calls, SearchArrives(c) PROVE PointsShown'
<1>1. call'[c] = NoCall /\ \A d \in Calls : d # c => call'[d] = call[d]
    BY DoneStep DEF SearchArrives
<1>2. call[c].pts = Shows(call[c].by)
    BY DEF PointsShown, SearchArrives
<1>3. UNCHANGED pts /\ found'.pts = call[c].pts /\ found'.by = call[c].by
    BY DEF SearchArrives, serverVars
<1>4. NoCall.kind # "result"
    BY DEF NoCall
<1> QED BY <1>1, <1>2, <1>3, <1>4 DEF PointsShown, Shows

LEMMA PointsQueried ==
    ASSUME Types, PointsShown, NEW c \in Calls, ServeQuery(c) PROVE PointsShown'
<1>1. \A d \in Calls : d # c => call'[d] = call[d]
    BY TypesServeQuery
<1>2. UNCHANGED <<pts, found>> /\ ~Searches(call[c])
    BY DEF ServeQuery, Searches, serverVars, ragVars
<1>3. call'[c].kind = "result" => call'[c].pts = Shows(call'[c].by)
    BY TypesServeQuery DEF ServeQuery
<1>4. (\A d \in Calls : call[d].kind = "result" => call[d].pts = Shows(call[d].by))'
    BY <1>1, <1>2, <1>3 DEF PointsShown, Shows
<1>5. (\/ found = NothingFound
       \/ found.pts = Shows(found.by)
       \/ \E d \in Calls : Searches(call[d]))'
    BY <1>1, <1>2 DEF PointsShown, Shows
<1> QED BY <1>4, <1>5 DEF PointsShown

LEMMA PointsChanging ==
    ASSUME Types, OneCall, PointsShown, NEW c \in Calls,
           PointChanged(c) \/ StartDelete(c) \/ ServeStore(c) \/ ServeDrop(c)
    PROVE  PointsShown'
<1>1. CASE PointChanged(c)
  <2>1. SearchFor.kind = "search"
      BY DEF SearchFor
  <2>2. call'[c] = SearchFor /\ \A d \in Calls : d # c => call'[d] = call[d]
      BY <1>1, TypesPointChanged
  <2>3. UNCHANGED pts /\ found' = NothingFound
      BY <1>1 DEF PointChanged, serverVars
  <2> QED BY <2>1, <2>2, <2>3, PointsEmptied
<1>2. CASE StartDelete(c)
  <2>1. ~Searches(call[c]) /\ UNCHANGED <<pts, found>>
      BY <1>2 DEF StartDelete, Searches, serverVars, ragVars
  <2>2. call'[c].kind = "purge" /\ \A d \in Calls : d # c => call'[d] = call[d]
      BY <1>2, TypesStartDelete
  <2> QED BY <2>1, <2>2, PointsKept
<1>3. CASE ServeStore(c)
  <2>1. call[c] # NoCall
      BY <1>3 DEF ServeStore, NoCall
  <2>2. /\ call'[c].kind = "store" /\ call'[c].stage = "answered"
        /\ \A d \in Calls : d # c /\ call[d].kind \notin {"counted", "purge"} =>
             call'[d] = call[d]
      BY <1>3, TypesServeStore
  <2>3. NoCall.kind = "idle"
      BY DEF NoCall
  <2>4. \A d \in Calls : d # c /\ call[d] = NoCall => call'[d] = NoCall
      BY <2>2, <2>3
  <2>5. Searches(call'[c])
      BY <2>2 DEF Searches
  <2> QED BY <2>1, <2>4, <2>5, PointsServed
<1>4. CASE ServeDrop(c)
  <2>1. call[c] # NoCall /\ call[c] \in DropCall
      BY <1>4, CallsTyped, Sorts DEF CallIsFunction, ServeDrop, NoCall
  <2>2. /\ call'[c] = [call[c] EXCEPT !.stage = "answered"]
        /\ \A d \in Calls : d # c => call'[d] = call[d]
      BY <1>4, TypesServeDrop
  <2>3. Searches(call'[c])
      BY <2>1, <2>2 DEF Searches, DropCall
  <2> QED BY <2>1, <2>2, <2>3, PointsServed
<1> QED BY <1>1, <1>2, <1>3, <1>4

LEMMA PointsKnowledge ==
    ASSUME Types, OneCall, PointsShown, KnowledgeNext, mishap' = {} PROVE PointsShown'
<1>1. ASSUME NEW c \in Calls,
             \/ DropsArrive(c) \/ PointChanged(c) \/ SearchArrives(c) \/ StartDelete(c)
             \/ KnowledgeFails(c) \/ ServeDrop(c) \/ ServePurge(c) \/ ServeQuery(c)
             \/ ServeStore(c)
      PROVE  PointsShown'
    BY <1>1, PointsEnded, PointsSearched, PointsQueried, PointsChanging
<1>2. ASSUME \/ \E t \in Texts : OpenCreate(t)
             \/ \E k \in Cols, d \in Doms : Choose(k, d)
             \/ \E i \in Cols \cup {None} : Narrow(i)
             \/ \E p \in found.pts, mode \in {"edit", "show"} : OpenPoint(p, mode)
             \/ Close
      PROVE  PointsShown'
  <2>1. UNCHANGED <<pts, found, call>>
      BY <1>2 DEF OpenCreate, Choose, Narrow, OpenPoint, Close, serverVars
  <2> QED BY <2>1, PointsKept
<1> QED BY <1>1, <1>2, PointsSent DEF KnowledgeNext, Selection

LEMMA TablesStep ==
    ASSUME Types, Tables, [Next]_vars PROVE Tables'
<1>1. mishap \subseteq mishap'
    BY NotesStay
<1>2. CASE AdminNext /\ UNCHANGED <<ragVars, dropVars>>
  <2>1. ASSUME mishap' \subseteq {"emptied"} PROVE OneCall' /\ RowsShown'
    <3>1. OneCall /\ RowsShown
        BY <1>1, <2>1 DEF Tables
    <3>2. /\ "overlap" \notin mishap' /\ "lost" \notin mishap'
          /\ "elsewhere" \notin mishap'
        BY <2>1
    <3> QED BY <1>2, <3>1, <3>2, AdminOneCall, RowsAdmin
  <2>2. ASSUME mishap' = {} PROVE PointsShown'
    <3>1. PointsShown
        BY <1>1, <2>2 DEF Tables
    <3> QED BY <1>2, <2>2, <3>1, PointsAdmin
  <2> QED BY <2>1, <2>2 DEF Tables
<1>3. CASE KnowledgeNext
  <2>1. ASSUME mishap' \subseteq {"emptied"} PROVE OneCall' /\ RowsShown'
    <3>1. OneCall /\ RowsShown
        BY <1>1, <2>1 DEF Tables
    <3>2. "overlap" \notin mishap'
        BY <2>1
    <3> QED BY <1>3, <3>1, <3>2, KnowledgeOneCall, RowsKnowledge, KnowledgeKeepsRows
  <2>2. ASSUME mishap' = {} PROVE PointsShown'
    <3>1. OneCall /\ PointsShown
        BY <1>1, <2>2 DEF Tables
    <3> QED BY <1>3, <2>2, <3>1, PointsKnowledge
  <2> QED BY <2>1, <2>2 DEF Tables
<1>4. CASE UNCHANGED vars
  <2>1. UNCHANGED <<mishap, rows, table, call, pts, found>>
      BY <1>4 DEF vars, serverVars, adminVars, ragVars
  <2>2. OneCall => OneCall'
      BY <2>1 DEF OneCall
  <2>3. RowsShown => RowsShown'
      BY <2>1, RowsKept DEF RowsQuiet
  <2>4. PointsShown => PointsShown'
      BY <2>1, PointsKept
  <2> QED BY <2>1, <2>2, <2>3, <2>4 DEF Tables
<1> QED BY <1>2, <1>3, <1>4 DEF Next

LEMMA TablesInit ==
    ASSUME Init PROVE Tables
<1>1. /\ \A c \in Calls : call[c] = NoCall
      /\ \A k \in Kinds : table[k] = NotLoaded
      /\ found = NothingFound
    BY DEF Init, AdminInit
<1>2. NoCall.kind # "list" /\ NoCall.kind # "result"
    BY DEF NoCall
<1> QED BY <1>1, <1>2 DEF Tables, OneCall, RowsShown, PointsShown

(* Once every call has been answered the tables that were loaded, the      *)
(* search table among them, show what the server has -- unless calls       *)
(* overlapped or were lost, or the data changed from another page          *)
(* (admin.js 79-101, 137-144; rag.js 222-245): until then the one call     *)
(* under way will bring what is missing.                                   *)
THEOREM PageTablesCurrent == Spec => []TablesCurrent
<1>1. Init => Types /\ Tables
    BY TypesInit, TablesInit
<1>2. Types /\ Tables /\ [Next]_vars => (Types /\ Tables)'
    BY TypesStep, TablesStep
<1>3. Types /\ Tables => TablesCurrent
  <2> SUFFICES ASSUME Tables, mishap \subseteq {"emptied"}, \A c \in Calls : call[c] = NoCall
               PROVE  /\ \A k \in Kinds : table[k] # NotLoaded => table[k] = rows \cap KeysOf[k]
                      /\ mishap = {} /\ found # NothingFound =>
                           found.pts = {p \in pts : found.by \in {None, p.in}}
      BY DEF TablesCurrent, AdminTablesCurrent
  <2>1. \A c \in Calls : ~Searches(call[c]) /\ \A k \in Kinds : ~Renews(call[c], k)
      BY DEF NoCall, Searches, Renews
  <2> QED BY <2>1 DEF Tables, RowsShown, PointsShown, Shows
<1> QED BY <1>1, <1>2, <1>3, PTL DEF Spec
=============================================================================
