----------------------------- MODULE ToolLabProofs ----------------------------
(***************************************************************************)
(* Theorems about the Tool Lab page: ToolPage for any tools, search terms, *)
(* calls under way and calls that the user starts, and RunTrace for any    *)
(* runs.                                                                   *)
(*                                                                         *)
(* That the editor settles on what the server has rests on the one call    *)
(* that is about lists while nothing disturbs it (Current): it asks for    *)
(* its list with the checkbox as it stands (InTime), or is a change after  *)
(* which it will (Settled says that neither is so).  That nothing is       *)
(* picked unseen rests on the picker's list being the shared one while it  *)
(* is shown (Picks).                                                       *)
(*                                                                         *)
(* What the toggle will do is right by the lists, the form and the answers *)
(* under way agreeing with the server (Right), except while a change is    *)
(* still to be shown (Pending).  Generated schemas fit by every request    *)
(* under way being for the code in the form (Fitting).                     *)
(*                                                                         *)
(* The history of the runs grows with the results on the page (Shows); in  *)
(* a conversation without overlaps a run under way has the last entry of   *)
(* the page for its header (Orderly), so its outcome follows it.           *)
(***************************************************************************)
EXTENDS ToolPage, RunTrace, FiniteSetTheorems, TLAPS

\* A list has only rows that exist; the picker's alone has shared ones.
ListOK(list) == list.ids \subseteq rows /\ (list.by # "picker" => list.ids \cap Shared = {})

CallOK(q) ==
    /\ q.row \in rows \cup {None} /\ q.list.ids \subseteq rows
    /\ q.kind \in {"toggle", "delete"} \/ q.then = "select" => q.row # None
    /\ q.stage = "answered" =>
         /\ q.kind = "save" => q.row # None
         /\ q.kind = "list" => q.list.by = "editor" /\ ListOK(q.list)
         /\ q.kind = "pick" => q.list.by = "picker"

FormOK == {form.id, form.sel} \subseteq rows \cup {None}

CallsOK == \A c \in Calls : call[c] # NoCall => CallOK(call[c])

Known ==
    /\ FormOK /\ CallsOK
    /\ ListOK(tools) /\ ListOK(listed)

Picks ==
    /\ tools.by = "picker" => picked \subseteq tools.ids /\ offered.ids \subseteq tools.ids
    /\ PicksShown

UpToDate(list) == list.by = "editor" => list = EditorList(inactive)

\* A list under way was asked for with the checkbox as it stands.
InTime(q) == q.kind = "list" => /\ q.all = inactive
                                /\ q.stage = "answered" => q.list = EditorList(inactive)

\* No list is under way, and no change that the server has made.
Settled == \A c \in Listing : call[c].kind # "list" /\ call[c].stage = "sent"

Current ==
    /\ "editor" \notin begun => ~inactive
    /\ ~disturbed =>
         /\ \A c, d \in Listing : c = d
         /\ \A c \in Calls : InTime(call[c])
         /\ "editor" \in begun /\ Settled => UpToDate(tools) /\ UpToDate(listed)

ToolPageInv == ToolPageTypeOK /\ Known /\ Picks /\ Current

-----------------------------------------------------------------------------
(* Records *)

Kinds == {"list", "pick", "generate", "save", "toggle", "delete"}
ListKinds == {"list", "save", "toggle", "delete"}

LEMMA TextsOK ==
    /\ \A i \in Ids \cup {"template"} : TextOf(i) \in Text
    /\ NoList \in List /\ NoList.ids = {} /\ NoList.by = "none"
    /\ Blank \in Form /\ Blank.id = None /\ Blank.sel = None
<1>1. \A i \in Ids \cup {"template"} : TextOf(i) \in Text
  BY DEF TextOf, Text, Codes
<1>2. NoList \in List /\ NoList.ids = {} /\ NoList.by = "none"
  BY DEF NoList, List, Views
<1>3. Blank \in Form /\ Blank.id = None /\ Blank.sel = None
  BY <1>1 DEF Blank, Form
<1>4. QED
  BY <1>1, <1>2, <1>3

LEMMA CallForOK ==
    ASSUME NEW kind \in Kinds
    PROVE  LET f == CallFor(kind)
           IN  /\ f \in Call /\ f.kind = kind /\ f.stage = "sent" /\ f.row = None
               /\ f.all = FALSE /\ f.list.ids = {} /\ f.then = "none"
BY TextsOK DEF CallFor, Call, Kinds

LEMMA SentOK ==
    ASSUME NEW r \in Call, r.stage = "sent", r.list.ids = {}, r.row \in rows \cup {None},
           r.kind \in {"toggle", "delete"} \/ r.then = "select" => r.row # None
    PROVE  CallOK(r)
BY DEF CallOK

LEMMA NoCallNoKind == \A q \in Call : q # NoCall /\ q.kind \in Kinds
BY DEF NoCall, Call, Kinds

LEMMA ListsOK ==
    ASSUME ToolPageTypeOK, NEW all \in BOOLEAN
    PROVE  /\ EditorList(all) \in List /\ EditorList(all).by = "editor"
           /\ ListOK(EditorList(all))
           /\ PickerList \in List /\ PickerList.by = "picker" /\ PickerList.ids \subseteq rows
BY DEF ToolPageTypeOK, EditorList, PickerList, List, ListOK, Views

\* The call q with its answer.
IsAnswerTo(r, q, list) ==
    /\ r \in Call /\ r.stage = "answered" /\ r.list = list
    /\ r.kind = q.kind /\ r.row = q.row /\ r.flag = q.flag
    /\ r.all = q.all /\ r.text = q.text /\ r.then = q.then

LEMMA AnsweredIs ==
    ASSUME ToolPageTypeOK, NEW c \in Calls, call[c] \in Call, NEW list \in List,
           Answered(c, list)
    PROVE  \E r : call' = [call EXCEPT ![c] = r] /\ IsAnswerTo(r, call[c], list)
<1> DEFINE r == [[call[c] EXCEPT !.stage = "answered"] EXCEPT !.list = list]
<1>1. c \in DOMAIN call
  BY DEF ToolPageTypeOK
<1>2. call' = [call EXCEPT ![c] = r]
  BY <1>1 DEF Answered
<1>3. IsAnswerTo(r, call[c], list)
  BY DEF Call, IsAnswerTo
<1>4. QED
  BY <1>2, <1>3

LEMMA CallsStep ==
    ASSUME ToolPageTypeOK, CallsOK, rows \subseteq rows', NEW c \in Calls, NEW r,
           call' = [call EXCEPT ![c] = r],
           r = NoCall \/ (r \in Call /\ CallOK(r)')
    PROVE  call' \in [Calls -> Call \cup {NoCall}] /\ CallsOK'
<1>1. call' \in [Calls -> Call \cup {NoCall}]
  BY DEF ToolPageTypeOK
<1>2. ASSUME NEW d \in Calls, call'[d] # NoCall
      PROVE  CallOK(call[d])'
  <2>1. CASE d = c
    BY <1>2, <2>1, <1>1 DEF ToolPageTypeOK
  <2>2. CASE d # c
    <3>1. call'[d] = call[d] /\ CallOK(call[d])
      BY <1>2, <2>2 DEF ToolPageTypeOK, CallsOK
    <3>2. QED
      BY <3>1 DEF CallOK, ListOK
  <2>3. QED
    BY <2>1, <2>2
<1>3. QED
  BY <1>1, <1>2 DEF CallsOK

LEMMA InvSteps ==
    ASSUME ToolPageInv,
           rows \subseteq rows',
           ToolPageTypeOK', CallsOK', FormOK', Picks', Current',
           ListOK(tools)', ListOK(listed)'
    PROVE  ToolPageInv'
BY DEF ToolPageInv, Known

-----------------------------------------------------------------------------
(* Lists *)

LEMMA CurrentKept ==
    ASSUME ToolPageTypeOK, Current, call' \in [Calls -> Call \cup {NoCall}],
           UNCHANGED <<rows, active, inactive, disturbed>>,
           "editor" \in begun' <=> "editor" \in begun,
           tools' = tools \/ tools'.by = "picker", listed' \in {listed, tools'},
           \A c \in Calls : call'[c] = call[c]
                            \/ {call'[c].kind, call[c].kind} \cap ListKinds = {}
    PROVE  Current'
<1>1. Listing' = Listing
  BY DEF Listing, ListKinds
<1>2. \A c \in Listing : call'[c] = call[c]
  BY DEF Listing, ListKinds
<1>3. Settled' <=> Settled
  BY <1>1, <1>2 DEF Settled
<1>4. \A all : EditorList(all)' = EditorList(all)
  BY DEF EditorList
<1>5. ASSUME ~disturbed, NEW c \in Calls
      PROVE  InTime(call[c])'
  <2>1. InTime(call[c])
    BY <1>5 DEF Current
  <2>2. CASE call'[c] = call[c]
    BY <2>1, <2>2, <1>4 DEF InTime
  <2>3. CASE call'[c].kind # "list"
    BY <2>3 DEF InTime
  <2>4. QED
    BY <2>2, <2>3 DEF ListKinds
<1>6. ASSUME UpToDate(tools), UpToDate(listed)
      PROVE  UpToDate(tools)' /\ UpToDate(listed)'
  BY <1>4, <1>6 DEF UpToDate
<1>7. QED
  BY <1>1, <1>3, <1>5, <1>6 DEF Current

\* A change begins, or the editor asks for a list.
LEMMA CurrentBegins ==
    ASSUME ToolPageTypeOK, Current, NEW c \in Calls, NEW r \in Call, Begin(c, r),
           UNCHANGED <<rows, active, tools, listed>>,
           "editor" \in begun', begun \subseteq begun', r.kind \in ListKinds,
           \/ r.kind # "list" /\ UNCHANGED inactive /\ "editor" \in begun
           \/ r.kind = "list" /\ r.all = inactive' /\ r.stage = "sent"
    PROVE  Current'
<1>1. CASE disturbed'
  BY <1>1 DEF Current
<1>2. CASE ~disturbed'
  <2>1. Listing = {} /\ ~disturbed
    BY <1>2 DEF Begin, Note, ListKinds
  <2>2. \A d \in Calls : call'[d] = IF d = c THEN r ELSE call[d]
    BY DEF Begin, ToolPageTypeOK
  <2>3. Listing' = {c}
    BY <2>1, <2>2 DEF Listing, ListKinds
  <2>4. \A d \in Calls : InTime(call[d])'
    <3>1. TAKE d \in Calls
    <3>2. CASE d = c
      BY <3>2, <2>2 DEF InTime
    <3>3. CASE d # c
      BY <3>3, <2>1, <2>2 DEF InTime, Listing
    <3>4. QED
      BY <3>2, <3>3
  <2>5. Settled' => UpToDate(tools)' /\ UpToDate(listed)'
    <3>1. CASE r.kind = "list"
      BY <3>1, <2>2, <2>3 DEF Settled
    <3>2. CASE r.kind # "list"
      <4>1. Settled
        BY <2>1 DEF Settled
      <4>2. UpToDate(tools) /\ UpToDate(listed)
        BY <4>1, <2>1, <3>2 DEF Current
      <4>3. QED
        BY <4>2, <3>2 DEF UpToDate, EditorList
    <3>3. QED
      BY <3>1, <3>2
  <2>6. QED
    BY <2>3, <2>4, <2>5 DEF Current
<1>3. QED
  BY <1>1, <1>2

\* The one call about lists goes on, with r; its change is not yet shown.
LEMMA CurrentGoesOn ==
    ASSUME ToolPageTypeOK, Current, NEW c \in Listing, NEW r,
           call' = [call EXCEPT ![c] = r], r.kind \in ListKinds,
           UNCHANGED <<begun, inactive, disturbed>>,
           r.stage = "answered" \/ r.kind = "list", ~disturbed => InTime(r)'
    PROVE  Current'
<1>1. CASE disturbed'
  BY <1>1 DEF Current
<1>2. CASE ~disturbed'
  <2>1. Listing = {c} /\ c \in Calls
    BY <1>2 DEF Current, Listing
  <2>2. \A d \in Calls : call'[d] = IF d = c THEN r ELSE call[d]
    BY DEF ToolPageTypeOK
  <2>3. Listing' = {c}
    BY <2>1, <2>2 DEF Listing, ListKinds
  <2>4. \A d \in Calls : InTime(call[d])'
    <3>1. TAKE d \in Calls
    <3>2. CASE d = c
      BY <1>2, <3>2, <2>2 DEF InTime
    <3>3. CASE d # c
      BY <3>3, <2>1, <2>2 DEF InTime, Listing
    <3>4. QED
      BY <3>2, <3>3
  <2>5. ~Settled'
    BY <2>1, <2>2, <2>3 DEF Settled
  <2>6. QED
    BY <1>2, <2>3, <2>4, <2>5 DEF Current
<1>3. QED
  BY <1>1, <1>2

\* The one call about lists ends.
LEMMA CurrentEnds ==
    ASSUME ToolPageTypeOK, Current, NEW c \in Listing, call' = [call EXCEPT ![c] = NoCall],
           UNCHANGED <<begun, inactive>>, ~disturbed' => ~disturbed,
           ~disturbed' /\ "editor" \in begun => UpToDate(tools)' /\ UpToDate(listed)'
    PROVE  Current'
<1>1. CASE disturbed'
  BY <1>1 DEF Current
<1>2. CASE ~disturbed'
  <2>1. Listing = {c} /\ c \in Calls
    BY <1>2 DEF Current, Listing
  <2>2. \A d \in Calls : call'[d] = IF d = c THEN NoCall ELSE call[d]
    BY DEF ToolPageTypeOK
  <2>3. Listing' = {} /\ \A d \in Calls : call'[d].kind # "list"
    BY <2>1, <2>2 DEF Listing, NoCall
  <2>4. QED
    BY <1>2, <2>3 DEF Current, InTime
<1>3. QED
  BY <1>1, <1>2

-----------------------------------------------------------------------------
(* A call begins *)

LEMMA StartStep ==
    ASSUME ToolPageInv, NEW c \in Calls, NEW r \in Call, CallOK(r), Begin(c, r),
           asked' \in 0..MaxAsked, view' \in Views, begun' \subseteq Views,
           inactive' \in BOOLEAN, UNCHANGED <<server, tools, form, listed, picker>>, Current'
    PROVE  ToolPageInv'
<1>1. ToolPageTypeOK /\ Known /\ Picks
  BY DEF ToolPageInv
<1>2. rows' = rows /\ CallOK(r)'
  BY DEF server, CallOK, ListOK
<1>3. call' = [call EXCEPT ![c] = r] /\ disturbed' \in BOOLEAN
  BY <1>1 DEF Begin, Note, ToolPageTypeOK
<1>4. call' \in [Calls -> Call \cup {NoCall}] /\ CallsOK'
  <2>1. CallsOK
    BY <1>1 DEF Known
  <2>2. QED
    BY <1>1, <1>2, <1>3, <2>1, CallsStep
<1>5. ToolPageTypeOK'
  BY <1>1, <1>3, <1>4 DEF ToolPageTypeOK, server, picker
<1>6. FormOK' /\ ListOK(tools)' /\ ListOK(listed)'
  BY <1>1 DEF Known, FormOK, ListOK, server
<1>7. Picks'
  BY <1>1 DEF Picks, PicksShown, picker
<1>8. QED
  BY <1>2, <1>4, <1>5, <1>6, <1>7, InvSteps

\* The calls that the page starts itself.
LEMMA PressStep ==
    ASSUME ToolPageInv, NEW c \in Calls, NEW r \in Call, CallOK(r), Press(c, r),
           r.kind \notin {"list", "pick"}
    PROVE  ToolPageInv'
<1>1. ToolPageTypeOK /\ Current
  BY DEF ToolPageInv
<1>2. /\ Begin(c, r) /\ asked' = asked + 1 /\ asked < MaxAsked /\ "editor" \in begun
      /\ UNCHANGED <<server, view, begun, tools, form, inactive, listed, picker>>
  BY DEF Press, Send, editor
<1>3. Current'
  <2>1. CASE r.kind = "generate"
    <3>1. call' = [call EXCEPT ![c] = r] /\ call[c] = NoCall /\ disturbed' = disturbed
      BY <1>1, <1>2, <2>1 DEF Begin, Note, ToolPageTypeOK
    <3>2. call' \in [Calls -> Call \cup {NoCall}]
      BY <1>1, <3>1 DEF ToolPageTypeOK
    <3>3. \A d \in Calls : call'[d] = call[d] \/ {call'[d].kind, call[d].kind} \cap ListKinds = {}
      BY <1>1, <2>1, <3>1 DEF ToolPageTypeOK, ListKinds, NoCall
    <3>4. UNCHANGED <<rows, active, inactive, disturbed, begun, tools, listed>>
      BY <1>2, <3>1 DEF server
    <3>5. QED
      BY <1>1, <3>2, <3>3, <3>4, CurrentKept
  <2>2. CASE r.kind # "generate"
    <3>1. r.kind \in ListKinds /\ r.kind # "list"
      BY <2>2 DEF Call, ListKinds
    <3>2. UNCHANGED <<rows, active, inactive, begun, tools, listed>>
      BY <1>2 DEF server
    <3>3. QED
      BY <1>1, <1>2, <3>1, <3>2, CurrentBegins
  <2>3. QED
    BY <2>1, <2>2
<1>4. asked' \in 0..MaxAsked /\ view' \in Views /\ begun' \subseteq Views /\ inactive' \in BOOLEAN
  BY <1>1, <1>2, ToolPageAssumption DEF ToolPageTypeOK
<1>5. QED
  BY <1>2, <1>3, <1>4, StartStep

LEMMA GenerateStep ==
    ASSUME ToolPageInv, NEW c \in Calls, GenerateSchemas(c)
    PROVE  ToolPageInv'
<1> DEFINE r == [CallFor("generate") EXCEPT !.text = form.text]
<1>1. form.text \in Text
  BY DEF ToolPageInv, ToolPageTypeOK, Known, FormOK, Form
<1>2. r \in Call /\ r.kind = "generate" /\ CallOK(r)
  <2> DEFINE f == CallFor("generate")
  <2>1. /\ f \in Call /\ f.kind = "generate" /\ f.stage = "sent" /\ f.row = None
        /\ f.list.ids = {} /\ f.then = "none"
    BY CallForOK DEF Kinds
  <2> HIDE DEF f
  <2>2. /\ r \in Call /\ r.kind = "generate" /\ r.stage = "sent" /\ r.then = "none"
        /\ r.list = f.list /\ r.text = form.text /\ r.row = f.row
    BY <1>1, <2>1 DEF Call, f
  <2>3. QED
    BY <1>1, <2>1, <2>2, SentOK
<1>3. Press(c, r)
  BY DEF GenerateSchemas
<1> HIDE DEF r
<1>4. QED
  BY <1>2, <1>3, PressStep

LEMMA SaveStep ==
    ASSUME ToolPageInv, NEW c \in Calls, Save(c)
    PROVE  ToolPageInv'
<1> DEFINE r == [CallFor("save") EXCEPT !.row = form.id, !.text = form.text]
<1>1. form.text \in Text /\ form.id \in Ids \cup {None}
      /\ form.id \in rows \cup {None}
  BY DEF ToolPageInv, ToolPageTypeOK, Known, FormOK, Form
<1>2. r \in Call /\ r.kind = "save" /\ CallOK(r)
  <2> DEFINE f == CallFor("save")
  <2>1. /\ f \in Call /\ f.kind = "save" /\ f.stage = "sent" /\ f.row = None
        /\ f.list.ids = {} /\ f.then = "none"
    BY CallForOK DEF Kinds
  <2> HIDE DEF f
  <2>2. /\ r \in Call /\ r.kind = "save" /\ r.stage = "sent" /\ r.then = "none"
        /\ r.list = f.list /\ r.row = form.id /\ r.text = form.text
    BY <1>1, <2>1 DEF Call, f
  <2>3. QED
    BY <1>1, <2>1, <2>2, SentOK
<1>3. Press(c, r)
  BY DEF Save
<1> HIDE DEF r
<1>4. QED
  BY <1>2, <1>3, PressStep

LEMMA ToggleStep ==
    ASSUME ToolPageInv, NEW c \in Calls, ToggleActive(c)
    PROVE  ToolPageInv'
<1> DEFINE r == [CallFor("toggle") EXCEPT !.row = form.id, !.flag = ~form.was]
<1>1. form.id \in Ids \cup {None} /\ form.id \in rows \cup {None} /\ form.id # None
      /\ (~form.was) \in BOOLEAN
  <2>1. form.id \in Ids \cup {None} /\ form.id \in rows \cup {None} /\ form.id # None
    BY DEF ToolPageInv, ToolPageTypeOK, Known, FormOK, Form, ToggleActive
  <2>2. QED
    BY <2>1
<1>2. r \in Call /\ r.kind = "toggle" /\ CallOK(r)
  <2> DEFINE f == CallFor("toggle")
  <2>1. /\ f \in Call /\ f.kind = "toggle" /\ f.stage = "sent" /\ f.row = None
        /\ f.list.ids = {} /\ f.then = "none"
    BY CallForOK DEF Kinds
  <2> HIDE DEF f
  <2>2. /\ r \in Call /\ r.kind = "toggle" /\ r.stage = "sent" /\ r.then = "none"
        /\ r.list = f.list /\ r.row = form.id /\ r.text = f.text
    BY <1>1, <2>1 DEF Call, f
  <2>3. QED
    BY <1>1, <2>1, <2>2, SentOK
<1>3. Press(c, r)
  BY DEF ToggleActive
<1> HIDE DEF r
<1>4. QED
  BY <1>2, <1>3, PressStep

LEMMA DeleteStep ==
    ASSUME ToolPageInv, NEW c \in Calls, Delete(c)
    PROVE  ToolPageInv'
<1> DEFINE r == [CallFor("delete") EXCEPT !.row = form.id]
<1>1. form.id \in Ids \cup {None} /\ form.id \in rows \cup {None} /\ form.id # None
  BY DEF ToolPageInv, ToolPageTypeOK, Known, FormOK, Form, Delete
<1>2. r \in Call /\ r.kind = "delete" /\ CallOK(r)
  <2> DEFINE f == CallFor("delete")
  <2>1. /\ f \in Call /\ f.kind = "delete" /\ f.stage = "sent" /\ f.row = None
        /\ f.list.ids = {} /\ f.then = "none"
    BY CallForOK DEF Kinds
  <2> HIDE DEF f
  <2>2. /\ r \in Call /\ r.kind = "delete" /\ r.stage = "sent" /\ r.then = "none"
        /\ r.list = f.list /\ r.row = form.id /\ r.text = f.text
    BY <1>1, <2>1 DEF Call, f
  <2>3. QED
    BY <1>1, <2>1, <2>2, SentOK
<1>3. Press(c, r)
  BY DEF Delete
<1> HIDE DEF r
<1>4. QED
  BY <1>2, <1>3, PressStep

LEMMA CheckStep ==
    ASSUME ToolPageInv, NEW c \in Calls, CheckInactive(c)
    PROVE  ToolPageInv'
<1> DEFINE r == [CallFor("list") EXCEPT !.all = ~inactive]
<1>1. ToolPageTypeOK /\ Current /\ inactive \in BOOLEAN
  BY DEF ToolPageInv, ToolPageTypeOK
<1>2. r \in Call /\ r.kind = "list" /\ r.all = inactive' /\ r.stage = "sent" /\ CallOK(r)
  <2> DEFINE f == CallFor("list")
  <2>1. /\ f \in Call /\ f.kind = "list" /\ f.stage = "sent" /\ f.row = None
        /\ f.list.ids = {} /\ f.then = "none"
    BY CallForOK DEF Kinds
  <2>2. inactive' = ~inactive
    BY DEF CheckInactive
  <2> HIDE DEF f
  <2>3. /\ r \in Call /\ r.kind = "list" /\ r.stage = "sent" /\ r.then = "none"
        /\ r.list = f.list /\ r.row = f.row /\ r.text = f.text /\ r.all = (~inactive)
    BY <1>1, <2>1 DEF Call, f
  <2>4. QED
    BY <2>1, <2>2, <2>3, SentOK
<1>3. /\ Begin(c, r) /\ asked' = asked + 1 /\ asked < MaxAsked /\ "editor" \in begun
      /\ UNCHANGED <<server, view, begun, tools, form, listed, picker>>
      /\ inactive' = ~inactive
  BY DEF CheckInactive, Send
<1> HIDE DEF r
<1>4. UNCHANGED <<rows, active, tools, listed>> /\ "editor" \in begun' /\ begun \subseteq begun'
  BY <1>3 DEF server
<1>5. Current'
  BY <1>1, <1>2, <1>3, <1>4, CurrentBegins DEF ListKinds
<1>6. asked' \in 0..MaxAsked /\ view' \in Views /\ begun' \subseteq Views /\ inactive' \in BOOLEAN
  BY <1>1, <1>3, ToolPageAssumption DEF ToolPageTypeOK
<1>7. QED
  BY <1>2, <1>3, <1>5, <1>6, StartStep

\* The picker asks for its list.
LEMMA PickStart ==
    ASSUME ToolPageInv, NEW c \in Calls, Begin(c, CallFor("pick")),
           UNCHANGED <<server, tools, editor, picker>>, view' \in Views,
           begun' \subseteq Views, "editor" \in begun' <=> "editor" \in begun,
           asked' \in 0..MaxAsked
    PROVE  ToolPageInv'
<1> DEFINE r == CallFor("pick")
<1>1. ToolPageTypeOK /\ Current
  BY DEF ToolPageInv
<1>2. r \in Call /\ r.kind = "pick" /\ CallOK(r)
  BY CallForOK, SentOK DEF Kinds
<1> HIDE DEF r
<1>3. call' = [call EXCEPT ![c] = r] /\ call[c] = NoCall /\ disturbed' = disturbed
  BY <1>1, <1>2 DEF Begin, Note, ToolPageTypeOK, r
<1>4. call' \in [Calls -> Call \cup {NoCall}]
  BY <1>1, <1>2, <1>3 DEF ToolPageTypeOK
<1>5. \A d \in Calls : call'[d] = call[d] \/ {call'[d].kind, call[d].kind} \cap ListKinds = {}
  BY <1>1, <1>2, <1>3 DEF ToolPageTypeOK, ListKinds, NoCall
<1>6. UNCHANGED <<rows, active, inactive, disturbed, tools, listed>>
  BY <1>3 DEF server, editor
<1>7. Current'
  BY <1>1, <1>4, <1>5, <1>6, CurrentKept
<1>8. /\ Begin(c, r) /\ inactive' \in BOOLEAN
      /\ UNCHANGED <<server, tools, form, listed, picker>>
  BY <1>1 DEF editor, r, ToolPageTypeOK
<1>9. QED
  BY <1>2, <1>7, <1>8, StartStep

LEMMA RefreshStep ==
    ASSUME ToolPageInv, NEW c \in Calls, PressRefresh(c)
    PROVE  ToolPageInv'
<1>1. ToolPageTypeOK
  BY DEF ToolPageInv
<1>2. view' \in Views /\ begun' \subseteq Views /\ asked' \in 0..MaxAsked
  BY <1>1, ToolPageAssumption DEF PressRefresh, Send, ToolPageTypeOK
<1>3. QED
  BY <1>2, PickStart DEF PressRefresh, Send

LEMMA VisitStep ==
    ASSUME ToolPageInv, NEW c \in Calls, NEW v \in Views, Visit(v, c)
    PROVE  ToolPageInv'
<1>1. ToolPageTypeOK /\ Known /\ Picks /\ Current
  BY DEF ToolPageInv
<1>2. view' \in Views /\ begun' = begun \cup {v} /\ begun' \subseteq Views
      /\ UNCHANGED <<server, tools, editor, picker>>
  BY <1>1 DEF Visit, ToolPageTypeOK
<1>3. CASE v = "picker"
  <2>1. Begin(c, CallFor("pick")) /\ asked' \in 0..MaxAsked
    BY <1>1, <1>3, ToolPageAssumption DEF Visit, Send, ToolPageTypeOK
  <2>2. "editor" \in begun' <=> "editor" \in begun
    BY <1>2, <1>3
  <2>3. QED
    BY <1>2, <2>1, <2>2, PickStart
<1>4. CASE v = "editor" /\ v \notin begun
  <2> DEFINE r == [CallFor("list") EXCEPT !.then = "new"]
  <2>1. r \in Call /\ r.kind = "list" /\ r.all = FALSE /\ r.stage = "sent" /\ CallOK(r)
    <3> DEFINE f == CallFor("list")
    <3>1. /\ f \in Call /\ f.kind = "list" /\ f.stage = "sent" /\ f.row = None
          /\ f.all = FALSE /\ f.list.ids = {}
      BY CallForOK DEF Kinds
    <3> HIDE DEF f
    <3>2. /\ r \in Call /\ r.kind = "list" /\ r.all = FALSE /\ r.stage = "sent"
          /\ r.then = "new" /\ r.list = f.list /\ r.row = f.row /\ r.text = f.text
      BY <3>1 DEF Call, f
    <3>3. QED
      BY <3>1, <3>2, SentOK
  <2>2. Begin(c, r) /\ UNCHANGED asked
    BY <1>4 DEF Visit
  <2> HIDE DEF r
  <2>3. /\ UNCHANGED <<rows, active, tools, listed>> /\ inactive' = FALSE
        /\ UNCHANGED <<server, tools, form, listed, picker>>
    BY <1>1, <1>2, <1>4 DEF server, editor, Current, ToolPageTypeOK
  <2>4. Current'
    BY <1>1, <1>2, <1>4, <2>1, <2>2, <2>3, CurrentBegins DEF ListKinds
  <2>5. asked' \in 0..MaxAsked /\ inactive' \in BOOLEAN
    BY <1>1, <2>2, <2>3 DEF ToolPageTypeOK
  <2>6. QED
    BY <1>2, <2>1, <2>2, <2>3, <2>4, <2>5, StartStep
<1>5. CASE v = "editor" /\ v \in begun
  <2>1. begun' = begun /\ UNCHANGED <<call, asked, disturbed>>
    BY <1>2, <1>5 DEF Visit
  <2>2. ToolPageTypeOK'
    BY <1>1, <1>2, <2>1 DEF ToolPageTypeOK, server, editor, picker
  <2>3. Known'
    BY <1>1, <1>2, <2>1 DEF Known, FormOK, CallsOK, CallOK, ListOK, server, editor
  <2>4. Picks'
    BY <1>1, <1>2 DEF Picks, PicksShown, picker
  <2>5. Current'
    <3>1. UNCHANGED <<rows, active, inactive, disturbed, begun, tools, listed, call>>
      BY <1>2, <2>1 DEF server, editor
    <3>2. QED
      BY <1>1, <3>1, CurrentKept DEF ToolPageTypeOK
  <2>6. QED
    BY <2>2, <2>3, <2>4, <2>5 DEF ToolPageInv
<1>6. QED
  BY <1>3, <1>4, <1>5 DEF Views

-----------------------------------------------------------------------------
(* The server answers *)

LEMMA ServeStep ==
    ASSUME ToolPageInv, NEW c \in Calls, Serve(c)
    PROVE  ToolPageInv'
<1> DEFINE q == call[c]
<1>1. ToolPageTypeOK /\ Known /\ Picks /\ Current
  BY DEF ToolPageInv
<1>2. /\ q \in Call /\ q # NoCall /\ q.stage = "sent"
      /\ UNCHANGED <<asked, view, begun, tools, editor, picker, disturbed>>
  BY <1>1 DEF Serve, ToolPageTypeOK
<1>3. CallOK(q) /\ (~disturbed => InTime(q))
  BY <1>1, <1>2 DEF Known, CallsOK, Current
<1>4. \E r : /\ call' = [call EXCEPT ![c] = r]
             /\ r \in Call /\ r.kind = q.kind /\ r.stage = "answered" /\ CallOK(r)'
             /\ ~disturbed => InTime(r)'
             /\ rows \subseteq rows' /\ rows' \subseteq Ids /\ active' \subseteq rows'
             /\ text' \in [Ids -> Text]
             /\ q.kind \in {"pick", "generate"} => UNCHANGED <<rows, active>>
  <2>1. CASE q.kind = "list" /\ Answered(c, EditorList(q.all)) /\ UNCHANGED server
    <3> DEFINE l == EditorList(q.all)
    <3>1. q.all \in BOOLEAN
      BY <1>2 DEF Call
    <3>2. l \in List /\ l.by = "editor" /\ ListOK(l)
      BY <1>1, <3>1, ListsOK
    <3>3. PICK r : call' = [call EXCEPT ![c] = r] /\ IsAnswerTo(r, q, l)
      BY <1>1, <1>2, <2>1, <3>2, AnsweredIs
    <3>4. CallOK(r)
      BY <1>3, <2>1, <3>2, <3>3 DEF CallOK, IsAnswerTo, ListOK
    <3>5. CallOK(r)'
      BY <2>1, <3>4 DEF CallOK, ListOK, server
    <3>6. ~disturbed => InTime(r)
      BY <1>3, <2>1, <3>3 DEF InTime, IsAnswerTo
    <3>7. ~disturbed => InTime(r)'
      BY <1>2, <2>1, <3>6 DEF InTime, EditorList, server, editor
    <3>8. QED
      BY <1>1, <2>1, <3>3, <3>5, <3>7 DEF IsAnswerTo, server, ToolPageTypeOK, Known
  <2>2. CASE q.kind = "pick" /\ Answered(c, PickerList) /\ UNCHANGED server
    <3>1. PickerList \in List /\ PickerList.by = "picker" /\ PickerList.ids \subseteq rows
      BY <1>1, ListsOK
    <3>2. PICK r : call' = [call EXCEPT ![c] = r] /\ IsAnswerTo(r, q, PickerList)
      BY <1>1, <1>2, <2>2, <3>1, AnsweredIs
    <3>3. CallOK(r)
      BY <1>3, <2>2, <3>1, <3>2 DEF CallOK, IsAnswerTo
    <3>4. CallOK(r)' /\ InTime(r)'
      BY <2>2, <3>2, <3>3 DEF CallOK, ListOK, server, InTime, IsAnswerTo
    <3>5. QED
      BY <1>1, <2>2, <3>2, <3>4 DEF IsAnswerTo, server, ToolPageTypeOK, Known
  <2>3. CASE /\ q.kind = "save" /\ q.row \in Seeds \cup {None} /\ New \notin rows
             /\ rows' = rows \cup {New}
             /\ \E previous \in SUBSET (active \cap Mine) :
                  /\ Cardinality(previous) <= IF q.row = None THEN 1 ELSE 0
                  /\ active' = (active \ previous) \cup {New}
             /\ text' = [text EXCEPT ![New] = q.text]
             /\ call' = [call EXCEPT ![c].stage = "answered", ![c].row = New,
                                     ![c].flag = TRUE]
    <3> DEFINE a == [[[q EXCEPT !.stage = "answered"] EXCEPT !.row = New] EXCEPT !.flag = TRUE]
    <3>1. c \in DOMAIN call /\ New \in Ids /\ New # None
      BY <1>1, ToolPageAssumption DEF ToolPageTypeOK, Ids
    <3>2. call' = [call EXCEPT ![c] = a]
      BY <2>3, <3>1
    <3>10. /\ a \in Call /\ a.kind = "save" /\ a.stage = "answered" /\ a.row = New
          /\ a.list = q.list /\ a.text = q.text /\ a.then = q.then
      BY <1>2, <2>3, <3>1 DEF Call
    <3> HIDE DEF a
    <3>3. PICK r : /\ call' = [call EXCEPT ![c] = r]
                   /\ r \in Call /\ r.kind = "save" /\ r.stage = "answered" /\ r.row = New
                   /\ r.list = q.list /\ r.text = q.text /\ r.then = q.then
      BY <3>2, <3>10
    <3>4. CallOK(r)'
      BY <1>3, <2>3, <3>1, <3>3 DEF CallOK, ListOK
    <3>5. InTime(r)'
      BY <3>3 DEF InTime
    <3>6. /\ rows \subseteq rows' /\ rows' \subseteq Ids /\ active' \subseteq rows'
      BY <1>1, <2>3, <3>1 DEF ToolPageTypeOK
    <3>7. q.text \in Text
      BY <1>2, <1>3 DEF Call, CallOK
    <3>8. text' \in [Ids -> Text]
      BY <1>1, <2>3, <3>1, <3>7 DEF ToolPageTypeOK, Known
    <3>9. QED
      BY <2>3, <3>3, <3>4, <3>5, <3>6, <3>8
  <2>4. CASE /\ q.kind \in {"toggle", "delete"} /\ q.row \in Mine
             /\ active' = IF q.flag THEN active \cup {q.row} ELSE active \ {q.row}
             /\ Answered(c, NoList) /\ UNCHANGED <<rows, text>>
    <3>1. PICK r : call' = [call EXCEPT ![c] = r] /\ IsAnswerTo(r, q, NoList)
      BY <1>1, <1>2, <2>4, TextsOK, AnsweredIs
    <3>2. CallOK(r)
      BY <1>3, <2>4, <3>1, TextsOK DEF CallOK, IsAnswerTo
    <3>3. CallOK(r)' /\ InTime(r)'
      BY <2>4, <3>1, <3>2 DEF CallOK, ListOK, InTime, IsAnswerTo
    <3>4. q.row \in rows /\ active' \subseteq rows'
      BY <1>1, <1>3, <2>4 DEF CallOK, ToolPageTypeOK
    <3>5. QED
      BY <1>1, <2>4, <3>1, <3>3, <3>4 DEF IsAnswerTo, ToolPageTypeOK, Known
  <2>5. QED
    BY <2>1, <2>2, <2>3, <2>4 DEF Serve
<1>5. PICK r : /\ call' = [call EXCEPT ![c] = r]
               /\ r \in Call /\ r.kind = q.kind /\ r.stage = "answered" /\ CallOK(r)'
               /\ ~disturbed => InTime(r)'
               /\ rows \subseteq rows' /\ rows' \subseteq Ids /\ active' \subseteq rows'
               /\ text' \in [Ids -> Text]
               /\ q.kind \in {"pick", "generate"} => UNCHANGED <<rows, active>>
  BY <1>4
<1> HIDE DEF q
<1>6. call' \in [Calls -> Call \cup {NoCall}] /\ CallsOK'
  <2>1. CallsOK
    BY <1>1 DEF Known
  <2>2. QED
    BY <1>1, <1>5, <2>1, CallsStep
<1>7. ToolPageTypeOK'
  BY <1>1, <1>2, <1>5, <1>6 DEF ToolPageTypeOK, editor, picker
<1>8. FormOK' /\ ListOK(tools)' /\ ListOK(listed)'
  BY <1>1, <1>2, <1>5 DEF Known, FormOK, ListOK, editor
<1>9. Picks'
  BY <1>1, <1>2 DEF Picks, PicksShown, picker
<1>10. Current'
  <2>1. CASE q.kind \in {"pick", "generate"}
    <3>1. \A d \in Calls : call'[d] = call[d] \/ {call'[d].kind, call[d].kind} \cap ListKinds = {}
      BY <1>1, <1>5, <2>1 DEF ToolPageTypeOK, ListKinds, q
    <3>2. UNCHANGED <<rows, active, inactive, disturbed, tools, listed, begun>>
      BY <1>2, <1>5, <2>1 DEF editor
    <3>3. QED
      BY <1>1, <1>6, <3>1, <3>2, CurrentKept
  <2>2. CASE q.kind \notin {"pick", "generate"}
    <3>1. q.kind \in ListKinds
      BY <1>2, <2>2 DEF Call, ListKinds
    <3>2. c \in Listing
      BY <3>1 DEF Listing, ListKinds, q
    <3>3. UNCHANGED <<begun, inactive, disturbed>>
      BY <1>2 DEF editor
    <3>4. QED
      BY <1>1, <1>5, <3>1, <3>2, <3>3, CurrentGoesOn
  <2>3. QED
    BY <2>1, <2>2
<1>11. QED
  BY <1>5, <1>6, <1>7, <1>8, <1>9, <1>10, InvSteps

LEMMA OthersStep ==
    ASSUME ToolPageInv, OthersChange
    PROVE  ToolPageInv'
<1>1. ToolPageTypeOK /\ Known /\ Picks /\ Current
  BY DEF ToolPageInv
<1>2. /\ UNCHANGED <<asked, rows, text, view, begun, tools, editor, picker, call>>
      /\ disturbed' = TRUE /\ active' \subseteq rows
  BY <1>1 DEF OthersChange, Note, ToolPageTypeOK
<1>3. ToolPageTypeOK'
  BY <1>1, <1>2 DEF ToolPageTypeOK, editor, picker
<1>4. Known'
  BY <1>1, <1>2 DEF Known, FormOK, CallsOK, CallOK, ListOK, editor
<1>5. Picks'
  BY <1>1, <1>2 DEF Picks, PicksShown, picker
<1>6. Current'
  BY <1>1, <1>2 DEF Current, editor
<1>7. QED
  BY <1>3, <1>4, <1>5, <1>6 DEF ToolPageInv

-----------------------------------------------------------------------------
(* Steps without a call *)

LEMMA LocalStep ==
    ASSUME ToolPageInv,
           UNCHANGED <<server, view, begun, inactive, call, asked, disturbed, tools>>,
           form' \in Form, FormOK', listed' \in {listed, tools}, picked' \subseteq Ids,
           term' \in Terms, offered' \in [ids : SUBSET Ids, by : Views \cup {"none"}], Picks'
    PROVE  ToolPageInv'
<1>1. ToolPageTypeOK /\ Known /\ Current
  BY DEF ToolPageInv
<1>2. ToolPageTypeOK'
  BY <1>1 DEF ToolPageTypeOK, server
<1>3. CallsOK' /\ ListOK(tools)' /\ ListOK(listed)'
  BY <1>1 DEF Known, CallsOK, CallOK, ListOK, server
<1>4. UNCHANGED <<rows, active, inactive, disturbed, begun, tools, call>>
  BY DEF server
<1>5. call' \in [Calls -> Call \cup {NoCall}] /\ listed' \in {listed, tools'}
  BY <1>1, <1>4 DEF ToolPageTypeOK
<1>6. Current'
  BY <1>1, <1>4, <1>5, CurrentKept
<1>7. QED
  BY <1>2, <1>3, <1>4, <1>6, InvSteps

LEMMA PicksKept ==
    ASSUME Picks, UNCHANGED <<tools, picker>>
    PROVE  Picks'
BY DEF Picks, PicksShown, picker

LEMMA OpenedOK ==
    ASSUME ToolPageTypeOK, Known, NEW i \in rows, NEW on \in BOOLEAN,
           NEW list \in List
    PROVE  LET f == Opened(i, on, list)
           IN  /\ f \in Form /\ f.id = i /\ f.sel = i
<1>1. list.by \in Views \cup {"none"}
  BY DEF List
<1>2. QED
  BY <1>1 DEF ToolPageTypeOK, Opened, Form

LEMMA SelectStep ==
    ASSUME ToolPageInv, NEW i \in Ids, Select(i)
    PROVE  ToolPageInv'
<1>1. ToolPageTypeOK /\ Known /\ Picks
  BY DEF ToolPageInv
<1>2. /\ i \in listed.ids /\ form' = Opened(i, i \in listed.on, listed) /\ listed' = tools
      /\ UNCHANGED <<asked, server, view, begun, tools, inactive, picker, call, disturbed>>
  BY DEF Select, Show
<1>3. i \in rows /\ (i \in listed.on) \in BOOLEAN
  BY <1>1, <1>2 DEF Known, ListOK
<1>4. form' \in Form /\ FormOK'
  <2>1. form' \in Form /\ form'.id = i /\ form'.sel = i
    <3>1. listed \in List
      BY <1>1 DEF ToolPageTypeOK
    <3>2. QED
      BY <1>1, <1>2, <1>3, <3>1, OpenedOK
  <2>2. QED
    BY <1>2, <1>3, <2>1 DEF FormOK, server
<1>5. Picks' /\ picked' \subseteq Ids /\ term' \in Terms
      /\ offered' \in [ids : SUBSET Ids, by : Views \cup {"none"}]
  BY <1>1, <1>2, PicksKept DEF ToolPageTypeOK, picker
<1>6. QED
  BY <1>2, <1>4, <1>5, LocalStep

LEMMA ClearStep ==
    ASSUME ToolPageInv, Clear
    PROVE  ToolPageInv'
<1>1. ToolPageTypeOK /\ Known /\ Picks
  BY DEF ToolPageInv
<1>2. /\ form' = Blank /\ listed' = tools
      /\ UNCHANGED <<asked, server, view, begun, tools, inactive, picker, call, disturbed>>
  BY DEF Clear, Show
<1>3. form' \in Form /\ FormOK'
  BY <1>2, TextsOK DEF FormOK
<1>4. Picks' /\ picked' \subseteq Ids /\ term' \in Terms
      /\ offered' \in [ids : SUBSET Ids, by : Views \cup {"none"}]
  BY <1>1, <1>2, PicksKept DEF ToolPageTypeOK, picker
<1>5. QED
  BY <1>2, <1>3, <1>4, LocalStep

\* The form with another code or other schemas.
LEMMA TextStep ==
    ASSUME ToolPageTypeOK, FormOK, UNCHANGED rows, NEW t \in Text,
           form' = [form EXCEPT !.text = t]
    PROVE  form' \in Form /\ FormOK'
<1>1. form \in Form
  BY DEF ToolPageTypeOK
<1>2. /\ form'.id = form.id /\ form'.sel = form.sel /\ form'.text = t /\ form' \in Form
  BY <1>1 DEF Form
<1>3. QED
  BY <1>2 DEF FormOK

LEMMA WriteStep ==
    ASSUME ToolPageInv, NEW t \in Text, Write(t)
    PROVE  ToolPageInv'
<1>1. ToolPageTypeOK /\ Known /\ Picks /\ FormOK
  BY DEF ToolPageInv, Known
<1>2. /\ UNCHANGED <<asked, server, view, begun, tools, inactive, listed, picker, call, disturbed>>
      /\ form' = [form EXCEPT !.text = t]
  BY DEF Write
<1>3. form' \in Form /\ FormOK'
  BY <1>1, <1>2, TextStep DEF server
<1>4. Picks' /\ picked' \subseteq Ids /\ term' \in Terms
      /\ offered' \in [ids : SUBSET Ids, by : Views \cup {"none"}]
  BY <1>1, <1>2, PicksKept DEF ToolPageTypeOK, picker
<1>5. QED
  BY <1>2, <1>3, <1>4, LocalStep

\* Typing leaves the rest of the form as it is.
LEMMA TypeIs ==
    ASSUME ToolPageTypeOK, TypeCode \/ TypeSchema
    PROVE  \E t \in Text : Write(t) /\ t.hand = TRUE
<1>1. form.text \in Text
  BY DEF ToolPageTypeOK, Form
<1>2. CASE TypeCode
  <2>1. PICK code \in Typed : Write([form.text EXCEPT !.code = code, !.hand = TRUE])
    BY <1>2 DEF TypeCode
  <2> DEFINE t == [form.text EXCEPT !.code = code, !.hand = TRUE]
  <2>2. t \in Text /\ t.hand = TRUE
    BY <1>1 DEF Text, Codes
  <2>3. QED
    BY <2>1, <2>2
<1>3. CASE TypeSchema
  <2> DEFINE t == [form.text EXCEPT !.schema = "schemas", !.hand = TRUE]
  <2>1. t \in Text /\ t.hand = TRUE
    BY <1>1 DEF Text
  <2>2. QED
    BY <1>3, <2>1 DEF TypeSchema
<1>4. QED
  BY <1>2, <1>3

LEMMA TypeStep ==
    ASSUME ToolPageInv, TypeCode \/ TypeSchema
    PROVE  ToolPageInv'
<1>1. ToolPageTypeOK
  BY DEF ToolPageInv
<1>2. PICK t \in Text : Write(t)
  BY <1>1, TypeIs
<1>3. QED
  BY <1>2, WriteStep

\* Ticking, searching and picking leave the editor alone.
LEMMA PickerStep ==
    ASSUME ToolPageInv,
           UNCHANGED <<asked, server, view, begun, tools, editor, call, disturbed>>,
           picked' \subseteq Ids, term' \in Terms,
           \/ UNCHANGED offered
           \/ offered' = [ids |-> tools.ids \cap term', by |-> tools.by],
           Picks'
    PROVE  ToolPageInv'
<1>1. ToolPageTypeOK /\ Known
  BY DEF ToolPageInv
<1>2. offered' \in [ids : SUBSET Ids, by : Views \cup {"none"}]
  BY <1>1 DEF ToolPageTypeOK, List
<1>3. form' \in Form /\ FormOK'
  BY <1>1 DEF ToolPageTypeOK, Known, FormOK, editor, server
<1>4. UNCHANGED <<server, view, begun, inactive, call, asked, disturbed, tools>>
      /\ listed' \in {listed, tools}
  BY DEF editor
<1>5. QED
  BY <1>2, <1>3, <1>4, LocalStep

LEMMA TickStep ==
    ASSUME ToolPageInv, NEW i \in Ids, Tick(i)
    PROVE  ToolPageInv'
<1>1. ToolPageTypeOK /\ Picks
  BY DEF ToolPageInv
<1>2. /\ i \in offered.ids /\ picked' \subseteq picked \cup {i}
      /\ UNCHANGED <<asked, server, view, begun, tools, editor, term, offered, call, disturbed>>
  BY DEF Tick
<1>3. Picks'
  BY <1>1, <1>2 DEF Picks, PicksShown
<1>4. picked' \subseteq Ids /\ term' \in Terms
  BY <1>1, <1>2 DEF ToolPageTypeOK
<1>5. QED
  BY <1>2, <1>3, <1>4, PickerStep

LEMMA PickAllStep ==
    ASSUME ToolPageInv, PickAll
    PROVE  ToolPageInv'
<1>1. ToolPageTypeOK /\ Picks
  BY DEF ToolPageInv
<1>2. /\ picked' = picked \cup (tools.ids \cap term)
      /\ offered' = [ids |-> tools.ids \cap term', by |-> tools.by]
      /\ UNCHANGED <<asked, server, view, begun, tools, editor, term, call, disturbed>>
  BY DEF PickAll, Render
<1>3. Picks'
  BY <1>1, <1>2 DEF Picks, PicksShown
<1>4. picked' \subseteq Ids /\ term' \in Terms
  BY <1>1, <1>2 DEF ToolPageTypeOK, List
<1>5. QED
  BY <1>2, <1>3, <1>4, PickerStep

LEMMA PickNoneStep ==
    ASSUME ToolPageInv, PickNone
    PROVE  ToolPageInv'
<1>1. ToolPageTypeOK /\ Picks
  BY DEF ToolPageInv
<1>2. /\ picked' = {} /\ offered' = [ids |-> tools.ids \cap term', by |-> tools.by]
      /\ UNCHANGED <<asked, server, view, begun, tools, editor, term, call, disturbed>>
  BY DEF PickNone, Render
<1>3. Picks'
  BY <1>1, <1>2 DEF Picks, PicksShown
<1>4. picked' \subseteq Ids /\ term' \in Terms
  BY <1>1, <1>2 DEF ToolPageTypeOK
<1>5. QED
  BY <1>2, <1>3, <1>4, PickerStep

LEMMA SearchStep ==
    ASSUME ToolPageInv, NEW match \in Terms, Search(match)
    PROVE  ToolPageInv'
<1>1. ToolPageTypeOK /\ Picks
  BY DEF ToolPageInv
<1>2. /\ term' = match /\ offered' = [ids |-> tools.ids \cap term', by |-> tools.by]
      /\ UNCHANGED <<asked, server, view, begun, tools, editor, picked, call, disturbed>>
  BY DEF Search, Render
<1>3. Picks'
  BY <1>1, <1>2 DEF Picks, PicksShown
<1>4. picked' \subseteq Ids /\ term' \in Terms
  BY <1>1, <1>2 DEF ToolPageTypeOK
<1>5. QED
  BY <1>2, <1>3, <1>4, PickerStep

-----------------------------------------------------------------------------
(* A call ends *)

LEMMA EndStep ==
    ASSUME ToolPageInv, NEW c \in Calls, call' = [call EXCEPT ![c] = NoCall],
           UNCHANGED <<server, view, begun, inactive, asked>>,
           form' \in Form, FormOK', tools' \in List, ListOK(tools)',
           listed' \in List, ListOK(listed)', picked' \subseteq Ids, UNCHANGED term,
           offered' \in [ids : SUBSET Ids, by : Views \cup {"none"}],
           Picks', Current', disturbed' \in BOOLEAN
    PROVE  ToolPageInv'
<1>1. ToolPageTypeOK /\ Known /\ CallsOK
  BY DEF ToolPageInv, Known
<1>2. rows' = rows
  BY <1>1 DEF server, Known
<1>3. call' \in [Calls -> Call \cup {NoCall}] /\ CallsOK'
  BY <1>1, <1>2, CallsStep
<1>4. ToolPageTypeOK'
  BY <1>1, <1>3 DEF ToolPageTypeOK, server
<1>5. QED
  BY <1>2, <1>3, <1>4, InvSteps

\* Of a call that is none about lists, nothing remains to be known.
LEMMA OtherEnds ==
    ASSUME ToolPageTypeOK, Current, NEW c \in Calls, call' = [call EXCEPT ![c] = NoCall],
           call[c].kind \notin ListKinds,
           UNCHANGED <<rows, active, inactive, disturbed, begun, listed>>,
           tools' = tools \/ tools'.by = "picker"
    PROVE  Current'
<1>1. call' \in [Calls -> Call \cup {NoCall}]
  BY DEF ToolPageTypeOK
<1>2. \A d \in Calls : call'[d] = call[d] \/ {call'[d].kind, call[d].kind} \cap ListKinds = {}
  BY DEF ToolPageTypeOK, ListKinds, NoCall
<1>3. QED
  BY <1>1, <1>2, CurrentKept

LEMMA FormKept ==
    ASSUME ToolPageTypeOK, FormOK, UNCHANGED <<rows, form>>
    PROVE  form' \in Form /\ FormOK'
BY DEF ToolPageTypeOK, FormOK

LEMMA ListsKept ==
    ASSUME ToolPageTypeOK, Known, UNCHANGED rows
    PROVE  /\ tools \in List /\ listed \in List
           /\ tools' = tools => ListOK(tools)'
           /\ listed' \in {tools, listed} => ListOK(listed)'
BY DEF ToolPageTypeOK, Known, ListOK

LEMMA SchemasStep ==
    ASSUME ToolPageInv, NEW c \in Calls, SchemasArrive(c)
    PROVE  ToolPageInv'
<1> DEFINE t == [[form.text EXCEPT !.schema = call[c].text.code] EXCEPT !.hand = FALSE]
<1>1. ToolPageTypeOK /\ Known /\ Picks /\ FormOK /\ Current
  BY DEF ToolPageInv, Known
<1>2. /\ call[c].kind = "generate" /\ call' = [call EXCEPT ![c] = NoCall]
      /\ UNCHANGED <<asked, server, view, begun, tools, inactive, listed, picker, disturbed>>
      /\ form' = [form EXCEPT !.text.schema = call[c].text.code, !.text.hand = FALSE]
  BY DEF SchemasArrive
<1>3. form \in Form /\ form.text \in Text /\ call[c].text.code \in Codes
  BY <1>1, <1>2 DEF ToolPageTypeOK, Form, Call, Text, NoCall
<1>4. form' = [form EXCEPT !.text = t]
  BY <1>2, <1>3 DEF Form
<1>5. t \in Text
  BY <1>3 DEF Text
<1> HIDE DEF t
<1>6. UNCHANGED <<rows, active, inactive, disturbed, begun, listed, tools, picker>>
  BY <1>2 DEF server
<1>7. form' \in Form /\ FormOK'
  BY <1>1, <1>4, <1>5, <1>6, TextStep
<1>8. Current'
  BY <1>1, <1>2, <1>6, OtherEnds DEF ListKinds
<1>9. Picks' /\ picked' \subseteq Ids /\ UNCHANGED term
      /\ offered' \in [ids : SUBSET Ids, by : Views \cup {"none"}]
  BY <1>1, <1>6, PicksKept DEF ToolPageTypeOK, picker
<1>10. tools' \in List /\ ListOK(tools)' /\ listed' \in List /\ ListOK(listed)'
  BY <1>1, <1>6, ListsKept
<1>11. disturbed' \in BOOLEAN
  BY <1>1, <1>6 DEF ToolPageTypeOK
<1>12. QED
  BY <1>2, <1>7, <1>8, <1>9, <1>10, <1>11, EndStep

LEMMA ChangeStep ==
    ASSUME ToolPageInv, NEW c \in Calls, ChangeAnswered(c)
    PROVE  ToolPageInv'
<1> DEFINE q == call[c]
           f == CallFor("list")
           r(then) == [f EXCEPT !.row = q.row, !.then = then, !.flag = q.flag, !.all = inactive]
<1>1. ToolPageTypeOK /\ Known /\ Picks /\ Current /\ FormOK /\ CallsOK
  BY DEF ToolPageInv, Known
<1>2. /\ q.kind \in {"save", "toggle", "delete"} /\ q.stage = "answered"
      /\ UNCHANGED <<asked, server, view, begun, tools, inactive, listed, picker, disturbed>>
      /\ form' \in {form, [form EXCEPT !.sel = None]}
      /\ \E then \in {"new", "select"} : call' = [call EXCEPT ![c] = r(then)]
  BY DEF ChangeAnswered, Refresh
<1>3. /\ q \in Call /\ q # NoCall /\ CallOK(q) /\ q.row # None
  BY <1>1, <1>2 DEF ToolPageTypeOK, NoCall, CallsOK, CallOK
<1>4. /\ f \in Call /\ f.kind = "list" /\ f.stage = "sent" /\ f.row = None
      /\ f.all = FALSE /\ f.list.ids = {} /\ f.then = "none"
  BY CallForOK DEF Kinds
<1>5. inactive \in BOOLEAN /\ q.row \in Ids /\ q.row \in rows
  BY <1>1, <1>3 DEF ToolPageTypeOK, CallOK
<1> HIDE DEF f, q
<1>6. ASSUME NEW then \in {"new", "select"}
      PROVE  /\ r(then) \in Call /\ r(then).kind = "list" /\ r(then).stage = "sent"
             /\ r(then).row = q.row /\ r(then).text = f.text /\ r(then).list = f.list
             /\ r(then).all = inactive
  BY <1>3, <1>4, <1>5 DEF Call
<1> HIDE DEF r
<1>7. PICK a : /\ call' = [call EXCEPT ![c] = a] /\ a \in Call /\ a.kind = "list"
               /\ a.stage = "sent" /\ CallOK(a) /\ a.all = inactive
  <2>1. PICK then \in {"new", "select"} : call' = [call EXCEPT ![c] = r(then)]
    BY <1>2
  <2>2. CallOK(r(then))
    BY <1>3, <1>4, <1>5, <1>6, SentOK
  <2>3. QED
    BY <1>6, <2>1, <2>2
<1>8. rows' = rows /\ CallOK(a)'
  BY <1>1, <1>2, <1>7 DEF server, CallOK, ListOK, Known
<1>9. call' \in [Calls -> Call \cup {NoCall}] /\ CallsOK'
  BY <1>1, <1>7, <1>8, CallsStep
<1>10. form' \in Form /\ FormOK'
  <2>1. form \in Form
    BY <1>1 DEF ToolPageTypeOK
  <2>2. form' \in Form /\ form'.id = form.id /\ form'.sel \in {form.sel, None}
        /\ form'.text = form.text
    BY <1>2, <2>1 DEF Form
  <2>3. QED
    BY <1>1, <1>8, <2>2 DEF FormOK
<1>11. ToolPageTypeOK'
  BY <1>1, <1>2, <1>9, <1>10 DEF ToolPageTypeOK, server, picker
<1>12. Current'
  <2>1. c \in Listing
    BY <1>2 DEF Listing, q
  <2>2. InTime(a)' /\ UNCHANGED <<begun, inactive, disturbed>>
    BY <1>2, <1>7 DEF InTime
  <2>3. QED
    BY <1>1, <1>7, <2>1, <2>2, CurrentGoesOn DEF ListKinds
<1>13. Picks' /\ ListOK(tools)' /\ ListOK(listed)'
  BY <1>1, <1>2, <1>8, PicksKept, ListsKept
<1>14. QED
  BY <1>8, <1>9, <1>10, <1>11, <1>12, <1>13, InvSteps

\* What awaited a list, or nothing, opens a row that exists.
LEMMA ContinueOK ==
    ASSUME ToolPageTypeOK, Known, NEW q \in Call, CallOK(q), Continue(q),
           UNCHANGED rows, tools' \in List
    PROVE  form' \in Form /\ FormOK' /\ listed' = tools'
<1>1. CASE q.then = "new"
  BY <1>1, TextsOK DEF Continue, Show, FormOK
<1>2. CASE q.then = "select"
  <2> DEFINE on == IF q.row \in tools'.ids THEN q.row \in tools'.on ELSE q.flag
  <2>1. form' = Opened(q.row, on, tools') /\ listed' = tools'
    BY <1>2 DEF Continue, Show
  <2>2. q.row \in rows
    BY <1>2 DEF CallOK
  <2>3. on \in BOOLEAN
    <3>1. q.flag \in BOOLEAN
      BY DEF Call
    <3>2. (q.row \in tools'.on) \in BOOLEAN
      OBVIOUS
    <3>3. QED
      BY <3>1, <3>2, Zenon
  <2> HIDE DEF on
  <2>4. form' \in Form /\ form'.id = q.row /\ form'.sel = q.row
    BY <2>1, <2>2, <2>3, OpenedOK
  <2>5. QED
    BY <2>1, <2>2, <2>4 DEF FormOK
<1>3. CASE q.then = "none"
  BY <1>3, FormKept DEF Continue, Known
<1>4. QED
  BY <1>1, <1>2, <1>3 DEF Call

LEMMA ListStep ==
    ASSUME ToolPageInv, NEW c \in Calls, ListArrives(c)
    PROVE  ToolPageInv'
<1> DEFINE q == call[c]
<1>1. ToolPageTypeOK /\ Known /\ Picks /\ Current /\ CallsOK
  BY DEF ToolPageInv, Known
<1>2. /\ q.kind = "list" /\ q.stage = "answered" /\ tools' = q.list
      /\ Continue(q) /\ call' = [call EXCEPT ![c] = NoCall]
      /\ UNCHANGED <<asked, server, view, begun, inactive, picker, disturbed>>
  BY DEF ListArrives
<1>3. q \in Call /\ CallOK(q) /\ rows' = rows
  BY <1>1, <1>2 DEF ToolPageTypeOK, NoCall, CallsOK, server
<1>4. q.list \in List /\ ListOK(q.list) /\ q.list.by = "editor"
  BY <1>2, <1>3 DEF Call, CallOK
<1>5. ~disturbed => q.list = EditorList(inactive)
  BY <1>1, <1>2 DEF Current, InTime
<1> HIDE DEF q
<1>6. tools' \in List /\ ListOK(tools)' /\ tools'.by = "editor"
  BY <1>2, <1>3, <1>4 DEF ListOK
<1>7. form' \in Form /\ FormOK' /\ listed' = tools'
  BY <1>1, <1>2, <1>3, <1>6, ContinueOK
<1>8. listed' \in List /\ ListOK(listed)'
  BY <1>6, <1>7 DEF ListOK
<1>9. Current'
  <2>1. c \in Listing
    BY <1>2 DEF Listing, q
  <2>2. ~disturbed => UpToDate(tools)' /\ UpToDate(listed)'
    BY <1>2, <1>5, <1>7 DEF UpToDate, EditorList, server
  <2>3. QED
    BY <1>1, <1>2, <2>1, <2>2, CurrentEnds
<1>10. Picks' /\ picked' \subseteq Ids /\ UNCHANGED term /\ disturbed' \in BOOLEAN
       /\ offered' \in [ids : SUBSET Ids, by : Views \cup {"none"}]
  BY <1>1, <1>2, <1>6 DEF ToolPageTypeOK, picker, Picks, PicksShown
<1>11. QED
  BY <1>2, <1>6, <1>7, <1>8, <1>9, <1>10, EndStep

LEMMA ListFailsStep ==
    ASSUME ToolPageInv, NEW c \in Calls, ListFails(c)
    PROVE  ToolPageInv'
<1> DEFINE q == call[c]
<1>1. ToolPageTypeOK /\ Known /\ Picks /\ Current /\ CallsOK /\ FormOK
  BY DEF ToolPageInv, Known
<1>2. /\ q.kind = "list" /\ tools' = tools
      /\ IF q.then = "none" THEN UNCHANGED <<form, listed>> ELSE Continue(q)
      /\ call' = [call EXCEPT ![c] = NoCall]
      /\ UNCHANGED <<asked, server, view, begun, inactive, picker>> /\ disturbed' = TRUE
  BY <1>1 DEF ListFails, Note, ToolPageTypeOK
<1>3. q \in Call /\ CallOK(q) /\ rows' = rows
  BY <1>1, <1>2 DEF ToolPageTypeOK, NoCall, CallsOK, server
<1> HIDE DEF q
<1>4. form' \in Form /\ FormOK' /\ listed' \in {tools, listed}
  <2>1. CASE q.then = "none"
    BY <1>1, <1>2, <1>3, <2>1, FormKept
  <2>2. CASE q.then # "none"
    <3>1. Continue(q) /\ tools' \in List
      BY <1>1, <1>2, <2>2 DEF ToolPageTypeOK
    <3>2. QED
      BY <1>1, <1>2, <1>3, <3>1, ContinueOK
  <2>3. QED
    BY <2>1, <2>2
<1>5. tools' \in List /\ ListOK(tools)' /\ listed' \in List /\ ListOK(listed)'
  BY <1>1, <1>2, <1>3, <1>4, ListsKept
<1>6. Current'
  BY <1>1, <1>2 DEF Current
<1>7. Picks' /\ picked' \subseteq Ids /\ UNCHANGED term /\ disturbed' \in BOOLEAN
      /\ offered' \in [ids : SUBSET Ids, by : Views \cup {"none"}]
  BY <1>1, <1>2, PicksKept DEF ToolPageTypeOK, picker
<1>8. QED
  BY <1>2, <1>4, <1>5, <1>6, <1>7, EndStep

LEMMA FailsStep ==
    ASSUME ToolPageInv, NEW c \in Calls, Fails(c)
    PROVE  ToolPageInv'
<1>1. ToolPageTypeOK /\ Known /\ Picks /\ Current /\ FormOK
  BY DEF ToolPageInv, Known
<1>2. /\ call[c].kind \in {"generate", "save", "toggle", "delete"}
      /\ call' = [call EXCEPT ![c] = NoCall]
      /\ disturbed' = (disturbed \/ (call[c].kind # "generate" /\ call[c].stage = "answered"))
      /\ UNCHANGED <<asked, server, view, begun, tools, editor, picker>>
  BY DEF Fails, Note
<1>3. UNCHANGED <<rows, active, form, inactive, listed, begun, tools, picker>>
  BY <1>2 DEF server, editor
<1>4. Current'
  <2>1. CASE call[c].kind = "generate"
    <3>1. disturbed' = disturbed
      BY <1>1, <1>2, <2>1 DEF ToolPageTypeOK
    <3>2. QED
      BY <1>1, <1>2, <1>3, <2>1, <3>1, OtherEnds DEF ListKinds
  <2>2. CASE call[c].kind # "generate"
    <3>1. c \in Listing /\ call[c] \in Call
      BY <1>1, <1>2, <2>2 DEF Listing, ToolPageTypeOK, NoCall
    <3>2. ASSUME ~disturbed', "editor" \in begun
          PROVE  UpToDate(tools)' /\ UpToDate(listed)'
      <4>1. ~disturbed /\ call[c].stage = "sent" /\ call[c].kind # "list"
        BY <1>2, <2>2, <3>1, <3>2 DEF Call
      <4>2. Settled
        BY <1>1, <3>1, <4>1 DEF Current, Settled
      <4>3. UpToDate(tools) /\ UpToDate(listed)
        BY <1>1, <3>2, <4>1, <4>2 DEF Current
      <4>4. QED
        BY <1>3, <4>3 DEF UpToDate, EditorList
    <3>3. ~disturbed' => ~disturbed
      BY <1>2
    <3>4. QED
      BY <1>1, <1>2, <1>3, <3>1, <3>2, <3>3, CurrentEnds
  <2>3. QED
    BY <2>1, <2>2
<1>5. form' \in Form /\ FormOK'
  BY <1>1, <1>3, FormKept
<1>6. tools' \in List /\ ListOK(tools)' /\ listed' \in List /\ ListOK(listed)'
  BY <1>1, <1>3, ListsKept
<1>7. Picks' /\ picked' \subseteq Ids /\ UNCHANGED term
      /\ offered' \in [ids : SUBSET Ids, by : Views \cup {"none"}]
  BY <1>1, <1>3, PicksKept DEF ToolPageTypeOK, picker
<1>8. disturbed' \in BOOLEAN
  BY <1>1, <1>2 DEF ToolPageTypeOK
<1>9. UNCHANGED <<server, view, begun, inactive, asked>>
  BY <1>2, <1>3
<1>10. QED
  BY <1>2, <1>4, <1>5, <1>6, <1>7, <1>8, <1>9, EndStep

LEMMA PickerArrivesStep ==
    ASSUME ToolPageInv, NEW c \in Calls, PickerArrives(c)
    PROVE  ToolPageInv'
<1> DEFINE q == call[c]
<1>1. ToolPageTypeOK /\ Known /\ Picks /\ Current /\ CallsOK /\ FormOK
  BY DEF ToolPageInv, Known
<1>2. /\ q.kind = "pick" /\ q.stage = "answered" /\ tools' = q.list
      /\ picked' = picked \cap q.list.ids
      /\ offered' = [ids |-> q.list.ids \cap term, by |-> q.list.by]
      /\ call' = [call EXCEPT ![c] = NoCall]
      /\ UNCHANGED <<asked, server, view, begun, editor, term, disturbed>>
  BY DEF PickerArrives, Render
<1>3. q \in Call /\ CallOK(q)
  BY <1>1, <1>2 DEF ToolPageTypeOK, NoCall, CallsOK
<1>4. q.list \in List /\ q.list.ids \subseteq rows /\ q.list.by = "picker"
  BY <1>2, <1>3 DEF Call, CallOK
<1>5. Current'
  <2>1. UNCHANGED <<rows, active, inactive, disturbed, begun, listed>> /\ tools'.by = "picker"
    BY <1>2, <1>4 DEF server, editor
  <2>2. QED
    BY <1>1, <1>2, <2>1, OtherEnds DEF ListKinds
<1> HIDE DEF q
<1>6. UNCHANGED <<rows, form, listed, inactive>>
  BY <1>2 DEF server, editor
<1>7. tools' \in List /\ ListOK(tools)' /\ listed' \in List /\ ListOK(listed)'
  BY <1>1, <1>2, <1>4, <1>6, ListsKept DEF ListOK
<1>8. form' \in Form /\ FormOK'
  BY <1>1, <1>6, FormKept
<1>9. /\ Picks' /\ picked' \subseteq Ids
      /\ offered' \in [ids : SUBSET Ids, by : Views \cup {"none"}]
  BY <1>1, <1>2, <1>4 DEF ToolPageTypeOK, Picks, PicksShown, List
<1>10. disturbed' \in BOOLEAN
  BY <1>1, <1>2 DEF ToolPageTypeOK
<1>11. QED
  BY <1>2, <1>5, <1>6, <1>7, <1>8, <1>9, <1>10, EndStep

LEMMA PickerFailsStep ==
    ASSUME ToolPageInv, NEW c \in Calls, PickerFails(c)
    PROVE  ToolPageInv'
<1>1. ToolPageTypeOK /\ Known /\ Picks /\ Current /\ FormOK
  BY DEF ToolPageInv, Known
<1>2. /\ call[c].kind = "pick" /\ offered' = [ids |-> {}, by |-> "none"]
      /\ call' = [call EXCEPT ![c] = NoCall]
      /\ UNCHANGED <<asked, server, view, begun, tools, editor, picked, term, disturbed>>
  BY DEF PickerFails
<1>3. UNCHANGED <<rows, active, form, inactive, listed, disturbed, begun, tools>>
  BY <1>2 DEF server, editor
<1>4. Current'
  BY <1>1, <1>2, <1>3, OtherEnds DEF ListKinds
<1>5. form' \in Form /\ FormOK'
  BY <1>1, <1>3, FormKept
<1>6. tools' \in List /\ ListOK(tools)' /\ listed' \in List /\ ListOK(listed)'
  BY <1>1, <1>3, ListsKept
<1>7. /\ Picks' /\ picked' \subseteq Ids /\ disturbed' \in BOOLEAN
      /\ offered' \in [ids : SUBSET Ids, by : Views \cup {"none"}]
  BY <1>1, <1>2 DEF ToolPageTypeOK, Picks, PicksShown
<1>8. QED
  BY <1>2, <1>3, <1>4, <1>5, <1>6, <1>7, EndStep

-----------------------------------------------------------------------------

LEMMA PageStarts == Init => ToolPageInv
<1> SUFFICES ASSUME Init PROVE ToolPageInv
  OBVIOUS
<1>1. /\ rows \in {Ids, Ids \ {New}} /\ active = rows
      /\ text = [i \in Ids |-> TextOf(i)]
      /\ view \in Views /\ begun = {}
      /\ tools = NoList /\ listed = NoList
      /\ form = Blank /\ inactive = FALSE
      /\ picked = {} /\ term = Ids /\ offered = [ids |-> {}, by |-> "none"]
      /\ call = [c \in Calls |-> NoCall] /\ asked = 0 /\ disturbed = FALSE
  BY DEF Init
<1>2. \A i \in Ids : TextOf(i) \in Text
  BY TextsOK
<1>3. ToolPageTypeOK
  <2>1. active \subseteq rows /\ rows \subseteq Ids /\ picked \subseteq Ids /\ term \in Terms
    BY <1>1, ToolPageAssumption
  <2>2. text \in [Ids -> Text]
    BY <1>1, <1>2
  <2>3. /\ tools \in List /\ listed \in List /\ form \in Form /\ view \in Views
        /\ offered \in [ids : SUBSET Ids, by : Views \cup {"none"}]
        /\ begun \subseteq Views /\ inactive \in BOOLEAN /\ disturbed \in BOOLEAN
    BY <1>1, TextsOK
  <2>4. asked \in 0..MaxAsked /\ call \in [Calls -> Call \cup {NoCall}]
    BY <1>1, ToolPageAssumption
  <2>5. QED
    BY <2>1, <2>2, <2>3, <2>4 DEF ToolPageTypeOK
<1>4. Known
  <2>1. FormOK /\ ListOK(tools) /\ ListOK(listed)
    BY <1>1, TextsOK DEF FormOK, ListOK
  <2>2. CallsOK
    BY <1>1, <1>2 DEF CallsOK
  <2>3. QED
    BY <2>1, <2>2 DEF Known
<1>5. Picks
  BY <1>1, TextsOK DEF Picks, PicksShown
<1>6. Current
  BY <1>1 DEF Current, Listing, InTime, NoCall
<1>7. QED
  BY <1>3, <1>4, <1>5, <1>6 DEF ToolPageInv

LEMMA PageStays ==
    ASSUME ToolPageInv, UNCHANGED vars
    PROVE  ToolPageInv'
<1>1. ToolPageTypeOK /\ Known /\ Picks /\ Current
  BY DEF ToolPageInv
<1>2. /\ UNCHANGED <<rows, active, text, view, begun, tools, form, inactive, listed>>
      /\ UNCHANGED <<picked, term, offered, call, asked, disturbed>>
  BY DEF vars, server, editor, picker
<1>3. ToolPageTypeOK'
  BY <1>1, <1>2 DEF ToolPageTypeOK
<1>4. Known'
  BY <1>1, <1>2 DEF Known, FormOK, CallsOK, CallOK, ListOK
<1>5. Picks'
  BY <1>1, <1>2 DEF Picks, PicksShown
<1>6. Current'
  BY <1>1, <1>2, CurrentKept DEF ToolPageTypeOK
<1>7. QED
  BY <1>3, <1>4, <1>5, <1>6 DEF ToolPageInv

LEMMA PageSteps == ToolPageInv /\ [Next]_vars => ToolPageInv'
<1> SUFFICES ASSUME ToolPageInv, [Next]_vars PROVE ToolPageInv'
  OBVIOUS
<1>1. ASSUME NEW c \in Calls,
             \/ Serve(c)
             \/ GenerateSchemas(c) \/ Save(c) \/ ToggleActive(c) \/ Delete(c)
             \/ CheckInactive(c) \/ PressRefresh(c)
             \/ \E v \in Views : Visit(v, c)
      PROVE  ToolPageInv'
  BY <1>1, ServeStep, GenerateStep, SaveStep, ToggleStep, DeleteStep, CheckStep,
     RefreshStep, VisitStep
<1>2. ASSUME NEW c \in Calls,
             \/ SchemasArrive(c) \/ ChangeAnswered(c) \/ ListArrives(c) \/ PickerArrives(c)
             \/ ListFails(c) \/ Fails(c) \/ PickerFails(c)
      PROVE  ToolPageInv'
  BY <1>2, SchemasStep, ChangeStep, ListStep, PickerArrivesStep, ListFailsStep,
     FailsStep, PickerFailsStep
<1>3. ASSUME \/ \E i \in Ids : Select(i) \/ Tick(i)
             \/ \E match \in Terms : Search(match)
             \/ Clear \/ TypeCode \/ TypeSchema \/ PickAll \/ PickNone \/ OthersChange
      PROVE  ToolPageInv'
  BY <1>3, SelectStep, TickStep, SearchStep, ClearStep, TypeStep, PickAllStep,
     PickNoneStep, OthersStep
<1>4. CASE UNCHANGED vars
  BY <1>4, PageStays
<1>5. QED
  BY <1>1, <1>2, <1>3, <1>4 DEF Next

LEMMA PageInvariant == Spec => []ToolPageInv
BY PageStarts, PageSteps, PTL DEF Spec

(* The editor lists no tool that others share, unless the list is the      *)
(* picker's, and all state of the two views has its type: a list holds     *)
(* rows that exist and says which view asked for it (ListOK), also while   *)
(* it is under way.                                                        *)
THEOREM EditorShowsOwn == Spec => []EditorListsOwn
<1>1. ToolPageInv => EditorListsOwn
  BY DEF ToolPageInv, Known, ListOK, EditorListsOwn
<1>2. QED
  BY <1>1, PageInvariant, PTL

(* Nothing is picked that the picker does not show, or hide by the search  *)
(* term, as long as the list it shows is its own.                          *)
THEOREM PickerShowsPicks == Spec => []PicksShown
<1>1. ToolPageInv => PicksShown
  BY DEF ToolPageInv, Picks
<1>2. QED
  BY <1>1, PageInvariant, PTL

(* When all calls are answered the editor's list is what the server has,   *)
(* if they did not overlap, none was lost, and nobody else changed a tool: *)
(* the one call under way asks for the list with the checkbox as it stands *)
(* (InTime), or will ask for it (Settled).                                 *)
THEOREM EditorSettles == Spec => []EditorCurrent
<1>1. ToolPageInv => EditorCurrent
  <2> SUFFICES ASSUME ToolPageInv, Listing = {}, "editor" \in begun, ~disturbed,
                      listed.by = "editor"
               PROVE  listed = EditorList(inactive)
    BY DEF EditorCurrent
  <2>1. Settled
    BY DEF Settled
  <2>2. UpToDate(listed)
    BY <2>1 DEF ToolPageInv, Current
  <2>3. QED
    BY <2>2 DEF UpToDate
<1>2. QED
  BY <1>1, PageInvariant, PTL

-----------------------------------------------------------------------------
(* The toggle *)

\* What a list says about its tools; what a call will change the editor to.
OnRight(list) ==
    list.by = "editor" => \A i \in list.ids : i \in list.on <=> i \in active

Pending(q) == \/ q.kind \in {"save", "toggle", "delete"} /\ q.stage = "answered"
              \/ q.kind = "list" /\ q.then # "none"

FlagRight(q) == \/ q.kind \in {"save", "toggle"} /\ q.stage = "answered"
                \/ q.kind = "list" /\ q.then = "select"
                => q.flag = (q.row \in active)

FormRight == form.sel # None /\ form.from = "editor"
             => form.id = form.sel /\ form.was = (form.id \in active)

AllRight == OnRight(tools) /\ OnRight(listed) /\ FormRight

Right == ~disturbed => /\ \A c \in Calls : FlagRight(call[c])
                       /\ (\A c \in Calls : ~Pending(call[c])) => AllRight

LEMMA RightKept ==
    ASSUME Right, UNCHANGED active, ~disturbed,
           \A c \in Calls : Pending(call[c]) => Pending(call[c])',
           \A c \in Calls : FlagRight(call[c]) => FlagRight(call[c])',
           AllRight => AllRight'
    PROVE  Right'
BY DEF Right

LEMMA RightBegins ==
    ASSUME ToolPageTypeOK, Right, NEW c \in Calls, NEW r, Begin(c, r), ~disturbed',
           r.stage = "sent", r.then # "select",
           UNCHANGED <<active, tools, form, listed>>
    PROVE  Right'
<1>1. ~disturbed /\ call[c] = NoCall /\ \A d \in Calls : call'[d] = IF d = c THEN r ELSE call[d]
  BY DEF Begin, Note, ToolPageTypeOK
<1>2. \A d \in Calls : Pending(call[d]) => Pending(call[d])'
  BY <1>1 DEF Pending, NoCall
<1>3. \A d \in Calls : FlagRight(call[d]) => FlagRight(call[d])'
  BY <1>1 DEF FlagRight
<1>4. AllRight => AllRight'
  BY DEF AllRight, OnRight, FormRight
<1>5. QED
  BY <1>1, <1>2, <1>3, <1>4, RightKept

\* A call ends that was not to change the editor.
LEMMA RightEnds ==
    ASSUME ToolPageTypeOK, Right, NEW c \in Calls, call' = [call EXCEPT ![c] = NoCall],
           ~disturbed, ~Pending(call[c]), UNCHANGED active, AllRight => AllRight'
    PROVE  Right'
<1>1. \A d \in Calls : call'[d] = IF d = c THEN NoCall ELSE call[d]
  BY DEF ToolPageTypeOK
<1>2. \A d \in Calls : Pending(call[d]) => Pending(call[d])'
  BY <1>1 DEF Pending
<1>3. \A d \in Calls : FlagRight(call[d]) => FlagRight(call[d])'
  BY <1>1 DEF FlagRight, NoCall
<1>4. QED
  BY <1>2, <1>3, RightKept

\* No call goes on.
LEMMA RightLocal ==
    ASSUME Right, UNCHANGED <<active, call, disturbed>>, ~disturbed', AllRight => AllRight'
    PROVE  Right'
<1>1. /\ \A c \in Calls : Pending(call[c]) => Pending(call[c])'
      /\ \A c \in Calls : FlagRight(call[c]) => FlagRight(call[c])'
  BY DEF Pending, FlagRight
<1>2. QED
  BY <1>1, RightKept

LEMMA RightStarts ==
    ASSUME ToolPageTypeOK, Right, NEW c \in Calls, ~disturbed',
           \/ GenerateSchemas(c) \/ Save(c) \/ ToggleActive(c) \/ Delete(c)
           \/ CheckInactive(c) \/ PressRefresh(c)
    PROVE  Right'
<1> DEFINE g == [CallFor("generate") EXCEPT !.text = form.text]
           s == [CallFor("save") EXCEPT !.row = form.id, !.text = form.text]
           t == [CallFor("toggle") EXCEPT !.row = form.id, !.flag = ~form.was]
           d == [CallFor("delete") EXCEPT !.row = form.id]
           l == [CallFor("list") EXCEPT !.all = ~inactive]
           p == CallFor("pick")
<1>1. \A r \in {g, s, t, d, l, p} : r.stage = "sent" /\ r.then = "none"
  <2>1. g.stage = "sent" /\ g.then = "none"
    BY DEF CallFor
  <2>2. s.stage = "sent" /\ s.then = "none"
    BY DEF CallFor
  <2>3. t.stage = "sent" /\ t.then = "none"
    BY DEF CallFor
  <2>4. d.stage = "sent" /\ d.then = "none"
    BY DEF CallFor
  <2>5. l.stage = "sent" /\ l.then = "none"
    BY DEF CallFor
  <2>6. p.stage = "sent" /\ p.then = "none"
    BY DEF CallFor
  <2> HIDE DEF g, s, t, d, l, p
  <2>7. QED
    BY <2>1, <2>2, <2>3, <2>4, <2>5, <2>6
<1>2. UNCHANGED <<active, tools, form, listed>>
  BY DEF GenerateSchemas, Save, ToggleActive, Delete, CheckInactive, PressRefresh,
         Press, server, editor
<1>3. \E r \in {g, s, t, d, l, p} : Begin(c, r)
  BY DEF GenerateSchemas, Save, ToggleActive, Delete, CheckInactive, PressRefresh,
         Press, Send
<1> HIDE DEF g, s, t, d, l, p
<1>4. QED
  BY <1>1, <1>2, <1>3, RightBegins

LEMMA RightVisit ==
    ASSUME ToolPageTypeOK, Right, NEW c \in Calls, NEW v \in Views, Visit(v, c), ~disturbed'
    PROVE  Right'
<1> DEFINE p == CallFor("pick")
           l == [CallFor("list") EXCEPT !.then = "new"]
<1>1. \A r \in {p, l} : r.stage = "sent" /\ r.then # "select"
  BY DEF CallFor
<1>2. UNCHANGED <<active, tools, form, listed>>
  BY DEF Visit, server, editor
<1>3. (\E r \in {p, l} : Begin(c, r)) \/ UNCHANGED <<call, disturbed>>
  BY DEF Visit, Send
<1> HIDE DEF p, l
<1>4. CASE \E r \in {p, l} : Begin(c, r)
  BY <1>1, <1>2, <1>4, RightBegins
<1>5. CASE UNCHANGED <<call, disturbed>>
  BY <1>2, <1>5, RightLocal DEF AllRight, OnRight, FormRight
<1>6. QED
  BY <1>3, <1>4, <1>5

LEMMA RightServed ==
    ASSUME ToolPageInv, Right, NEW c \in Calls, Serve(c), ~disturbed'
    PROVE  Right'
<1>1. ToolPageTypeOK /\ Current
  BY DEF ToolPageInv
<1>2. /\ ~disturbed /\ call[c] \in Call /\ call[c].stage = "sent"
      /\ UNCHANGED <<tools, form, listed>>
  BY <1>1 DEF Serve, editor, ToolPageTypeOK
<1>3. CASE call[c].kind \in {"list", "pick"}
  <2>1. PICK list \in List : Answered(c, list) /\ UNCHANGED server
    <3>1. call[c].all \in BOOLEAN
      BY <1>2 DEF Call
    <3>2. EditorList(call[c].all) \in List /\ PickerList \in List
      BY <1>1, <3>1, ListsOK
    <3>3. QED
      BY <1>3, <3>2 DEF Serve
  <2>2. PICK a : call' = [call EXCEPT ![c] = a] /\ IsAnswerTo(a, call[c], list)
    BY <1>1, <1>2, <2>1, AnsweredIs
  <2>3. \A d \in Calls : call'[d] = IF d = c THEN a ELSE call[d]
    BY <1>1, <2>2 DEF ToolPageTypeOK
  <2>4. UNCHANGED active
    BY <2>1 DEF server
  <2>5. \A d \in Calls : /\ Pending(call[d]) => Pending(call[d])'
                         /\ FlagRight(call[d]) => FlagRight(call[d])'
    BY <1>3, <2>2, <2>3, <2>4 DEF Pending, FlagRight, IsAnswerTo
  <2>6. AllRight => AllRight'
    BY <1>2, <2>4 DEF AllRight, OnRight, FormRight
  <2>7. QED
    BY <1>2, <2>4, <2>5, <2>6, RightKept
<1>4. CASE call[c].kind \in {"save", "toggle", "delete"}
  <2>1. c \in Listing /\ \A d \in Calls \ {c} : d \notin Listing
    BY <1>1, <1>2, <1>4 DEF Listing, Current
  <2>2. PICK a : /\ call' = [call EXCEPT ![c] = a] /\ a.kind = call[c].kind
                 /\ a.stage = "answered"
                 /\ a.kind \in {"save", "toggle"} => a.flag = (a.row \in active')
    <3>1. CASE call[c].kind = "save"
      <4> DEFINE a == [[[call[c] EXCEPT !.stage = "answered"] EXCEPT !.row = New]
                                 EXCEPT !.flag = TRUE]
      <4>1. c \in DOMAIN call
        BY <1>1 DEF ToolPageTypeOK
      <4>2. /\ New \in active'
            /\ call' = [call EXCEPT ![c].stage = "answered", ![c].row = New, ![c].flag = TRUE]
        BY <3>1 DEF Serve
      <4>3. call' = [call EXCEPT ![c] = a]
        BY <4>1, <4>2
      <4>4. a.kind = "save" /\ a.stage = "answered" /\ a.row = New /\ a.flag = TRUE
        BY <1>2, <3>1 DEF Call
      <4> HIDE DEF a
      <4>5. a.flag = (a.row \in active')
        BY <4>2, <4>4
      <4>6. QED
        BY <3>1, <4>3, <4>4, <4>5
    <3>2. CASE call[c].kind \in {"toggle", "delete"}
      <4>1. /\ active' = IF call[c].flag THEN active \cup {call[c].row}
                                        ELSE active \ {call[c].row}
            /\ Answered(c, NoList)
        BY <3>2 DEF Serve
      <4>2. PICK a : call' = [call EXCEPT ![c] = a] /\ IsAnswerTo(a, call[c], NoList)
        BY <1>1, <1>2, <4>1, TextsOK, AnsweredIs
      <4>3. a.flag \in BOOLEAN /\ a.flag = call[c].flag /\ a.row = call[c].row
        BY <1>2, <4>2 DEF IsAnswerTo, Call
      <4>4. a.flag = (a.row \in active')
        BY <4>1, <4>3
      <4>5. QED
        BY <4>2, <4>4 DEF IsAnswerTo
    <3>3. QED
      BY <1>4, <3>1, <3>2
  <2>3. \A d \in Calls : call'[d] = IF d = c THEN a ELSE call[d]
    BY <1>1, <2>2 DEF ToolPageTypeOK
  <2>4. \A d \in Calls : FlagRight(call[d])'
    <3>1. TAKE d \in Calls
    <3>2. CASE d = c
      BY <1>4, <2>2, <2>3, <3>2 DEF FlagRight
    <3>3. CASE d # c
      BY <2>1, <2>3, <3>3 DEF FlagRight, Listing
    <3>4. QED
      BY <3>2, <3>3
  <2>5. Pending(call[c])'
    BY <1>4, <2>2, <2>3 DEF Pending
  <2>6. QED
    BY <2>4, <2>5 DEF Right
<1>5. QED
  BY <1>3, <1>4 DEF Serve

LEMMA RightChange ==
    ASSUME ToolPageInv, Right, NEW c \in Calls, ChangeAnswered(c), ~disturbed'
    PROVE  Right'
<1> DEFINE a(then) == [CallFor("list") EXCEPT !.row = call[c].row, !.then = then,
                                       !.flag = call[c].flag, !.all = inactive]
<1>1. ToolPageTypeOK
  BY DEF ToolPageInv
<1>2. /\ ~disturbed /\ UNCHANGED active /\ FlagRight(call[c])
      /\ call[c].kind \in {"save", "toggle", "delete"} /\ call[c].stage = "answered"
  BY DEF ChangeAnswered, server, Right
<1>3. \A then : /\ a(then).kind = "list" /\ a(then).then = then
                /\ a(then).row = call[c].row /\ a(then).flag = call[c].flag
  BY DEF CallFor
<1>4. call' = [call EXCEPT ![c] = a(IF call[c].kind = "delete" THEN "new" ELSE "select")]
  BY DEF ChangeAnswered, Refresh
<1> HIDE DEF a
<1>5. PICK then \in {"new", "select"} :
        /\ call' = [call EXCEPT ![c] = a(then)]
        /\ then = "select" => call[c].kind \in {"save", "toggle"}
  BY <1>2, <1>4
<1>6. \A d \in Calls : call'[d] = IF d = c THEN a(then) ELSE call[d]
  BY <1>1, <1>5 DEF ToolPageTypeOK
<1>7. \A d \in Calls : FlagRight(call[d])'
  <2>1. TAKE d \in Calls
  <2>2. CASE d = c
    BY <1>2, <1>3, <1>5, <1>6, <2>2 DEF FlagRight
  <2>3. CASE d # c
    BY <1>2, <1>6, <2>3 DEF FlagRight, Right
  <2>4. QED
    BY <2>2, <2>3
<1>8. Pending(call[c])'
  BY <1>3, <1>5, <1>6 DEF Pending
<1>9. QED
  BY <1>7, <1>8 DEF Right

LEMMA RightList ==
    ASSUME ToolPageInv, Right, NEW c \in Calls, ListArrives(c), ~disturbed'
    PROVE  Right'
<1> DEFINE q == call[c]
<1>1. ToolPageTypeOK /\ Current
  BY DEF ToolPageInv
<1>2. /\ q.kind = "list" /\ tools' = q.list /\ Continue(q) /\ ~disturbed
      /\ call' = [call EXCEPT ![c] = NoCall] /\ UNCHANGED active
      /\ q.stage = "answered"
  BY DEF ListArrives, server
<1>3. q \in Call /\ q.list = EditorList(inactive) /\ FlagRight(q)
  BY <1>1, <1>2 DEF ToolPageTypeOK, NoCall, Current, InTime, Right
<1>4. \A d \in Calls \ {c} : ~Pending(call[d])
  BY <1>1, <1>2 DEF Current, Listing, Pending
<1> HIDE DEF q
<1>5. OnRight(tools)'
  BY <1>2, <1>3 DEF OnRight, EditorList
<1>6. listed' = tools' /\ FormRight'
  <2>1. CASE q.then = "new"
    BY <2>1, <1>2, TextsOK DEF Continue, Show, FormRight
  <2>2. CASE q.then = "select"
    <3> DEFINE on == IF q.row \in tools'.ids THEN q.row \in tools'.on ELSE q.flag
    <3>1. form' = Opened(q.row, on, tools') /\ listed' = tools'
      BY <1>2, <2>2 DEF Continue, Show
    <3>2. on = (q.row \in active)
      <4>1. q.flag = (q.row \in active)
        BY <1>2, <1>3, <2>2 DEF FlagRight
      <4>2. q.row \in tools'.ids => (q.row \in tools'.on) = (q.row \in active)
        BY <1>2, <1>3 DEF EditorList
      <4>3. QED
        BY <4>1, <4>2
    <3> HIDE DEF on
    <3>3. form'.id = q.row /\ form'.sel = q.row /\ form'.was = on
      BY <3>1 DEF Opened
    <3>4. QED
      BY <1>2, <3>1, <3>2, <3>3 DEF FormRight
  <2>3. CASE q.then = "none"
    <3>1. \A d \in Calls : ~Pending(call[d])
      BY <1>2, <1>4, <2>3 DEF Pending, q
    <3>2. FormRight
      BY <1>2, <3>1 DEF Right, AllRight
    <3>3. form' = form /\ listed' = tools'
      BY <1>2, <2>3 DEF Continue
    <3>4. QED
      BY <1>2, <3>2, <3>3 DEF FormRight
  <2>4. QED
    BY <1>3, <2>1, <2>2, <2>3 DEF Call
<1>7. AllRight'
  BY <1>5, <1>6 DEF AllRight, OnRight
<1>8. \A d \in Calls : FlagRight(call[d])'
  <2>1. \A d \in Calls : call'[d] = IF d = c THEN NoCall ELSE call[d]
    BY <1>1, <1>2 DEF ToolPageTypeOK
  <2>2. QED
    BY <1>2, <2>1 DEF Right, FlagRight, NoCall
<1>9. QED
  BY <1>7, <1>8 DEF Right

LEMMA RightRest ==
    ASSUME ToolPageInv, Right, NEW c \in Calls, ~disturbed',
           \/ SchemasArrive(c) \/ PickerArrives(c) \/ ListFails(c) \/ Fails(c) \/ PickerFails(c)
    PROVE  Right'
<1>1. ToolPageTypeOK /\ Known
  BY DEF ToolPageInv
<1>2. CASE SchemasArrive(c)
  <2>1. /\ ~disturbed /\ call' = [call EXCEPT ![c] = NoCall] /\ call[c].kind = "generate"
        /\ UNCHANGED <<active, tools, listed>>
    BY <1>2 DEF SchemasArrive, server
  <2>2. UNCHANGED <<form.id, form.sel, form.was, form.from>>
    BY <1>1, <1>2 DEF SchemasArrive, ToolPageTypeOK, Form
  <2>3. ~Pending(call[c]) /\ (AllRight => AllRight')
    BY <2>1, <2>2 DEF Pending, AllRight, OnRight, FormRight
  <2>4. QED
    BY <1>1, <2>1, <2>3, RightEnds
<1>3. CASE PickerArrives(c) \/ PickerFails(c)
  <2>1. /\ ~disturbed /\ call' = [call EXCEPT ![c] = NoCall] /\ call[c].kind = "pick"
        /\ UNCHANGED <<active, form, listed>>
    BY <1>3 DEF PickerArrives, PickerFails, server, editor
  <2>2. tools' = tools \/ tools'.by = "picker"
    BY <1>1, <1>3 DEF PickerArrives, PickerFails, Known, CallsOK, CallOK, NoCall
  <2>3. ~Pending(call[c]) /\ (AllRight => AllRight')
    BY <2>1, <2>2 DEF Pending, AllRight, OnRight, FormRight
  <2>4. QED
    BY <1>1, <2>1, <2>3, RightEnds
<1>4. CASE Fails(c)
  <2>1. /\ ~disturbed /\ call' = [call EXCEPT ![c] = NoCall]
        /\ call[c].kind \in {"generate", "save", "toggle", "delete"}
        /\ call[c].kind # "generate" => call[c].stage # "answered"
        /\ UNCHANGED <<active, tools, form, listed>>
    BY <1>4 DEF Fails, Note, server, editor
  <2>2. ~Pending(call[c]) /\ (AllRight => AllRight')
    BY <2>1 DEF Pending, AllRight, OnRight, FormRight
  <2>3. QED
    BY <1>1, <2>1, <2>2, RightEnds
<1>5. CASE ListFails(c)
  BY <1>5 DEF ListFails, Note
<1>6. QED
  BY <1>2, <1>3, <1>4, <1>5

LEMMA RightHere ==
    ASSUME ToolPageInv, Right, ~disturbed',
           \/ \E i \in Ids : Select(i) \/ Tick(i)
           \/ \E match \in Terms : Search(match)
           \/ Clear \/ TypeCode \/ TypeSchema \/ PickAll \/ PickNone \/ OthersChange
    PROVE  Right'
<1>1. ToolPageTypeOK
  BY DEF ToolPageInv
<1>2. ASSUME NEW i \in Ids, Select(i)
      PROVE  Right'
  <2>1. /\ i \in listed.ids /\ form' = Opened(i, i \in listed.on, listed)
        /\ listed' = tools /\ UNCHANGED <<active, tools, call, disturbed>>
    BY <1>2 DEF Select, Show, server
  <2>2. /\ form'.id = i /\ form'.sel = i /\ form'.was = (i \in listed.on)
        /\ form'.from = listed.by
    BY <2>1 DEF Opened
  <2>3. AllRight => AllRight'
    BY <2>1, <2>2 DEF AllRight, OnRight, FormRight
  <2>4. QED
    BY <2>1, <2>3, RightLocal
<1>3. CASE Clear
  <2>1. form' = Blank /\ listed' = tools /\ UNCHANGED <<active, tools, call, disturbed>>
    BY <1>3 DEF Clear, Show, server
  <2>2. AllRight => AllRight'
    BY <2>1, TextsOK DEF AllRight, OnRight, FormRight
  <2>3. QED
    BY <2>1, <2>2, RightLocal
<1>4. CASE TypeCode \/ TypeSchema
  <2>1. PICK t \in Text : Write(t)
    BY <1>1, <1>4, TypeIs
  <2>2. UNCHANGED <<active, tools, listed, call, disturbed>>
    BY <2>1 DEF Write, server
  <2>3. UNCHANGED <<form.id, form.sel, form.was, form.from>>
    BY <1>1, <2>1 DEF Write, ToolPageTypeOK, Form
  <2>4. AllRight => AllRight'
    BY <2>2, <2>3 DEF AllRight, OnRight, FormRight
  <2>5. QED
    BY <2>2, <2>4, RightLocal
<1>5. ASSUME \/ \E i \in Ids : Tick(i)
             \/ \E match \in Terms : Search(match)
             \/ PickAll \/ PickNone
      PROVE  Right'
  <2>1. UNCHANGED <<active, tools, form, listed, call, disturbed>>
    BY <1>5 DEF Tick, Search, PickAll, PickNone, server, editor
  <2>2. AllRight => AllRight'
    BY <2>1 DEF AllRight, OnRight, FormRight
  <2>3. QED
    BY <2>1, <2>2, RightLocal
<1>6. CASE OthersChange
  BY <1>6 DEF OthersChange, Note
<1>7. QED
  BY <1>2, <1>3, <1>4, <1>5, <1>6

LEMMA RightSteps == ToolPageInv /\ Right /\ [Next]_vars => Right'
<1> SUFFICES ASSUME ToolPageInv, Right, [Next]_vars, ~disturbed' PROVE Right'
  BY DEF Right
<1>1. ToolPageTypeOK
  BY DEF ToolPageInv
<1>2. ASSUME NEW c \in Calls,
             \/ GenerateSchemas(c) \/ Save(c) \/ ToggleActive(c) \/ Delete(c)
             \/ CheckInactive(c) \/ PressRefresh(c)
             \/ \E v \in Views : Visit(v, c)
      PROVE  Right'
  BY <1>1, <1>2, RightStarts, RightVisit
<1>3. ASSUME NEW c \in Calls,
             \/ Serve(c) \/ ChangeAnswered(c) \/ ListArrives(c)
             \/ SchemasArrive(c) \/ PickerArrives(c) \/ ListFails(c) \/ Fails(c)
             \/ PickerFails(c)
      PROVE  Right'
  BY <1>3, RightServed, RightChange, RightList, RightRest
<1>4. CASE UNCHANGED vars
  <2>1. UNCHANGED <<active, tools, form, listed, call, disturbed>>
    BY <1>4 DEF vars, server, editor
  <2>2. QED
    BY <2>1, RightLocal DEF AllRight, OnRight, FormRight
<1>5. QED
  BY <1>2, <1>3, <1>4, RightHere DEF Next

(* The toggle does the opposite of what the server has, to the tool that   *)
(* is open: whatever a change answers, and the list that is awaited after  *)
(* it, agree with the server until the form shows them (FlagRight), and    *)
(* nothing changes in between.                                             *)
THEOREM EditorToggles == Spec => []ToggleFlips
<1>1. Init => Right
  BY TextsOK DEF Init, Right, FlagRight, AllRight, OnRight, FormRight, NoCall
<1>2. ToolPageInv /\ Right => ToggleFlips
  <2> SUFFICES ASSUME ToolPageInv, Right, Listing = {}, ~disturbed PROVE FormRight
    BY DEF ToggleFlips, FormRight
  <2>1. \A c \in Calls : ~Pending(call[c])
    BY DEF Listing, Pending
  <2>2. QED
    BY <2>1 DEF Right, AllRight
<1>3. QED
  BY <1>1, <1>2, RightSteps, PageInvariant, PTL DEF Spec

-----------------------------------------------------------------------------
(* Generated schemas *)

Fits(t) == ~t.hand => t.schema = t.code

\* What is about to be stored fits; what is generated is for the form's code.
Sent(q) == /\ q.kind = "save" => Fits(q.text)
           /\ q.kind = "generate" => q.text.code = form.text.code

Fitting ==
    /\ moved \in BOOLEAN
    /\ ~moved => /\ Fits(form.text) /\ \A i \in Ids : Fits(text[i])
                 /\ \A c \in Calls : Sent(call[c])

LEMMA FittingKept ==
    ASSUME Fitting, moved' = (moved \/ MoveOn),
           ~moved => /\ Fits(form.text)' /\ \A i \in Ids : Fits(text'[i])
                     /\ \A c \in Calls : Sent(call[c]) /\ ~MoveOn => Sent(call[c])'
    PROVE  Fitting'
<1>1. moved' \in BOOLEAN /\ (~moved' => ~moved /\ ~MoveOn)
  BY DEF Fitting
<1>2. QED
  BY <1>1 DEF Fitting

\* The call in a slot begins, goes on or ends; no text is stored.
LEMMA FittingCall ==
    ASSUME ToolPageTypeOK, Fitting, moved' = (moved \/ MoveOn), NEW c \in Calls, NEW r,
           call' = [call EXCEPT ![c] = r], UNCHANGED text, ~moved => Fits(form.text)',
           r.kind \in {"save", "generate"} => r.text = form.text /\ UNCHANGED form
    PROVE  Fitting'
<1>1. \A d \in Calls : call'[d] = IF d = c THEN r ELSE call[d]
  BY DEF ToolPageTypeOK
<1>2. ASSUME ~moved, ~MoveOn, NEW d \in Calls
      PROVE  Sent(call[d])'
  <2>1. Sent(call[d]) /\ Fits(form.text)
    BY <1>2 DEF Fitting
  <2>2. call[d].kind = "generate" => form'.text.code = form.text.code
    BY <1>2 DEF MoveOn
  <2>3. CASE d # c
    BY <1>1, <2>1, <2>2, <2>3 DEF Sent
  <2>4. CASE d = c
    BY <1>1, <2>1, <2>2, <2>4 DEF Sent, Fits
  <2>5. QED
    BY <2>3, <2>4
<1>3. QED
  BY <1>2, FittingKept DEF Fitting, Fits

LEMMA FittingOther ==
    ASSUME ToolPageTypeOK, Fitting, moved' = (moved \/ MoveOn), NEW c \in Calls, NEW r,
           call' = [call EXCEPT ![c] = r], r.kind \notin {"save", "generate"},
           UNCHANGED text, ~moved => Fits(form.text)'
    PROVE  Fitting'
BY FittingCall

LEMMA FittingEnds ==
    ASSUME ToolPageTypeOK, Fitting, moved' = (moved \/ MoveOn), NEW c \in Calls,
           call' = [call EXCEPT ![c] = NoCall], UNCHANGED text, ~moved => Fits(form.text)'
    PROVE  Fitting'
<1>1. NoCall.kind \notin {"save", "generate"}
  BY DEF NoCall
<1>2. QED
  BY <1>1, FittingOther

LEMMA FittingStarts ==
    ASSUME ToolPageTypeOK, Fitting, moved' = (moved \/ MoveOn), NEW c \in Calls,
           \/ GenerateSchemas(c) \/ Save(c) \/ ToggleActive(c) \/ Delete(c)
           \/ CheckInactive(c) \/ PressRefresh(c)
    PROVE  Fitting'
<1> DEFINE g == [CallFor("generate") EXCEPT !.text = form.text]
           s == [CallFor("save") EXCEPT !.row = form.id, !.text = form.text]
           t == [CallFor("toggle") EXCEPT !.row = form.id, !.flag = ~form.was]
           d == [CallFor("delete") EXCEPT !.row = form.id]
           l == [CallFor("list") EXCEPT !.all = ~inactive]
           p == CallFor("pick")
<1>1. g.text = form.text /\ s.text = form.text
  BY DEF CallFor
<1>2. t.kind = "toggle" /\ d.kind = "delete" /\ l.kind = "list" /\ p.kind = "pick"
  <2>1. t.kind = "toggle"
    BY DEF CallFor
  <2>2. d.kind = "delete"
    BY DEF CallFor
  <2>3. l.kind = "list"
    BY DEF CallFor
  <2>4. p.kind = "pick"
    BY DEF CallFor
  <2> HIDE DEF t, d, l, p
  <2>5. QED
    BY <2>1, <2>2, <2>3, <2>4
<1>3. UNCHANGED <<form, text>>
  BY DEF GenerateSchemas, Save, ToggleActive, Delete, CheckInactive, PressRefresh,
         Press, server, editor
<1>4. \E r \in {g, s, t, d, l, p} : call' = [call EXCEPT ![c] = r]
  BY DEF GenerateSchemas, Save, ToggleActive, Delete, CheckInactive, PressRefresh,
         Press, Send, Begin
<1> HIDE DEF g, s, t, d, l, p
<1>5. PICK r \in {g, s, t, d, l, p} : call' = [call EXCEPT ![c] = r]
  BY <1>4
<1>6. r.kind \in {"save", "generate"} => r.text = form.text
  BY <1>1, <1>2, <1>5
<1>7. ~moved => Fits(form.text)'
  BY <1>3 DEF Fitting, Fits
<1>8. QED
  BY <1>3, <1>5, <1>6, <1>7, FittingCall

\* The form has another text that fits, or one the user typed in.
LEMMA FittingForm ==
    ASSUME Fitting, moved' = (moved \/ MoveOn), UNCHANGED <<text, call>>,
           ~moved => Fits(form.text)'
    PROVE  Fitting'
<1>1. ASSUME ~MoveOn, NEW c \in Calls, Sent(call[c])
      PROVE  Sent(call[c])'
  BY <1>1 DEF MoveOn, Sent, Fits
<1>2. QED
  BY <1>1, FittingKept DEF Fitting, Fits

LEMMA FittingServed ==
    ASSUME ToolPageTypeOK, Fitting, moved' = (moved \/ MoveOn), NEW c \in Calls, Serve(c)
    PROVE  Fitting'
<1>1. /\ form' = form /\ call[c] \in Call
      /\ \A d \in Calls \ {c} : call'[d] = call[d]
  BY DEF Serve, Answered, editor, ToolPageTypeOK
<1>2. call'[c].kind = call[c].kind /\ call'[c].text = call[c].text
  <2>1. c \in DOMAIN call
    BY DEF ToolPageTypeOK
  <2>2. CASE \E list : Answered(c, list)
    <3>1. PICK list : Answered(c, list)
      BY <2>2
    <3>2. call'[c] = [[call[c] EXCEPT !.stage = "answered"] EXCEPT !.list = list]
      BY <2>1, <3>1 DEF Answered
    <3>3. QED
      BY <1>1, <3>2 DEF Call
  <2>3. CASE call' = [call EXCEPT ![c].stage = "answered", ![c].row = New, ![c].flag = TRUE]
    <3>1. call'[c] = [[[call[c] EXCEPT !.stage = "answered"] EXCEPT !.row = New]
                               EXCEPT !.flag = TRUE]
      BY <2>1, <2>3
    <3>2. QED
      BY <1>1, <3>1 DEF Call
  <2>4. QED
    BY <2>2, <2>3 DEF Serve
<1>3. text' = text \/ (call[c].kind = "save" /\ text' = [text EXCEPT ![New] = call[c].text])
  BY DEF Serve, server
<1>4. ~moved => \A i \in Ids : Fits(text'[i])
  <2> SUFFICES ASSUME ~moved, NEW i \in Ids PROVE Fits(text'[i])
    OBVIOUS
  <2>1. Fits(text[i]) /\ (call[c].kind = "save" => Fits(call[c].text))
    BY DEF Fitting, Sent
  <2>2. QED
    BY <1>3, <2>1 DEF ToolPageTypeOK
<1>5. \A d \in Calls : Sent(call[d]) => Sent(call[d])'
  <2>1. \A d \in Calls : call'[d].kind = call[d].kind /\ call'[d].text = call[d].text
    BY <1>1, <1>2
  <2>2. QED
    BY <1>1, <2>1 DEF Sent, Fits
<1>6. ~moved => Fits(form.text)'
  BY <1>1 DEF Fitting, Fits
<1>7. QED
  BY <1>4, <1>5, <1>6, FittingKept

LEMMA FittingAnswers ==
    ASSUME ToolPageTypeOK, Known, Fitting, moved' = (moved \/ MoveOn), NEW c \in Calls,
           \/ SchemasArrive(c) \/ ChangeAnswered(c) \/ ListArrives(c) \/ PickerArrives(c)
           \/ ListFails(c) \/ Fails(c) \/ PickerFails(c)
    PROVE  Fitting'
<1>1. CASE SchemasArrive(c)
  <2>1. /\ call[c].kind = "generate" /\ call' = [call EXCEPT ![c] = NoCall] /\ UNCHANGED text
        /\ form' = [form EXCEPT !.text.schema = call[c].text.code, !.text.hand = FALSE]
    BY <1>1 DEF SchemasArrive, server
  <2>2. form'.text.schema = call[c].text.code /\ form'.text.code = form.text.code
    BY <2>1 DEF ToolPageTypeOK, Form, Text
  <2>3. ~moved => Fits(form.text)'
    BY <2>1, <2>2 DEF Fitting, Sent, Fits
  <2>4. QED
    BY <2>1, <2>3, FittingEnds
<1>2. CASE ChangeAnswered(c)
  <2> DEFINE a(then) == [CallFor("list") EXCEPT !.row = call[c].row, !.then = then,
                                         !.flag = call[c].flag, !.all = inactive]
  <2>1. \A then : a(then).kind = "list"
    BY DEF CallFor
  <2>2. \E then \in {"new", "select"} : call' = [call EXCEPT ![c] = a(then)]
    BY <1>2 DEF ChangeAnswered, Refresh
  <2> HIDE DEF a
  <2>3. PICK then \in {"new", "select"} : call' = [call EXCEPT ![c] = a(then)]
    BY <2>2
  <2>4. form'.text = form.text /\ UNCHANGED text
    BY <1>2 DEF ChangeAnswered, ToolPageTypeOK, Form, server
  <2>5. ~moved => Fits(form.text)'
    BY <2>4 DEF Fitting, Fits
  <2>6. QED
    BY <2>1, <2>3, <2>4, <2>5, FittingOther
<1>3. CASE ListArrives(c) \/ ListFails(c)
  <2>1. call' = [call EXCEPT ![c] = NoCall] /\ UNCHANGED text
    BY <1>3 DEF ListArrives, ListFails, server
  <2>2. call[c] \in Call /\ call[c] # NoCall /\ CallOK(call[c])
    <3>1. call[c].kind = "list"
      BY <1>3 DEF ListArrives, ListFails
    <3>2. call[c] \in Call /\ call[c] # NoCall
      BY <3>1 DEF NoCall, ToolPageTypeOK
    <3>3. QED
      BY <3>2 DEF Known, CallsOK
  <2>3. form' = form \/ Continue(call[c])
    BY <1>3 DEF ListArrives, ListFails
  <2>4. ASSUME Continue(call[c])
        PROVE  form' = form \/ form'.text = TextOf("template")
               \/ \E i \in Ids : form'.text = text[i]
    <3>1. CASE call[c].then = "new"
      BY <2>4, <3>1 DEF Continue, Show, Blank
    <3>2. CASE call[c].then = "select"
      <4>1. call[c].row \in Ids
        BY <2>2, <3>2 DEF CallOK, ToolPageTypeOK
      <4>2. form'.text = text[call[c].row]
        BY <2>4, <3>2 DEF Continue, Show, Opened
      <4>3. QED
        BY <4>1, <4>2
    <3>3. CASE call[c].then = "none"
      BY <2>4, <3>3 DEF Continue
    <3>4. QED
      BY <2>2, <3>1, <3>2, <3>3 DEF Call
  <2>5. ~moved => Fits(form.text)'
    BY <2>3, <2>4 DEF Fitting, Fits, TextOf
  <2>6. QED
    BY <2>1, <2>5, FittingEnds
<1>4. CASE PickerArrives(c) \/ Fails(c) \/ PickerFails(c)
  <2>1. call' = [call EXCEPT ![c] = NoCall] /\ UNCHANGED <<form, text>>
    BY <1>4 DEF PickerArrives, Fails, PickerFails, server, editor
  <2>2. ~moved => Fits(form.text)'
    BY <2>1 DEF Fitting, Fits
  <2>3. QED
    BY <2>1, <2>2, FittingEnds
<1>5. QED
  BY <1>1, <1>2, <1>3, <1>4

LEMMA FittingHere ==
    ASSUME ToolPageTypeOK, Known, Fitting, moved' = (moved \/ MoveOn),
           \/ \E i \in Ids : Select(i) \/ Tick(i)
           \/ \E match \in Terms : Search(match)
           \/ Clear \/ TypeCode \/ TypeSchema \/ PickAll \/ PickNone \/ OthersChange
    PROVE  Fitting'
<1>1. UNCHANGED <<text, call>>
  <2>1. CASE TypeCode \/ TypeSchema
    BY <2>1, TypeIs DEF Write, server
  <2>2. CASE ~(TypeCode \/ TypeSchema)
    BY <2>2 DEF Select, Tick, Search, Clear, PickAll, PickNone, OthersChange, server
  <2>3. QED
    BY <2>1, <2>2
<1>2. \/ form' = form \/ form'.text.hand = TRUE \/ form'.text = TextOf("template")
      \/ \E i \in Ids : form'.text = text[i]
  <2>1. CASE TypeCode \/ TypeSchema
    <3>1. PICK t \in Text : Write(t) /\ t.hand = TRUE
      BY <2>1, TypeIs
    <3>2. QED
      BY <3>1 DEF Write, ToolPageTypeOK, Form
  <2>2. CASE Clear
    BY <2>2 DEF Clear, Show, Blank
  <2>3. CASE \E i \in Ids : Select(i)
    BY <2>3 DEF Select, Show, Opened
  <2>4. CASE ~(TypeCode \/ TypeSchema \/ Clear \/ \E i \in Ids : Select(i))
    BY <2>4 DEF Tick, Search, PickAll, PickNone, OthersChange, editor
  <2>5. QED
    BY <2>1, <2>2, <2>3, <2>4
<1>3. ~moved => Fits(form.text)'
  BY <1>2 DEF Fitting, Fits, TextOf
<1>4. QED
  BY <1>1, <1>3, FittingForm

LEMMA FittingVisit ==
    ASSUME ToolPageTypeOK, Fitting, moved' = (moved \/ MoveOn), NEW c \in Calls,
           NEW v \in Views, Visit(v, c)
    PROVE  Fitting'
<1> DEFINE p == CallFor("pick")
           l == [CallFor("list") EXCEPT !.then = "new"]
<1>1. p.kind = "pick" /\ l.kind = "list"
  BY DEF CallFor
<1>2. UNCHANGED <<form, text>>
  BY DEF Visit, server, editor
<1>3. (\E r \in {p, l} : call' = [call EXCEPT ![c] = r]) \/ UNCHANGED call
  BY DEF Visit, Send, Begin
<1> HIDE DEF p, l
<1>4. ~moved => Fits(form.text)'
  BY <1>2 DEF Fitting, Fits
<1>5. CASE UNCHANGED call
  BY <1>2, <1>4, <1>5, FittingForm
<1>6. CASE \E r \in {p, l} : call' = [call EXCEPT ![c] = r]
  <2>1. PICK r \in {p, l} : call' = [call EXCEPT ![c] = r]
    BY <1>6
  <2>2. r.kind \notin {"save", "generate"}
    BY <1>1, <2>1
  <2>3. QED
    BY <1>2, <1>4, <2>1, <2>2, FittingOther
<1>7. QED
  BY <1>3, <1>5, <1>6

LEMMA FittingSteps ==
    ASSUME ToolPageInv, Fitting,
           [Next /\ moved' = (moved \/ MoveOn)]_<<vars, moved>>
    PROVE  Fitting'
<1>1. ToolPageTypeOK /\ Known
  BY DEF ToolPageInv
<1>2. CASE UNCHANGED <<vars, moved>>
  <2>1. UNCHANGED <<form, text, call, moved>>
    BY <1>2 DEF vars, server, editor
  <2>2. QED
    BY <2>1 DEF Fitting, Fits, Sent
<1>3. CASE Next /\ moved' = (moved \/ MoveOn)
  <2>1. ASSUME NEW c \in Calls,
               \/ Serve(c)
               \/ GenerateSchemas(c) \/ Save(c) \/ ToggleActive(c) \/ Delete(c)
               \/ CheckInactive(c) \/ PressRefresh(c)
               \/ \E v \in Views : Visit(v, c)
        PROVE  Fitting'
    BY <1>1, <1>3, <2>1, FittingServed, FittingStarts, FittingVisit
  <2>2. ASSUME NEW c \in Calls,
               \/ SchemasArrive(c) \/ ChangeAnswered(c) \/ ListArrives(c)
               \/ PickerArrives(c) \/ ListFails(c) \/ Fails(c) \/ PickerFails(c)
        PROVE  Fitting'
    BY <1>1, <1>3, <2>2, FittingAnswers
  <2>3. QED
    BY <1>1, <1>3, <2>1, <2>2, FittingHere DEF Next
<1>4. QED
  BY <1>2, <1>3

(* Schemas that were generated fit the code they are put with, and stored  *)
(* with, unless the code in the form changed while they were under way:    *)
(* until then every request under way is for the code that is in the form  *)
(* (Sent), whoever started it and in whatever order the answers arrive.    *)
THEOREM GeneratedStaysFit == WatchedSpec => []GeneratedFit
<1>1. Init /\ moved = FALSE => Fitting
  <2> SUFFICES ASSUME Init, moved = FALSE PROVE Fitting
    OBVIOUS
  <2>1. /\ form.text = TextOf("template") /\ \A i \in Ids : text[i] = TextOf(i)
        /\ \A c \in Calls : call[c].kind = "idle"
    BY DEF Init, Blank, NoCall
  <2>2. \A whose : Fits(TextOf(whose))
    BY DEF Fits, TextOf
  <2>3. \A c \in Calls : Sent(call[c])
    BY <2>1 DEF Sent
  <2>4. QED
    BY <2>1, <2>2, <2>3 DEF Fitting
<1>2. ToolPageInv /\ Fitting => GeneratedFit
  BY DEF ToolPageInv, ToolPageTypeOK, Fitting, Fits, GeneratedFit
<1>3. [Next /\ moved' = (moved \/ MoveOn)]_<<vars, moved>> => [Next]_vars
  OBVIOUS
<1>4. QED
  BY <1>1, <1>2, <1>3, PageStarts, PageSteps, FittingSteps, PTL DEF WatchedSpec

-----------------------------------------------------------------------------
(* The runs shown *)

(* Counting the entries *)

LEMMA EarlierOK ==
    ASSUME TraceTypeOK, NEW kind
    PROVE  /\ \A k \in Nat : Earlier(kind, k) \in Nat
           /\ \A k \in 1..(Len(trace) + 1) : Earlier(kind, k) <= Shown(kind)
           /\ \A k \in 1..Len(trace) :
                trace[k].kind = kind => Earlier(kind, k) + 1 <= Shown(kind)
<1> DEFINE B(k) == {j \in DOMAIN trace : j < k /\ trace[j].kind = kind}
           n == Len(trace)
<1>1. n \in Nat /\ DOMAIN trace = 1..n
  BY DEF TraceTypeOK
<1>2. \A k : B(k) \subseteq 1..n /\ IsFiniteSet(B(k))
  <2>1. TAKE k
  <2>2. B(k) \subseteq 1..n
    BY <1>1
  <2>3. IsFiniteSet(1..n)
    BY <1>1, FS_Interval
  <2>4. QED
    BY <2>2, <2>3, FS_Subset
<1>3. \A k : Cardinality(B(k)) \in Nat
  BY <1>2, FS_CardinalityType
<1>4. ASSUME NEW k \in 1..(n + 1)
      PROVE  Cardinality(B(k)) <= Cardinality(B(n + 1))
  <2>1. B(k) \subseteq B(n + 1)
    BY <1>1
  <2>2. QED
    BY <1>2, <2>1, FS_Subset
<1>5. ASSUME NEW k \in 1..n, trace[k].kind = kind
      PROVE  Cardinality(B(k)) + 1 <= Cardinality(B(n + 1))
  <2>1. k \notin B(k) /\ B(k) \cup {k} \subseteq B(n + 1)
    BY <1>1, <1>5
  <2> HIDE DEF B
  <2>2. Cardinality(B(k) \cup {k}) = Cardinality(B(k)) + 1
    BY <1>2, <2>1, FS_AddElement
  <2>3. Cardinality(B(k) \cup {k}) <= Cardinality(B(n + 1))
    BY <1>2, <2>1, FS_Subset
  <2>4. QED
    BY <2>2, <2>3
<1>6. QED
  BY <1>3, <1>4, <1>5 DEF Earlier, Shown

LEMMA UnsignedOK ==
    ASSUME TraceTypeOK
    PROVE  /\ Unsigned \in Seq(Entry) /\ Len(Unsigned) = Len(trace)
           /\ \A k \in 1..Len(trace) :
                /\ Unsigned[k].kind = trace[k].kind /\ Unsigned[k].of = trace[k].of
                /\ Unsigned[k].sign = FALSE
<1> DEFINE n == Len(trace)
<1>1. n \in Nat /\ DOMAIN trace = 1..n /\ \A k \in 1..n : trace[k] \in Entry
  BY DEF TraceTypeOK
<1> HIDE DEF n
<1>2. Unsigned = [k \in 1..n |-> [trace[k] EXCEPT !.sign = FALSE]]
  BY <1>1 DEF Unsigned
<1>3. \A k \in 1..n : /\ Unsigned[k] \in Entry /\ Unsigned[k].kind = trace[k].kind
                      /\ Unsigned[k].of = trace[k].of /\ Unsigned[k].sign = FALSE
  <2>1. ASSUME NEW e \in Entry
        PROVE  LET u == [e EXCEPT !.sign = FALSE]
               IN  u \in Entry /\ u.kind = e.kind /\ u.of = e.of /\ u.sign = FALSE
    BY DEF Entry
  <2>2. QED
    BY <1>1, <1>2, <2>1
<1>4. Unsigned \in Seq(Entry) /\ Len(Unsigned) = n
  BY <1>1, <1>2, <1>3
<1>5. QED
  BY <1>3, <1>4 DEF n

\* One more entry; the signs of the others may go.
LEMMA TraceGrows ==
    ASSUME TraceTypeOK, NEW t \in Seq(Entry), Len(t) = Len(trace),
           \A k \in 1..Len(trace) : t[k].kind = trace[k].kind,
           NEW e \in Entry, trace' = Append(t, e)
    PROVE  /\ trace' \in Seq(Entry) /\ Len(trace') = Len(trace) + 1
           /\ trace'[Len(trace) + 1] = e
           /\ \A k \in 1..Len(trace) : trace'[k] = t[k]
           /\ \A kind : \A k \in 1..(Len(trace) + 1) : Earlier(kind, k)' = Earlier(kind, k)
           /\ \A kind : Shown(kind)' = IF e.kind = kind THEN Shown(kind) + 1 ELSE Shown(kind)
<1> DEFINE n == Len(trace)
           B(kind, k) == {j \in DOMAIN trace : j < k /\ trace[j].kind = kind}
<1>1. n \in Nat /\ DOMAIN trace = 1..n
  BY DEF TraceTypeOK
<1>2. /\ trace' \in Seq(Entry) /\ Len(trace') = n + 1 /\ trace'[n + 1] = e
      /\ \A k \in 1..n : trace'[k] = t[k]
  BY <1>1
<1>3. DOMAIN trace' = 1..(n + 1)
  BY <1>2
<1>4. \A kind : \A k \in 1..(n + 1) :
        {j \in DOMAIN trace' : j < k /\ trace'[j].kind = kind} = B(kind, k)
  BY <1>1, <1>2, <1>3
<1>5. \A kind : \A k \in 1..(n + 1) : Earlier(kind, k)' = Earlier(kind, k)
  BY <1>4 DEF Earlier
<1>6. ASSUME NEW kind
      PROVE  Shown(kind)' = IF e.kind = kind THEN Shown(kind) + 1 ELSE Shown(kind)
  <2> DEFINE C == {j \in DOMAIN trace' : j < n + 2 /\ trace'[j].kind = kind}
  <2>1. C = IF e.kind = kind THEN B(kind, n + 1) \cup {n + 1} ELSE B(kind, n + 1)
    BY <1>1, <1>2, <1>3
  <2>2. n + 1 \notin B(kind, n + 1) /\ B(kind, n + 1) \subseteq 1..n
    BY <1>1
  <2>3. IsFiniteSet(B(kind, n + 1))
    <3>1. IsFiniteSet(1..n)
      BY <1>1, FS_Interval
    <3> HIDE DEF B
    <3>2. QED
      BY <2>2, <3>1, FS_Subset
  <2>4. Shown(kind)' = Cardinality(C) /\ Shown(kind) = Cardinality(B(kind, n + 1))
    <3>1. Len(trace') + 1 = n + 2
      BY <1>1, <1>2
    <3>2. QED
      BY <3>1 DEF Shown, Earlier
  <2> HIDE DEF B, C, n
  <2>5. Cardinality(B(kind, n + 1) \cup {n + 1}) = Cardinality(B(kind, n + 1)) + 1
    BY <2>2, <2>3, FS_AddElement
  <2>6. QED
    BY <2>1, <2>4, <2>5
<1>7. QED
  BY <1>2, <1>5, <1>6

-----------------------------------------------------------------------------
(* The invariant *)

\* The history is what is shown.
Shows ==
    /\ Len(history) = Shown("result")
    /\ \A k \in 1..Len(trace) :
         trace[k].kind = "result" => history[Earlier("result", k) + 1] = trace[k].of

\* Headers are of runs that were started.
Started == \A k \in 1..Len(trace) :
    trace[k].kind = "header" => trace[k].of \in Runs /\ stands[trace[k].of] # "no"

HeaderOK(k) ==
    /\ trace[k].sign = (stands[trace[k].of] = "running")
    /\ told[trace[k].of] = SubSeq(history, 1, Earlier("result", k))

OutcomeOK(k) ==
    trace[k].of # NoRun =>
      k > 1 /\ trace[k - 1] = [kind |-> "header", of |-> trace[k].of, sign |-> FALSE]

\* One run at a time, and its header is the last entry.
Orderly ==
    /\ count = Shown("header")
    /\ \A k \in 1..Len(trace) :
         IF trace[k].kind = "header" THEN HeaderOK(k) ELSE OutcomeOK(k)
    /\ \A r \in UnderWay :
         /\ Len(trace) > 0 /\ trace[Len(trace)].kind = "header" /\ trace[Len(trace)].of = r

TraceInv == TraceTypeOK /\ Shows /\ Started /\ (~muddled => Orderly)

LEMMA EntryIs ==
    ASSUME NEW e \in Entry, e.kind = "header", e.sign = FALSE
    PROVE  e = [kind |-> "header", of |-> e.of, sign |-> FALSE]
BY DEF Entry

LEMMA TraceShape ==
    ASSUME TraceTypeOK
    PROVE  /\ Len(trace) \in Nat /\ DOMAIN trace = 1..Len(trace)
           /\ \A k \in 1..Len(trace) : trace[k] \in Entry
           /\ Len(history) \in Nat /\ history \in Seq(Runs)
BY DEF TraceTypeOK

\* A header as it was, or without its sign.
LEMMA HeaderKept ==
    ASSUME TraceTypeOK, Shows, NEW k \in 1..Len(trace), told[trace[k].of] = SubSeq(history, 1, Earlier("result", k)),
           trace'[k].of = trace[k].of, Earlier("result", k)' = Earlier("result", k),
           told'[trace[k].of] = told[trace[k].of],
           history' = history \/ \E r \in Runs : history' = Append(history, r),
           trace'[k].sign = (stands'[trace[k].of] = "running")
    PROVE  HeaderOK(k)'
<1> DEFINE m == Earlier("result", k)
<1>1. m \in Nat /\ m <= Len(history)
  BY EarlierOK, TraceShape DEF Shows
<1>2. SubSeq(history', 1, m) = SubSeq(history, 1, m)
  <2>1. CASE history' = history
    BY <2>1
  <2>2. CASE history' # history
    <3>1. PICK r \in Runs : history' = Append(history, r)
      BY <2>2
    <3> HIDE DEF m
    <3>2. QED
      BY <1>1, <3>1, TraceShape
  <2>3. QED
    BY <2>1, <2>2
<1>3. told'[trace'[k].of] = SubSeq(history', 1, Earlier("result", k)')
  BY <1>2
<1>4. trace'[k].sign = (stands'[trace'[k].of] = "running")
  OBVIOUS
<1>5. QED
  BY <1>3, <1>4 DEF HeaderOK

LEMMA RunTraceStep ==
    ASSUME TraceInv, NEW r \in Runs, Run(r)
    PROVE  TraceInv'
<1> DEFINE e == [kind |-> "header", of |-> r, sign |-> TRUE]
<1>1. TraceTypeOK /\ Shows /\ Started /\ (~muddled => Orderly)
  BY DEF TraceInv
<1>0. PICK n \in Nat : n = Len(trace)
  BY <1>1, TraceShape
<1>2. /\ stands[r] = "no" /\ stands' = [stands EXCEPT ![r] = "running"]
      /\ told' = [told EXCEPT ![r] = history] /\ count' = count + 1
      /\ trace' = Append(trace, e) /\ history' = history
      /\ muddled' = (muddled \/ UnderWay # {})
  BY DEF Run
<1>3. e \in Entry /\ e.kind = "header" /\ e.of = r /\ e.sign = TRUE
  BY DEF Entry
<1> HIDE DEF e
<1>4. n = Len(trace) /\ n \in Nat /\ \A k \in 1..n : trace[k] \in Entry
  BY <1>0, <1>1, TraceShape
<1>5. /\ trace' \in Seq(Entry) /\ Len(trace') = n + 1 /\ trace'[n + 1] = e
      /\ \A k \in 1..n : trace'[k] = trace[k]
      /\ \A kind : \A k \in 1..(n + 1) : Earlier(kind, k)' = Earlier(kind, k)
      /\ \A kind : Shown(kind)' = IF e.kind = kind THEN Shown(kind) + 1 ELSE Shown(kind)
  <2>1. trace \in Seq(Entry)
    BY <1>1 DEF TraceTypeOK
  <2>2. QED
    BY <1>1, <1>2, <1>3, <1>4, <2>1, TraceGrows
<1>6. TraceTypeOK'
  BY <1>1, <1>2, <1>5 DEF TraceTypeOK
<1>7. Shows'
  <2>1. Len(history)' = Shown("result")'
    BY <1>1, <1>2, <1>3, <1>5 DEF Shows
  <2>2. ASSUME NEW k \in 1..(n + 1), trace'[k].kind = "result"
        PROVE  history'[Earlier("result", k)' + 1] = trace'[k].of
    <3>1. k \in 1..n
      BY <1>3, <1>4, <1>5, <2>2
    <3>2. Earlier("result", k)' = Earlier("result", k) /\ trace'[k] = trace[k]
      BY <1>4, <1>5, <3>1
    <3>3. QED
      BY <1>1, <1>2, <2>2, <3>1, <3>2, <1>4 DEF Shows
  <2>3. QED
    BY <1>5, <2>1, <2>2 DEF Shows
<1>8. Started'
  <2>1. ASSUME NEW k \in 1..(n + 1), trace'[k].kind = "header"
        PROVE  trace'[k].of \in Runs /\ stands'[trace'[k].of] # "no"
    BY <1>1, <1>2, <1>3, <1>4, <1>5, <2>1 DEF Started, TraceTypeOK
  <2>2. QED
    BY <1>5, <2>1 DEF Started
<1>9. ASSUME ~muddled'
      PROVE  Orderly'
  <2>1. Orderly /\ UnderWay = {}
    BY <1>1, <1>2, <1>9
  <2>2. count' = Shown("header")'
    BY <1>2, <1>3, <1>5, <2>1 DEF Orderly
  <2>3. UnderWay' = {r} /\ \A p \in Runs \ {r} : stands'[p] = stands[p]
    BY <1>1, <1>2, <2>1 DEF UnderWay, TraceTypeOK
  <2>4. ASSUME NEW k \in 1..n
        PROVE  IF trace[k].kind = "header" THEN HeaderOK(k)' ELSE OutcomeOK(k)'
    <3>1. trace'[k] = trace[k] /\ Earlier("result", k)' = Earlier("result", k)
      BY <1>4, <1>5
    <3>2. CASE trace[k].kind = "header"
      <4>1. trace[k].of \in Runs \ {r}
        BY <1>1, <1>2, <3>2, <1>4 DEF Started
      <4>2. HeaderOK(k)
        BY <2>1, <3>2, <1>4 DEF Orderly
      <4>3. told'[trace[k].of] = told[trace[k].of]
        BY <1>1, <1>2, <4>1 DEF TraceTypeOK
      <4>4. trace'[k].sign = (stands'[trace[k].of] = "running")
        BY <2>3, <3>1, <4>1, <4>2 DEF HeaderOK
      <4>5. HeaderOK(k)'
        BY <1>1, <1>2, <3>1, <4>2, <4>3, <4>4, HeaderKept, <1>4 DEF HeaderOK
      <4>6. QED
        BY <3>2, <4>5
    <3>3. CASE trace[k].kind # "header"
      <4>1. OutcomeOK(k)
        BY <2>1, <3>3, <1>4 DEF Orderly
      <4>2. k > 1 => trace'[k - 1] = trace[k - 1]
        BY <1>4, <1>5
      <4>3. QED
        BY <3>1, <3>3, <4>1, <4>2 DEF OutcomeOK
    <3>4. QED
      BY <3>2, <3>3
  <2>5. HeaderOK(n + 1)'
    <3>1. history = SubSeq(history, 1, Earlier("result", n + 1)')
      <4>1. Earlier("result", n + 1)' = Len(history)
        BY <1>1, <1>4, <1>5 DEF Shows, Shown
      <4>2. QED
        BY <1>1, <4>1, TraceShape
    <3>2. told'[r] = history /\ stands'[r] = "running"
      BY <1>1, <1>2 DEF TraceTypeOK
    <3>3. trace'[n + 1].sign = (stands'[trace'[n + 1].of] = "running")
      BY <1>3, <1>5, <3>2
    <3>4. QED
      BY <1>2, <1>3, <1>5, <3>1, <3>2, <3>3 DEF HeaderOK
  <2>6. \A k \in 1..(n + 1) :
          IF trace'[k].kind = "header" THEN HeaderOK(k)' ELSE OutcomeOK(k)'
    BY <1>3, <1>4, <1>5, <2>4, <2>5
  <2>7. \A p \in UnderWay' : /\ Len(trace') > 0 /\ trace'[Len(trace')].kind = "header"
                             /\ trace'[Len(trace')].of = p
    BY <1>3, <1>4, <1>5, <2>3
  <2>8. QED
    BY <1>5, <2>2, <2>6, <2>7 DEF Orderly
<1>10. QED
  BY <1>6, <1>7, <1>8, <1>9 DEF TraceInv

\* What the signs' going and one more entry, none a header, leave.
LEMMA MarkStep ==
    ASSUME TraceInv, NEW e \in Entry, e.kind \in {"result", "error"},
           trace' = Append(Unsigned, e),
           told' = told, count' = count, stands' \in [Runs -> {"no", "running", "over"}],
           \A r \in Runs : stands'[r] = "no" => stands[r] = "no",
           muddled' \in BOOLEAN,
           IF e.kind = "result" THEN e.of \in Runs /\ history' = Append(history, e.of)
                                ELSE history' = history,
           ~muddled' => /\ ~muddled /\ \A r \in Runs : stands'[r] # "running"
                        /\ e.of = NoRun \/ UnderWay = {e.of}
    PROVE  TraceInv'
<1>1. TraceTypeOK /\ Shows /\ Started /\ (~muddled => Orderly)
  BY DEF TraceInv
<1>2. PICK n \in Nat : n = Len(trace)
  BY <1>1, TraceShape
<1>3. /\ n = Len(trace) /\ n \in Nat /\ \A k \in 1..n : trace[k] \in Entry
      /\ Unsigned \in Seq(Entry) /\ Len(Unsigned) = n
      /\ \A k \in 1..n : /\ Unsigned[k].kind = trace[k].kind /\ Unsigned[k].of = trace[k].of
                         /\ Unsigned[k].sign = FALSE
  BY <1>1, <1>2, TraceShape, UnsignedOK
<1>4. /\ trace' \in Seq(Entry) /\ Len(trace') = n + 1 /\ trace'[n + 1] = e
      /\ \A k \in 1..n : trace'[k] = Unsigned[k]
      /\ \A kind : \A k \in 1..(n + 1) : Earlier(kind, k)' = Earlier(kind, k)
      /\ \A kind : Shown(kind)' = IF e.kind = kind THEN Shown(kind) + 1 ELSE Shown(kind)
  BY <1>1, <1>3, TraceGrows
<1>5. \A k \in 1..n : /\ trace'[k].kind = trace[k].kind /\ trace'[k].of = trace[k].of
                      /\ trace'[k].sign = FALSE /\ trace'[k] \in Entry
                      /\ Earlier("result", k)' = Earlier("result", k)
  BY <1>3, <1>4
<1>12. ASSUME NEW j \in 1..n, NEW x, trace[j].kind = "header", trace[j].of = x
       PROVE  trace'[j] = [kind |-> "header", of |-> x, sign |-> FALSE]
  <2>1. /\ trace'[j] \in Entry /\ trace'[j].kind = "header" /\ trace'[j].of = x
        /\ trace'[j].sign = FALSE
    BY <1>5, <1>12
  <2>2. QED
    BY <2>1, EntryIs
<1>6. history' \in Seq(Runs) /\ Len(history') = IF e.kind = "result" THEN Len(history) + 1
                                                                     ELSE Len(history)
  BY <1>1, TraceShape
<1>7. TraceTypeOK'
  BY <1>1, <1>4, <1>6 DEF TraceTypeOK
<1>8. Shows'
  <2>1. Len(history)' = Shown("result")'
    BY <1>1, <1>4, <1>6 DEF Shows
  <2>2. ASSUME NEW k \in 1..n, trace'[k].kind = "result"
        PROVE  history'[Earlier("result", k)' + 1] = trace'[k].of
    <3>1. history[Earlier("result", k) + 1] = trace[k].of
      BY <1>1, <1>3, <1>5, <2>2 DEF Shows
    <3>2. Earlier("result", k) \in Nat /\ Earlier("result", k) + 1 <= Len(history)
      <4>1. trace[k].kind = "result" /\ k \in 1..Len(trace) /\ k \in Nat
        BY <1>3, <1>5, <2>2
      <4>2. Len(history) = Shown("result")
        BY <1>1 DEF Shows
      <4>3. QED
        BY <1>1, <4>1, <4>2, EarlierOK
    <3>3. history'[Earlier("result", k) + 1] = history[Earlier("result", k) + 1]
      <4> DEFINE m == Earlier("result", k) + 1
      <4>1. m \in 1..Len(history) /\ history \in Seq(Runs) /\ Len(history) \in Nat
        BY <1>1, <3>2, TraceShape
      <4> HIDE DEF m
      <4>2. ASSUME NEW x \in Runs PROVE Append(history, x)[m] = history[m]
        BY <4>1
      <4>3. history'[m] = history[m]
        BY <4>2
      <4>4. QED
        BY <4>3 DEF m
    <3>4. QED
      BY <1>5, <3>1, <3>3
  <2>3. ASSUME e.kind = "result"
        PROVE  history'[Earlier("result", n + 1)' + 1] = e.of
    <3>1. Earlier("result", n + 1)' = Earlier("result", n + 1)
      BY <1>3, <1>4
    <3>2. Earlier("result", n + 1) = Len(history)
      BY <1>1, <1>3 DEF Shows, Shown
    <3>3. QED
      BY <1>1, <2>3, <3>1, <3>2, TraceShape
  <2>4. \A k \in 1..(n + 1) : trace'[k].kind = "result" =>
          history'[Earlier("result", k)' + 1] = trace'[k].of
    <3>1. TAKE k \in 1..(n + 1)
    <3>2. CASE k \in 1..n
      BY <2>2, <3>2
    <3>3. CASE k = n + 1
      BY <1>4, <2>3, <3>3
    <3>4. QED
      BY <1>3, <3>2, <3>3
  <2>5. QED
    BY <1>4, <2>1, <2>4 DEF Shows
<1>9. Started'
  <2>1. ASSUME NEW k \in 1..(n + 1), trace'[k].kind = "header"
        PROVE  trace'[k].of \in Runs /\ stands'[trace'[k].of] # "no"
    <3>1. k \in 1..n
      BY <1>3, <1>4, <2>1
    <3>2. QED
      BY <1>1, <1>3, <1>5, <2>1, <3>1 DEF Started
  <2>2. QED
    BY <1>4, <2>1 DEF Started
<1>10. ASSUME ~muddled'
       PROVE  Orderly'
  <2>1. /\ Orderly /\ \A r \in Runs : stands'[r] # "running"
        /\ e.of = NoRun \/ UnderWay = {e.of}
    BY <1>1, <1>10
  <2>2. count' = Shown("header")'
    BY <1>4, <2>1 DEF Orderly
  <2>3. ASSUME NEW k \in 1..n, trace[k].kind = "header"
        PROVE  HeaderOK(k)'
    <3>1. HeaderOK(k) /\ trace[k].of \in Runs
      BY <1>1, <1>3, <2>1, <2>3 DEF Orderly, Started
    <3>2. trace'[k].sign = (stands'[trace[k].of] = "running")
      BY <1>5, <2>1, <3>1
    <3>3. history' = history \/ \E r \in Runs : history' = Append(history, r)
      OBVIOUS
    <3>4. told'[trace[k].of] = told[trace[k].of]
          /\ told[trace[k].of] = SubSeq(history, 1, Earlier("result", k))
      BY <3>1 DEF HeaderOK
    <3>5. QED
      BY <1>1, <1>3, <1>5, <3>2, <3>3, <3>4, HeaderKept
  <2>4. ASSUME NEW k \in 1..n, trace[k].kind # "header"
        PROVE  OutcomeOK(k)'
    <3>1. OutcomeOK(k)
      BY <1>3, <2>1, <2>4 DEF Orderly
    <3>2. ASSUME trace'[k].of # NoRun
          PROVE  k > 1 /\ trace'[k - 1] = [kind |-> "header", of |-> trace'[k].of, sign |-> FALSE]
      <4>1. k > 1 /\ k - 1 \in 1..n
            /\ trace[k - 1] = [kind |-> "header", of |-> trace[k].of, sign |-> FALSE]
        BY <1>3, <1>5, <3>1, <3>2 DEF OutcomeOK
      <4>2. trace[k - 1].kind = "header" /\ trace[k - 1].of = trace[k].of
        BY <4>1
      <4>3. trace'[k - 1] = [kind |-> "header", of |-> trace[k].of, sign |-> FALSE]
        BY <1>12, <4>1, <4>2
      <4>4. QED
        BY <1>5, <4>1, <4>3
    <3>3. QED
      BY <3>2 DEF OutcomeOK
  <2>5. OutcomeOK(n + 1)'
    <3>1. ASSUME e.of # NoRun
          PROVE  n + 1 > 1 /\ trace'[n] = [kind |-> "header", of |-> e.of, sign |-> FALSE]
      <4>1. n > 0 /\ trace[n].kind = "header" /\ trace[n].of = e.of
        BY <1>3, <2>1, <3>1 DEF Orderly
      <4>2. n \in 1..n
        BY <1>3, <4>1
      <4>3. trace'[n] = [kind |-> "header", of |-> e.of, sign |-> FALSE]
        BY <1>12, <4>1, <4>2
      <4>4. QED
        BY <1>3, <4>1, <4>3
    <3>2. (n + 1) - 1 = n
      BY <1>3
    <3>3. QED
      BY <1>4, <3>1, <3>2 DEF OutcomeOK
  <2>6. \A k \in 1..(n + 1) :
          IF trace'[k].kind = "header" THEN HeaderOK(k)' ELSE OutcomeOK(k)'
    <3>1. TAKE k \in 1..(n + 1)
    <3>2. CASE k \in 1..n
      BY <1>5, <2>3, <2>4, <3>2
    <3>3. CASE k = n + 1
      BY <1>4, <2>5, <3>3
    <3>4. QED
      BY <1>3, <3>2, <3>3
  <2>7. UnderWay' = {}
    BY <2>1 DEF UnderWay
  <2>8. QED
    BY <1>4, <2>2, <2>6, <2>7 DEF Orderly
<1>11. QED
  BY <1>7, <1>8, <1>9, <1>10 DEF TraceInv

LEMMA OneUnderWay ==
    ASSUME TraceInv, ~muddled, NEW r \in UnderWay
    PROVE  UnderWay = {r}
BY DEF TraceInv, Orderly

LEMMA OutcomeStep ==
    ASSUME TraceInv, NEW r \in Runs, Result(r) \/ Error(r)
    PROVE  TraceInv'
<1> DEFINE e(kind) == [kind |-> kind, of |-> r, sign |-> FALSE]
<1>1. TraceTypeOK
  BY DEF TraceInv
<1>2. /\ stands[r] = "running" /\ stands' = [stands EXCEPT ![r] = "over"]
      /\ told' = told /\ count' = count /\ muddled' = muddled
      /\ \/ trace' = Append(Unsigned, e("result")) /\ history' = Append(history, r)
         \/ trace' = Append(Unsigned, e("error")) /\ history' = history
  BY DEF Result, Error
<1>3. \A kind \in {"result", "error"} : e(kind) \in Entry /\ e(kind).kind = kind /\ e(kind).of = r
  BY DEF Entry
<1> HIDE DEF e
<1>4. PICK x \in Entry :
        /\ trace' = Append(Unsigned, x) /\ x.kind \in {"result", "error"} /\ x.of = r
        /\ IF x.kind = "result" THEN x.of \in Runs /\ history' = Append(history, x.of)
                                ELSE history' = history
  BY <1>2, <1>3
<1>5. /\ stands' \in [Runs -> {"no", "running", "over"}]
      /\ \A p \in Runs : stands'[p] = IF p = r THEN "over" ELSE stands[p]
  BY <1>1, <1>2 DEF TraceTypeOK
<1>6. r \in UnderWay
  BY <1>2 DEF UnderWay
<1>7. ~muddled => UnderWay = {r}
  BY <1>6, OneUnderWay
<1>8. ~muddled' => /\ ~muddled /\ \A p \in Runs : stands'[p] # "running"
                   /\ x.of = NoRun \/ UnderWay = {x.of}
  BY <1>2, <1>4, <1>5, <1>7 DEF UnderWay
<1>9. muddled' \in BOOLEAN
  BY <1>1, <1>2 DEF TraceTypeOK
<1>10. QED
  BY <1>2, <1>4, <1>5, <1>8, <1>9, MarkStep

LEMMA AskNothingStep ==
    ASSUME TraceInv, AskNothing
    PROVE  TraceInv'
<1> DEFINE e == [kind |-> "error", of |-> NoRun, sign |-> FALSE]
<1>1. TraceTypeOK
  BY DEF TraceInv
<1>2. /\ trace' = Append(Unsigned, e) /\ muddled' = (muddled \/ UnderWay # {})
      /\ UNCHANGED <<stands, told, history, count>>
  BY DEF AskNothing
<1>3. e \in Entry /\ e.kind = "error" /\ e.of = NoRun
  BY DEF Entry
<1> HIDE DEF e
<1>4. stands' \in [Runs -> {"no", "running", "over"}] /\ muddled' \in BOOLEAN
  BY <1>1, <1>2 DEF TraceTypeOK
<1>5. ~muddled' => /\ ~muddled /\ \A r \in Runs : stands'[r] # "running"
                   /\ e.of = NoRun \/ UnderWay = {e.of}
  BY <1>2, <1>3 DEF UnderWay
<1>6. QED
  BY <1>2, <1>3, <1>4, <1>5, MarkStep

LEMMA NothingShown ==
    ASSUME trace = <<>>
    PROVE  \A kind : Shown(kind) = 0
<1>1. \A kind, k : {j \in DOMAIN trace : j < k /\ trace[j].kind = kind} = {}
  OBVIOUS
<1>2. QED
  BY <1>1, FS_EmptySet DEF Shown, Earlier

LEMMA TraceStarts == TraceInit => TraceInv
<1> SUFFICES ASSUME TraceInit PROVE TraceInv
  OBVIOUS
<1>1. TraceTypeOK
  <2>1. trace \in Seq(Entry) /\ history \in Seq(Runs) /\ count \in Nat /\ muddled \in BOOLEAN
    <3>1. \A S : <<>> \in Seq(S)
      OBVIOUS
    <3>2. QED
      BY <3>1 DEF TraceInit
  <2>2. stands \in [Runs -> {"no", "running", "over"}] /\ told \in [Runs -> Seq(Runs)]
    <3>1. <<>> \in Seq(Runs)
      OBVIOUS
    <3>2. QED
      BY <3>1 DEF TraceInit
  <2>3. QED
    BY <2>1, <2>2 DEF TraceTypeOK
<1>2. \A kind : Shown(kind) = 0
  BY NothingShown DEF TraceInit
<1>3. Shows /\ Started /\ Orderly
  BY <1>2 DEF TraceInit, Shows, Started, Orderly, UnderWay
<1>4. QED
  BY <1>1, <1>3 DEF TraceInv

LEMMA NewConversationStep ==
    ASSUME TraceInv, NewConversation
    PROVE  TraceInv'
<1>1. TraceTypeOK
  BY DEF TraceInv
<1>2. /\ trace' = <<>> /\ history' = <<>> /\ count' = 0
      /\ muddled' = (muddled \/ UnderWay # {}) /\ UNCHANGED <<stands, told>>
  BY DEF NewConversation
<1>3. TraceTypeOK'
  BY <1>1, <1>2 DEF TraceTypeOK
<1>4. (\A kind : Shown(kind) = 0)'
  <2>1. ASSUME trace' = <<>> PROVE (\A kind : Shown(kind) = 0)'
    <3>1. \A kind, k : {j \in DOMAIN trace' : j < k /\ trace'[j].kind = kind} = {}
      BY <2>1
    <3>2. QED
      BY <3>1, FS_EmptySet DEF Shown, Earlier
  <2>2. QED
    BY <1>2, <2>1
<1>5. Shows' /\ Started'
  BY <1>2, <1>4 DEF Shows, Started
<1>6. ~muddled' => Orderly'
  <2>1. 1..Len(trace') = {}
    BY <1>2
  <2>2. ~muddled' => UnderWay' = {}
    BY <1>2 DEF UnderWay
  <2>3. (count = Shown("header"))'
    BY <1>2, <1>4
  <2>4. QED
    BY <2>1, <2>2, <2>3 DEF Orderly
<1>7. QED
  BY <1>3, <1>5, <1>6 DEF TraceInv

LEMMA TraceStays ==
    ASSUME TraceInv, UNCHANGED traceVars
    PROVE  TraceInv'
<1>1. UNCHANGED <<stands, told, trace, history, count, muddled>>
  BY DEF traceVars
<1>2. /\ UnderWay' = UnderWay /\ \A kind, k : Earlier(kind, k)' = Earlier(kind, k)
      /\ \A kind : Shown(kind)' = Shown(kind)
  BY <1>1 DEF UnderWay, Earlier, Shown
<1>3. \A k : /\ HeaderOK(k) => HeaderOK(k)'
             /\ OutcomeOK(k) => OutcomeOK(k)'
  BY <1>1, <1>2 DEF HeaderOK, OutcomeOK
<1>4. Orderly => Orderly'
  BY <1>1, <1>2, <1>3 DEF Orderly
<1>5. TraceTypeOK' /\ Shows' /\ Started'
  BY <1>1, <1>2 DEF TraceInv, TraceTypeOK, Shows, Started
<1>6. QED
  BY <1>1, <1>4, <1>5 DEF TraceInv

LEMMA TraceSteps == TraceInv /\ [TraceNext]_traceVars => TraceInv'
BY RunTraceStep, OutcomeStep, AskNothingStep, NewConversationStep, TraceStays DEF TraceNext

LEMMA TraceInvariant == TraceSpec => []TraceInv
BY TraceStarts, TraceSteps, PTL DEF TraceSpec

(* The history that is sent with the next run holds the turns whose        *)
(* results are shown, in that order, whatever was pressed when; and if no  *)
(* button was pressed during a run, each turn was told exactly the results *)
(* before it, its result or error stands under its own header, and the     *)
(* headers are counted and bear the sign while their runs are under way.   *)
THEOREM TraceShowsRuns == TraceSpec => []TraceTells
<1>1. TraceInv => TraceTells
  <2> SUFFICES ASSUME TraceInv PROVE TraceTells
    OBVIOUS
  <2>1. TraceTypeOK /\ Shows /\ (~muddled => Orderly) /\ DOMAIN trace = 1..Len(trace)
    BY TraceShape DEF TraceInv
  <2>2. ASSUME ~muddled, NEW k \in 1..Len(trace)
        PROVE  IF trace[k].kind = "header"
               THEN /\ trace[k].sign = (stands[trace[k].of] = "running")
                    /\ told[trace[k].of] = SubSeq(history, 1, Earlier("result", k))
               ELSE trace[k].of # NoRun => trace[k - 1] =
                      [kind |-> "header", of |-> trace[k].of, sign |-> FALSE]
    BY <2>1, <2>2 DEF Orderly, HeaderOK, OutcomeOK
  <2>3. ~muddled => count = Shown("header")
    BY <2>1 DEF Orderly
  <2>4. QED
    BY <2>1, <2>2, <2>3 DEF TraceTells, Shows
<1>2. QED
  BY <1>1, TraceInvariant, PTL
=============================================================================
