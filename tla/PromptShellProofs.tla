--------------------------- MODULE PromptShellProofs --------------------------
(***************************************************************************)
(* Theorems about PromptPage for any users, prompts, changes and fetches   *)
(* under way.                                                              *)
(*                                                                         *)
(* That only owners change a prompt rests on ids being used once: the      *)
(* owner found when a change loads the row is still the owner when the     *)
(* change is committed, if the row is there at all (OwnersLoaded).  That   *)
(* texts stay with their prompt rests on the form: while no two fetches    *)
(* have overlapped, the only one under way is the one the form was opened  *)
(* for (FormMatches).                                                      *)
(*                                                                         *)
(* Theorems about Shell for any views, length of the history and number of *)
(* prompts under way.                                                      *)
(*                                                                         *)
(* Every entry of the history is one that is open to the user's groups,    *)
(* because what the menu offers is (OpenTo, Arranged), and the document    *)
(* shows the current one (Shows).  What has arrived has left its mark already: the   *)
(* administration panel with the user, the menu's Tool Lab links with the  *)
(* second of user and configuration, both selections with the              *)
(* configuration (Arranged).                                               *)
(***************************************************************************)
EXTENDS PromptPage, Shell, TLAPS

\* What a change under way may rely on.
OwnersLoaded ==
    \A w \in Requests : req[w].pc = "loaded" =>
        /\ req[w].op \in {"update", "delete"}
        /\ req[w].id \in spent /\ req[w].user \in Users
        /\ req[w].op = "update" => req[w].text \in Ids
        /\ row[req[w].id] # None => row[req[w].id].owner = req[w].user

\* The form, and the one fetch that may be under way, are about one prompt.
FormMatches ==
    /\ \A f, g \in Fetches : fetch[f] # None /\ fetch[g] # None => f = g
    /\ \A f \in Fetches : fetch[f] # None => ~form.open /\ form.id = fetch[f].id
    /\ form.open /\ form.mode = "edit" => form.from = form.id

\* Texts, those on their way included, are their prompt's.
TextsMatch ==
    /\ \A i \in Ids : row[i] # None => row[i].text = i
    /\ \A w \in Requests :
         req[w].pc = "loaded" /\ req[w].op = "update" => req[w].text = req[w].id

PromptsInv ==
    /\ PromptsTypeOK
    /\ OwnersLoaded
    /\ ~overlap => FormMatches /\ TextsMatch

-----------------------------------------------------------------------------
(* The server's steps: each keeps the types of the library and what the    *)
(* requests know.                                                          *)

LibraryInv == LibraryTypeOK /\ OwnersLoaded

LEMMA CreateStep ==
    ASSUME LibraryInv, NEW u \in Users, NEW i \in Ids, NEW public \in BOOLEAN,
           CreatePrompt(u, i, public)
    PROVE  LibraryInv' /\ (TextsMatch => TextsMatch')
<1>1. row[i] = None /\ i \notin spent
  BY DEF LibraryInv, LibraryTypeOK, CreatePrompt
<1>2. LibraryTypeOK'
  BY DEF LibraryInv, LibraryTypeOK, CreatePrompt, Row
<1>3. OwnersLoaded'
  BY <1>1 DEF LibraryInv, LibraryTypeOK, OwnersLoaded, CreatePrompt
<1>4. TextsMatch => TextsMatch'
  BY DEF LibraryInv, LibraryTypeOK, TextsMatch, CreatePrompt
<1>5. QED
  BY <1>2, <1>3, <1>4 DEF LibraryInv

LEMMA UpdateStep ==
    ASSUME LibraryInv, NEW w \in Requests, NEW u \in Users, NEW i \in Ids,
           NEW text \in Ids, NEW public \in BOOLEAN,
           UpdatePrompt(w, u, i, text, public)
    PROVE  LibraryInv' /\ (TextsMatch /\ text = i => TextsMatch')
<1>1. i \in spent /\ row[i] # None /\ row[i].owner = u
  BY DEF LibraryInv, LibraryTypeOK, UpdatePrompt, MayChange
<1> DEFINE r == [pc |-> "loaded", op |-> "update", user |-> u, id |-> i,
                 text |-> text, public |-> public, dirty |-> public # row[i].public]
<1>2. r \in Request /\ req' = [req EXCEPT ![w] = r] /\ UNCHANGED <<row, spent>>
  BY DEF UpdatePrompt, Request
<1>3. /\ r.pc = "loaded" /\ r.op = "update" /\ r.user = u /\ r.id = i
      /\ r.text = text
  OBVIOUS
<1> HIDE DEF r
<1>4. \A x \in Requests : req'[x] = IF x = w THEN r ELSE req[x]
  BY <1>2 DEF LibraryInv, LibraryTypeOK
<1>5. LibraryTypeOK'
  BY <1>2 DEF LibraryInv, LibraryTypeOK
<1>6. OwnersLoaded'
  BY <1>1, <1>2, <1>3, <1>4 DEF LibraryInv, OwnersLoaded
<1>7. TextsMatch /\ text = i => TextsMatch'
  BY <1>2, <1>3, <1>4 DEF TextsMatch
<1>8. QED
  BY <1>5, <1>6, <1>7 DEF LibraryInv

LEMMA DeleteStep ==
    ASSUME LibraryInv, NEW w \in Requests, NEW u \in Users, NEW i \in Ids,
           DeletePrompt(w, u, i)
    PROVE  LibraryInv' /\ (TextsMatch => TextsMatch')
<1>1. i \in spent /\ row[i].owner = u
  BY DEF LibraryInv, LibraryTypeOK, DeletePrompt, MayChange
<1> DEFINE r == [Idle EXCEPT !.pc = "loaded", !.op = "delete", !.user = u, !.id = i]
<1>2. r \in Request /\ req' = [req EXCEPT ![w] = r] /\ UNCHANGED <<row, spent>>
  BY DEF DeletePrompt, Request, Idle
<1>3. r.pc = "loaded" /\ r.op = "delete" /\ r.user = u /\ r.id = i
  BY DEF Idle
<1> HIDE DEF r
<1>4. \A x \in Requests : req'[x] = IF x = w THEN r ELSE req[x]
  BY <1>2 DEF LibraryInv, LibraryTypeOK
<1>5. LibraryTypeOK'
  BY <1>2 DEF LibraryInv, LibraryTypeOK
<1>6. OwnersLoaded'
  BY <1>1, <1>2, <1>3, <1>4 DEF LibraryInv, OwnersLoaded
<1>7. TextsMatch => TextsMatch'
  BY <1>2, <1>3, <1>4 DEF TextsMatch
<1>8. QED
  BY <1>5, <1>6, <1>7 DEF LibraryInv

LEMMA IdleOK == Idle \in Request /\ Idle.pc = "idle"
BY DEF Idle, Request

LEMMA CommitStep ==
    ASSUME LibraryInv, NEW w \in Requests, CommitChange(w) \/ ChangeFails(w)
    PROVE  LibraryInv' /\ (TextsMatch => TextsMatch')
<1>1. /\ req[w].pc = "loaded" /\ req[w].id \in Ids
      /\ req' = [req EXCEPT ![w] = Idle] /\ UNCHANGED spent
  BY DEF LibraryInv, OwnersLoaded, LibraryTypeOK, CommitChange, ChangeFails
<1>2. \A x \in Requests : req'[x] = IF x = w THEN Idle ELSE req[x]
  BY <1>1 DEF LibraryInv, LibraryTypeOK
<1>3. /\ row' \in [Ids -> Row \cup {None}]
      /\ \A i \in Ids : row'[i] # None =>
           row[i] # None /\ row'[i].owner = row[i].owner
      /\ TextsMatch => \A i \in Ids : row'[i] # None => row'[i].text = i
  <2> DEFINE r == req[w]
  <2>0. /\ row \in [Ids -> Row \cup {None}]
        /\ r.op = "update" => r.text \in Ids
        /\ r.op \in {"update", "delete"} /\ r.public \in BOOLEAN
        /\ TextsMatch /\ r.op = "update" => r.text = r.id
    BY <1>1 DEF LibraryInv, LibraryTypeOK, OwnersLoaded, Request, TextsMatch
  <2>1. CASE UNCHANGED row
    BY <2>1, <2>0 DEF TextsMatch
  <2>2. CASE row' = [row EXCEPT ![r.id] = None]
    BY <2>2, <2>0, <1>1 DEF TextsMatch
  <2>3. CASE /\ r.op = "update" /\ row[r.id] # None
             /\ row' = [row EXCEPT ![r.id].text = r.text,
                                   ![r.id].public = IF r.dirty THEN r.public ELSE @]
    <3> DEFINE s == [row[r.id] EXCEPT !.text = r.text,
                                      !.public = IF r.dirty THEN r.public ELSE @]
    <3>1. row[r.id] \in Row
      BY <2>0, <2>3, <1>1
    <3>2. s \in Row /\ s.owner = row[r.id].owner /\ s.text = r.text
      BY <3>1, <2>0, <2>3 DEF Row
    <3>3. row' = [row EXCEPT ![r.id] = s]
      BY <2>3, <2>0, <1>1, <3>1 DEF Row
    <3> HIDE DEF s
    <3>4. \A i \in Ids : row'[i] = IF i = r.id THEN s ELSE row[i]
      BY <3>3, <2>0
    <3>5. row' \in [Ids -> Row \cup {None}]
      BY <3>2, <3>3, <2>0
    <3>6. QED
      BY <3>2, <3>4, <3>5, <2>0, <2>3 DEF TextsMatch
  <2>4. QED
    BY <2>0, <2>1, <2>2, <2>3 DEF CommitChange, ChangeFails
<1>4. LibraryTypeOK'
  BY <1>1, <1>3, IdleOK DEF LibraryInv, LibraryTypeOK
<1>5. OwnersLoaded'
  <2> SUFFICES ASSUME NEW x \in Requests, req'[x].pc = "loaded"
               PROVE  /\ req'[x].op \in {"update", "delete"}
                      /\ req'[x].id \in spent' /\ req'[x].user \in Users
                      /\ req'[x].op = "update" => req'[x].text \in Ids
                      /\ row'[req'[x].id] # None =>
                            row'[req'[x].id].owner = req'[x].user
    BY DEF OwnersLoaded
  <2>1. req'[x] = req[x]
    BY <1>2, IdleOK
  <2>2. req[x].id \in Ids
    BY <2>1 DEF LibraryInv, OwnersLoaded, LibraryTypeOK
  <2>3. QED
    BY <1>1, <1>3, <2>1, <2>2 DEF LibraryInv, OwnersLoaded
<1>6. TextsMatch => TextsMatch'
  BY <1>2, <1>3, IdleOK DEF TextsMatch
<1>7. QED
  BY <1>4, <1>5, <1>6 DEF LibraryInv

-----------------------------------------------------------------------------
(* The page's steps *)

LEMMA PageStep ==
    ASSUME PromptsInv, UNCHANGED libraryVars,
           \/ \E f \in Fetches :
                \/ \E i \in Ids, mode \in {"edit", "show"} : OpenPrompt(f, mode, i)
                \/ FetchAnswered(f) \/ FetchFails(f)
           \/ OpenNew \/ CloseSidebar
           \/ \E includeOthers \in BOOLEAN : SearchPrompts(includeOthers)
    PROVE  PromptsInv'
<1>0. /\ LibraryTypeOK /\ table \subseteq Ids /\ form \in Form /\ overlap \in BOOLEAN
      /\ fetch \in [Fetches -> Fetch \cup {None}]
  BY DEF PromptsInv, PromptsTypeOK
<1>1. LibraryTypeOK' /\ OwnersLoaded' /\ (TextsMatch => TextsMatch')
  BY <1>0 DEF PromptsInv, libraryVars, LibraryTypeOK, OwnersLoaded, TextsMatch
<1>2. SUFFICES /\ table' \subseteq Ids /\ form' \in Form /\ overlap' \in BOOLEAN
               /\ fetch' \in [Fetches -> Fetch \cup {None}]
               /\ ~overlap' => ~overlap /\ FormMatches'
  BY <1>1 DEF PromptsInv, PromptsTypeOK
<1>3. ASSUME NEW f \in Fetches, NEW i \in Ids, NEW mode \in {"edit", "show"},
             OpenPrompt(f, mode, i)
      PROVE  /\ table' \subseteq Ids /\ form' \in Form /\ overlap' \in BOOLEAN
             /\ fetch' \in [Fetches -> Fetch \cup {None}]
             /\ ~overlap' => ~overlap /\ FormMatches'
  <2> DEFINE o == [mode |-> mode, id |-> i]
  <2>1. o \in Fetch /\ o.id = i
    BY DEF Fetch
  <2>2. /\ fetch' = [fetch EXCEPT ![f] = o] /\ ~form.open
        /\ form' = [form EXCEPT !.mode = mode, !.id = i]
        /\ overlap' = (overlap \/ FetchUnderWay) /\ table' = table
    BY <1>3 DEF OpenPrompt
  <2> HIDE DEF o
  <2>3. form' \in Form /\ form'.open = form.open /\ form'.id = i
    BY <2>2, <1>0 DEF Form
  <2>4. ASSUME ~FetchUnderWay
        PROVE  FormMatches'
    <3>1. \A g \in Fetches : fetch'[g] = IF g = f THEN o ELSE None
      BY <2>2, <2>4, <1>0 DEF FetchUnderWay
    <3>2. QED
      BY <3>1, <2>1, <2>2, <2>3 DEF FormMatches
  <2>5. fetch' \in [Fetches -> Fetch \cup {None}]
    BY <1>0, <2>1, <2>2
  <2>6. overlap' \in BOOLEAN /\ (~overlap' => ~overlap /\ ~FetchUnderWay)
    BY <1>0, <2>2
  <2>7. QED
    BY <1>0, <2>2, <2>3, <2>4, <2>5, <2>6
<1>4. ASSUME NEW f \in Fetches, FetchAnswered(f)
      PROVE  /\ table' \subseteq Ids /\ form' \in Form /\ overlap' \in BOOLEAN
             /\ fetch' \in [Fetches -> Fetch \cup {None}]
             /\ ~overlap' => ~overlap /\ FormMatches'
  <2>1. form' = [form EXCEPT !.open = TRUE, !.from = fetch[f].id,
                             !.writable = fetch[f].mode = "edit"]
        /\ fetch[f] # None /\ fetch' = [fetch EXCEPT ![f] = None]
        /\ UNCHANGED <<table, overlap>>
    BY <1>4 DEF FetchAnswered
  <2>2. fetch[f] \in Fetch
    BY <1>0, <2>1
  <2>3. /\ form' \in Form /\ form'.open /\ form'.from = fetch[f].id
        /\ form'.id = form.id
    BY <1>0, <2>1, <2>2 DEF Form, Fetch
  <2>4. fetch' \in [Fetches -> Fetch \cup {None}]
        /\ \A g \in Fetches : fetch'[g] = IF g = f THEN None ELSE fetch[g]
    BY <1>0, <2>1
  <2>5. FormMatches => FormMatches'
    BY <2>1, <2>3, <2>4 DEF FormMatches
  <2>6. QED
    BY <1>0, <2>1, <2>3, <2>4, <2>5 DEF PromptsInv
<1>5. ASSUME NEW f \in Fetches, FetchFails(f)
      PROVE  /\ table' \subseteq Ids /\ form' \in Form /\ overlap' \in BOOLEAN
             /\ fetch' \in [Fetches -> Fetch \cup {None}]
             /\ ~overlap' => ~overlap /\ FormMatches'
  BY <1>0, <1>5 DEF FetchFails, PromptsInv, FormMatches
<1>6. CASE OpenNew
  <2>1. /\ form' = [open |-> TRUE, mode |-> "create", id |-> None, from |-> None,
                    writable |-> TRUE]
        /\ overlap' = (overlap \/ FetchUnderWay) /\ UNCHANGED <<table, fetch>>
    BY <1>6 DEF OpenNew
  <2>2. form' \in Form /\ form'.mode = "create"
    BY <2>1 DEF Form
  <2>3. ~FetchUnderWay => FormMatches'
    BY <2>1, <2>2 DEF FormMatches, FetchUnderWay
  <2>4. QED
    BY <1>0, <2>1, <2>2, <2>3
<1>7. CASE CloseSidebar
  <2>1. form' = [form EXCEPT !.open = FALSE] /\ UNCHANGED <<table, fetch, overlap>>
    BY <1>7 DEF CloseSidebar
  <2>2. form' \in Form /\ ~form'.open /\ form'.id = form.id
    BY <1>0, <2>1 DEF Form
  <2>3. QED
    BY <1>0, <2>1, <2>2 DEF PromptsInv, FormMatches
<1>8. ASSUME NEW includeOthers \in BOOLEAN, SearchPrompts(includeOthers)
      PROVE  /\ table' \subseteq Ids /\ form' \in Form /\ overlap' \in BOOLEAN
             /\ fetch' \in [Fetches -> Fetch \cup {None}]
             /\ ~overlap' => ~overlap /\ FormMatches'
  BY <1>0, <1>8 DEF SearchPrompts, Listed, PromptsInv, FormMatches
<1>9. QED
  BY <1>3, <1>4, <1>5, <1>6, <1>7, <1>8

\* A step of the server that leaves the page alone.
LEMMA ServerStep ==
    ASSUME PromptsInv, UNCHANGED pageVars, LibraryInv',
           ~overlap => (TextsMatch => TextsMatch')
    PROVE  PromptsInv'
<1>1. PromptsTypeOK'
  BY DEF PromptsInv, PromptsTypeOK, LibraryInv, pageVars
<1>2. FormMatches => FormMatches'
  BY DEF FormMatches, pageVars
<1>3. QED
  BY <1>1, <1>2 DEF PromptsInv, LibraryInv, pageVars

-----------------------------------------------------------------------------

LEMMA PromptsInit == Init => PromptsInv
<1> SUFFICES ASSUME Init PROVE PromptsInv
  OBVIOUS
<1>1. LibraryTypeOK /\ OwnersLoaded /\ TextsMatch
  BY IdleOK DEF Init, LibraryInit, LibraryTypeOK, OwnersLoaded, TextsMatch
<1>2. form \in Form /\ ~form.open
  BY DEF Init, Form
<1>3. PromptsTypeOK
  BY <1>1, <1>2 DEF Init, PromptsTypeOK
<1>4. FormMatches
  BY <1>2 DEF Init, FormMatches
<1>5. QED
  BY <1>1, <1>3, <1>4 DEF PromptsInv

LEMMA PromptsNext == PromptsInv /\ [Next]_vars => PromptsInv'
<1> SUFFICES ASSUME PromptsInv, [Next]_vars PROVE PromptsInv'
  OBVIOUS
<1>0. LibraryInv
  BY DEF PromptsInv, PromptsTypeOK, LibraryInv
<1>1. ASSUME \/ \E f \in Fetches :
                  \/ \E i \in Ids, mode \in {"edit", "show"} : OpenPrompt(f, mode, i)
                  \/ FetchAnswered(f) \/ FetchFails(f)
             \/ OpenNew \/ CloseSidebar
             \/ \E includeOthers \in BOOLEAN : SearchPrompts(includeOthers)
      PROVE  PromptsInv'
  <2>1. UNCHANGED libraryVars
    BY <1>1 DEF OpenPrompt, FetchAnswered, FetchFails, OpenNew, CloseSidebar,
                SearchPrompts, libraryVars
  <2>2. QED
    BY <1>1, <2>1, PageStep
<1>2. ASSUME NEW w \in Requests, NEW public \in BOOLEAN, SaveEdit(w, public)
      PROVE  PromptsInv'
  <2>1. /\ form.open /\ form.mode = "edit" /\ form.id \in Ids /\ form.from \in Ids
        /\ UpdatePrompt(w, Me, form.id, form.from, public) /\ UNCHANGED pageVars
    BY <1>2 DEF SaveEdit, PromptsInv, PromptsTypeOK, Form
  <2>2. ~overlap => form.from = form.id
    BY <2>1 DEF PromptsInv, FormMatches
  <2>3. QED
    BY <1>0, <2>1, <2>2, UpdateStep, ServerStep, PageAssumption
<1>3. ASSUME NEW i \in Ids, NEW public \in BOOLEAN, SaveNew(i, public)
      PROVE  PromptsInv'
  BY <1>0, <1>3, CreateStep, ServerStep, PageAssumption DEF SaveNew
<1>4. CASE OthersChange
  BY <1>0, <1>4, CreateStep, UpdateStep, DeleteStep, ServerStep DEF OthersChange
<1>5. ASSUME NEW w \in Requests, CommitChange(w) \/ ChangeFails(w), UNCHANGED pageVars
      PROVE  PromptsInv'
  BY <1>0, <1>5, CommitStep, ServerStep
<1>6. CASE UNCHANGED vars
  <2>1. UNCHANGED libraryVars /\ UNCHANGED pageVars
    BY <1>6 DEF vars, libraryVars, pageVars
  <2>2. LibraryInv' /\ (TextsMatch => TextsMatch')
    BY <1>0, <2>1 DEF LibraryInv, LibraryTypeOK, OwnersLoaded, TextsMatch, libraryVars
  <2>3. QED
    BY <2>1, <2>2, ServerStep
<1>7. QED
  BY <1>1, <1>2, <1>3, <1>4, <1>5, <1>6 DEF Next

LEMMA PromptsInvariant == Spec => []PromptsInv
BY PromptsInit, PromptsNext, PTL DEF Spec

(* The texts of one prompt are never saved over another while the page has *)
(* not opened its form with a fetch under way (prompt.js,                  *)
(* openPromptSidebar and savePrompt), whatever other users and tabs do.    *)
THEOREM TextsStay == Spec => []TextStaysWithPrompt
<1>1. PromptsInv => TextStaysWithPrompt
  BY DEF PromptsInv, TextsMatch, TextStaysWithPrompt
<1>2. QED
  BY <1>1, PromptsInvariant, PTL

(* A prompt only changes by a request of its owner, though update_prompt   *)
(* and delete_prompt decide before they commit.                            *)
THEOREM OwnersChange == Spec => OnlyOwnerChanges
<1>1. ASSUME PromptsInv, [Next]_vars, NEW i \in Ids, row[i] # None, row'[i] # row[i]
      PROVE  \E w \in Requests :
                 req[w].id = i /\ req[w].user = row[i].owner /\ req'[w] = Idle
  <2>1. ~\E u \in Users, j \in Ids, public \in BOOLEAN : CreatePrompt(u, j, public)
    BY <1>1 DEF PromptsInv, PromptsTypeOK, LibraryTypeOK, CreatePrompt
  <2>2. PICK w \in Requests : CommitChange(w)
    BY <1>1, <2>1, PageAssumption DEF Next, vars, OpenPrompt, FetchAnswered, FetchFails,
       OpenNew, CloseSidebar, SearchPrompts, SaveEdit, SaveNew, OthersChange,
       UpdatePrompt, DeletePrompt, ChangeFails
  <2>3. req[w].pc = "loaded" /\ req'[w] = Idle /\ req[w].id = i
    BY <1>1, <2>2 DEF CommitChange, PromptsInv, PromptsTypeOK, LibraryTypeOK
  <2>4. QED
    BY <1>1, <2>3 DEF PromptsInv, OwnersLoaded
<1>2. PromptsInv /\ [Next]_vars =>
        [\A i \in Ids : row[i] # None /\ row'[i] # row[i] =>
            \E w \in Requests :
                req[w].id = i /\ req[w].user = row[i].owner /\ req'[w] = Idle]_vars
  BY <1>1
<1>3. QED
  BY <1>2, PromptsInvariant, PTL DEF Spec, OnlyOwnerChanges

-----------------------------------------------------------------------------
(* The shell *)

\* What the user's groups open to the user, on the page and in the API.
OpenTo(s, url) ==
    /\ url[1] = "admin" => "Admin" \in s.groups
    /\ url[1] \in ToolViews => s.enabled /\ InToolLab(s)

Shows(p, url) ==
    /\ p.view = url[1]
    /\ p.view = "admin" => p.tab = Default(url[2])
    /\ p.links = LinksOf(url[1], url[2])

Arranged(p, s) ==
    /\ p.panel => "Admin" \in s.groups
    /\ p.nav => s.enabled /\ InToolLab(s)
    /\ p.user = "here" /\ "Admin" \in s.groups => p.panel
    /\ p.config = "here" /\ p.user = "here" /\ s.enabled /\ InToolLab(s) => p.nav
    /\ p.config = "here" => p.labels = "right" /\ p.runLabels = "right"

ShellInv ==
    /\ ShellTypeOK
    /\ \A k \in DOMAIN entries : OpenTo(site, entries[k])
    /\ Shows(page, entries[at])
    /\ Arranged(page, site)

-----------------------------------------------------------------------------
(* URLs and views *)

\* The routes admit what is open to the user, less the one kind of view.
LEMMA AdmittedOpen ==
    ASSUME ShellTypeOK, NEW url \in Urls
    PROVE  Admitted(url) <=> OpenTo(site, url) /\ ~RefusedLab(url)
<1>1. /\ site.noLogin \in BOOLEAN /\ site.enabled \in BOOLEAN
      /\ site.noLogin => site.groups = {"Admin"}
  BY DEF ShellTypeOK, Site
<1>2. CASE site.noLogin
  BY <1>1, <1>2 DEF Admitted, OpenTo, RefusedLab, SessionGroups, LetsIn,
                    InToolLab, ToolViews
<1>3. CASE ~site.noLogin
  BY <1>1, <1>3 DEF Admitted, OpenTo, RefusedLab, SessionGroups, InToolLab,
                    ToolViews
<1>4. QED
  BY <1>2, <1>3

LEMMA UrlsOK ==
    /\ \A u \in Urls : /\ u[1] \in Views /\ u[2] \in Tabs \cup {"none", "unknown"}
                       /\ Default(u[2]) \in Tabs \cup {"unknown"}
    /\ NavLinks \subseteq Urls
    /\ <<"chat", "none">> \in Urls
    /\ \A tab \in Tabs : "admin" \in Views => <<"admin", tab>> \in Urls
BY ShellAssumption DEF Urls, NavLinks, Default, Tabs

LEMMA LinksOK ==
    ASSUME NEW view, NEW tab
    PROVE  /\ LinksOf(view, tab) \in SUBSET NavLinks
           /\ view = "admin" =>
                LinksOf(view, tab) = {l \in NavLinks : l[1] = "admin" /\ l[2] = Default(tab)}
BY DEF LinksOf

\* The fields that a change of the view leaves alone.
Same(p, q) ==
    /\ q.config = p.config /\ q.user = p.user /\ q.nav = p.nav /\ q.panel = p.panel
    /\ q.labels = p.labels /\ q.applying = p.applying

LEMMA SwitchTabOK ==
    ASSUME NEW p \in Page, NEW tab \in Tabs \cup {"unknown"},
           \A l \in p.links : l[1] = "admin"
    PROVE  /\ SwitchTab(p, tab) \in Page
           /\ SwitchTab(p, tab).tab = tab
           /\ SwitchTab(p, tab).links = {l \in NavLinks : l[1] = "admin" /\ l[2] = tab}
           /\ SwitchTab(p, tab).view = p.view
           /\ SwitchTab(p, tab).runLabels = p.runLabels
           /\ Same(p, SwitchTab(p, tab))
<1> DEFINE L == {l \in p.links : l[1] # "admin"}
                \cup {l \in NavLinks : l[1] = "admin" /\ l[2] = tab}
<1>1. L = {l \in NavLinks : l[1] = "admin" /\ l[2] = tab}
  OBVIOUS
<1>2. SwitchTab(p, tab) = [p EXCEPT !.tab = tab, !.links = L]
  BY DEF SwitchTab
<1>3. L \in SUBSET NavLinks
  BY <1>1
<1> HIDE DEF L
<1>4. QED
  BY <1>1, <1>2, <1>3 DEF Page, Same

LEMMA InitRunOK ==
    ASSUME NEW p \in Page
    PROVE  /\ InitRun(p) \in Page
           /\ InitRun(p).view = p.view /\ InitRun(p).links = p.links
           /\ InitRun(p).tab = p.tab
           /\ p.runLabels # "none" => InitRun(p).runLabels = p.runLabels
           /\ Same(p, InitRun(p))
<1>1. CASE p.runLabels # "none"
  BY <1>1 DEF InitRun, Same
<1>2. CASE p.runLabels = "none"
  <2> DEFINE r == IF p.config = "here" THEN "right" ELSE "blank"
  <2>1. r \in {"none", "blank", "right"} /\ InitRun(p) = [p EXCEPT !.runLabels = r]
    BY <1>2 DEF InitRun
  <2> HIDE DEF r
  <2>2. QED
    BY <1>2, <2>1 DEF Page, Same
<1>3. QED
  BY <1>1, <1>2

LEMMA ShowViewOK ==
    ASSUME NEW p \in Page, NEW url \in Urls
    PROVE  /\ ShowView(p, url) \in Page
           /\ Shows(ShowView(p, url), url)
           /\ p.runLabels # "none" => ShowView(p, url).runLabels = p.runLabels
           /\ Same(p, ShowView(p, url))
<1> DEFINE view == url[1]
           tab == url[2]
           q == [p EXCEPT !.view = view, !.links = LinksOf(view, tab)]
           r == [q EXCEPT !.inited = @ \cup {view}]
<1>1. view \in Views /\ Default(tab) \in Tabs \cup {"unknown"}
  BY UrlsOK
<1>2. LinksOf(view, tab) \in SUBSET NavLinks
  BY LinksOK
<1>3. /\ q \in Page /\ q.view = view /\ q.links = LinksOf(view, tab) /\ q.tab = p.tab
      /\ q.inited = p.inited /\ q.runLabels = p.runLabels /\ Same(p, q)
  BY <1>1, <1>2 DEF Page, Same
<1>4. ShowView(p, url) = InitView(q, view, tab)
  BY DEF ShowView
<1> HIDE DEF q
<1>5. /\ r \in Page /\ r.view = view /\ r.links = LinksOf(view, tab)
      /\ r.tab = q.tab /\ r.runLabels = p.runLabels /\ Same(p, r)
  BY <1>1, <1>3 DEF Page, Same
<1>6. InitView(q, view, tab) =
        CASE view = "admin" -> SwitchTab(r, Default(tab))
          [] view = "toollab-run" /\ view \notin q.inited -> InitRun(r)
          [] OTHER -> r
  BY DEF InitView
<1> HIDE DEF r, view, tab
<1>7. CASE view = "admin"
  <2>1. \A l \in r.links : l[1] = "admin"
    BY <1>5, <1>7 DEF LinksOf
  <2>2. InitView(q, view, tab) = SwitchTab(r, Default(tab))
    BY <1>6, <1>7
  <2> DEFINE a == SwitchTab(r, Default(tab))
  <2>3. /\ a \in Page /\ a.tab = Default(tab) /\ a.view = r.view
        /\ a.links = {l \in NavLinks : l[1] = "admin" /\ l[2] = Default(tab)}
        /\ a.runLabels = r.runLabels /\ Same(r, a)
    BY <1>1, <1>5, <2>1, SwitchTabOK
  <2>4. a.links = LinksOf(view, tab)
    BY <1>7, <2>3, LinksOK
  <2> HIDE DEF a
  <2>5. QED
    BY <1>4, <1>5, <2>2, <2>3, <2>4 DEF Shows, Same, view, tab, a
<1>8. CASE view # "admin" /\ view = "toollab-run" /\ view \notin q.inited
  <2>1. InitView(q, view, tab) = InitRun(r)
    BY <1>6, <1>8
  <2>2. QED
    BY <1>4, <1>5, <1>8, <2>1, InitRunOK DEF Shows, Same, view, tab
<1>9. CASE view # "admin" /\ ~(view = "toollab-run" /\ view \notin q.inited)
  <2>1. InitView(q, view, tab) = r
    BY <1>6, <1>9
  <2>2. QED
    BY <1>4, <1>5, <1>9, <2>1 DEF Shows, Same, view, tab
<1>10. QED
  BY <1>7, <1>8, <1>9

LEMMA LoadedOK ==
    ASSUME NEW url \in Urls
    PROVE  /\ Loaded(url) \in Page /\ Shows(Loaded(url), url)
           /\ \A s : Arranged(Loaded(url), s)
<1> DEFINE p == [view |-> "chat", tab |-> "collection", links |-> {}, inited |-> {},
                 config |-> "awaited", user |-> "awaited", nav |-> FALSE, panel |-> FALSE,
                 labels |-> "none", runLabels |-> "none", applying |-> 0]
<1>1. /\ p \in Page /\ ~p.panel /\ ~p.nav /\ p.user = "awaited" /\ p.config = "awaited"
  BY ShellAssumption DEF Page, Tabs, Fetched
<1>2. Loaded(url) = ShowView(p, url)
  BY DEF Loaded
<1> HIDE DEF p
<1>3. QED
  BY <1>1, <1>2, ShowViewOK DEF Same, Arranged

-----------------------------------------------------------------------------
(* The history *)

LEMMA PushStateOK ==
    ASSUME ShellTypeOK, NEW url \in Urls, PushState(url)
    PROVE  /\ entries' \in Seq(Urls) /\ Len(entries') \in 1..MaxEntries
           /\ at' \in DOMAIN entries' /\ entries'[at'] = url
           /\ \A k \in DOMAIN entries' :
                entries'[k] = url \/ \E j \in DOMAIN entries : entries'[k] = entries[j]
<1> DEFINE front == SubSeq(entries, 1, at)
<1>1. /\ entries \in Seq(Urls) /\ at \in 1..Len(entries) /\ Len(entries) \in Nat
      /\ at < MaxEntries /\ MaxEntries \in Nat /\ DOMAIN entries = 1..Len(entries)
      /\ entries' = Append(front, url) /\ at' = at + 1
  BY ShellAssumption DEF ShellTypeOK, PushState
<1>2. /\ front \in Seq(Urls) /\ Len(front) = at
      /\ \A k \in 1..at : front[k] = entries[k] /\ k \in DOMAIN entries
  BY <1>1
<1> HIDE DEF front
<1>3. /\ entries' \in Seq(Urls) /\ Len(entries') = at + 1 /\ entries'[at + 1] = url
      /\ DOMAIN entries' = 1..(at + 1)
      /\ \A k \in 1..at : entries'[k] = front[k]
  BY <1>1, <1>2
<1>4. \A k \in DOMAIN entries' : k \in 1..at \/ k = at + 1
  BY <1>1, <1>3
<1>5. QED
  BY <1>1, <1>2, <1>3, <1>4

LEMMA PushOK ==
    ASSUME ShellTypeOK, NEW url \in Urls, Push(url)
    PROVE  /\ entries' \in Seq(Urls) /\ Len(entries') \in 1..MaxEntries
           /\ at' \in DOMAIN entries' /\ entries'[at'] = url
           /\ \A k \in DOMAIN entries' :
                entries'[k] = url \/ \E j \in DOMAIN entries : entries'[k] = entries[j]
<1>1. CASE url = entries[at]
  BY <1>1 DEF Push, ShellTypeOK
<1>2. CASE url # entries[at]
  BY <1>2, PushStateOK DEF Push
<1>3. QED
  BY <1>1, <1>2

\* The user is taken to an admitted URL, which the document shows.
LEMMA MoveStep ==
    ASSUME ShellInv, NEW url \in Urls, OpenTo(site, url), UNCHANGED site,
           entries' \in Seq(Urls), Len(entries') \in 1..MaxEntries,
           at' \in DOMAIN entries', entries'[at'] = url,
           \A k \in DOMAIN entries' :
             entries'[k] = url \/ \E j \in DOMAIN entries : entries'[k] = entries[j],
           page' \in Page, Shows(page', url), Arranged(page', site)
    PROVE  ShellInv'
<1>1. ShellTypeOK'
  BY DEF ShellInv, ShellTypeOK
<1>2. \A k \in DOMAIN entries' : OpenTo(site', entries'[k])
  BY DEF ShellInv
<1>3. QED
  BY <1>1, <1>2 DEF ShellInv

LEMMA StaysArranged ==
    ASSUME NEW p \in Page, NEW q, NEW s, Arranged(p, s), Same(p, q),
           p.runLabels # "none" => q.runLabels = p.runLabels
    PROVE  Arranged(q, s)
BY DEF Arranged, Same

-----------------------------------------------------------------------------
(* The user moves *)

LEMMA ClickStep ==
    ASSUME ShellInv, NEW link \in NavLinks, ClickLink(link)
    PROVE  ShellInv'
<1>1. link \in Urls /\ page \in Page /\ ShellTypeOK
  BY UrlsOK DEF ShellInv, ShellTypeOK
<1>2. OpenTo(site, link)
  BY DEF ClickLink, Offered, OpenTo, ShellInv, Arranged, ToolViews
<1>3. page' \in Page /\ Shows(page', link) /\ Arranged(page', site)
  BY <1>1, ShowViewOK, StaysArranged DEF ClickLink, ShellInv
<1>4. QED
  BY <1>1, <1>2, <1>3, PushOK, MoveStep DEF ClickLink

LEMMA TabStep ==
    ASSUME ShellInv, NEW tab \in Tabs, ClickTab(tab)
    PROVE  ShellInv'
<1> DEFINE url == <<"admin", tab>>
<1>1. /\ ShellTypeOK /\ page \in Page /\ page.view = "admin" /\ entries[at] \in Urls
      /\ at \in DOMAIN entries /\ entries[at][1] = "admin" /\ "admin" \in Views
  BY DEF ShellInv, ShellTypeOK, ClickTab, Shows, Page
<1>2. url \in Urls /\ url[1] = "admin" /\ url[2] = tab /\ Default(tab) = tab
  BY <1>1, UrlsOK DEF Default, Tabs
<1>3. OpenTo(site, url)
  <2>1. OpenTo(site, entries[at])
    BY <1>1 DEF ShellInv
  <2>2. QED
    BY <1>1, <1>2, <2>1 DEF OpenTo, ToolViews
<1>4. \A l \in page.links : l[1] = "admin"
  BY <1>1 DEF ShellInv, Shows, LinksOf
<1>5. /\ page' \in Page /\ page'.tab = tab /\ page'.view = "admin"
      /\ page'.links = {l \in NavLinks : l[1] = "admin" /\ l[2] = tab}
      /\ page'.runLabels = page.runLabels /\ Same(page, page')
  <2>1. page' = SwitchTab(page, tab)
    BY DEF ClickTab
  <2>2. QED
    BY <1>1, <1>4, <2>1, SwitchTabOK
<1>6. page'.links = LinksOf("admin", tab)
  BY <1>2, <1>5, LinksOK
<1>7. Shows(page', url) /\ Arranged(page', site)
  BY <1>1, <1>2, <1>5, <1>6, StaysArranged DEF Shows, ShellInv
<1>8. PushState(url) /\ UNCHANGED site
  BY DEF ClickTab
<1> HIDE DEF url
<1>9. QED
  BY <1>1, <1>2, <1>3, <1>5, <1>7, <1>8, PushStateOK, MoveStep

LEMMA TraverseStep ==
    ASSUME ShellInv, NEW k \in 1..MaxEntries, Traverse(k)
    PROVE  ShellInv'
<1> DEFINE url == entries[k]
<1>1. /\ ShellTypeOK /\ page \in Page /\ k \in DOMAIN entries /\ url \in Urls
      /\ UNCHANGED <<site, entries>> /\ at' = k /\ page' = ShowView(page, url)
  BY DEF ShellInv, ShellTypeOK, Traverse
<1>2. OpenTo(site, url)
  BY <1>1 DEF ShellInv
<1>3. page' \in Page /\ Shows(page', url) /\ Arranged(page', site)
  BY <1>1, ShowViewOK, StaysArranged DEF ShellInv
<1>4. /\ entries' \in Seq(Urls) /\ Len(entries') \in 1..MaxEntries
      /\ at' \in DOMAIN entries' /\ entries'[at'] = url
  BY <1>1 DEF ShellTypeOK
<1>5. QED
  BY <1>1, <1>2, <1>3, <1>4, MoveStep

LEMMA ReloadStep ==
    ASSUME ShellInv, Reload
    PROVE  ShellInv'
<1> DEFINE url == entries[at]
<1>1. /\ ShellTypeOK /\ at \in DOMAIN entries /\ url \in Urls
      /\ UNCHANGED <<site, entries, at>> /\ page' = Loaded(url)
  BY DEF ShellInv, ShellTypeOK, Reload
<1>2. OpenTo(site, url)
  BY <1>1 DEF ShellInv
<1>3. page' \in Page /\ Shows(page', url) /\ Arranged(page', site)
  BY <1>1, LoadedOK
<1>4. /\ entries' \in Seq(Urls) /\ Len(entries') \in 1..MaxEntries
      /\ at' \in DOMAIN entries' /\ entries'[at'] = url
  BY <1>1 DEF ShellTypeOK
<1>5. QED
  BY <1>1, <1>2, <1>3, <1>4, MoveStep

LEMMA ApplyStep ==
    ASSUME ShellInv, Apply
    PROVE  ShellInv'
<1> DEFINE url == <<"chat", "none">>
           n == page.applying - 1
           p == [page EXCEPT !.applying = n]
<1>1. /\ ShellTypeOK /\ page \in Page /\ url \in Urls /\ url[1] = "chat"
      /\ page.applying \in 0..MaxApplies /\ page.applying > 0 /\ MaxApplies \in Nat
  BY UrlsOK, ShellAssumption DEF ShellInv, ShellTypeOK, Apply, Page
<1>2. n \in 0..MaxApplies
  BY <1>1
<1> HIDE DEF n
<1>3. p \in Page /\ Arranged(p, site)
  BY <1>1, <1>2 DEF Page, ShellInv, Arranged
<1>4. page' = ShowView(p, url) /\ Push(url) /\ UNCHANGED site
  BY DEF Apply, n
<1> HIDE DEF p
<1>5. page' \in Page /\ Shows(page', url) /\ Arranged(page', site)
  BY <1>1, <1>3, <1>4, ShowViewOK, StaysArranged
<1>6. OpenTo(site, url)
  BY <1>1 DEF OpenTo, ToolViews
<1> HIDE DEF url
<1>7. QED
  BY <1>1, <1>4, <1>5, <1>6, PushOK, MoveStep

-----------------------------------------------------------------------------
(* Configuration and user arrive *)

\* The document changes where it stands.
LEMMA StayStep ==
    ASSUME ShellInv, UNCHANGED <<site, entries, at>>, page' \in Page,
           page'.view = page.view, page'.tab = page.tab, page'.links = page.links,
           Arranged(page', site)
    PROVE  ShellInv'
<1>1. ShellTypeOK'
  BY DEF ShellInv, ShellTypeOK
<1>2. Shows(page', entries[at])
  BY DEF ShellInv, Shows
<1>3. QED
  BY <1>1, <1>2 DEF ShellInv

LEMMA BeginStep ==
    ASSUME ShellInv, BeginApply \/ ApplyFails
    PROVE  ShellInv'
<1>0. page \in Page /\ page.applying \in 0..MaxApplies /\ MaxApplies \in Nat
  BY ShellAssumption DEF ShellInv, ShellTypeOK, Page
<1>1. PICK n \in 0..MaxApplies : page' = [page EXCEPT !.applying = n]
  <2>1. CASE BeginApply
    BY <1>0, <2>1 DEF BeginApply
  <2>2. CASE ApplyFails
    BY <1>0, <2>2 DEF ApplyFails
  <2>3. QED
    BY <2>1, <2>2
<1>2. /\ page' \in Page /\ page'.view = page.view /\ page'.tab = page.tab
      /\ page'.links = page.links /\ Arranged(page', site)
  BY <1>0, <1>1 DEF Page, ShellInv, Arranged
<1>3. UNCHANGED <<site, entries, at>>
  BY DEF BeginApply, ApplyFails
<1>4. QED
  BY <1>2, <1>3, StayStep

\* applyToollabNav: the menu is right as soon as both have arrived.
LEMMA NavOK ==
    ASSUME NEW p \in Page, ShellTypeOK,
           p.panel => "Admin" \in site.groups,
           p.nav => site.enabled /\ InToolLab(site),
           p.user = "here" /\ "Admin" \in site.groups => p.panel,
           p.config = "here" => p.labels = "right" /\ p.runLabels = "right"
    PROVE  /\ ApplyToollabNav(p) \in Page /\ Arranged(ApplyToollabNav(p), site)
           /\ ApplyToollabNav(p).view = p.view /\ ApplyToollabNav(p).tab = p.tab
           /\ ApplyToollabNav(p).links = p.links
<1>1. CASE p.config # "here" \/ p.user # "here"
  BY <1>1 DEF ApplyToollabNav, Arranged
<1>2. CASE p.config = "here" /\ p.user = "here"
  <2> DEFINE offered == site.enabled /\ InToolLab(site)
             q == [p EXCEPT !.nav = offered]
  <2>1. offered \in BOOLEAN /\ (offered <=> site.enabled /\ InToolLab(site))
    OBVIOUS
  <2>2. ApplyToollabNav(p) = q
    BY <1>2 DEF ApplyToollabNav
  <2> HIDE DEF offered
  <2>3. /\ q \in Page /\ q.nav = offered /\ q.view = p.view /\ q.tab = p.tab
        /\ q.links = p.links /\ q.panel = p.panel /\ q.user = p.user
        /\ q.config = p.config /\ q.labels = p.labels /\ q.runLabels = p.runLabels
    BY <2>1 DEF Page
  <2> HIDE DEF q
  <2>4. Arranged(q, site)
    BY <2>1, <2>3 DEF Arranged
  <2>5. QED
    BY <2>2, <2>3, <2>4
<1>3. QED
  BY <1>1, <1>2

LEMMA ConfigStep ==
    ASSUME ShellInv, ConfigArrives
    PROVE  ShellInv'
<1> DEFINE p == [page EXCEPT !.config = "here", !.labels = "right", !.runLabels = "right"]
<1>1. /\ ShellTypeOK /\ page \in Page /\ site.enabled \in BOOLEAN
      /\ UNCHANGED <<site, entries, at>> /\ Arranged(page, site)
      /\ page' = IF site.enabled THEN ApplyToollabNav(p) ELSE p
  BY DEF ConfigArrives, ShellInv, ShellTypeOK, Site
<1>2. /\ p \in Page /\ p.view = page.view /\ p.tab = page.tab /\ p.links = page.links
      /\ p.panel = page.panel /\ p.nav = page.nav /\ p.user = page.user
      /\ p.labels = "right" /\ p.runLabels = "right"
  BY <1>1 DEF Page, Fetched
<1> HIDE DEF p
<1>3. CASE site.enabled
  BY <1>1, <1>2, <1>3, NavOK, StayStep DEF Arranged
<1>4. CASE ~site.enabled
  BY <1>1, <1>2, <1>4, StayStep DEF Arranged
<1>5. QED
  BY <1>3, <1>4

LEMMA UserStep ==
    ASSUME ShellInv, UserArrives
    PROVE  ShellInv'
<1> DEFINE admin == "Admin" \in site.groups
           p == [page EXCEPT !.user = "here", !.panel = admin]
<1>1. /\ ShellTypeOK /\ page \in Page /\ UNCHANGED <<site, entries, at>>
      /\ Arranged(page, site) /\ page' = ApplyToollabNav(p)
  BY DEF UserArrives, ShellInv, ShellTypeOK
<1>2. admin \in BOOLEAN /\ (admin <=> "Admin" \in site.groups)
  OBVIOUS
<1> HIDE DEF admin
<1>3. /\ p \in Page /\ p.view = page.view /\ p.tab = page.tab /\ p.links = page.links
      /\ p.panel = admin /\ p.nav = page.nav /\ p.config = page.config
      /\ p.labels = page.labels /\ p.runLabels = page.runLabels
  BY <1>1, <1>2 DEF Page, Fetched
<1> HIDE DEF p
<1>4. QED
  BY <1>1, <1>2, <1>3, NavOK, StayStep DEF Arranged

LEMMA FailsStep ==
    ASSUME ShellInv, LoadFails
    PROVE  ShellInv'
<1>1. page \in Page /\ UNCHANGED <<site, entries, at>> /\ Arranged(page, site)
  BY DEF LoadFails, ShellInv, ShellTypeOK
<1>2. CASE page' = [page EXCEPT !.config = "failed"]
  <2>1. /\ page' \in Page /\ page'.view = page.view /\ page'.tab = page.tab
        /\ page'.links = page.links /\ Arranged(page', site)
    BY <1>1, <1>2 DEF Page, Fetched, Arranged
  <2>2. QED
    BY <1>1, <2>1, StayStep
<1>3. CASE page' = [page EXCEPT !.user = "failed"]
  <2>1. /\ page' \in Page /\ page'.view = page.view /\ page'.tab = page.tab
        /\ page'.links = page.links /\ Arranged(page', site)
    BY <1>1, <1>3 DEF Page, Fetched, Arranged
  <2>2. QED
    BY <1>1, <2>1, StayStep
<1>4. QED
  BY <1>2, <1>3 DEF LoadFails

-----------------------------------------------------------------------------
(* The theorems *)

LEMMA ShellStarts == ShellInit => ShellInv
<1> SUFFICES ASSUME ShellInit
             PROVE  ShellInv
  OBVIOUS
<1>1. PICK u \in Urls : Admitted(u) /\ entries = <<u>>
  BY DEF ShellInit
<1>2. /\ entries \in Seq(Urls) /\ Len(entries) = 1 /\ entries[1] = u /\ at = 1
      /\ DOMAIN entries = {1}
  BY <1>1 DEF ShellInit
<1>3. page \in Page /\ Shows(page, entries[at]) /\ Arranged(page, site)
  BY <1>2, LoadedOK DEF ShellInit
<1>4. ShellTypeOK
  BY <1>2, <1>3, ShellAssumption DEF ShellTypeOK, ShellInit
<1>5. OpenTo(site, u)
  BY <1>1, <1>4, AdmittedOpen
<1>6. QED
  BY <1>2, <1>3, <1>4, <1>5 DEF ShellInv

LEMMA ShellSteps == ShellInv /\ [ShellNext]_shellVars => ShellInv'
<1>1. ShellInv /\ UNCHANGED shellVars => ShellInv'
  BY DEF shellVars, ShellInv, ShellTypeOK, Shows, Arranged
<1>2. ShellInv /\ ShellNext => ShellInv'
  BY ClickStep, TabStep, TraverseStep, ReloadStep, BeginStep, ApplyStep, ConfigStep, UserStep,
     FailsStep DEF ShellNext
<1>3. QED
  BY <1>1, <1>2

LEMMA ShellInvariant == ShellSpec => []ShellInv
BY ShellStarts, ShellSteps, PTL DEF ShellSpec

(* The address bar names the view and tab that are shown and the menu      *)
(* marks them, however views were changed (app.js, showView and popstate;  *)
(* admin.js, switchTab); the server admits a reload of every view the user *)
(* can get to, except Tool Lab without a login and limited to groups.      *)
THEOREM ShellReloads == ShellSpec => []ReloadKeepsView
<1>1. ShellInv => ReloadKeepsView
  <2>1. ShellInv => ShellTypeOK /\ at \in DOMAIN entries /\ entries[at] \in Urls
    BY DEF ShellInv, ShellTypeOK
  <2>2. ShellInv => (Admitted(entries[at]) <=> ~RefusedLab(entries[at]))
    BY <2>1, AdmittedOpen DEF ShellInv
  <2>3. QED
    BY <2>1, <2>2 DEF ShellInv, Shows, ReloadKeepsView
<1>2. QED
  BY <1>1, ShellInvariant, PTL

(* Whatever order user and configuration arrive in, the menu ends up       *)
(* complete and offers nothing the server refuses, with that exception,    *)
(* and the model selections are labelled                                   *)
(* (app.js, checkLogin, loadConfig and applyToollabNav; toollab.js,        *)
(* initToollabRun).                                                        *)
THEOREM ShellSetUp == ShellSpec => []SetUpInAnyOrder
<1>1. ShellInv => SetUpInAnyOrder
  <2>1. SUFFICES ASSUME ShellInv
                 PROVE  SetUpInAnyOrder
    OBVIOUS
  <2>2. /\ page.panel \in BOOLEAN /\ page.nav \in BOOLEAN /\ site.enabled \in BOOLEAN
        /\ Arranged(page, site)
    BY <2>1 DEF ShellInv, ShellTypeOK, Page, Site
  <2>3. page.user = "here" => page.panel = ("Admin" \in site.groups)
    <3>1. page.user = "here" => (page.panel <=> "Admin" \in site.groups)
      BY <2>2 DEF Arranged
    <3>2. QED
      BY <2>2, <3>1
  <2>4. page.config = "here" /\ page.user = "here" =>
          page.nav = (site.enabled /\ InToolLab(site))
    BY <2>2, Zenon DEF Arranged
  <2>5. ASSUME NEW link \in NavLinks, Offered(link)
        PROVE  Admitted(link) <=> ~RefusedLab(link)
    <3>1. OpenTo(site, link)
      BY <2>2, <2>5 DEF Offered, OpenTo, Arranged, ToolViews
    <3>2. ShellTypeOK /\ link \in Urls
      BY <2>1, UrlsOK DEF ShellInv
    <3>3. QED
      BY <3>1, <3>2, AdmittedOpen
  <2>6. QED
    BY <2>2, <2>3, <2>4, <2>5 DEF Arranged, SetUpInAnyOrder
<1>2. QED
  BY <1>1, ShellInvariant, PTL
=============================================================================
