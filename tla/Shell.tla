--------------------------------- MODULE Shell ---------------------------------
(***************************************************************************)
(* The shell of the web page (apps/api/static/js/app.js): which view is    *)
(* shown, what the address bar and the browser's history say, and which    *)
(* parts of the menu are offered.  Views are switched by links, by the     *)
(* browser's back and forward, by the tabs of the administration page      *)
(* (admin.js, switchTab) and by a prompt that arrives to be applied to the *)
(* chat (prompt.js, applyPromptToChat).  The configuration and the user    *)
(* are fetched when the page is loaded and arrive in any order, if at all. *)
(*                                                                         *)
(* What a view does when it is initialised, or shown again, is modelled    *)
(* with the view; here only the model selection of the tool runner, which  *)
(* two handlers fill.  Bounds: MaxEntries entries of the history,          *)
(* MaxApplies prompts under way.                                           *)
(***************************************************************************)
EXTENDS Naturals, Sequences

CONSTANTS
    Views,      \* those of VIEW_IDS that the instance looks at
    MaxEntries,
    MaxApplies

ViewIds == {"chat", "rag", "prompts", "bulk", "admin", "toollab", "toollab-run"}

ASSUME ShellAssumption ==
    /\ "chat" \in Views /\ Views \subseteq ViewIds
    /\ MaxEntries \in Nat \ {0} /\ MaxApplies \in Nat

VARIABLES
    site,       \* settings, and the groups of /user/me: they do not change
    entries,    \* the URLs in the history of the browser's tab
    at,         \* the current one: the address bar
    page        \* the page's document

shellVars == <<site, entries, at, page>>

Tabs == {"collection", "domain"}

\* A URL is its view and its ?tab=; a user can type any tab.
Urls == ((Views \ {"admin"}) \X {"none"})
        \cup ((Views \cap {"admin"}) \X (Tabs \cup {"none", "unknown"}))

NavLinks == ((Views \ {"admin"}) \X {"none"}) \cup ((Views \cap {"admin"}) \X Tabs)

ToolViews == {"toollab", "toollab-run"}

\* NON_LOGIN_SERVICE, the user's groups, TOOLLAB_ENABLED and
\* TOOLLAB_ALLOWED_GROUPS, "Admin,User" unless it is set.  Without a login
\* everybody is the Admin `nobody`.
Site ==
    {s \in [noLogin : BOOLEAN, groups : {{"Admin"}, {"User"}, {"User", "Team"}},
            enabled : BOOLEAN, allowed : {{}, {"Team"}, {"Admin", "User"}}] :
       s.noLogin => s.groups = {"Admin"}}

\* What is fetched: on its way, arrived, or lost.
Fetched == {"awaited", "here", "failed"}

Page == [view : Views, tab : Tabs \cup {"unknown"}, links : SUBSET NavLinks,
         inited : SUBSET Views, config : Fetched, user : Fetched,
         nav : BOOLEAN, panel : BOOLEAN,
         labels : {"none", "right"}, runLabels : {"none", "blank", "right"},
         applying : 0..MaxApplies]

ShellTypeOK ==
    /\ site \in Site
    /\ entries \in Seq(Urls) /\ Len(entries) \in 1..MaxEntries
    /\ at \in DOMAIN entries
    /\ page \in Page

-----------------------------------------------------------------------------
(* What the server admits *)

\* The test of groups that page, API and server share.
LetsIn(groups, s) ==
    s.allowed = {} \/ "Admin" \in groups \/ groups \cap s.allowed # {}

\* The page and the API test the groups of /user/me, ...
InToolLab(s) == LetsIn(s.groups, s)

\* ... the pages' routes those of the session, which is empty unless
\* somebody logged in.
SessionGroups == IF site.noLogin THEN {} ELSE site.groups

Admitted(url) ==
    CASE url[1] = "admin"     -> site.noLogin \/ "Admin" \in SessionGroups
      [] url[1] \in ToolViews -> site.enabled /\ LetsIn(SessionGroups, site)
      [] OTHER                -> TRUE

-----------------------------------------------------------------------------
(* showView and what it calls *)

Default(tab) == IF tab = "none" THEN "collection" ELSE tab

LinksOf(view, tab) ==
    {l \in NavLinks : l[1] = view /\ (view = "admin" => l[2] = Default(tab))}

\* The tab's table is shown, and its link with it.
SwitchTab(p, tab) ==
    [p EXCEPT !.tab = tab,
              !.links = {l \in @ : l[1] # "admin"}
                        \cup {l \in NavLinks : l[1] = "admin" /\ l[2] = tab}]

\* initToollabRun fills a selection that is still empty with what is known.
InitRun(p) ==
    IF p.runLabels # "none" THEN p
    ELSE [p EXCEPT !.runLabels = IF p.config = "here" THEN "right" ELSE "blank"]

InitView(p, view, tab) ==
    LET q == [p EXCEPT !.inited = @ \cup {view}]
    IN  CASE view = "admin" -> SwitchTab(q, Default(tab))
          [] view = "toollab-run" /\ view \notin p.inited -> InitRun(q)
          [] OTHER -> q

ShowView(p, url) ==
    InitView([p EXCEPT !.view = url[1], !.links = LinksOf(url[1], url[2])],
             url[1], url[2])

PushState(url) ==
    /\ at < MaxEntries
    /\ entries' = Append(SubSeq(entries, 1, at), url)
    /\ at' = at + 1

\* showView's push: nothing is pushed onto itself.
Push(url) == IF url = entries[at] THEN UNCHANGED <<entries, at>> ELSE PushState(url)

\* The document as it is loaded at a URL, up to the end of DOMContentLoaded.
Loaded(url) ==
    ShowView([view |-> "chat", tab |-> "collection", links |-> {}, inited |-> {},
              config |-> "awaited", user |-> "awaited", nav |-> FALSE, panel |-> FALSE,
              labels |-> "none", runLabels |-> "none", applying |-> 0], url)

ShellInit ==
    /\ site \in Site
    /\ entries \in {<<u>> : u \in {v \in Urls : Admitted(v)}}
    /\ at = 1
    /\ page = Loaded(entries[1])

-----------------------------------------------------------------------------
(* The user moves *)

\* The links of the administration panel are in it, Tool Lab's too.
Offered(link) ==
    /\ link[1] \in ToolViews \cup {"admin"} => page.panel
    /\ link[1] \in ToolViews => page.nav

ClickLink(link) ==
    /\ Offered(link)
    /\ page' = ShowView(page, link)
    /\ Push(link)
    /\ UNCHANGED site

\* Mutant: the address does not follow the tab.
ClickTabSilently(tab) ==
    /\ page.view = "admin"
    /\ page' = SwitchTab(page, tab)
    /\ UNCHANGED <<site, entries, at>>

\* A tab of the administration page pushes even what is there already.
ClickTab(tab) ==
    /\ page.view = "admin"
    /\ page' = SwitchTab(page, tab)
    /\ PushState(<<"admin", tab>>)
    /\ UNCHANGED site

\* popstate, after back, forward or a jump in the history
Traverse(k) ==
    /\ k \in DOMAIN entries \ {at}
    /\ at' = k
    /\ page' = ShowView(page, entries[k])
    /\ UNCHANGED <<site, entries>>

\* A reload that is not admitted leaves the page for unauthorized.html.
Reload ==
    /\ Admitted(entries[at])
    /\ page' = Loaded(entries[at])
    /\ UNCHANGED <<site, entries, at>>

BeginApply ==
    /\ page.view = "prompts" /\ page.applying < MaxApplies
    /\ page' = [page EXCEPT !.applying = @ + 1]
    /\ UNCHANGED <<site, entries, at>>

\* The prompt is there: off to the chat, wherever the user is by now.
Apply ==
    /\ page.applying > 0
    /\ page' = ShowView([page EXCEPT !.applying = @ - 1], <<"chat", "none">>)
    /\ Push(<<"chat", "none">>)
    /\ UNCHANGED site

ApplyFails ==
    /\ page.applying > 0
    /\ page' = [page EXCEPT !.applying = @ - 1]
    /\ UNCHANGED <<site, entries, at>>

-----------------------------------------------------------------------------
(* Configuration and user arrive *)

\* applyToollabNav
ApplyToollabNav(p) ==
    IF p.config # "here" \/ p.user # "here" THEN p
    ELSE [p EXCEPT !.nav = site.enabled /\ InToolLab(site)]

\* Mutants: the configuration leaves the menu to the user's arrival, and
\* the runner's models to its initialisation.
ConfigWithoutNav ==
    /\ page.config = "awaited"
    /\ page' = [page EXCEPT !.config = "here", !.labels = "right", !.runLabels = "right"]
    /\ UNCHANGED <<site, entries, at>>

ConfigWithoutRun ==
    /\ page.config = "awaited"
    /\ LET p == [page EXCEPT !.config = "here", !.labels = "right"]
       IN  page' = IF site.enabled THEN ApplyToollabNav(p) ELSE p
    /\ UNCHANGED <<site, entries, at>>

\* loadConfig; the selection of the runner exists from the start
ConfigArrives ==
    /\ page.config = "awaited"
    /\ LET p == [page EXCEPT !.config = "here", !.labels = "right", !.runLabels = "right"]
       IN  page' = IF site.enabled THEN ApplyToollabNav(p) ELSE p
    /\ UNCHANGED <<site, entries, at>>

\* checkLogin
UserArrives ==
    /\ page.user = "awaited"
    /\ page' = ApplyToollabNav([page EXCEPT !.user = "here",
                                            !.panel = "Admin" \in site.groups])
    /\ UNCHANGED <<site, entries, at>>

LoadFails ==
    /\ \/ page.config = "awaited" /\ page' = [page EXCEPT !.config = "failed"]
       \/ page.user = "awaited" /\ page' = [page EXCEPT !.user = "failed"]
    /\ UNCHANGED <<site, entries, at>>

-----------------------------------------------------------------------------

ShellNext ==
    \/ \E link \in NavLinks : ClickLink(link)
    \/ \E tab \in Tabs : ClickTab(tab)
    \/ \E k \in 1..MaxEntries : Traverse(k)
    \/ Reload \/ BeginApply \/ Apply \/ ApplyFails
    \/ ConfigArrives \/ UserArrives \/ LoadFails

ShellSpec == ShellInit /\ [][ShellNext]_shellVars

-----------------------------------------------------------------------------
(* Properties *)

(* What the page opens and the server refuses: Tool Lab without a login,  *)
(* when it is limited to groups.  toollab_console (main.py:218-226) looks  *)
(* for the groups of a session that nobody has.                            *)
RefusedLab(url) == site.noLogin /\ url[1] \in ToolViews /\ site.allowed # {}

(* Whatever moved the user, be it a prompt that arrived late, the address  *)
(* bar names what is shown and the menu marks it, so a reload that the     *)
(* server admits shows the same view and tab again (app.js, showView and   *)
(* popstate; admin.js, switchTab).  It admits every view the user can get  *)
(* to but the one kind above.  All state has its type.                     *)
ReloadKeepsView ==
    LET url == entries[at]
    IN  /\ ShellTypeOK
        /\ Admitted(url) <=> ~RefusedLab(url)
        /\ page.view = url[1]
        /\ page.view = "admin" => page.tab = Default(url[2])
        /\ page.links = LinksOf(url[1], url[2])

(* In whatever order user and configuration arrive, the menu offers only   *)
(* what the server admits as a page of its own (but for RefusedLab), and   *)
(* once both are there it is complete: the administration panel for        *)
(* administrators, Tool Lab's links for all whom its API lets in.  (These  *)
(* links are part of the panel: those who are let in without being         *)
(* administrators still do not see them.)  And once the configuration is   *)
(* there the chat's selection of a model is labelled with it, and so is    *)
(* the runner's wherever it was shown, before the configuration arrived or *)
(* after (the race of app.js:169-171).                                     *)
SetUpInAnyOrder ==
    /\ \A link \in NavLinks :
         Offered(link) => (Admitted(link) <=> ~RefusedLab(link))
    /\ page.config = "here" /\ page.user = "here" =>
         /\ page.panel = ("Admin" \in site.groups)
         /\ page.nav = (site.enabled /\ InToolLab(site))
    /\ page.config = "here" =>
         /\ page.labels = "right"
         /\ "toollab-run" \in page.inited => page.runLabels = "right"
=============================================================================
