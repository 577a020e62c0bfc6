# llm-chat-agent: TLA+ models, checks and proofs

llm-chat-agent is a FastAPI application with a browser front end: a chat with a
sliding-window memory, a knowledge base over PostgreSQL and Qdrant, a library of
system prompts, and the Tool Lab, in which users register Python tools and let
an LLM call them. This directory models the parts of it that keep state. Every
definition is translated from the code; PROJECT.json names the lines of each,
the property each run checks, and a plausible bug (a *mutant*) that each
property catches.

Paths are relative to the root of the repository; `toollab.py` is
`apps/api/routers/toollab.py`.

## 1. Inventory of the system

| component | state | operations | hard behaviour | what makes it correct |
|---|---|---|---|---|
| **Tool registry** (`libs/toollab/registry.py`) | two in-process dictionaries, by id and by (owner, name) | register, replace_active, unregister, list_for_user, execute's resolution | several versions under one name; the second index lags behind the first | the indexes agree; a name resolves to a visible tool of that name, and to none only if there is none |
| **Tool registration** (`toollab.py`, `libs/toollab/models.py`) | table tool_definitions | POST, PUT, PATCH active, DELETE | awaits between load, commit, refresh and registry update; unique constraints; failures after the commit | versions unique, without gaps, never lost; registry follows the table |
| **Bootstrap** (`libs/toollab/seed.py`, `apps/api/main.py`) | fills table and registry at startup | seed insert, hydration | restarts at any point; earlier deletions of seeds; a server that goes on when bootstrap raises | a start reproduces the table; a server without its tools calls none that is switched off |
| **Handler execution** (`libs/toollab/sandbox.py`, seed handlers) | a process-wide thread pool, the dictionary `_USERS` | run_handler_with_timeout | a blocking wait on the event loop; handlers that outlive their timeout | calls are serial until a timeout; results are final; nothing blocks for ever |
| **Run loop** (`libs/toollab/runner.py`) | the messages, trace and counters of a run; table tool_runs | run | tools failing or vanishing half way; iteration cap; shared mutable results | every prompt well formed; trace = what happened; truncation told |
| **Tool Lab page** (`apps/api/static/js/toollab.js`) | `toollabTools` shared by editor and picker, the form, the picks, the trace, the conversation history | list, pick, generate, save, toggle, delete, run, reset | no button is disabled; late, lost and overlapping answers fill one shared list and one form | what is shown is the server's; what is run was picked; buttons do what they say; generated schemas are of the code beside them; replay = what is shown |
| **Chat** (`apps/api/api.py`, `libs/core/memory.py`) | a message list per thread | POST /chat (stream), POST /api/chat/sync | requests of a thread overlap at their awaits; aborted streams | whole exchanges, bounded by the window |
| **Chat page** (`apps/api/static/js/chat.js`) | the bubbles on the page; `currentAiMessage`, shared by all streams | sendMessage, reading the stream | messages overlap; events torn by chunk borders; broken connections | the page shows what the LLM will be told |
| **Knowledge base** (`libs/core/service.py`, `repository.py`) | collections and domains in PostgreSQL, collections and points in Qdrant | create/delete collection and domain, store/delete points | two stores without a transaction; failures and crashes in between | listed = usable; nothing hidden; no orphans |
| **Knowledge search** (`libs/core/service.py:115-323`) | none | search_rag, get_knowledge_points | merging collections, paging, cutting | complete up to the limit, sorted, terminating |
| **Knowledge pages** (`static/js/rag.js`, `bulk.js`) | dropdowns, search table, sidebar with the form of a point | search, open, save, delete, count and bulk-delete | saves sent twice, late answers that close or refill the sidebar, counts that are old when confirmed | tables current, no text stored twice, a deletion stays within its count |
| **Administration page** (`static/js/admin.js`) | a form and a table each for collections and domains | open, save, delete, load | every answer resets the form, whatever it holds by then | a save changes what it was meant for; tables current |
| **Bulk upload** (`apps/api/api.py:650-756`, `static/js/bulk.js`) | tasks in memory; the page's polling state | upload, background task, polls, download | polls under way at once, lost or reordered; restarts | what is shown is final; the page is freed |
| **Prompt library** (`libs/core/service.py:345-413`, `static/js/prompt.js`) | table prompts; the sidebar form | CRUD; opening and saving the form; applying | check at load, commit later; overlapping fetches; outdated tables | only the owner changes a prompt; text stays with its prompt |
| **Shell** (`static/js/app.js`, `index.html`, page routes of `main.py`) | view, address bar, history, menu | links, tabs, back and forward, reload, applying a prompt; arrival of user and configuration | views switched from several places; answers in any order or not at all | the address names what is shown; the menu offers what the server admits |
| Authentication (`libs/core/auth.py`, `main.py`) | session cookie | login, callback, logout | external identity provider | partly: the pages and tools a user is admitted to; one decision per request |
| Code validation, code generation (`sandbox.py`, `codegen.py`) | none | pure functions of a program text | -- | not modelled: would need Python's syntax trees |
| LLM gateway, settings, logging, ops | none | -- | failures of LLM and database | their failures are steps of the models that use them |

Interaction: one API process with one event loop runs every handler as a
coroutine. Coroutines share the registry, the chat memory and the upload tasks;
they interleave exactly where they await the database or the LLM. Calls to
Qdrant and of tool handlers do *not* await: they block the loop. Tool handlers
run on the threads of a pool. Sessions use PostgreSQL's default READ COMMITTED.
The browser pages are one document with several views; they talk to the process
by fetch, await every answer, keep state of their own, and mostly disable
nothing while they wait.

PROJECT.json lists the hazards of this code one by one, each at its line, with
the properties that would catch it.

## 2. Modules

| module | models | extends / composes |
|---|---|---|
| `ToolRegistry` | the registry's dictionaries, listing, resolution | -- |
| `ToolCatalog` | the tool endpoints, bootstrap, crashes | ToolRegistry; refines ToolHistory |
| `ToolHistory` | abstract: versions of a tool are published one by one, none lost | -- |
| `HandlerPool` | timeouts, the thread pool, `_USERS` | -- |
| `ToolRunner` | the server's side of a run | ToolRegistry |
| `RunConversation` | the page, the runs and a changing registry | ToolRunner |
| `ToolPage` | editor and picker over one shared list | -- |
| `RunTrace` | what the runner's page shows of overlapping runs | -- |
| `ChatMemory` | both chat endpoints and the window | -- |
| `ChatPage` | the chat page on top of them | ChatMemory |
| `RagStore` | PostgreSQL and Qdrant | -- |
| `KnowledgeQuery` | search and retrieval | -- |
| `AdminPage` | the administration forms and tables, and the server's data behind them | -- |
| `KnowledgePage` | search table, sidebar and bulk deletion | AdminPage |
| `BulkUpload` | task, progress endpoint and polling page | -- |
| `PromptLibrary`, `PromptPage` | the server's table; the page on top of it | PromptPage extends PromptLibrary |
| `Shell` | views, address, history, menu | -- |
| `ToolCatalogProofs`, `ChatPageProofs`, `RagStoreProofs`, `KnowledgePageProofs` | theorems (section 5) | the module they are named after, with those it extends |
| `ToolRunProofs`, `ToolLabProofs`, `SearchUploadProofs`, `PromptShellProofs` | theorems | RunConversation and HandlerPool; ToolPage and RunTrace; KnowledgeQuery and BulkUpload; PromptPage and Shell |
| `MC*` | constants, symmetry, initial states for TLC | `MCToolPage` composes ToolPage and RunTrace, `MCDataPages` is KnowledgePage with AdminPage, `MCChatPage` is ChatPage with ChatMemory; the others are named after their module |

### How the models correspond to the code

*Tool catalog.* A row of tool_definitions is an id with `version[i]` (0: no
row), its membership in `active`, and attributes that never change for an id
(`KeyOf`: owner and name; `Public`). The registry is `live` (`_by_id`) and
`index` (`_by_owner_name`). A request goes through load, commit, refresh and
apply, one action each (`CreateTool`/`UpdateTool`/`ToggleActive`/`DeleteTool`,
`CommitUpsert`/`CommitFlag`, `Refresh`, `Apply`), because these are its awaits;
`InsertClash` is the primary key together with UNIQUE(owner, name, version). A
commit is one step: its row locks are held from the flush on. The ORM writes
only columns that differ from what it loaded; `dirty` keeps that. `SeedRows`
and `Hydrate` are bootstrap's two transactions, `BootstrapFails` what main.py
makes of an exception in it, be it a seed that clashes or an error of the
database before or after the seeds are committed: it is logged and the server
starts with an empty registry (`server = "degraded"`). `Crash` loses registry and requests.

*Handler pool.* `waiting` is the event loop in `fut.result`. The wait ends with
`Answer` or `Timeout`; the timed-out handler keeps its thread or its place in
the queue. `ReadLength` and `StoreUser` are the two halves of
`_USERS['u-%05d' % (len(_USERS)+1)] = user` between which threads may switch.

*Run loop.* A message is its role, its tool calls, the position of the call it
answers, and what its body is. A turn is one action: after the LLM's answer
nothing awaits until the next LLM call, and the handlers block the loop.
`record` is the one entry of `_USERS` that results refer to; the trace holds the
reference and is only serialised at the end (`Serialised`), the LLM got the
value at the time (`ToolMessages`). `TurnEntries` is
toollabPushTurnToHistory.

*Tool Lab page.* `tools` is toollabTools, which either view's answer replaces;
`listed` and `offered` are what editor and picker were last rendered from, with
the view that had asked for it (`by`). Every call is a slot that is sent, served
(`Serve`: a handler of `toollab.py`, which the page sees as one step) and
answered or lost. `form.id` is the hidden field, `form.sel` toollabSelected, with
its is_active (`was`) and the view that had asked for the list it was opened from
(`from`). Of a tool's text the model keeps which code it holds, which code its
schemas are of, and whether either was typed since they fitted (`hand`); the user
types codes (`TypeCode`) and schemas (`TypeSchema`) and has schemas generated.
`moved`, an auxiliary variable, records that the code in the form changed during
a request to generate schemas. In `RunTrace`, `trace` is what the page shows
as entries, `Unsigned` the removal of every running sign, `told` what each run
was sent as its history.

*Chat memory.* A message is its role and the request it belongs to. The
streaming handler fetches and trims the history (`StartStream`) before its
generator copies it (`CopyHistory`); the synchronous one does both at once.
`Remember` appends question and answer, `Abandon` is a failure or a disconnect
that skips the append.

*Chat page.* Each member of `Requests` is one call of sendMessage: `sent` is how
far the page has come with it, `reply` how far the server has, `wire` the SSE
events in between. `Serve`, `BeginGenerator`, `Finish` and `Cancel` are the
actions of `ChatMemory` together with what they put on the wire. `current` is
the position of `currentAiMessage`; `Read` appends to that bubble, whosever it
is, as updateAiMessage does. `ReadTorn` is the `JSON.parse` that fails on an
event a chunk border cuts, `Break` the `catch` of sendMessage. `mishap` records
overlaps, torn events, broken connections and refusals.

*Knowledge base.* `cols` and `doms` are the tables, `store` the collections in
Qdrant, `point` the domain each point carries. Multi-step handlers are cut at
their awaits, the Qdrant calls are part of the step they occur in. `mishap`
records what has happened so far: a failure, kept vectors, an overlap of
creation and deletion, knowledge stored late; the properties say which of these
is needed to spoil the data.

*Administration and knowledge pages.* `form` and `side` are the forms, `table`
and `found` what is shown, `drops` what the dropdowns offer; a call goes from
sent to answered and on to the list it awaits next. The server's handlers are
one step here (`RagStore` has their steps). A form keeps, as history, what the
user opened it for (`meant`), whether an answer has reset it since (`wiped`) and
whether it is as it was sent (`sent`); a point keeps how it came to be stored.
A bulk deletion goes count, confirm, delete, and notes what is stored meanwhile.
Points that go in bulk, or with their collection or domain, leave the search
table behind ("emptied" in `mishap`) and nothing else.

*Knowledge search.* Contents are arbitrary in the initial state and do not
change: from the list of collections to the answer the code does not await.
Texts, similarities and times are reduced to whether a point matches and how
points compare. Qdrant (external) returns the first points by id for a scroll,
the nearest for a query, and may or may not give an offset with a full last page.
What it returns and what sort makes of the results are sets of sequences
(`First`, `Nearest`, `Sortings`), from which the step takes one.

*Bulk upload.* `job` is the background task, `task` its entry in
global_bulk_tasks, `page` the state of the page, and each poll under way has a
slot. Polls are answered with the status at that moment and received in any
order.

*Prompts.* Of a prompt's text the model keeps which prompt it was written for.
`form.id` is set when the sidebar is opened, `form.from` when the fetched prompt
arrives; `overlap` records that the sidebar was opened with a fetch still under
way.

*Shell.* A URL is a view and its `?tab=`; `entries` and `at` are the history of
the browser's tab. `ShowView` is showView with what it calls, `Push` its
pushState that pushes nothing onto itself, `ClickTab` the one of admin.js that
pushes even so, `Traverse` popstate, `Loaded` everything up to the end of
DOMContentLoaded. `ConfigArrives` and `UserArrives` are loadConfig and
checkLogin. Groups come from two places: the page and the API ask
get_current_user, which without a login gives everybody the group Admin
(`InToolLab`), the page routes of main.py ask the session (`Admitted`), which is
empty then (`SessionGroups`). They differ about Tool Lab, and only there
(`RefusedLab`).

## 3. Runs

All runs are expected to pass. Deadlock is checked except where the system comes
to rest by design (`handler_pool`, `bulk_upload`, `knowledge_query`,
`chat_page`).

| run | instance | what it shows |
|---|---|---|
| `catalog_sequential` | 2 users (one an admin), a system owner, one name, 5 ids in up to 3 versions, 1 request, restarts | served one at a time, cache and table are in step between requests (`InStepWhenQuiet`), names resolve to visible tools (`ResolvesToVisible`), no name is lost without its tool (`NameLostOnlyWithItsTool`), the table refines `ToolHistory` (`ImplementsHistory`); a POST only clashes if the newest version is not the active one (`PostClashesOnlyIfNewestInactive`); every offered tool can be called unless a tool had two active versions (`ResolvesUnlessDoublyActive`); a process whose startup failed calls no tool that is switched off (`DegradedServesActive`) |
| `catalog_concurrent` | 1 user, 3 ids of one tool, 2 requests, database failures, restarts | at every interleaving: indexes agree (`IndexSound`), only committed rows are served (`RegistryIsCommitted`), and two active versions take a PATCH (`OneActiveUnlessReactivated`) |
| `handler_pool` | 3 calls, 2 threads | handlers overlap, and lose each other's users, only after a timeout (`ApartUnlessTimedOut`); answers are final (`NoEffectAfterAnswer`); neither loop nor pool is blocked for ever while fewer handlers hang than there are threads (`NothingElseHangs`) |
| `conversation` | 1 run at a time, 2 replayed turns, cap 2, up to 2 calls an answer, every kind of outcome | every prompt well formed (`PromptsWellFormed`), replay equal up to what the trace does not keep (`ReplayMatchesUpToKinds`), `truncated` exact (`TruncationTold`) |
| `chat_page` | either the page with 2 messages, window 1 (so that the second one trims), 2 pieces an answer; or 3 streaming and synchronous requests of other clients on 2 threads | prompts and memory consist of whole exchanges (`PromptsAreExchanges`) and are bounded (`WindowKept`); without mishaps the page shows what the LLM will be told, and overlapping messages mix bubbles up but lose no piece (`PageMatchesMemory`) |
| `rag_store` | 2 collections, 1 domain, 2 points, 2 requests, failures, crashes, kept vectors, stale forms | which mishap it takes for an unusable or hidden collection (`StoresAgree`) and for an orphaned point (`NoOrphanPoint`) |
| `knowledge_query` | 2 collections, 3 points, limits 0..2, all contents | answers complete up to the limit, sorted, without duplicates, best first where promised (`AnswerRight`); paging ends (`Answered`) |
| `bulk_upload` | 2 uploads one after the other, files of at most 1 row, 2 polls under way, restarts | "completed" is only said of finished work and with final counts (`CompletedIsFinal`); offered downloads exist (`NoDeadDownload`); the page is freed (`PageFreed`) |
| `prompt_page` | 2 users, 2 prompts, 2 fetches, 2 changes under way | only the owner changes a prompt (`OnlyOwnerChanges`); texts get mixed up only by overlapping fetches (`TextStaysWithPrompt`) |
| `shell` | 5 views, 3 entries of the history, 1 prompt under way, every setting and group, with a login and without | the address names what is shown, and a reload is admitted but for `RefusedLab` (`ReloadKeepsView`); menu and model selections end up right in any order of arrival (`SetUpInAnyOrder`) |
| `tool_page` | 3 tools (own, seed, shared), 2 codes to type, 2 calls at once, 2 started by the user; 3 runs | the editor lists the user's own tools (`EditorListsOwn`) and what the server has (`EditorCurrent`), nothing unseen is picked (`PicksShown`), the toggle does the opposite of what the server has (`ToggleFlips`), generated schemas are of the code beside them (`GeneratedFit`), the trace tells the runs apart (`TraceTells`) -- each but for the exceptions it names |
| `data_pages` | 2 collections, 2 domains, 2 points and texts, 2 calls at once, 3 started by the user, changes elsewhere | a save changes what it was meant for (`SavesWhatWasMeant`), tables are current (`TablesCurrent`), no text is stored twice (`NoDuplicates`), a deletion stays within its count (`DeletesWhatWasCounted`) -- each but for its exceptions |

Why the bounds are enough: the interesting cases need two requests that race on
one tool, collection, prompt or thread, a third version to tell "previous" from
"newest", a second turn to replay, one more call than threads, one more point
than the limit, two calls of one page whose answers swap places, a third run to
overlap with one of two; each instance has these. For the properties that
section 5 proves the theorems remove the bounds altogether.

Four runs join what has no effect on each other, and their MC module adds a
variable `about` that says which part a behaviour is about, so that the product
of the parts is not explored: `conversation` ("changes": a record that changes
under a first turn; "turns": several turns over a record that does not),
`chat_page` ("page", "clients"), `tool_page` ("texts", "picks", "runs") and
`data_pages` ("rows", "points", "bulk", and "both": the two pages take turns and
no call is lost). Two tabs have conversations of their
own, but in `conversation` a second run of the same page before the first has
answered is beyond the bound; `RunTrace` looks at those.

Symmetry is used where only safety is checked and nothing tells the elements
apart (`chat_page`, `prompt_page`, `tool_page`, `data_pages`); `knowledge_query`
starts from one state of each class under renaming. Named bounds: `MaxTurns`,
`MaxCalls`, `MaxMembers`, `MaxRows`, `MaxTokens`, `MaxMessages`, `AtOnce`
(messages under way), `MaxAsked` (calls the user starts), `MaxShown`,
`MaxEntries`, `MaxApplies`, and the finite sets of ids, slots and polls.

Properties that hold only in part say so: those with *Unless* in their name, and
those over `mishap`, `overlap`, `disturbed`, `muddled`, `wiped`, `moved`, `hand` or `from`, name
the exception the code really has. These are history variables and fields; no
action's guard reads them but that of `OthersChange`, which happens at most once
(a bound).

### Fairness

- `HandlerPool`: the wait has a deadline and the clock runs, so it ends
  (`StopWaiting`); operating system and GIL let every thread proceed. Clients
  need not submit anything, and an endless handler takes no step.
- `BulkUpload`: a scheduled background task runs to its end; the page's interval
  keeps firing; answers and losses of polls arrive at some time; a task's polls
  are not all lost (strong fairness of `AnswerPoll`). Without the last no
  polling client could ever be told. Restarts and the user's clicks are not fair.
- `KnowledgeQuery`: one thread runs a request to its end.
- All other specifications state safety only: what they wait for is a user, or an
  answer that may never come.

## 4. Findings

Disagreements between code and documentation met while modelling; PROJECT.json
quotes the lines. The properties state them as their exceptions.

- Startup: after a seed tool was deleted, bootstrap inserts version 1 again,
  violates UNIQUE(owner, name, version), and the server starts with an empty
  registry (`seed.py:323`), although its steps are "all idempotent"
  (`seed.py:285`). `SeedClash`; `DegradedServesActive` is what still holds.
- Switching an old version of a tool on and off unbinds the name of the newer
  one, which stays listed but answers tool_not_found (`registry.py:228`).
  `ResolvesUnlessDoublyActive`.
- PUT of a tool inserts under an id that is taken and always fails.
- POST after a DELETE, or after a PATCH that deactivates the newest version,
  takes a version that exists and fails. `PostClashesOnlyIfNewestInactive`.
- A run limited to another user's public tool by tool_ids executes the caller's
  own tool of the same name.
- Results are kept by reference until the end of the run, so the replay may
  differ from what the LLM saw (`toollab.js:625`). `ReplayMatchesUpToKinds`.
- The editor renders the picker's list, with others' shared tools, as the user's
  own once both views were visited (`toollab.js:157`). `EditorListsOwn`.
- A result or an error removes the running sign of every turn, those under way
  included (`toollab.js:671`). `TraceTells`.
- The links to Tool Lab are inside the administration panel (`index.html:30`):
  allowed users who are no administrators never see them. `SetUpInAnyOrder`.
- Without a login (NON_LOGIN_SERVICE) the menu offers Tool Lab to the Admin
  `nobody`, but a reload of it is refused if TOOLLAB_ALLOWED_GROUPS is set, as it
  is by default: toollab_console asks the empty session for groups
  (`main.py:218-226`), although docs/P09_요구사항.md:26 promises access to Tool
  Lab. `RefusedLab`, an exception of `ReloadKeepsView` and `SetUpInAnyOrder`.
- Enter in a form that only shows a point stores it again (`rag.js:212`).
  `NoDuplicates`.
- Points of a collection deleted without its vectors survive the deletion of
  their domain and return with the collection. `NoOrphanPoint`.
- A search without a query takes the first points by id, not the newest.
  `AnswerRight`.

## 5. Proofs

TLAPS checks these theorems for every value of the constants, from the named
assumptions of the modules (`RegistryAssumption`, `CatalogAssumption`,
`PoolAssumption`, `RunnerAssumption`, `ConversationAssumption`,
`ToolPageAssumption`, `TraceAssumption`, `MemoryAssumption`, `PageAssumption`,
`RagAssumption`, `QueryAssumption`, `BulkAssumption`, `AdminAssumption`,
`KnowledgeAssumption`, `LibraryAssumption`, `ShellAssumption`) alone:

| module | theorem | states |
|---|---|---|
| `ToolCatalogProofs` | lemmas: `RegisterSound`, `ReplaceSound`, `UnregisterSound`, `SoundIndexResolvesToVisible` | each update of the registry keeps the indexes sound, and sound indexes resolve to visible tools |
| | `CatalogTypes` | type correctness |
| | `CatalogIndexSound` | the name index points at cached tools of that owner and name |
| | `CatalogRegistryIsCommitted` | only committed rows are served or active |
| | `CatalogResolvesToVisible` | resolution gives only visible tools of the right name |
| | `CatalogKeepsNames` | a name is lost only in the step that drops its tool |
| | `CatalogImplementsHistory` | the catalog implements `ToolHistory` |
| | `CatalogOneActive` | without a PATCH that switches on, one active version at most |
| | `CatalogPostClashes` | one request at a time: a POST only clashes if the newest version is not the active one |
| | `CatalogInStep` | one request at a time, no failures: cache and table are in step between requests |
| | `CatalogDegraded` | the same: after a failed startup no tool is called that is switched off |
| | `CatalogResolvesOffered` | the same: the name of what is offered resolves to some tool of that name the user may call (their own first), unless a tool had two active versions |
| `ToolRunProofs` | `ConversationPromptsWellFormed` | every prompt is well formed |
| | `ConversationTruncationTold` | `truncated` is exact, the caps are kept |
| | `ConversationReplayMatches` | what is replayed is what the LLM saw, up to what the trace does not keep |
| | `PoolApart` | handlers overlap and lose users only after a timeout |
| | `PoolAnswersFinal` | no effect after an answer |
| `ToolLabProofs` | `EditorShowsOwn` | the editor lists the user's own tools, or what the picker loaded |
| | `PickerShowsPicks` | nothing is picked unseen |
| | `EditorSettles` | once every call is answered the editor shows what the server has |
| | `EditorToggles` | the toggle does the opposite of what the server has, but for the named exceptions |
| | `GeneratedStaysFit` | generated schemas are of the code beside them unless that changed during a request |
| | `TraceShowsRuns` | what is replayed is what the page shows, and each turn was told of those before it |
| `ChatPageProofs` | `MemoryTypes` | type correctness |
| | `PromptsKeepExchanges` | prompts and memory are whole exchanges |
| | `WindowBounds` | the window bounds both |
| | `ChatTypes` | type correctness of the page with its memory |
| | `ChatKeepsExchanges` | both of the above, below the page |
| | `ChatPageMatches` | the page shows what the LLM will be told, and no piece is lost |
| `RagStoreProofs` | `RagStoresAgree` | which mishaps it takes to part the stores |
| | `RagNoOrphans` | and to orphan a point |
| `SearchUploadProofs` | `QueryAnswersRight` | answers are right, sorted, complete up to the limit, with the best where that is promised |
| | `QueryNotStuck` | there is always a page to take and an order to sort by |
| | `BulkCompletedIsFinal` | "completed" comes with final counts |
| | `BulkNoDeadDownload` | an offered download exists |
| `KnowledgePageProofs` | `PageSavesWhatWasMeant` | a save changes what its form was opened for |
| | `PageTablesCurrent` | once every call is answered the tables show what the server has |
| | `PageStoresOnce` | no text is stored twice |
| | `PageDeletesWhatWasCounted` | a bulk deletion stays within its count |
| `PromptShellProofs` | `TextsStay` | texts stay with their prompt |
| | `OwnersChange` | only owners change prompts |
| | `ShellReloads` | the address names what is shown, and is admitted exactly but for `RefusedLab` |
| | `ShellSetUp` | menu and selections are right in any order of arrival |

Each module of proofs has an inductive invariant, a lemma for each action (or
group of actions that do the same to it), and theorems that follow. Why the
invariants are stronger than the properties:

- *`CatalogInv`*: `VersionsDense` (below a version all smaller ones exist) and
  `RequestOK` (what a request in flight may rely on). A POST computes its
  version from a row it read earlier: rows are never deleted or renumbered, so
  at its commit the number is still one past an existing version; the unique
  constraint then makes it the next one, which is also the refinement step to
  `ToolHistory`. `CatalogOneActive` adds `ActiveIsLast`: every active row has
  the greatest version of its tool. It is inductive only under the hypothesis of
  the theorem, which is carried through the temporal step. `VersionsUnique` is
  only a strengthening: the unique constraint gives it.
- *`AloneInv`, `InStepInv`, `NamedInv`* are about one request at a time
  (`OneRequest`), the latter two about a database that answers (`~DbMayFail`);
  the theorems have these as hypotheses, `catalog_sequential` is such an
  instance, and TLC refutes `InStepWhenQuiet` without either. Cache and table
  are apart while a request is between its commit and its `Apply`, by exactly
  what that will do (`Outstanding`), and after a failed startup the cache may
  also lack active tools, but never hold others (`Matches`); and every live tool of which no other
  version is live is in the index (`IndexComplete`).
- *`ConversationInv`*: at every point of a run its messages are well formed, its
  trace follows them entry by entry from the prompt on (`Follows`), and the
  loop's counter has counted the LLM's answers (`Counted`). The page's history
  is well formed and owes no answer to a call, so a replay can be put in front
  of the next prompt.
- *`PoolInv`*: a call in flight is in one place, the queue or a thread
  (`Places`), and is the one the loop waits for unless it was given up on
  (`CallOK`). So while nobody timed out at most one handler is between reading
  len(_USERS) and storing its user, and ids are given without gaps (`Numbered`).
- *`ToolPageInv`*: what either view was rendered from is a list that one of them
  asked for (`Known`), and what is picked is in the picker's (`Picks`). While
  nothing disturbs it, one call at most is about lists (`Current`): it asks for
  its list with the checkbox as it stands (`InTime`), or is a change after which
  it will (`Settled` says that neither is so). For `EditorToggles`, the
  editor's lists and its form agree with the server about is_active unless a
  change, or the list after it, is on its way to the form (`Right`, `Pending`).
  For `GeneratedStaysFit`, a request to
  generate holds the code the form has for as long as it is under way (`Sent`),
  and a save holds a text that fits or was typed (`Fitting`).
- *`TraceInv`*: the history is the results on the page, in their order (`Shows`),
  and headers are of runs that were started (`Started`). While no button was
  pressed during a run, each was told the results above its header, an outcome
  follows its header, and a run under way has the last entry (`Orderly`).
- *`MemoryInv`*: memory grows long after it was trimmed for a request, so the
  bound counts what a thread holds and what those under way may still add
  (`BoundHolds`); a request cannot start without trimming first.
- *`PageInv`*: of an answer, some pieces are in bubbles and the rest on the wire,
  before the error and the end (`WireOK`, `ShownOK`): no overlap changes their
  sum, as every `Read` moves one piece, to whichever bubble. While no mishap
  happened only the last bubble is unfinished, its text is what has been read
  (`TextOK`), and the memory holds the end of the first l messages of the page,
  where l is the page's length up to the exchange that is under way (`Given`,
  `Remembered`).
- *`RagInv`*: a request that creates or deletes a collection has it to itself
  unless something raced, so what it found stays true across its awaits
  (`HoldsCollection`); a deletion of a domain lists the collections after it
  loaded the row, so what it lists covers the domain's points (`Purging`).
- *`QueryInv`*: of the points a search has come past (`Passed`), one it was asked
  for is among the results, or there is a reason it need not be (`Crowded`): as
  many results as the limit; for a vector search, that many at least as near; for
  a listing, a collection that was cut. More results take no such reason away,
  and the answer, sorted and cut, still has what the reasons are about.
- *`BulkInv`*: an answer that says "done" is final (`PollOK`); unless one came
  late, interval and polls are for currentTaskId, and there are none once the
  upload is shown to be over (`OneAtATime`).
- *`Forms`, `Tables`, `Once`, `Counted`* (`KnowledgePage`): a form knows the row
  it was opened for unless an answer has reset it (`MeansRow`). While nothing
  but emptying (for the search table, nothing at all) went wrong, one call at most
  is under way (`OneCall`), and a table is current or that call will renew it
  (`RowsShown`, `PointsShown`). A text is held as one point (`Held`) or pends once, as a call (`CallPends`) or in the sidebar
  (`SidePends`), and never both. A save, an answer, the table and the form may
  each bring back a point that was deleted meanwhile, so all of them count as
  holding it. What a confirmed deletion can reach was counted, or stored since.
- *`PromptsInv`*: ids are used once, so the owner found at the load is the owner
  at the commit (`OwnersLoaded`); while no two fetches overlapped the only one
  under way is the one the form was opened for (`FormMatches`).
- *`ShellInv`*: every entry of the history is admitted unless it is refused
  (`RefusedLab`), because what the menu offers is, and what has arrived has left its mark already (`Arranged`).

Every safety invariant and action property of the runs is stated by a theorem.
Only model-checked: liveness (`NothingElseHangs`, `PageFreed`, `Answered`), because
liveness under fairness and ENABLED are out of the prover's reach. Of `Answered`,
`QueryNotStuck` proves what is not about time: there always is a page and a
sorting to take. (It needs no induction over data: the place of a member of an
ordered finite set is the number of those up to it.) The proofs are about the
modules as they stand; the MC modules' `about` only cuts behaviours.

## 6. Not modelled

- Code validation, compilation and generation: functions of program texts.
- The login at the identity provider and the session cookie; which pages and
  tools a user is admitted to is in `Shell` and `ToolCatalog`.
- A reload that is refused leaves the page for unauthorized.html; what the user
  does there is not followed. Nor is a session left over from a time with a login.
- Typed codes are told apart from each other and from the tools' (two in TLC, any
  set in the proofs), typed schemas are one value. A POST that copies a seed does
  not, in `ToolPage`, switch off the user's own active earlier copy, which
  `ToolCatalog` models; of the user's own tools TLC looks at one, so that a POST
  over an active tool of the same name is left to the theorems there.
- Qdrant's search is taken to be exact: of the points of a collection it returns
  the nearest. An upload that is refused is modelled by what the page makes of it.
- Columns, texts and vectors no property depends on; updates of descriptive
  columns of collections and domains; token usage, reasoning text, log lines.
- Listing and paging of tool runs; toollabValidate, which only shows the
  server's verdict; layout, colours, scrolling, titles, badges, loading signs.
- The bundled API documentation (`static/swagger`), which is third-party code.
- Configuration of Loki, Grafana and the containers.

## 7. Plan

1. Done: catalog and registry, handler pool, run loop with its page, chat memory
   and page, knowledge base and search, bulk upload, prompts, the shell, the Tool
   Lab page, the administration and knowledge pages; theorems for every safety
   property of the runs.
2. Model further: two runs of one page with their histories; the paging of tool
   runs; the correspondence of generated signature and schema.
3. State abstractly: the chat memory as a queue of exchanges; a run as a
   conversation that alternates between LLM and tools; the upload as
   "running, then over" as seen by the page.
4. Prove: that the modules implement the specifications of item 3, step by step.
   Strengthenings are checked by TLC as invariants first.
