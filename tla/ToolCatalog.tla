----------------------------- MODULE ToolCatalog -----------------------------
(***************************************************************************)
(* Registration of tools: the handlers of apps/api/routers/toollab.py that *)
(* write tool_definitions, the startup bootstrap of libs/toollab/seed.py,  *)
(* and the registry (ToolRegistry) both keep in step with the table.       *)
(*                                                                         *)
(* A handler is a coroutine of the API process: it runs undisturbed        *)
(* between two awaits, and every await on the database lets the others     *)
(* run.  A request therefore takes four steps -- load, commit, refresh,    *)
(* apply -- and any number of requests interleave.  Transactions run at    *)
(* PostgreSQL's default READ COMMITTED; a commit is one step because its   *)
(* row locks are held from the flush to the end of the transaction.        *)
(*                                                                         *)
(* The table is `version` (0: no such row; rows are never deleted) and     *)
(* `active` (the rows with is_active).  The other columns are attributes   *)
(* of the id, see ToolRegistry.  Bounds: the finite Ids, which stop the    *)
(* creation of rows, and the finite Requests served concurrently.          *)
(***************************************************************************)
EXTENDS ToolRegistry

CONSTANTS
    Admins,      \* the users with is_admin
    SeedNames,   \* the names in SEED_TOOLS
    Requests,    \* slots for requests served concurrently
    Ops,         \* the kinds of request clients send
    DbMayFail    \* whether a statement after the load may raise

ASSUME CatalogAssumption ==
    /\ Admins \subseteq Users
    /\ SeedNames \subseteq Names
    /\ Ops \subseteq {"post", "put", "toggle", "delete"}
    /\ DbMayFail \in BOOLEAN

VARIABLES
    version,     \* tool_definitions.version of each id, 0 if there is no row
    active,      \* the ids of the rows with is_active = true
    server,      \* how far the API process has come
    req          \* the request in each slot

dbVars == <<version, active>>

vars == <<live, index, version, active, server, req>>

-----------------------------------------------------------------------------
(* Requests.  A request keeps what its coroutine keeps across awaits: the  *)
(* row it works on, the previous active row and the next version (upsert), *)
(* and the is_active it writes, then reads back.  `dirty` says whether the *)
(* commit of a toggle or delete emits an UPDATE: the ORM only does when    *)
(* the value it writes differs from the one it loaded.                     *)

Request ==
    [pc : {"idle", "loaded", "committed", "refreshed"},
     op : {"none", "post", "put", "toggle", "delete"},
     id : Ids \cup {None},
     prev : Ids \cup {None},
     next : Nat,
     flag : BOOLEAN,
     dirty : BOOLEAN]

\* A free slot.
Idle ==
    [pc |-> "idle", op |-> "none", id |-> None, prev |-> None, next |-> 0,
     flag |-> FALSE, dirty |-> FALSE]

Rows == {i \in Ids : version[i] > 0}

ActiveRows(k) == {i \in active : KeyOf[i] = k}

\* uuid4: an id that names no row and that no other request has drawn.
Fresh(k) == {i \in Ids : /\ KeyOf[i] = k
                         /\ version[i] = 0
                         /\ \A w \in Requests : req[w].id # i}

\* _load_owned answers 404 or 403 unless u may change row i.
MayChange(u, i) == i \in Rows /\ (OwnerOf(i) = u \/ u \in Admins)

CatalogTypeOK ==
    /\ RegistryTypeOK
    /\ version \in [Ids -> Nat]
    /\ active \subseteq Ids
    /\ server \in {"down", "seeded", "up", "degraded"}
    /\ req \in [Requests -> Request]

Init ==
    /\ RegistryInit
    /\ version = [i \in Ids |-> 0]
    /\ active = {}
    /\ server = "down"
    /\ req = [w \in Requests |-> Idle]

-----------------------------------------------------------------------------
(* Startup and crash *)

\* The INSERT of a seed whose name has no active row takes version 1, which
\* an inactive row may already have; the SELECT before it
\* (scalar_one_or_none) raises when two rows are active.
SeedClash(k) ==
    \/ \E i, j \in ActiveRows(k) : i # j
    \/ ActiveRows(k) = {} /\ \E i \in Rows : KeyOf[i] = k /\ version[i] = 1

MissingSeeds == {k \in {System} \X SeedNames : ActiveRows(k) = {}}

\* bootstrap, step 2: all missing seeds are inserted in one transaction.
SeedRows ==
    /\ server = "down"
    /\ \A k \in {System} \X SeedNames : ~SeedClash(k)
    /\ \E new \in SUBSET UNION {Fresh(k) : k \in MissingSeeds} :
        /\ \A k \in MissingSeeds : \E i \in new : new \cap Fresh(k) = {i}
        /\ version' = [i \in Ids |-> IF i \in new THEN 1 ELSE version[i]]
        /\ active' = active \cup new
    /\ server' = "seeded"
    /\ UNCHANGED <<live, index, req>>

\* Whatever bootstrap raises -- a clash of a seed, or an error of the
\* database in any of its statements, before or after the seeds are
\* committed -- startup logs, and then serves requests with what the
\* registry holds: nothing.
BootstrapFails ==
    /\ server \in {"down", "seeded"}
    /\ server' = "degraded"
    /\ UNCHANGED <<live, index, version, active, req>>

\* bootstrap, step 3: register every active row, in the order the query
\* returns them; of the active rows of one name, the last one is indexed.
Hydrate ==
    /\ server = "seeded"
    /\ live' = active
    /\ \E last \in SUBSET active :
        /\ \A i \in active : \E j \in last :
               {h \in last : KeyOf[h] = KeyOf[i]} = {j}
        /\ index' = [k \in Keys |-> IF \E i \in last : KeyOf[i] = k
                                      THEN CHOOSE i \in last : KeyOf[i] = k
                                      ELSE None]
    /\ server' = "up"
    /\ UNCHANGED <<version, active, req>>

\* The process stops at any point; the table survives, the registry and
\* the requests in flight do not.
Crash ==
    /\ server # "down"
    /\ server' = "down"
    /\ live' = {}
    /\ index' = [k \in Keys |-> None]
    /\ req' = [w \in Requests |-> Idle]
    /\ UNCHANGED dbVars

-----------------------------------------------------------------------------
(* Load *)

\* The request ends in an error answer and leaves no trace.
Abort(w) ==
    /\ req' = [req EXCEPT ![w] = Idle]
    /\ UNCHANGED <<live, index, version, active, server>>

\* Mutant: the version is not counted up.
UpsertSameVersion(w, op, k, i, flag) ==
    LET load(prev, next) ==
            /\ req' = [req EXCEPT ![w] =
                   [pc |-> "loaded", op |-> op, id |-> i, prev |-> prev,
                    next |-> next, flag |-> flag, dirty |-> FALSE]]
            /\ UNCHANGED <<live, index, version, active, server>>
    IN  \/ ActiveRows(k) = {} /\ load(None, 1)
        \/ \E p \in Ids : ActiveRows(k) = {p} /\ load(p, version[p])

\* _upsert_definition up to db.add: look for the active row of key k and
\* prepare row i with is_active = flag.  With two active rows
\* scalar_one_or_none raises, and like every request that is refused before
\* its commit -- a definition that does not validate, a rename by PUT, a
\* row that is missing or not the user's -- this one changes nothing.
Upsert(w, op, k, i, flag) ==
    LET load(prev, next) ==
            /\ req' = [req EXCEPT ![w] =
                   [pc |-> "loaded", op |-> op, id |-> i, prev |-> prev,
                    next |-> next, flag |-> flag, dirty |-> FALSE]]
            /\ UNCHANGED <<live, index, version, active, server>>
    IN  \/ ActiveRows(k) = {} /\ load(None, 1)
        \/ \E p \in Ids : ActiveRows(k) = {p} /\ load(p, version[p] + 1)

Free(w) == server \in {"up", "degraded"} /\ req[w].pc = "idle"

\* POST /tools
CreateTool(w) ==
    /\ Free(w) /\ "post" \in Ops
    /\ \E u \in Users, n \in Names, flag \in BOOLEAN :
           \E i \in Fresh(<<u, n>>) : Upsert(w, "post", <<u, n>>, i, flag)

\* PUT /tools/{id}: the row may be another user's when u is an admin, but
\* the upsert works on u's own name and reuses the id of the row.
UpdateTool(w) ==
    /\ Free(w) /\ "put" \in Ops
    /\ \E u \in Users, i \in Rows, flag \in BOOLEAN :
           MayChange(u, i) /\ Upsert(w, "put", <<u, NameOf(i)>>, i, flag)

\* PATCH /tools/{id}/active and DELETE /tools/{id}
LoadRow(w, op, i, flag) ==
    /\ req' = [req EXCEPT ![w] =
           [pc |-> "loaded", op |-> op, id |-> i, prev |-> None, next |-> 0,
            flag |-> flag, dirty |-> (i \in active) # flag]]
    /\ UNCHANGED <<live, index, version, active, server>>

ToggleActive(w) ==
    /\ Free(w) /\ "toggle" \in Ops
    /\ \E u \in Users, i \in Rows, flag \in BOOLEAN :
           MayChange(u, i) /\ LoadRow(w, "toggle", i, flag)

DeleteTool(w) ==
    /\ Free(w) /\ "delete" \in Ops
    /\ \E u \in Users, i \in Rows :
           MayChange(u, i) /\ LoadRow(w, "delete", i, FALSE)

-----------------------------------------------------------------------------
(* Commit, refresh, apply *)

\* Mutants: one of the two constraints is missing.
PrimaryKeyOnly(i, v) == version[i] > 0

UniqueOnly(i, v) == \E j \in Ids : KeyOf[j] = KeyOf[i] /\ version[j] = v

\* The primary key and uq_tool_def_owner_name_version.
InsertClash(i, v) ==
    \/ version[i] > 0
    \/ \E j \in Ids : KeyOf[j] = KeyOf[i] /\ version[j] = v

CommitUpsert(w) ==
    LET r == req[w]
    IN  /\ r.pc = "loaded" /\ r.op \in {"post", "put"}
        /\ ~InsertClash(r.id, r.next)
        /\ version' = [version EXCEPT ![r.id] = r.next]
        /\ active' = (active \ {r.prev}) \cup (IF r.flag THEN {r.id} ELSE {})
        /\ req' = [req EXCEPT ![w].pc = "committed"]
        /\ UNCHANGED <<live, index, server>>

\* Mutant: the IntegrityError is swallowed and the handler goes on.
ClashSwallowed(w) ==
    LET r == req[w]
    IN  /\ r.pc = "loaded" /\ r.op \in {"post", "put"}
        /\ InsertClash(r.id, r.next)
        /\ req' = [req EXCEPT ![w].pc = "refreshed"]
        /\ UNCHANGED <<live, index, version, active, server>>

\* IntegrityError: the transaction is rolled back, the deactivation of the
\* previous row with it, and the client gets a 500.
CommitUpsertFails(w) ==
    LET r == req[w]
    IN  /\ r.pc = "loaded" /\ r.op \in {"post", "put"}
        /\ InsertClash(r.id, r.next)
        /\ Abort(w)

CommitFlag(w) ==
    LET r == req[w]
    IN  /\ r.pc = "loaded" /\ r.op \in {"toggle", "delete"}
        /\ active' = IF ~r.dirty THEN active
                     ELSE IF r.flag THEN active \cup {r.id}
                     ELSE active \ {r.id}
        /\ req' = [req EXCEPT ![w].pc = "committed", ![w].dirty = FALSE]
        /\ UNCHANGED <<live, index, version, server>>

\* db.refresh reads the row again; delete_tool does without.
Refresh(w) ==
    LET r == req[w]
    IN  /\ r.pc = "committed" /\ r.op # "delete"
        /\ req' = [req EXCEPT ![w].pc = "refreshed",
                              ![w].flag = r.id \in active]
        /\ UNCHANGED <<live, index, version, active, server>>

Apply(w) ==
    LET r == req[w]
    IN  /\ \/ r.pc = "refreshed"
           \/ r.pc = "committed" /\ r.op = "delete"
        /\ \/ r.op \in {"post", "put"} /\ r.flag /\ ReplaceActive(r.id, r.prev)
           \/ /\ r.op \in {"post", "put"} /\ ~r.flag
              /\ IF r.prev = None THEN UNCHANGED registryVars
                                  ELSE Unregister(r.prev)
           \/ r.op = "toggle" /\ r.flag /\ Register(r.id)
           \/ r.op \in {"toggle", "delete"} /\ ~r.flag /\ Unregister(r.id)
        /\ req' = [req EXCEPT ![w] = Idle]
        /\ UNCHANGED <<version, active, server>>

\* The connection is lost before the commit (rolled back) or before the
\* refresh (already committed): the handler raises and never reaches the
\* registry.
DbFailure(w) ==
    /\ DbMayFail
    /\ req[w].pc \in {"loaded", "committed"}
    /\ Abort(w)

-----------------------------------------------------------------------------

Step(w) ==
    \/ CreateTool(w) \/ UpdateTool(w) \/ ToggleActive(w) \/ DeleteTool(w)
    \/ CommitUpsert(w) \/ CommitUpsertFails(w) \/ CommitFlag(w)
    \/ Refresh(w) \/ Apply(w) \/ DbFailure(w)

Next ==
    \/ SeedRows \/ BootstrapFails \/ Hydrate \/ Crash
    \/ \E w \in Requests : Step(w)

Spec == Init /\ [][Next]_vars

-----------------------------------------------------------------------------
(* Properties *)

(* The table implements the version history promised by ToolHistory: no    *)
(* toggle, delete, failed insert, race or restart removes a version a past *)
(* run refers to, rewrites one, or leaves a gap in the numbering.          *)
VersionsOf(k) == {version[i] : i \in {j \in Rows : KeyOf[j] = k}}

History == INSTANCE ToolHistory
           WITH Tools <- Keys, history <- [k \in Keys |-> VersionsOf(k)]

ImplementsHistory == History!Spec

(* The registry only serves rows that were committed: no interleaving or   *)
(* failure leaves a handler callable that tool_definitions does not know.  *)
RegistryIsCommitted == live \subseteq Rows /\ active \subseteq Rows

(* With no request in flight, what can be called is what the table says is *)
(* active: each handler leaves cache and table in step, and so does a      *)
(* restart.  This holds for one request at a time and a database that does *)
(* not fail.                                                               *)
Quiet == server = "up" /\ \A w \in Requests : req[w].pc = "idle"

InStepWhenQuiet == Quiet => live = active

(* "(owner_user_id, name) is functionally unique among is_active=true      *)
(* rows" (models.py:27).                                                   *)
OneActiveVersion == \A i, j \in active : KeyOf[i] = KeyOf[j] => i = j

(* Racing registrations and deletes alone never make two versions of a     *)
(* tool active: that takes a PATCH that switches a row on again.           *)
Reactivating == \E w \in Requests : req[w].op = "toggle" /\ req[w].flag

OneActiveUnlessReactivated == []~Reactivating => []OneActiveVersion

(* Whatever the picker and bind_tools offer a user can be called by name:  *)
(* _resolve_for_user "finds an active, visible tool by name"               *)
(* (registry.py:226).                                                      *)
OfferedResolves ==
    \A u \in Users : \A i \in Visible(u, Ids) : None \notin Resolve(u, NameOf(i))

OfferedResolvesWhenQuiet == Quiet => OfferedResolves

(* It holds, between requests, as long as no tool gets a second active     *)
(* version.                                                                *)
ResolvesUnlessDoublyActive ==
    []OneActiveVersion => []OfferedResolvesWhenQuiet

(* A POST of a name in use gets version max+1 (toollab.py:393).  Of        *)
(* requests served one at a time, it ends in an integrity error only when  *)
(* the newest version of the tool is not the active one, after a DELETE or *)
(* a PATCH: the next version is counted from the active row.               *)
NewestActive(k) ==
    \A i \in Rows : KeyOf[i] = k =>
        \E j \in ActiveRows(k) : version[i] <= version[j]

PostClashesOnlyIfNewestInactive ==
    \A w \in Requests :
        LET r == req[w]
        IN  r.op = "post" /\ r.pc = "loaded" /\ InsertClash(r.id, r.next)
              => ~NewestActive(KeyOf[r.id])

(* A process whose startup failed serves requests all the same: versions   *)
(* are replaced, switched off and deleted that its registry never heard    *)
(* of.  Between requests it still calls nothing that the table has         *)
(* switched off.                                                           *)
DegradedServesActive ==
    server = "degraded" /\ (\A w \in Requests : req[w].pc = "idle")
        => live \subseteq active
=============================================================================
