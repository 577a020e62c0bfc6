---------------------------- MODULE ToolRegistry ----------------------------
(***************************************************************************)
(* The in-memory tool registry of the API process (libs/toollab/           *)
(* registry.py, class ToolRegistry).  It caches the compiled form of the   *)
(* active tool definitions and finds the tool a name denotes for a user.   *)
(*                                                                         *)
(* Its two dictionaries are `live`, the domain of _by_id, and `index`,     *)
(* which is _by_owner_name.  The columns of a definition that never change *)
(* -- owner, name and is_public, true in every row of the system -- are    *)
(* attributes of its id: ids are uuid4 values, drawn for one row and never *)
(* used again.  The insertion order of _by_id, which breaks ties between   *)
(* public tools of one name and decides which tools the cap drops, is left *)
(* open: `Resolve` and `Offers` return every answer some order can give.   *)
(*                                                                         *)
(* Every method runs on the event loop without an await inside, so each is *)
(* one step; handler threads never touch the registry.                     *)
(***************************************************************************)
EXTENDS Naturals, FiniteSets

CONSTANTS
    Users,      \* subjects (UserInfo.sub) that own and run tools
    System,     \* SYSTEM_OWNER, the owner of the seed tools
    Names,      \* tool names
    Ids,        \* tool ids
    KeyOf,      \* the (owner, name) pair of the row an id is drawn for
    Public,     \* ids whose row has is_public = true
    MaxTools,   \* TOOLLAB_MAX_TOOLS_PER_RUN
    None        \* "no id"

Owners == Users \cup {System}

Keys == Owners \X Names

ASSUME RegistryAssumption ==
    /\ System \notin Users
    /\ KeyOf \in [Ids -> Keys]
    /\ Public \subseteq Ids
    /\ \A i \in Ids : KeyOf[i][1] = System => i \in Public
    /\ None \notin Ids
    /\ MaxTools \in Nat

VARIABLES live, index

registryVars == <<live, index>>

OwnerOf(i) == KeyOf[i][1]

NameOf(i) == KeyOf[i][2]

RegistryTypeOK ==
    /\ live \subseteq Ids
    /\ index \in [Keys -> Ids \cup {None}]

RegistryInit ==
    /\ live = {}
    /\ index = [k \in Keys |-> None]

-----------------------------------------------------------------------------
(* Mutation *)

(* register: install the compiled tool and point its name at it.           *)
Register(i) ==
    /\ live' = live \cup {i}
    /\ index' = [index EXCEPT ![KeyOf[i]] = i]

(* Mutant: the previous version stays cached.                              *)
ReplaceKeepingPrevious(i, prev) == Register(i)

(* Mutant: the previous version is unregistered last, by its name.         *)
ReplaceThenDropName(i, prev) ==
    /\ live' = (live \cup {i}) \ {prev}
    /\ index' = [index EXCEPT ![KeyOf[i]] = IF prev = None THEN i ELSE None]

(* replace_active: register i, then drop the previous version's entry.     *)
ReplaceActive(i, prev) ==
    /\ live' = IF prev = i THEN live \cup {i} ELSE (live \cup {i}) \ {prev}
    /\ index' = [index EXCEPT ![KeyOf[i]] = i]

(* Mutant: the name keeps pointing at the dropped tool.                    *)
UnregisterKeepingName(i) == live' = live \ {i} /\ UNCHANGED index

(* Mutant: the name is dropped whichever version it denotes.               *)
UnregisterAnyName(i) ==
    /\ live' = live \ {i}
    /\ index' = IF i \in live THEN [index EXCEPT ![KeyOf[i]] = None] ELSE index

(* Mutant: the entry is found by its name.                                 *)
UnregisterNamed(i) ==
    IF index[KeyOf[i]] = i THEN UnregisterAnyName(i) ELSE UNCHANGED registryVars

(* unregister: drop the entry; the name keeps its tool when it denotes     *)
(* another version.                                                        *)
Unregister(i) ==
    /\ live' = live \ {i}
    /\ index' = IF i \in live /\ index[KeyOf[i]] = i
                  THEN [index EXCEPT ![KeyOf[i]] = None]
                  ELSE index

-----------------------------------------------------------------------------
(* Reads *)

(* CompiledTool.visible_to *)
VisibleTo(i, u) == OwnerOf(i) \in {System, u} \/ i \in Public

Visible(u, wanted) == {i \in live \cap wanted : VisibleTo(i, u)}

(* list_for_user: the possible lists, as sets, of at most MaxTools tools.  *)
Offers(u, wanted) ==
    LET v == Visible(u, wanted)
    IN  {S \in SUBSET v : \/ S = v /\ Cardinality(v) <= MaxTools
                          \/ Cardinality(S) = MaxTools}

(* Mutant: the scan ignores is_public.                                     *)
AnyNamed(n) == {i \in live : NameOf(i) = n}

PublicNamed(n) == {i \in live \cap Public : NameOf(i) = n}

(* _resolve_for_user: the possible results of resolving n for u.  The      *)
(* user's own tool comes first, then the system tool, then any public one; *)
(* None is the tool_not_found answer.                                      *)
Resolve(u, n) ==
    LET own == index[<<u, n>>]
        builtin == index[<<System, n>>]
    IN  IF own \in live THEN {own}
        ELSE IF builtin # None THEN {IF builtin \in live THEN builtin ELSE None}
        ELSE IF PublicNamed(n) # {} THEN PublicNamed(n)
        ELSE {None}

-----------------------------------------------------------------------------
(* Properties *)

(* A name never denotes a tool that was dropped, or a tool of another name *)
(* or owner: _by_owner_name only points into _by_id, at a matching entry.  *)
(* register, replace_active and unregister each update both dictionaries   *)
(* for it.                                                                 *)
IndexSound ==
    \A k \in Keys : index[k] # None => index[k] \in live /\ KeyOf[index[k]] = k

(* Whatever a user's run calls, _resolve_for_user only ever answers with a *)
(* tool that visible_to lets this user see, under the name that was asked  *)
(* for: the two functions encode the same rule in different ways.          *)
ResolvesToVisible ==
    \A u \in Users, n \in Names : \A i \in Resolve(u, n) \ {None} :
        i \in live /\ VisibleTo(i, u) /\ NameOf(i) = n

(* A name stops denoting a tool only when that very tool leaves the cache: *)
(* unregistering an older version never unbinds the newer one (the         *)
(* conditional pop at the end of unregister).                              *)
NameLostOnlyWithItsTool ==
    [][\A k \in Keys : index[k] # None /\ index'[k] = None
                          => index[k] \notin live']_registryVars
=============================================================================
