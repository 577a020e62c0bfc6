-------------------------- MODULE ToolCatalogProofs --------------------------
(***************************************************************************)
(* Theorems about ToolCatalog for any users, names, ids, number of         *)
(* concurrent requests, with and without database failures, and the lemmas *)
(* about the registry (ToolRegistry) they rest on.                         *)
(*                                                                         *)
(* The inductive invariant CatalogInv adds two facts to what the runs      *)
(* check: the versions of a tool are numbered without gaps, and a request  *)
(* in flight remembers things that stay true while others run -- rows are  *)
(* never deleted or renumbered, so the version a POST computed from the    *)
(* row it read is still one past an existing version when it commits.      *)
(*                                                                         *)
(* The last three theorems are about requests served one at a time         *)
(* (OneRequest), two of them about a database that answers (~DbMayFail),   *)
(* because the code promises no more: their invariants say that what the   *)
(* request read is still so (AloneInv), and that registry and table differ *)
(* by exactly what it has not applied yet (InStepInv, NamedInv).           *)
(***************************************************************************)
EXTENDS ToolCatalog, TLAPS

-----------------------------------------------------------------------------
(* What the operations of the registry preserve *)

RegistryInv == RegistryTypeOK /\ IndexSound

(* Register keeps both dictionaries consistent. *)
LEMMA RegisterSound ==
    ASSUME NEW i \in Ids, RegistryInv, Register(i)
    PROVE  RegistryInv'
BY RegistryAssumption DEF RegistryInv, RegistryTypeOK, IndexSound, Register

(* So does replace_active, provided the previous row is one of the same    *)
(* tool: the entry it drops can only be the one the index has just left.   *)
LEMMA ReplaceSound ==
    ASSUME NEW i \in Ids, NEW prev \in Ids \cup {None}, RegistryInv,
           prev # None => KeyOf[prev] = KeyOf[i],
           ReplaceActive(i, prev)
    PROVE  RegistryInv'
<1>1. RegistryTypeOK'
  BY RegistryAssumption DEF RegistryInv, RegistryTypeOK, ReplaceActive
<1>2. ASSUME NEW k \in Keys, index'[k] # None
      PROVE  index'[k] \in live' /\ KeyOf[index'[k]] = k
  <2>1. CASE k = KeyOf[i]
    BY <2>1, RegistryAssumption DEF RegistryInv, RegistryTypeOK, ReplaceActive
  <2>2. CASE k # KeyOf[i]
    <3>1. index'[k] = index[k] /\ index[k] \in live /\ KeyOf[index[k]] = k
      BY <1>2, <2>2 DEF RegistryInv, RegistryTypeOK, IndexSound, ReplaceActive
    <3>2. index[k] # prev
      BY <3>1, <2>2, <1>2
    <3>3. QED
      BY <3>1, <3>2 DEF ReplaceActive
  <2>3. QED
    BY <2>1, <2>2
<1>3. QED
  BY <1>1, <1>2 DEF RegistryInv, IndexSound

(* And unregister: it pops the name exactly when the name denotes the tool *)
(* that leaves.                                                            *)
LEMMA UnregisterSound ==
    ASSUME NEW i \in Ids, RegistryInv, Unregister(i)
    PROVE  RegistryInv'
<1>1. CASE i \in live /\ index[KeyOf[i]] = i
  BY <1>1, RegistryAssumption
     DEF RegistryInv, RegistryTypeOK, IndexSound, Unregister
<1>2. CASE ~(i \in live /\ index[KeyOf[i]] = i)
  BY <1>2, RegistryAssumption
     DEF RegistryInv, RegistryTypeOK, IndexSound, Unregister
<1>3. QED
  BY <1>1, <1>2

(* In every state where the index is sound, name resolution respects       *)
(* visibility.                                                             *)
LEMMA SoundIndexResolvesToVisible == RegistryInv => ResolvesToVisible
<1> SUFFICES ASSUME RegistryInv, NEW u \in Users, NEW n \in Names,
                    NEW i \in Resolve(u, n) \ {None}
             PROVE  i \in live /\ VisibleTo(i, u) /\ NameOf(i) = n
  BY DEF ResolvesToVisible
<1> DEFINE own == index[<<u, n>>]
           builtin == index[<<System, n>>]
<1>1. <<u, n>> \in Keys /\ <<System, n>> \in Keys
  BY DEF Keys, Owners
<1>2. CASE own \in live
  <2>1. i = own /\ own # None
    BY <1>2, RegistryAssumption DEF Resolve, RegistryInv, RegistryTypeOK
  <2>2. KeyOf[i] = <<u, n>>
    BY <2>1, <1>1 DEF RegistryInv, IndexSound
  <2>3. QED
    BY <2>1, <2>2, <1>2 DEF VisibleTo, OwnerOf, NameOf
<1>3. CASE own \notin live /\ builtin # None
  <2>1. i = builtin
    BY <1>3 DEF Resolve
  <2>2. i \in live /\ KeyOf[i] = <<System, n>>
    BY <2>1, <1>1, <1>3 DEF RegistryInv, IndexSound
  <2>3. QED
    BY <2>2 DEF VisibleTo, OwnerOf, NameOf
<1>4. CASE own \notin live /\ builtin = None
  <2>1. i \in PublicNamed(n)
    BY <1>4 DEF Resolve
  <2>2. QED
    BY <2>1 DEF PublicNamed, VisibleTo
<1>5. QED
  BY <1>2, <1>3, <1>4

-----------------------------------------------------------------------------
(* The inductive invariant *)

\* uq_tool_def_owner_name_version
VersionsUnique ==
    \A i, j \in Rows : KeyOf[i] = KeyOf[j] /\ version[i] = version[j] => i = j

\* Below every version of a tool all smaller ones exist.
VersionsDense ==
    \A i \in Rows : \A v \in 1..version[i] :
        \E j \in Rows : KeyOf[j] = KeyOf[i] /\ version[j] = v

\* What request r may rely on.
RequestOK(r) ==
    /\ r.pc # "idle" => r.id \in Ids /\ r.op # "none"
    /\ r.pc # "idle" /\ r.op # "post" => r.id \in Rows
    /\ r.pc \in {"committed", "refreshed"} => r.id \in Rows /\ r.op # "put"
    /\ r.op = "post" /\ r.prev # None =>
           r.prev \in Rows /\ KeyOf[r.prev] = KeyOf[r.id]
    /\ r.op = "post" /\ r.pc = "loaded" =>
           r.next = IF r.prev = None THEN 1 ELSE version[r.prev] + 1
    /\ r.op = "delete" => r.flag = FALSE

CatalogInv ==
    /\ CatalogTypeOK
    /\ IndexSound
    /\ RegistryIsCommitted
    /\ VersionsUnique
    /\ VersionsDense
    /\ \A w \in Requests : RequestOK(req[w])

-----------------------------------------------------------------------------
(* Steps that only change a request *)

(* What a request knows survives any step that keeps the rows.             *)
LEMMA RequestsSurvive ==
    ASSUME NEW r \in Request, RequestOK(r),
           version \in [Ids -> Nat], version' \in [Ids -> Nat],
           \A i \in Ids : version[i] > 0 => version'[i] = version[i]
    PROVE  RequestOK(r)'
<1>1. \A i \in Rows : i \in Rows' /\ version'[i] = version[i]
  BY DEF Rows
<1>2. QED
  BY <1>1 DEF RequestOK

LEMMA RequestStep ==
    ASSUME CatalogInv, NEW w \in Requests, NEW r \in Request, RequestOK(r),
           req' = [req EXCEPT ![w] = r],
           UNCHANGED <<live, index, version, active, server>>
    PROVE  CatalogInv'
<1>1. CatalogTypeOK'
  BY DEF CatalogInv, CatalogTypeOK, RegistryTypeOK
<1>2. IndexSound' /\ RegistryIsCommitted' /\ VersionsUnique' /\ VersionsDense'
  BY DEF CatalogInv, IndexSound, RegistryIsCommitted, VersionsUnique,
         VersionsDense, Rows
<1>3. ASSUME NEW x \in Requests
      PROVE  RequestOK(req[x])'
  <2>1. RequestOK(req'[x])
    BY DEF CatalogInv, CatalogTypeOK
  <2>2. QED
    BY <2>1 DEF RequestOK, Rows
<1>4. QED
  BY <1>1, <1>2, <1>3 DEF CatalogInv

LEMMA IdleOK == Idle \in Request /\ RequestOK(Idle)
BY DEF Idle, Request, RequestOK

LEMMA AbortStep ==
    ASSUME CatalogInv, NEW w \in Requests, Abort(w)
    PROVE  CatalogInv'
BY IdleOK, RequestStep DEF Abort

LEMMA UpsertStep ==
    ASSUME CatalogInv, NEW w \in Requests, NEW op \in {"post", "put"},
           NEW k \in Keys, NEW i \in Ids, NEW flag \in BOOLEAN,
           op = "post" => KeyOf[i] = k,
           op = "put" => i \in Rows,
           Upsert(w, op, k, i, flag)
    PROVE  CatalogInv'
<1> DEFINE new(prev, next) ==
        [pc |-> "loaded", op |-> op, id |-> i, prev |-> prev, next |-> next,
         flag |-> flag, dirty |-> FALSE]
<1>1. ASSUME ActiveRows(k) = {}, req' = [req EXCEPT ![w] = new(None, 1)],
             UNCHANGED <<live, index, version, active, server>>
      PROVE  CatalogInv'
  <2>1. new(None, 1) \in Request /\ RequestOK(new(None, 1))
    BY DEF Request, RequestOK
  <2>2. QED
    BY <1>1, <2>1, RequestStep
<1>2. ASSUME NEW p \in Ids, ActiveRows(k) = {p},
             req' = [req EXCEPT ![w] = new(p, version[p] + 1)],
             UNCHANGED <<live, index, version, active, server>>
      PROVE  CatalogInv'
  <2>1. p \in Rows /\ KeyOf[p] = k /\ version[p] \in Nat
    BY <1>2 DEF ActiveRows, CatalogInv, RegistryIsCommitted, CatalogTypeOK
  <2>2. new(p, version[p] + 1) \in Request
    BY <2>1 DEF Request
  <2>3. RequestOK(new(p, version[p] + 1))
    BY <2>1, RegistryAssumption DEF RequestOK
  <2>4. QED
    BY <1>2, <2>2, <2>3, RequestStep
<1>3. QED
  BY <1>1, <1>2 DEF Upsert

LEMMA LoadRowStep ==
    ASSUME CatalogInv, NEW w \in Requests, NEW op \in {"toggle", "delete"},
           NEW i \in Rows, NEW flag \in BOOLEAN, op = "delete" => ~flag,
           LoadRow(w, op, i, flag)
    PROVE  CatalogInv'
<1> DEFINE r == [pc |-> "loaded", op |-> op, id |-> i, prev |-> None,
                 next |-> 0, flag |-> flag, dirty |-> (i \in active) # flag]
<1>1. r \in Request
  BY DEF Request, Rows
<1>2. RequestOK(r)
  <2>1. op = "delete" => flag = FALSE
    OBVIOUS
  <2>2. QED
    BY <2>1 DEF RequestOK, Rows
<1>3. QED
  BY <1>1, <1>2, RequestStep DEF LoadRow

LEMMA RefreshStep ==
    ASSUME CatalogInv, NEW w \in Requests, Refresh(w)
    PROVE  CatalogInv'
<1> DEFINE r == [req[w] EXCEPT !.pc = "refreshed", !.flag = req[w].id \in active]
<1>1. req[w] \in Request /\ RequestOK(req[w])
  BY DEF CatalogInv, CatalogTypeOK
<1>2. r \in Request /\ RequestOK(r)
  <2> DEFINE read == req[w].id \in active
  <2>1. read \in BOOLEAN
    OBVIOUS
  <2>2. r = [req[w] EXCEPT !.pc = "refreshed", !.flag = read]
    OBVIOUS
  <2> HIDE DEF read
  <2>3. /\ r \in Request /\ r.pc = "refreshed" /\ r.op = req[w].op
        /\ r.id = req[w].id /\ r.prev = req[w].prev
    BY <1>1, <2>1, <2>2 DEF Request
  <2>4. RequestOK(r)
    BY <1>1, <2>3 DEF RequestOK, Refresh
  <2>5. QED
    BY <2>3, <2>4
<1>3. req' = [req EXCEPT ![w] = r]
  BY DEF Refresh, CatalogInv, CatalogTypeOK
<1>4. QED
  BY <1>2, <1>3, RequestStep DEF Refresh

-----------------------------------------------------------------------------
(* Steps that change the table *)

(* A successful upsert is a POST, and adds the version after an existing   *)
(* one: a PUT reuses the primary key of a row and always clashes.          *)
LEMMA CommittedUpsert ==
    ASSUME CatalogInv, NEW w \in Requests, CommitUpsert(w)
    PROVE  LET i == req[w].id
               v == req[w].next
           IN  /\ req[w].op = "post"
               /\ i \in Ids /\ version[i] = 0
               /\ v \in Nat \ {0}
               /\ \A j \in Rows : KeyOf[j] = KeyOf[i] => version[j] # v
               /\ IF req[w].prev = None THEN v = 1
                  ELSE /\ req[w].prev \in Rows /\ KeyOf[req[w].prev] = KeyOf[i]
                       /\ version[req[w].prev] = v - 1
               /\ version' = [version EXCEPT ![i] = v]
               /\ Rows' = Rows \cup {i}
<1>1. req[w] \in Request /\ RequestOK(req[w])
  BY DEF CatalogInv, CatalogTypeOK
<1>2. version \in [Ids -> Nat]
  BY DEF CatalogInv, CatalogTypeOK
<1>3. req[w].op = "post" /\ req[w].id \in Ids /\ version[req[w].id] = 0
  BY <1>1, <1>2 DEF CommitUpsert, InsertClash, RequestOK, Rows
<1>4. /\ req[w].next \in Nat \ {0}
      /\ IF req[w].prev = None THEN req[w].next = 1
         ELSE /\ req[w].prev \in Rows /\ KeyOf[req[w].prev] = KeyOf[req[w].id]
              /\ version[req[w].prev] = req[w].next - 1
  BY <1>1, <1>2, <1>3 DEF CommitUpsert, RequestOK, Rows
<1>5. \A j \in Rows : KeyOf[j] = KeyOf[req[w].id] => version[j] # req[w].next
  BY DEF CommitUpsert, InsertClash, Rows
<1>6. version' = [version EXCEPT ![req[w].id] = req[w].next]
  BY DEF CommitUpsert
<1>7. Rows' = Rows \cup {req[w].id}
  BY <1>2, <1>3, <1>4, <1>6 DEF Rows
<1>8. QED
  BY <1>3, <1>4, <1>5, <1>6, <1>7

LEMMA CommitUpsertStep ==
    ASSUME CatalogInv, NEW w \in Requests, CommitUpsert(w)
    PROVE  CatalogInv'
<1> DEFINE i == req[w].id
           v == req[w].next
<1>0. /\ req[w].op = "post"
      /\ i \in Ids /\ version[i] = 0
      /\ v \in Nat \ {0}
      /\ \A j \in Rows : KeyOf[j] = KeyOf[i] => version[j] # v
      /\ v = 1 \/ \E p \in Rows : KeyOf[p] = KeyOf[i] /\ version[p] = v - 1
      /\ version' = [version EXCEPT ![i] = v]
      /\ Rows' = Rows \cup {i}
  BY CommittedUpsert
<1> DEFINE r == [req[w] EXCEPT !.pc = "committed"]
<1>1. req[w] \in Request /\ RequestOK(req[w]) /\ version \in [Ids -> Nat]
  BY DEF CatalogInv, CatalogTypeOK
<1>2. version' \in [Ids -> Nat] /\ version'[i] = v
      /\ \A j \in Ids : j # i => version'[j] = version[j]
  BY <1>0, <1>1
<1>3. \A j \in Rows : j # i /\ version'[j] = version[j]
  BY <1>0, <1>1, <1>2 DEF Rows
<1>4. r \in Request /\ req' = [req EXCEPT ![w] = r]
  BY <1>1 DEF Request, CommitUpsert, CatalogInv, CatalogTypeOK
<1>5. CatalogTypeOK'
  <2>1. active' \subseteq Ids
    BY <1>0 DEF CommitUpsert, CatalogInv, CatalogTypeOK
  <2>2. req' \in [Requests -> Request]
    BY <1>4 DEF CatalogInv, CatalogTypeOK
  <2>3. QED
    BY <1>2, <2>1, <2>2
       DEF CommitUpsert, CatalogInv, CatalogTypeOK, RegistryTypeOK
<1>6. IndexSound'
  BY DEF CommitUpsert, CatalogInv, IndexSound
<1>7. RegistryIsCommitted'
  BY <1>0 DEF CommitUpsert, CatalogInv, RegistryIsCommitted
<1>8. VersionsUnique'
  BY <1>0, <1>2, <1>3 DEF CatalogInv, VersionsUnique
<1>9. VersionsDense'
  <2> SUFFICES ASSUME NEW a \in Rows', NEW m \in 1..version'[a]
               PROVE  \E j \in Rows' : KeyOf[j] = KeyOf[a] /\ version'[j] = m
    BY DEF VersionsDense
  <2>1. ASSUME NEW b \in Rows, m \in 1..version[b], KeyOf[b] = KeyOf[a]
        PROVE  \E j \in Rows' : KeyOf[j] = KeyOf[a] /\ version'[j] = m
    <3>1. PICK j \in Rows : KeyOf[j] = KeyOf[b] /\ version[j] = m
      BY <2>1 DEF CatalogInv, VersionsDense
    <3>2. QED
      BY <3>1, <2>1, <1>0, <1>3
  <2>2. CASE a \in Rows
    BY <2>1, <2>2, <1>3
  <2>3. CASE a = i /\ m = v
    BY <2>3, <1>0, <1>2
  <2>4. CASE a = i /\ m # v
    <3>1. m \in 1..(v - 1) /\ v # 1
      BY <2>4, <1>0, <1>2
    <3>2. QED
      BY <3>1, <2>4, <2>1, <1>0
  <2>5. QED
    BY <2>2, <2>3, <2>4, <1>0
<1>10. ASSUME NEW x \in Requests
       PROVE  RequestOK(req[x])'
  <2>1. CASE x # w
    <3>1. req'[x] = req[x] /\ req[x] \in Request /\ RequestOK(req[x])
      BY <2>1, <1>4 DEF CatalogInv, CatalogTypeOK
    <3>2. \A j \in Ids : version[j] > 0 => version'[j] = version[j]
      BY <1>0, <1>1, <1>2
    <3> DEFINE rx == req[x]
    <3>3. rx \in Request /\ RequestOK(rx)
      BY <3>1
    <3>4. \A j \in Rows : j \in Rows' /\ version'[j] = version[j]
      BY <1>0, <1>3
    <3>5. QED
      BY <3>1, <3>3, <3>4 DEF RequestOK
  <2>2. CASE x = w
    <3>1. req'[x] = r
      BY <2>2, <1>4 DEF CatalogInv, CatalogTypeOK
    <3>2. r.id = i /\ r.op = "post" /\ r.pc = "committed" /\ r.prev = req[w].prev
      BY <1>0, <1>1 DEF Request
    <3>3. i \in Rows' /\ (r.prev # None => r.prev \in Rows' /\ KeyOf[r.prev] = KeyOf[i])
      BY <3>2, <1>0, <1>1 DEF RequestOK
    <3>4. QED
      BY <3>1, <3>2, <3>3, <1>0 DEF RequestOK
  <2>3. QED
    BY <2>1, <2>2
<1>11. QED
  BY <1>5, <1>6, <1>7, <1>8, <1>9, <1>10 DEF CatalogInv

\* Steps after which the rows are as before and only `active`, the registry
\* or the server differ.
LEMMA SameRowsStep ==
    ASSUME CatalogInv, RegistryInv', UNCHANGED version,
           active' \subseteq Rows, live' \subseteq Rows,
           server' \in {"down", "seeded", "up", "degraded"},
           req' \in [Requests -> Request],
           \A w \in Requests : RequestOK(req'[w])
    PROVE  CatalogInv'
<1>1. Rows' = Rows /\ Rows \subseteq Ids
  BY DEF Rows
<1>2. CatalogTypeOK'
  BY <1>1 DEF CatalogInv, CatalogTypeOK, RegistryInv
<1>3. IndexSound' /\ RegistryIsCommitted'
  BY <1>1 DEF RegistryInv, RegistryIsCommitted
<1>4. VersionsUnique' /\ VersionsDense'
  BY <1>1 DEF CatalogInv, VersionsUnique, VersionsDense
<1>5. ASSUME NEW w \in Requests
      PROVE  RequestOK(req[w])'
  <2>1. RequestOK(req'[w])
    OBVIOUS
  <2>2. QED
    BY <2>1, <1>1 DEF RequestOK
<1>6. QED
  BY <1>2, <1>3, <1>4, <1>5 DEF CatalogInv

LEMMA CommitFlagStep ==
    ASSUME CatalogInv, NEW w \in Requests, CommitFlag(w)
    PROVE  CatalogInv'
<1> DEFINE r == [req[w] EXCEPT !.pc = "committed", !.dirty = FALSE]
<1>1. req[w] \in Request /\ RequestOK(req[w]) /\ active \subseteq Rows
      /\ live \subseteq Rows
  BY DEF CatalogInv, CatalogTypeOK, RegistryIsCommitted
<1>2. req[w].id \in Rows /\ req[w].op \in {"toggle", "delete"}
  BY <1>1 DEF CommitFlag, RequestOK
<1>3. r \in Request /\ RequestOK(r)
  <2>1. /\ r \in Request /\ r.pc = "committed" /\ r.op = req[w].op
        /\ r.id = req[w].id /\ r.prev = req[w].prev /\ r.flag = req[w].flag
    BY <1>1 DEF Request
  <2>2. r.id \in Ids
    BY <2>1, <1>2 DEF Rows
  <2>3. r.op = "delete" => r.flag = FALSE
    BY <2>1, <1>1 DEF RequestOK
  <2>4. QED
    BY <2>1, <2>2, <2>3, <1>2 DEF RequestOK
<1>4. req' = [req EXCEPT ![w] = r]
  BY DEF CommitFlag, CatalogInv, CatalogTypeOK
<1>5. req' \in [Requests -> Request] /\ \A x \in Requests : RequestOK(req'[x])
  BY <1>3, <1>4 DEF CatalogInv, CatalogTypeOK
<1>6. active' \subseteq Rows
  BY <1>1, <1>2 DEF CommitFlag
<1>7. RegistryInv'
  BY DEF CommitFlag, CatalogInv, CatalogTypeOK, RegistryInv, RegistryTypeOK,
         IndexSound
<1>8. server' \in {"down", "seeded", "up", "degraded"} /\ UNCHANGED version
      /\ live' \subseteq Rows
  BY <1>1 DEF CommitFlag, CatalogInv, CatalogTypeOK
<1>9. QED
  BY <1>5, <1>6, <1>7, <1>8, SameRowsStep

LEMMA ApplyStep ==
    ASSUME CatalogInv, NEW w \in Requests, Apply(w)
    PROVE  CatalogInv'
<1> DEFINE r == req[w]
<1>1. r \in Request /\ RequestOK(r) /\ active \subseteq Rows
      /\ live \subseteq Rows /\ Rows \subseteq Ids /\ RegistryInv
  BY DEF CatalogInv, CatalogTypeOK, RegistryIsCommitted, Rows, RegistryInv
<1>2. r.id \in Rows /\ r.op # "put" /\ r.pc # "idle"
  BY <1>1 DEF Apply, RequestOK
<1>3. RegistryInv' /\ live' \subseteq Rows
  <2>1. CASE r.op = "post" /\ ReplaceActive(r.id, r.prev)
    <3>1. /\ r.id \in Ids /\ r.prev \in Ids \cup {None}
          /\ r.prev # None => KeyOf[r.prev] = KeyOf[r.id]
      BY <1>1, <1>2, <2>1 DEF Request, RequestOK
    <3>2. RegistryInv'
      BY <3>1, <2>1, <1>1, ReplaceSound
    <3>3. QED
      BY <3>2, <2>1, <1>1, <1>2 DEF ReplaceActive
  <2>2. CASE UNCHANGED registryVars
    BY <2>2, <1>1 DEF registryVars, RegistryInv, RegistryTypeOK, IndexSound
  <2>3. ASSUME NEW i \in Ids, Unregister(i)
        PROVE  RegistryInv' /\ live' \subseteq Rows
    <3>1. RegistryInv'
      BY <2>3, <1>1, UnregisterSound
    <3>2. QED
      BY <3>1, <2>3, <1>1 DEF Unregister
  <2>4. CASE Register(r.id)
    <3>1. RegistryInv'
      BY <2>4, <1>1, <1>2, RegisterSound
    <3>2. QED
      BY <3>1, <2>4, <1>1, <1>2 DEF Register
  <2>5. r.id \in Ids /\ (r.prev # None => r.prev \in Ids)
    BY <1>1, <1>2 DEF Request
  <2>6. QED
    BY <2>1, <2>2, <2>3, <2>4, <2>5, <1>2 DEF Apply
<1>4. Idle \in Request /\ RequestOK(Idle)
  BY IdleOK
<1>5. req' \in [Requests -> Request] /\ \A x \in Requests : RequestOK(req'[x])
  BY <1>4 DEF Apply, CatalogInv, CatalogTypeOK
<1>6. /\ UNCHANGED version /\ active' \subseteq Rows
      /\ server' \in {"down", "seeded", "up", "degraded"}
  BY <1>1 DEF Apply, CatalogInv, CatalogTypeOK
<1>7. QED
  BY <1>3, <1>5, <1>6, SameRowsStep

-----------------------------------------------------------------------------
(* Startup and crash *)

(* The seeds get version 1, which no row of theirs has.                    *)
LEMMA SeededRows ==
    ASSUME CatalogInv, SeedRows
    PROVE  \E new \in SUBSET Ids :
             /\ version' = [i \in Ids |-> IF i \in new THEN 1 ELSE version[i]]
             /\ active' = active \cup new
             /\ Rows' = Rows \cup new
             /\ \A i \in new : version[i] = 0 /\ KeyOf[i] \in MissingSeeds
             /\ \A i \in new, j \in Rows : KeyOf[i] = KeyOf[j] => version[j] # 1
             /\ \A i, j \in new : KeyOf[i] = KeyOf[j] => i = j
<1>1. PICK new \in SUBSET UNION {Fresh(k) : k \in MissingSeeds} :
        /\ \A k \in MissingSeeds : \E i \in new : new \cap Fresh(k) = {i}
        /\ version' = [i \in Ids |-> IF i \in new THEN 1 ELSE version[i]]
        /\ active' = active \cup new
  BY DEF SeedRows
<1>2. ASSUME NEW i \in new
      PROVE  /\ i \in Ids /\ version[i] = 0
             /\ KeyOf[i] \in MissingSeeds /\ i \in Fresh(KeyOf[i])
  BY <1>1 DEF Fresh
<1>3. ASSUME NEW i \in new, NEW j \in Rows, KeyOf[i] = KeyOf[j], version[j] = 1
      PROVE  FALSE
  <2>1. ActiveRows(KeyOf[i]) = {} /\ KeyOf[i] \in {System} \X SeedNames
    BY <1>2 DEF MissingSeeds
  <2>2. SeedClash(KeyOf[i])
    BY <2>1, <1>3 DEF SeedClash
  <2>3. QED
    BY <2>1, <2>2 DEF SeedRows
<1>4. ASSUME NEW i \in new, NEW j \in new, KeyOf[i] = KeyOf[j]
      PROVE  i = j
  BY <1>1, <1>2, <1>4
<1>5. Rows' = Rows \cup new
  BY <1>1, <1>2 DEF Rows, CatalogInv, CatalogTypeOK
<1>6. QED
  BY <1>1, <1>2, <1>3, <1>4, <1>5

LEMMA SeedRowsStep ==
    ASSUME CatalogInv, SeedRows
    PROVE  CatalogInv'
<1>1. PICK new \in SUBSET Ids :
             /\ version' = [i \in Ids |-> IF i \in new THEN 1 ELSE version[i]]
             /\ active' = active \cup new
             /\ Rows' = Rows \cup new
             /\ \A i \in new : version[i] = 0 /\ KeyOf[i] \in MissingSeeds
             /\ \A i \in new, j \in Rows : KeyOf[i] = KeyOf[j] => version[j] # 1
             /\ \A i, j \in new : KeyOf[i] = KeyOf[j] => i = j
  BY SeededRows
<1>2. version \in [Ids -> Nat] /\ Rows \subseteq Ids
  BY DEF CatalogInv, CatalogTypeOK, Rows
<1>3. version' \in [Ids -> Nat]
  BY <1>1, <1>2
<1>4. \A i \in Rows : i \notin new /\ version'[i] = version[i]
  BY <1>1, <1>2 DEF Rows
<1>5. \A i \in new : version'[i] = 1
  BY <1>1
<1>6. CatalogTypeOK'
  BY <1>1, <1>3 DEF SeedRows, CatalogInv, CatalogTypeOK, RegistryTypeOK
<1>7. IndexSound' /\ RegistryIsCommitted'
  BY <1>1 DEF SeedRows, CatalogInv, IndexSound, RegistryIsCommitted
<1>8. VersionsUnique'
  BY <1>1, <1>4, <1>5 DEF CatalogInv, VersionsUnique
<1>9. VersionsDense'
  <2> SUFFICES ASSUME NEW a \in Rows', NEW m \in 1..version'[a]
               PROVE  \E j \in Rows' : KeyOf[j] = KeyOf[a] /\ version'[j] = m
    BY DEF VersionsDense
  <2>1. CASE a \in Rows
    <3>1. PICK j \in Rows : KeyOf[j] = KeyOf[a] /\ version[j] = m
      BY <2>1, <1>4 DEF CatalogInv, VersionsDense
    <3>2. QED
      BY <3>1, <1>1, <1>4
  <2>2. CASE a \in new
    BY <2>2, <1>5
  <2>3. QED
    BY <2>1, <2>2, <1>1
<1>10. ASSUME NEW x \in Requests
       PROVE  RequestOK(req[x])'
  <2>1. req'[x] = req[x] /\ RequestOK(req[x])
    BY DEF SeedRows, CatalogInv
  <2>2. QED
    BY <2>1, <1>1, <1>4 DEF RequestOK
<1>11. QED
  BY <1>6, <1>7, <1>8, <1>9, <1>10 DEF CatalogInv

LEMMA HydrateStep ==
    ASSUME CatalogInv, Hydrate
    PROVE  CatalogInv'
<1>1. PICK last \in SUBSET active :
        index' = [k \in Keys |-> IF \E i \in last : KeyOf[i] = k
                                   THEN CHOOSE i \in last : KeyOf[i] = k
                                   ELSE None]
  BY DEF Hydrate
<1>2. active \subseteq Rows /\ Rows \subseteq Ids
  BY DEF CatalogInv, RegistryIsCommitted, Rows
<1>3. ASSUME NEW k \in Keys
      PROVE  index'[k] # None => index'[k] \in last /\ KeyOf[index'[k]] = k
  <2> DEFINE pick == CHOOSE i \in last : KeyOf[i] = k
  <2>1. CASE \E i \in last : KeyOf[i] = k
    <3>1. pick \in last /\ KeyOf[pick] = k
      BY <2>1
    <3>2. index'[k] = pick
      BY <2>1, <1>1
    <3>3. QED
      BY <3>1, <3>2
  <2>2. CASE ~\E i \in last : KeyOf[i] = k
    BY <2>2, <1>1
  <2>3. QED
    BY <2>1, <2>2
<1>4. RegistryInv'
  BY <1>1, <1>2, <1>3, RegistryAssumption
     DEF Hydrate, RegistryInv, RegistryTypeOK, IndexSound
<1>5. /\ UNCHANGED <<version, active, req>> /\ live' \subseteq Rows
      /\ server' \in {"down", "seeded", "up", "degraded"}
  BY <1>2 DEF Hydrate
<1>6. req' \in [Requests -> Request] /\ \A x \in Requests : RequestOK(req'[x])
  BY <1>5 DEF CatalogInv, CatalogTypeOK
<1>7. QED
  BY <1>2, <1>4, <1>5, <1>6, SameRowsStep

LEMMA CrashStep ==
    ASSUME CatalogInv, Crash
    PROVE  CatalogInv'
<1>1. RegistryInv'
  BY RegistryAssumption DEF Crash, RegistryInv, RegistryTypeOK, IndexSound
<1>2. Idle \in Request /\ RequestOK(Idle)
  BY IdleOK
<1>3. req' \in [Requests -> Request] /\ \A x \in Requests : RequestOK(req'[x])
  BY <1>2 DEF Crash
<1>4. /\ UNCHANGED version /\ active' \subseteq Rows /\ live' \subseteq Rows
      /\ server' \in {"down", "seeded", "up", "degraded"}
  BY DEF Crash, dbVars, CatalogInv, RegistryIsCommitted
<1>5. QED
  BY <1>1, <1>3, <1>4, SameRowsStep

LEMMA BootstrapFailsStep ==
    ASSUME CatalogInv, BootstrapFails
    PROVE  CatalogInv'
<1>1. UNCHANGED <<live, index, version, active, req>> /\ server' = "degraded"
  BY DEF BootstrapFails
<1>2. QED
  BY <1>1, SameRowsStep
     DEF CatalogInv, CatalogTypeOK, RegistryIsCommitted, RegistryInv,
         RegistryTypeOK, IndexSound

-----------------------------------------------------------------------------
(* All steps *)

LEMMA CatalogInit == Init => CatalogInv
<1> SUFFICES ASSUME Init PROVE CatalogInv
  OBVIOUS
<1>1. Idle \in Request /\ RequestOK(Idle)
  BY IdleOK
<1>2. Rows = {}
  BY DEF Init, Rows
<1>3. CatalogTypeOK
  BY <1>1, RegistryAssumption
     DEF Init, RegistryInit, CatalogTypeOK, RegistryTypeOK
<1>4. QED
  BY <1>1, <1>2, <1>3
     DEF Init, RegistryInit, CatalogInv, IndexSound, RegistryIsCommitted,
         VersionsUnique, VersionsDense

LEMMA RequestActionStep ==
    ASSUME CatalogInv, NEW w \in Requests, Step(w)
    PROVE  CatalogInv'
<1>1. CASE CreateTool(w)
  <2>1. PICK u \in Users, n \in Names, flag \in BOOLEAN : \E i \in Fresh(<<u, n>>) :
           Upsert(w, "post", <<u, n>>, i, flag)
    BY <1>1 DEF CreateTool
  <2>2. PICK i \in Fresh(<<u, n>>) : Upsert(w, "post", <<u, n>>, i, flag)
    BY <2>1
  <2>3. <<u, n>> \in Keys /\ i \in Ids /\ KeyOf[i] = <<u, n>>
    BY DEF Fresh, Keys, Owners
  <2>4. QED
    BY <2>2, <2>3, UpsertStep
<1>2. CASE UpdateTool(w)
  <2>1. PICK u \in Users, i \in Rows, flag \in BOOLEAN :
           Upsert(w, "put", <<u, NameOf(i)>>, i, flag)
    BY <1>2 DEF UpdateTool
  <2>2. i \in Ids /\ <<u, NameOf(i)>> \in Keys
    BY RegistryAssumption DEF Rows, Keys, Owners, NameOf
  <2>3. QED
    BY <2>1, <2>2, UpsertStep
<1>3. CASE ToggleActive(w)
  <2>1. PICK i \in Rows, flag \in BOOLEAN : LoadRow(w, "toggle", i, flag)
    BY <1>3 DEF ToggleActive
  <2>2. QED
    BY <2>1, LoadRowStep
<1>4. CASE DeleteTool(w)
  <2>1. PICK i \in Rows : LoadRow(w, "delete", i, FALSE)
    BY <1>4 DEF DeleteTool
  <2>2. QED
    BY <2>1, LoadRowStep
<1>5. CASE CommitUpsertFails(w) \/ DbFailure(w)
  BY <1>5, AbortStep DEF CommitUpsertFails, DbFailure
<1>6. QED
  BY <1>1, <1>2, <1>3, <1>4, <1>5, CommitUpsertStep, CommitFlagStep,
     RefreshStep, ApplyStep DEF Step

LEMMA CatalogNext == CatalogInv /\ [Next]_vars => CatalogInv'
<1> SUFFICES ASSUME CatalogInv, [Next]_vars
             PROVE  CatalogInv'
  OBVIOUS
<1>1. CASE UNCHANGED vars
  BY <1>1, SameRowsStep
     DEF vars, CatalogInv, CatalogTypeOK, RegistryIsCommitted, RegistryInv,
         RegistryTypeOK, IndexSound
<1>2. CASE \E w \in Requests : Step(w)
  BY <1>2, RequestActionStep
<1>3. QED
  BY <1>1, <1>2, SeedRowsStep, BootstrapFailsStep, HydrateStep, CrashStep DEF Next

LEMMA CatalogInvariant == Spec => []CatalogInv
BY CatalogInit, CatalogNext, PTL DEF Spec

(* Type correctness of the catalog and the registry it keeps. *)
THEOREM CatalogTypes == Spec => []CatalogTypeOK
BY CatalogInvariant, PTL DEF CatalogInv

(* The handlers keep the registry's contract: whatever requests interleave *)
(* or fail, a name never denotes a dropped tool or one of another owner.   *)
THEOREM CatalogIndexSound == Spec => []IndexSound
BY CatalogInvariant, PTL DEF CatalogInv

(* Nothing can be called that was not committed. *)
THEOREM CatalogRegistryIsCommitted == Spec => []RegistryIsCommitted
BY CatalogInvariant, PTL DEF CatalogInv

(* _resolve_for_user never runs a tool that list_for_user would hide from  *)
(* the user.                                                               *)
THEOREM CatalogResolvesToVisible == Spec => []ResolvesToVisible
<1>1. CatalogInv => ResolvesToVisible
  BY SoundIndexResolvesToVisible DEF CatalogInv, CatalogTypeOK, RegistryInv
<1>2. QED
  BY <1>1, CatalogInvariant, PTL

(* No version loses its name because another version leaves the registry.  *)
THEOREM CatalogKeepsNames == Spec => NameLostOnlyWithItsTool
<1> DEFINE A == \A k \in Keys : index[k] # None /\ index'[k] = None
                                   => index[k] \notin live'
<1>1. ASSUME CatalogInv, [Next]_vars
      PROVE  [A]_registryVars
  <2> SUFFICES ASSUME NEW k \in Keys, index[k] # None, index'[k] = None
               PROVE  index[k] \notin live'
    OBVIOUS
  <2>0. RegistryTypeOK
    BY <1>1 DEF CatalogInv, CatalogTypeOK
  <2>1. ASSUME NEW i \in Ids, Unregister(i)
        PROVE  index[k] \notin live'
    BY <2>0, <2>1 DEF RegistryTypeOK, Unregister
  <2>2. ASSUME NEW i \in Ids, index' = [index EXCEPT ![KeyOf[i]] = i]
        PROVE  FALSE
    BY <2>0, <2>2, RegistryAssumption DEF RegistryTypeOK
  <2>3. ASSUME UNCHANGED index
        PROVE  FALSE
    BY <2>3
  <2>4. ASSUME NEW w \in Requests, Apply(w)
        PROVE  index[k] \notin live'
    <3>1. req[w] \in Request /\ RequestOK(req[w])
      BY <1>1 DEF CatalogInv, CatalogTypeOK
    <3>2. req[w].id \in Ids /\ (req[w].prev # None => req[w].prev \in Ids)
      BY <2>4, <3>1 DEF Apply, RequestOK, Request
    <3>3. QED
      BY <2>1, <2>2, <2>3, <2>4, <3>2
         DEF Apply, Register, ReplaceActive, registryVars
  <2>5. ASSUME NEW w \in Requests, Step(w), ~Apply(w)
        PROVE  FALSE
    BY <2>3, <2>5 DEF Step, CreateTool, UpdateTool, Upsert, ToggleActive,
              DeleteTool, LoadRow, CommitUpsert, CommitUpsertFails, CommitFlag,
              Refresh, DbFailure, Abort
  <2>6. CASE Hydrate
    <3>1. ASSUME index[k] \in active
          PROVE  FALSE
      <4>1. KeyOf[index[k]] = k
        BY <1>1 DEF CatalogInv, IndexSound
      <4>2. PICK last \in SUBSET active :
              /\ \A i \in active : \E j \in last :
                     {h \in last : KeyOf[h] = KeyOf[i]} = {j}
              /\ index' = [x \in Keys |-> IF \E i \in last : KeyOf[i] = x
                                          THEN CHOOSE i \in last : KeyOf[i] = x
                                          ELSE None]
        BY <2>6 DEF Hydrate
      <4>3. PICK j \in last : KeyOf[j] = k
        BY <3>1, <4>1, <4>2
      <4>4. (CHOOSE i \in last : KeyOf[i] = k) \in last
        BY <4>3
      <4>5. index'[k] \in last
        BY <4>2, <4>3, <4>4
      <4>6. QED
        BY <4>5, RegistryAssumption, <1>1 DEF CatalogInv, CatalogTypeOK
    <3>2. QED
      BY <3>1, <2>6 DEF Hydrate
  <2>7. CASE Crash
    BY <2>7 DEF Crash
  <2>8. CASE SeedRows \/ BootstrapFails \/ UNCHANGED vars
    BY <2>3, <2>8 DEF SeedRows, BootstrapFails, vars
  <2>9. QED
    BY <1>1, <2>4, <2>5, <2>6, <2>7, <2>8 DEF Next
<1>2. QED
  BY <1>1, CatalogInvariant, PTL DEF Spec, NameLostOnlyWithItsTool

-----------------------------------------------------------------------------
(* The version history *)

(* The version after an existing one, or the first, when it is not taken,  *)
(* is one past the last.                                                   *)
LEMMA NextVersion ==
    ASSUME CatalogInv, NEW k \in Keys, NEW v \in Nat \ {0},
           v \notin VersionsOf(k), v = 1 \/ v - 1 \in VersionsOf(k)
    PROVE  VersionsOf(k) = 1..(v - 1)
<1>1. version \in [Ids -> Nat] /\ Rows \subseteq Ids
  BY DEF CatalogInv, CatalogTypeOK, Rows
<1>2. ASSUME NEW x \in VersionsOf(k)
      PROVE  x \in Nat /\ \A m \in 1..x : m \in VersionsOf(k)
  <2>1. PICK i \in Rows : KeyOf[i] = k /\ version[i] = x
    BY DEF VersionsOf
  <2>2. QED
    BY <2>1, <1>1 DEF CatalogInv, VersionsDense, VersionsOf
<1>3. ASSUME NEW x \in VersionsOf(k)
      PROVE  x \in 1..(v - 1)
  <2>1. x \in Nat /\ x > 0
    BY <1>1, <1>2 DEF VersionsOf, Rows
  <2>2. ~(v <= x)
    BY <1>2, <2>1
  <2>3. QED
    BY <2>1, <2>2
<1>4. ASSUME NEW x \in 1..(v - 1)
      PROVE  x \in VersionsOf(k)
  <2>1. v - 1 \in VersionsOf(k) /\ x \in 1..(v - 1)
    BY <1>4
  <2>2. QED
    BY <2>1, <1>2
<1>5. QED
  BY <1>3, <1>4

(* An upsert that commits adds the version after the last to its tool.     *)
LEMMA UpsertPublishes ==
    ASSUME CatalogInv, NEW w \in Requests, CommitUpsert(w), NEW k \in Keys
    PROVE  LET v == req[w].next
           IN  IF k # KeyOf[req[w].id] THEN VersionsOf(k)' = VersionsOf(k)
               ELSE /\ v \in Nat \ {0}
                    /\ VersionsOf(k) = 1..(v - 1) /\ VersionsOf(k)' = 1..v
<1> DEFINE i == req[w].id
           v == req[w].next
           prev == req[w].prev
<1>0. /\ i \in Ids /\ version[i] = 0
      /\ v \in Nat \ {0}
      /\ \A j \in Rows : KeyOf[j] = KeyOf[i] => version[j] # v
      /\ IF prev = None THEN v = 1
         ELSE prev \in Rows /\ KeyOf[prev] = KeyOf[i] /\ version[prev] = v - 1
      /\ version' = [version EXCEPT ![i] = v]
      /\ Rows' = Rows \cup {i}
  BY CommittedUpsert
<1>1. version \in [Ids -> Nat] /\ Rows \subseteq Ids /\ i \notin Rows
  BY <1>0 DEF CatalogInv, CatalogTypeOK, Rows
<1>2. VersionsOf(k)' = VersionsOf(k) \cup (IF KeyOf[i] = k THEN {v} ELSE {})
  <2>1. VersionsOf(k)' = {version'[j] : j \in {h \in Rows' : KeyOf[h] = k}}
    BY DEF VersionsOf
  <2>2. \A j \in Rows : version'[j] = version[j]
    BY <1>0, <1>1
  <2>3. version'[i] = v
    BY <1>0, <1>1
  <2>4. QED
    BY <2>1, <2>2, <2>3, <1>0 DEF VersionsOf
<1>3. CASE k # KeyOf[i]
  BY <1>2, <1>3
<1>4. CASE k = KeyOf[i]
  <2>1. v \notin VersionsOf(k)
    BY <1>0, <1>4 DEF VersionsOf
  <2>2. v = 1 \/ v - 1 \in VersionsOf(k)
    BY <1>0, <1>4 DEF VersionsOf
  <2>3. VersionsOf(k) = 1..(v - 1)
    BY <2>1, <2>2, <1>0, NextVersion
  <2>4. VersionsOf(k)' = 1..v
    BY <2>3, <1>2, <1>4, <1>0
  <2>5. QED
    BY <2>3, <2>4, <1>4, <1>0
<1>5. QED
  BY <1>3, <1>4

(* The seeds publish the first version of tools that have none.            *)
LEMMA SeedsPublish ==
    ASSUME CatalogInv, SeedRows, NEW k \in Keys
    PROVE  \/ VersionsOf(k)' = VersionsOf(k)
           \/ VersionsOf(k) = {} /\ VersionsOf(k)' = {1}
<1>1. PICK new \in SUBSET Ids :
             /\ version' = [i \in Ids |-> IF i \in new THEN 1 ELSE version[i]]
             /\ active' = active \cup new
             /\ Rows' = Rows \cup new
             /\ \A i \in new : version[i] = 0 /\ KeyOf[i] \in MissingSeeds
             /\ \A i \in new, j \in Rows : KeyOf[i] = KeyOf[j] => version[j] # 1
             /\ \A i, j \in new : KeyOf[i] = KeyOf[j] => i = j
  BY SeededRows
<1>2. Rows \subseteq Ids /\ \A j \in Rows : version'[j] = version[j]
  BY <1>1 DEF Rows
<1>3. VersionsOf(k)' = {version'[j] : j \in {h \in Rows' : KeyOf[h] = k}}
  BY DEF VersionsOf
<1>4. CASE \A i \in new : KeyOf[i] # k
  BY <1>1, <1>2, <1>3, <1>4 DEF VersionsOf
<1>5. ASSUME NEW i \in new, KeyOf[i] = k
      PROVE  VersionsOf(k) = {} /\ VersionsOf(k)' = {1}
  <2>1. ASSUME NEW j \in Rows, KeyOf[j] = k
        PROVE  FALSE
    <3>1. 1 \in 1..version[j]
      BY DEF CatalogInv, CatalogTypeOK, Rows
    <3>2. PICK h \in Rows : KeyOf[h] = k /\ version[h] = 1
      BY <3>1, <2>1 DEF CatalogInv, VersionsDense
    <3>3. QED
      BY <3>2, <1>1, <1>5
  <2>2. \A j \in new : version'[j] = 1
    BY <1>1
  <2>3. QED
    BY <2>1, <2>2, <1>1, <1>3, <1>5 DEF VersionsOf
<1>6. QED
  BY <1>4, <1>5

(* The table implements the promised history: a re-registration adds the   *)
(* version after the last, and nothing ever removes or renumbers one.      *)
THEOREM CatalogImplementsHistory == Spec => ImplementsHistory
<1> DEFINE h == [k \in Keys |-> VersionsOf(k)]
<1>1. Init => History!Init
  <2> SUFFICES ASSUME Init PROVE h = [k \in Keys |-> {}]
    BY DEF History!Init
  <2>1. Rows = {}
    BY DEF Init, Rows
  <2>2. QED
    BY <2>1 DEF VersionsOf
<1>2. ASSUME CatalogInv, [Next]_vars
      PROVE  [History!Next]_h
  <2> DEFINE Pub(k) == \E v \in h'[k] : h[k] = 1..(v - 1) /\ h'[k] = 1..v
  <2>0. /\ h' = [k \in Keys |-> VersionsOf(k)']
        /\ \A k \in Keys : h[k] = VersionsOf(k) /\ h'[k] = VersionsOf(k)'
    OBVIOUS
  <2>1. CASE UNCHANGED version
    <3>1. \A k \in Keys : VersionsOf(k)' = VersionsOf(k)
      BY <2>1 DEF VersionsOf, Rows
    <3>2. h' = h
      BY <3>1
    <3>3. QED
      BY <3>2
  <2>2. ASSUME \A k \in Keys : h'[k] = h[k] \/ Pub(k)
        PROVE  History!Next
    <3>1. h' = [k \in Keys |-> h'[k]]
      BY <2>0
    <3>2. QED
      BY <3>1, <2>2 DEF History!Next, History!Publish
  <2>3. ASSUME NEW w \in Requests, CommitUpsert(w), NEW k \in Keys
        PROVE  h'[k] = h[k] \/ Pub(k)
    BY <1>2, <2>3, <2>0, UpsertPublishes
  <2>4. ASSUME SeedRows, NEW k \in Keys
        PROVE  h'[k] = h[k] \/ Pub(k)
    <3>1. CASE VersionsOf(k)' = VersionsOf(k)
      BY <3>1, <2>0
    <3>2. CASE VersionsOf(k) = {} /\ VersionsOf(k)' = {1}
      <4>1. h[k] = 1..(1 - 1) /\ h'[k] = 1..1 /\ 1 \in h'[k]
        BY <3>2, <2>0
      <4>2. QED
        BY <4>1
    <3>3. QED
      BY <3>1, <3>2, <1>2, <2>4, SeedsPublish
  <2>5. \/ UNCHANGED version \/ SeedRows
        \/ \E w \in Requests : CommitUpsert(w)
    <3>1. ASSUME NEW w \in Requests, Step(w), ~CommitUpsert(w)
          PROVE  UNCHANGED version
      BY <3>1 DEF Step, CreateTool, UpdateTool, Upsert, ToggleActive,
                  DeleteTool, LoadRow, CommitUpsertFails, CommitFlag,
                  Refresh, Apply, DbFailure, Abort
    <3>2. QED
      BY <1>2, <3>1 DEF Next, vars, BootstrapFails, Hydrate, Crash, dbVars
  <2>6. QED
    BY <2>1, <2>2, <2>3, <2>4, <2>5
<1>3. QED
  BY <1>1, <1>2, CatalogInvariant, PTL DEF Spec, ImplementsHistory, History!Spec

-----------------------------------------------------------------------------
(* One active version *)

\* An active version is the last one of its tool.
ActiveIsLast ==
    \A i \in active : \A j \in Rows : KeyOf[j] = KeyOf[i] => version[j] <= version[i]

LEMMA LastIsUnique == CatalogInv /\ ActiveIsLast => OneActiveVersion
<1> SUFFICES ASSUME CatalogInv, ActiveIsLast, NEW i \in active, NEW j \in active,
                    KeyOf[i] = KeyOf[j]
             PROVE  i = j
  BY DEF OneActiveVersion
<1>1. i \in Rows /\ j \in Rows /\ version \in [Ids -> Nat] /\ Rows \subseteq Ids
  BY DEF CatalogInv, RegistryIsCommitted, CatalogTypeOK, Rows
<1>2. version[i] <= version[j] /\ version[j] <= version[i]
  BY <1>1 DEF ActiveIsLast
<1>3. version[i] = version[j]
  BY <1>1, <1>2
<1>4. QED
  BY <1>1, <1>3 DEF CatalogInv, VersionsUnique

(* A POST that commits either deactivated the last version or found none:  *)
(* had another registration or reactivation got in between, its version    *)
(* number would be taken.                                                  *)
LEMMA UpsertKeepsLast ==
    ASSUME CatalogInv, ActiveIsLast, NEW w \in Requests, CommitUpsert(w)
    PROVE  ActiveIsLast'
<1> DEFINE i == req[w].id
           v == req[w].next
           prev == req[w].prev
<1>0. /\ i \in Ids /\ version[i] = 0
      /\ v \in Nat \ {0}
      /\ \A j \in Rows : KeyOf[j] = KeyOf[i] => version[j] # v
      /\ IF prev = None THEN v = 1
         ELSE prev \in Rows /\ KeyOf[prev] = KeyOf[i] /\ version[prev] = v - 1
      /\ version' = [version EXCEPT ![i] = v]
      /\ Rows' = Rows \cup {i}
  BY CommittedUpsert
<1>1. /\ version \in [Ids -> Nat] /\ Rows \subseteq Ids /\ i \notin Rows
      /\ active \subseteq Rows
  BY <1>0 DEF CatalogInv, CatalogTypeOK, RegistryIsCommitted, Rows
<1>2. version'[i] = v /\ \A j \in Rows : version'[j] = version[j]
  BY <1>0, <1>1
<1>3. \A j \in Rows : KeyOf[j] = KeyOf[i] => version[j] \in 1..(v - 1)
  <2>1. KeyOf[i] \in Keys /\ VersionsOf(KeyOf[i]) = 1..(v - 1)
    BY <1>0, RegistryAssumption, UpsertPublishes
  <2>2. QED
    BY <2>1 DEF VersionsOf
<1>4. active' \subseteq (active \ {prev}) \cup {i}
  BY DEF CommitUpsert
<1>5. ASSUME NEW a \in active, a # prev, KeyOf[a] = KeyOf[i]
      PROVE  FALSE
  <2>1. a \in Rows /\ version[a] \in 1..(v - 1)
    BY <1>1, <1>3, <1>5
  <2>2. prev \in Rows /\ KeyOf[prev] = KeyOf[a] /\ version[prev] = v - 1
    BY <2>1, <1>0, <1>5
  <2>3. version[a] = version[prev]
    BY <2>1, <2>2, <1>0 DEF ActiveIsLast
  <2>4. QED
    BY <2>1, <2>2, <2>3, <1>5 DEF CatalogInv, VersionsUnique
<1>6. ASSUME NEW a \in active', NEW j \in Rows', KeyOf[j] = KeyOf[a]
      PROVE  version'[j] <= version'[a]
  <2>1. CASE a = i
    BY <2>1, <1>0, <1>1, <1>2, <1>3, <1>6
  <2>2. CASE a # i
    <3>1. a \in active /\ a # prev /\ KeyOf[a] # KeyOf[i]
      BY <2>2, <1>4, <1>5
    <3>2. j \in Rows /\ a \in Rows
      BY <3>1, <1>0, <1>1, <1>6
    <3>3. QED
      BY <3>1, <3>2, <1>2, <1>6 DEF ActiveIsLast
  <2>3. QED
    BY <2>1, <2>2
<1>7. QED
  BY <1>6 DEF ActiveIsLast

LEMMA SeedsKeepLast ==
    ASSUME CatalogInv, ActiveIsLast, SeedRows
    PROVE  ActiveIsLast'
<1>1. PICK new \in SUBSET Ids :
             /\ version' = [i \in Ids |-> IF i \in new THEN 1 ELSE version[i]]
             /\ active' = active \cup new
             /\ Rows' = Rows \cup new
             /\ \A i \in new : version[i] = 0 /\ KeyOf[i] \in MissingSeeds
             /\ \A i \in new, j \in Rows : KeyOf[i] = KeyOf[j] => version[j] # 1
             /\ \A i, j \in new : KeyOf[i] = KeyOf[j] => i = j
  BY SeededRows
<1>2. /\ Rows \subseteq Ids /\ active \subseteq Rows
      /\ \A j \in Rows : j \notin new /\ version'[j] = version[j]
      /\ \A i \in new : version'[i] = 1
  BY <1>1 DEF Rows, CatalogInv, RegistryIsCommitted
<1>3. ASSUME NEW i \in new, NEW j \in Rows, KeyOf[j] = KeyOf[i]
      PROVE  FALSE
  <2>1. 1 \in 1..version[j]
    BY DEF CatalogInv, CatalogTypeOK, Rows
  <2>2. PICK g \in Rows : KeyOf[g] = KeyOf[i] /\ version[g] = 1
    BY <2>1, <1>3 DEF CatalogInv, VersionsDense
  <2>3. QED
    BY <2>2, <1>1
<1>4. ASSUME NEW a \in active', NEW j \in Rows', KeyOf[j] = KeyOf[a]
      PROVE  version'[j] <= version'[a]
  <2>1. CASE a \in new /\ j \in new
    BY <2>1, <1>2
  <2>2. CASE a \in active /\ j \in Rows
    BY <2>2, <1>2, <1>4 DEF ActiveIsLast
  <2>3. CASE a \in active /\ j \in new
    BY <2>3, <1>2, <1>3, <1>4
  <2>4. CASE a \in new /\ j \in Rows
    BY <2>4, <1>3, <1>4
  <2>5. QED
    BY <2>1, <2>2, <2>3, <2>4, <1>1
<1>5. QED
  BY <1>4 DEF ActiveIsLast

(* Only a PATCH can make a second version of a tool active: whatever POSTs *)
(* and DELETEs race, the UNIQUE constraint lets one of them win.           *)
THEOREM CatalogOneActive == Spec => OneActiveUnlessReactivated
<1>1. Init => ActiveIsLast
  BY DEF Init, ActiveIsLast
<1>2. ASSUME CatalogInv, ActiveIsLast, ~Reactivating, [Next]_vars
      PROVE  ActiveIsLast'
  <2>1. CASE UNCHANGED version /\ active' \subseteq active
    <3>1. Rows' = Rows
      BY <2>1 DEF Rows
    <3>2. QED
      BY <2>1, <3>1, <1>2 DEF ActiveIsLast
  <2>2. ASSUME NEW w \in Requests, CommitFlag(w)
        PROVE  UNCHANGED version /\ active' \subseteq active
    <3>1. req[w].op \in {"toggle", "delete"} /\ RequestOK(req[w])
      BY <1>2, <2>2 DEF CatalogInv, CommitFlag
    <3>2. ~req[w].flag
      BY <1>2, <3>1 DEF Reactivating, RequestOK
    <3>3. QED
      BY <2>2, <3>2 DEF CommitFlag
  <2>3. ASSUME NEW w \in Requests, Step(w), ~CommitUpsert(w)
        PROVE  UNCHANGED version /\ active' \subseteq active
    <3>1. CASE CommitFlag(w)
      BY <2>2, <3>1
    <3>2. CASE ~CommitFlag(w)
      BY <2>3, <3>2 DEF Step, CreateTool, UpdateTool, Upsert, ToggleActive,
                DeleteTool, LoadRow, CommitUpsertFails,
                Refresh, Apply, DbFailure, Abort
    <3>3. QED
      BY <3>1, <3>2
  <2>4. CASE BootstrapFails \/ Hydrate \/ Crash \/ UNCHANGED vars
    BY <2>1, <2>4 DEF BootstrapFails, Hydrate, Crash, dbVars, vars
  <2>5. CASE SeedRows
    BY <2>5, <1>2, SeedsKeepLast
  <2>6. CASE \E w \in Requests : Step(w)
    BY <2>6, <2>1, <2>3, <1>2, UpsertKeepsLast
  <2>7. QED
    BY <1>2, <2>4, <2>5, <2>6 DEF Next
<1>3. Spec /\ []~Reactivating => []ActiveIsLast
  BY <1>1, <1>2, CatalogInvariant, PTL DEF Spec
<1>4. Spec /\ []~Reactivating => []OneActiveVersion
  BY <1>3, LastIsUnique, CatalogInvariant, PTL
<1>5. QED
  BY <1>4, PTL DEF OneActiveUnlessReactivated

-----------------------------------------------------------------------------
(* One request at a time *)

\* No two requests are under way at once.
OneRequest == \A v, w \in Requests : v = w

\* Requests are only served once startup is over.
ServedAfterStartup ==
    server \in {"down", "seeded"} => \A w \in Requests : req[w].pc = "idle"

\* What a registration that has loaded its rows found is still so.
LoadedStill(r) ==
    r.op = "post" /\ r.pc = "loaded" =>
        /\ version[r.id] = 0
        /\ ActiveRows(KeyOf[r.id]) = IF r.prev = None THEN {} ELSE {r.prev}

AloneInv ==
    /\ CatalogInv
    /\ ServedAfterStartup
    /\ \A w \in Requests : LoadedStill(req[w])

LEMMA IdleIsIdle == Idle.pc = "idle" /\ Idle.op = "none"
BY DEF Idle

\* What the step of a request w makes of it.
LEMMA RequestBecomes ==
    ASSUME CatalogInv, NEW w \in Requests, Step(w), ~CreateTool(w)
    PROVE  \E r : /\ req' = [req EXCEPT ![w] = r]
                  /\ r.op # "post" \/ r.pc # "loaded"
<1>1. req \in [Requests -> Request] /\ req[w] \in Request
  BY DEF CatalogInv, CatalogTypeOK
<1>2. CASE UpdateTool(w) \/ ToggleActive(w) \/ DeleteTool(w)
  <2>1. ASSUME NEW k, NEW i, NEW flag, Upsert(w, "put", k, i, flag)
        PROVE  \E r : req' = [req EXCEPT ![w] = r] /\ r.op # "post"
    <3>1. ASSUME NEW prev, NEW next,
                 req' = [req EXCEPT ![w] =
                   [pc |-> "loaded", op |-> "put", id |-> i, prev |-> prev,
                    next |-> next, flag |-> flag, dirty |-> FALSE]]
          PROVE  \E r : req' = [req EXCEPT ![w] = r] /\ r.op # "post"
      <4> DEFINE r == [pc |-> "loaded", op |-> "put", id |-> i, prev |-> prev,
                       next |-> next, flag |-> flag, dirty |-> FALSE]
      <4>1. r.op # "post"
        OBVIOUS
      <4> HIDE DEF r
      <4>2. QED
        BY <3>1, <4>1 DEF r
    <3>2. QED
      BY <2>1, <3>1 DEF Upsert
  <2>2. ASSUME NEW op \in {"toggle", "delete"}, NEW i, NEW flag, LoadRow(w, op, i, flag)
        PROVE  \E r : req' = [req EXCEPT ![w] = r] /\ r.op # "post"
    <3> DEFINE r == [pc |-> "loaded", op |-> op, id |-> i, prev |-> None,
                     next |-> 0, flag |-> flag, dirty |-> (i \in active) # flag]
    <3>1. req' = [req EXCEPT ![w] = r]
      BY <2>2 DEF LoadRow
    <3>2. r.op = op /\ op # "post"
      OBVIOUS
    <3> HIDE DEF r
    <3>3. QED
      BY <3>1, <3>2
  <2>3. QED
    BY <1>2, <2>1, <2>2 DEF UpdateTool, ToggleActive, DeleteTool
<1>3. CASE CommitUpsert(w) \/ CommitFlag(w) \/ Refresh(w)
  <2>1. req' = [req EXCEPT ![w] = req'[w]] /\ req'[w].pc # "loaded"
    BY <1>1, <1>3 DEF CommitUpsert, CommitFlag, Refresh, Request
  <2>2. QED
    BY <2>1
<1>4. CASE CommitUpsertFails(w) \/ Apply(w) \/ DbFailure(w)
  BY <1>4, IdleIsIdle DEF CommitUpsertFails, Apply, DbFailure, Abort
<1>5. QED
  BY <1>2, <1>3, <1>4 DEF Step

LEMMA AloneNext ==
    ASSUME OneRequest, AloneInv, [Next]_vars
    PROVE  AloneInv'
<1>1. CatalogInv /\ CatalogInv'
  BY CatalogNext DEF AloneInv
<1>2. CASE UNCHANGED vars
  BY <1>1, <1>2 DEF vars, AloneInv, ServedAfterStartup, LoadedStill, ActiveRows
<1>3. CASE SeedRows \/ BootstrapFails \/ Hydrate
  <2>1. UNCHANGED req /\ \A w \in Requests : req[w].pc = "idle"
    BY <1>3 DEF SeedRows, BootstrapFails, Hydrate, AloneInv, ServedAfterStartup
  <2>2. QED
    BY <2>1, <1>1 DEF AloneInv, ServedAfterStartup, LoadedStill
<1>4. CASE Crash
  <2>1. \A w \in Requests : req'[w] = Idle
    BY <1>4 DEF Crash
  <2>2. QED
    BY <2>1, <1>1, IdleIsIdle DEF AloneInv, ServedAfterStartup, LoadedStill
<1>5. ASSUME NEW w \in Requests, Step(w)
      PROVE  AloneInv'
  <2>1. UNCHANGED server
    BY <1>5 DEF Step, CreateTool, UpdateTool, Upsert, ToggleActive, DeleteTool,
                LoadRow, CommitUpsert, CommitUpsertFails, CommitFlag, Refresh,
                Apply, DbFailure, Abort
  <2>2. server \in {"up", "degraded"}
    <3>1. req[w].pc # "idle" \/ Free(w)
      BY <1>5 DEF Step, CreateTool, UpdateTool, ToggleActive, DeleteTool,
                  CommitUpsert, CommitUpsertFails, CommitFlag, Refresh, Apply,
                  DbFailure
    <3>2. QED
      BY <3>1, <1>1 DEF AloneInv, ServedAfterStartup, Free, CatalogInv, CatalogTypeOK
  <2>3. CASE CreateTool(w)
    <3>1. PICK u \in Users, n \in Names, flag \in BOOLEAN : \E i \in Fresh(<<u, n>>) :
             Upsert(w, "post", <<u, n>>, i, flag)
      BY <2>3 DEF CreateTool
    <3>2. PICK i \in Fresh(<<u, n>>) : Upsert(w, "post", <<u, n>>, i, flag)
      BY <3>1
    <3>3. i \in Ids /\ KeyOf[i] = <<u, n>> /\ version[i] = 0
      BY DEF Fresh
    <3>4. UNCHANGED <<version, active>>
      BY <3>2 DEF Upsert
    <3>5. ASSUME NEW prev \in Ids \cup {None}, NEW next,
                 ActiveRows(<<u, n>>) = IF prev = None THEN {} ELSE {prev},
                 req' = [req EXCEPT ![w] =
                   [pc |-> "loaded", op |-> "post", id |-> i, prev |-> prev,
                    next |-> next, flag |-> flag, dirty |-> FALSE]]
          PROVE  AloneInv'
      <4> DEFINE r == [pc |-> "loaded", op |-> "post", id |-> i, prev |-> prev,
                       next |-> next, flag |-> flag, dirty |-> FALSE]
      <4>1. r.id = i /\ r.prev = prev
        OBVIOUS
      <4> HIDE DEF r
      <4>2. version'[r.id] = 0 /\ ActiveRows(KeyOf[r.id])' =
                 IF r.prev = None THEN {} ELSE {r.prev}
        BY <3>3, <3>4, <3>5, <4>1 DEF ActiveRows
      <4>3. req' = [req EXCEPT ![w] = r]
        BY <3>5 DEF r
      <4>4. \A x \in Requests : x = w /\ req'[x] = r
        BY <4>3, <1>1 DEF OneRequest, CatalogInv, CatalogTypeOK
      <4>5. ASSUME NEW x \in Requests
            PROVE  LoadedStill(req[x])'
        BY <4>2, <4>4 DEF LoadedStill, ActiveRows
      <4>6. QED
        BY <4>5, <1>1, <2>1, <2>2 DEF AloneInv, ServedAfterStartup
    <3>6. QED
      BY <3>2, <3>5, RegistryAssumption DEF Upsert
  <2>4. CASE ~CreateTool(w)
    <3>1. PICK r : req' = [req EXCEPT ![w] = r] /\ (r.op # "post" \/ r.pc # "loaded")
      BY <1>1, <1>5, <2>4, RequestBecomes
    <3>2. \A x \in Requests : x = w /\ req'[x] = r
      BY <3>1, <1>1 DEF OneRequest, CatalogInv, CatalogTypeOK
    <3>3. QED
      BY <3>1, <3>2, <1>1, <2>1, <2>2 DEF AloneInv, ServedAfterStartup, LoadedStill
  <2>5. QED
    BY <2>3, <2>4
<1>6. QED
  BY <1>2, <1>3, <1>4, <1>5 DEF Next

LEMMA AloneInvariant ==
    ASSUME OneRequest
    PROVE  Spec => []AloneInv
<1>1. Init => AloneInv
  BY CatalogInit, IdleIsIdle DEF AloneInv, ServedAfterStartup, LoadedStill, Init
<1>2. AloneInv /\ [Next]_vars => AloneInv'
  BY AloneNext
<1>3. QED
  BY <1>1, <1>2, PTL DEF Spec

(* Of requests served one at a time, a POST can only clash with a version  *)
(* newer than the active one: its id is new, and its version one past the  *)
(* active row, which nobody can have changed since it was read.            *)
THEOREM CatalogPostClashes ==
    ASSUME OneRequest
    PROVE  Spec => []PostClashesOnlyIfNewestInactive
<1>1. AloneInv => PostClashesOnlyIfNewestInactive
  <2> SUFFICES ASSUME AloneInv, NEW w \in Requests,
                      req[w].op = "post", req[w].pc = "loaded",
                      InsertClash(req[w].id, req[w].next),
                      NewestActive(KeyOf[req[w].id])
               PROVE  FALSE
    BY DEF PostClashesOnlyIfNewestInactive
  <2> DEFINE i == req[w].id
             v == req[w].next
             prev == req[w].prev
  <2>1. /\ version \in [Ids -> Nat] /\ i \in Ids /\ version[i] = 0
        /\ ActiveRows(KeyOf[i]) = IF prev = None THEN {} ELSE {prev}
        /\ v = IF prev = None THEN 1 ELSE version[prev] + 1
        /\ prev # None => prev \in Rows
    BY DEF AloneInv, CatalogInv, CatalogTypeOK, RequestOK, LoadedStill
  <2>2. PICK j \in Ids : KeyOf[j] = KeyOf[i] /\ version[j] = v
    BY <2>1 DEF InsertClash
  <2>3. j \in Rows
    BY <2>1, <2>2 DEF Rows
  <2>4. PICK a \in ActiveRows(KeyOf[i]) : version[j] <= version[a]
    BY <2>2, <2>3 DEF NewestActive
  <2>5. prev # None /\ a = prev /\ prev \in Ids
    BY <2>1, <2>4 DEF Rows
  <2>6. version[j] = version[prev] + 1 /\ version[j] <= version[prev] /\ version[prev] \in Nat
    BY <2>1, <2>2, <2>4, <2>5
  <2>7. QED
    BY <2>6
<1>2. QED
  BY <1>1, AloneInvariant, PTL

-----------------------------------------------------------------------------
(* The registry in step with the table.  With one request at a time and a  *)
(* database that does not fail, the two differ only between the commit of  *)
(* a request and its last step, and then by just what that step does --    *)
(* and, after a failed startup, by active rows no request has touched.     *)

\* Set l of tools is what the registry should hold.
Matches(l) == IF server = "up" THEN l = active ELSE l \subseteq active

\* What request r still has to do to the registry.
Outstanding(r) ==
    /\ r.pc = "loaded" /\ r.op \in {"toggle", "delete"} =>
           r.dirty = ((r.id \in active) # r.flag)
    /\ r.pc \in {"committed", "refreshed"} =>
           /\ r.op \in {"post", "toggle", "delete"}
           /\ r.flag = (r.id \in active)
           /\ r.op = "post" =>
                  /\ r.prev # r.id
                  /\ Matches((live \ {r.prev}) \cup (IF r.flag THEN {r.id} ELSE {}))
           /\ r.op # "post" =>
                  Matches(IF r.flag THEN live \cup {r.id} ELSE live \ {r.id})

Before(r) == r.pc \in {"idle", "loaded"}

InStepInv ==
    /\ AloneInv
    /\ (\A w \in Requests : Before(req[w])) => Matches(live)
    /\ \A w \in Requests : Outstanding(req[w])

\* Loading a row touches neither side.
LEMMA LoadKeepsStep ==
    ASSUME OneRequest, InStepInv, AloneInv', NEW w \in Requests,
           Before(req[w]), NEW r, req' = [req EXCEPT ![w] = r], r.pc = "loaded",
           r.op \in {"toggle", "delete"} => r.dirty = ((r.id \in active) # r.flag),
           UNCHANGED <<live, active, server>>
    PROVE  InStepInv'
<1>1. \A x \in Requests : x = w /\ req'[x] = r
  BY DEF OneRequest, InStepInv, AloneInv, CatalogInv, CatalogTypeOK
<1>2. Matches(live)'
  BY <1>1 DEF InStepInv, Matches
<1>3. ASSUME NEW x \in Requests
      PROVE  Outstanding(req[x])'
  BY <1>1 DEF Outstanding
<1>4. QED
  BY <1>2, <1>3 DEF InStepInv

LEMMA UpsertLoadKeepsStep ==
    ASSUME OneRequest, InStepInv, AloneInv', NEW w \in Requests,
           Before(req[w]), NEW op \in {"post", "put"}, NEW k, NEW i, NEW flag,
           Upsert(w, op, k, i, flag)
    PROVE  InStepInv'
<1>1. ASSUME NEW prev, NEW next,
             req' = [req EXCEPT ![w] =
                 [pc |-> "loaded", op |-> op, id |-> i, prev |-> prev,
                  next |-> next, flag |-> flag, dirty |-> FALSE]],
             UNCHANGED <<live, active, server>>
      PROVE  InStepInv'
  <2> DEFINE r == [pc |-> "loaded", op |-> op, id |-> i, prev |-> prev,
                   next |-> next, flag |-> flag, dirty |-> FALSE]
  <2>1. r.pc = "loaded" /\ r.op \notin {"toggle", "delete"}
    OBVIOUS
  <2>2. req' = [req EXCEPT ![w] = r]
    BY <1>1
  <2> HIDE DEF r
  <2>3. QED
    BY <1>1, <2>1, <2>2, LoadKeepsStep
<1>2. QED
  BY <1>1 DEF Upsert

LEMMA RowLoadKeepsStep ==
    ASSUME OneRequest, InStepInv, AloneInv', NEW w \in Requests,
           Before(req[w]), NEW op \in {"toggle", "delete"}, NEW i, NEW flag \in BOOLEAN,
           LoadRow(w, op, i, flag)
    PROVE  InStepInv'
<1> DEFINE r == [pc |-> "loaded", op |-> op, id |-> i, prev |-> None,
                 next |-> 0, flag |-> flag, dirty |-> (i \in active) # flag]
<1>1. r.pc = "loaded" /\ r.dirty = ((r.id \in active) # r.flag)
  OBVIOUS
<1>2. req' = [req EXCEPT ![w] = r] /\ UNCHANGED <<live, active, server>>
  BY DEF LoadRow
<1> HIDE DEF r
<1>3. QED
  BY <1>1, <1>2, LoadKeepsStep

\* A registration commits a row that the registry has never held.
LEMMA CommitUpsertKeepsStep ==
    ASSUME OneRequest, InStepInv, AloneInv', NEW w \in Requests,
           CommitUpsert(w)
    PROVE  InStepInv'
<1> DEFINE r == req[w]
           s == req'[w]
<1>1. /\ r.op = "post" /\ r.pc = "loaded"
      /\ active' = (active \ {r.prev}) \cup (IF r.flag THEN {r.id} ELSE {})
      /\ req' = [req EXCEPT ![w].pc = "committed"]
      /\ version[r.id] = 0 /\ r.id \in Ids
      /\ UNCHANGED <<live, server>>
  BY CommittedUpsert DEF CommitUpsert, InStepInv, AloneInv
<1>2. r \in Request /\ req \in [Requests -> Request]
  BY DEF InStepInv, AloneInv, CatalogInv, CatalogTypeOK
<1>3. /\ s.pc = "committed" /\ s.op = "post" /\ s.id = r.id /\ s.prev = r.prev
      /\ s.flag = r.flag /\ r.flag \in BOOLEAN
  BY <1>1, <1>2 DEF Request
<1>4. \A x \in Requests : x = w
  BY DEF OneRequest
<1>5. Matches(live)
  BY <1>1, <1>4 DEF InStepInv, Before
<1>6. r.id \notin Rows /\ active \subseteq Rows
  BY <1>1 DEF Rows, InStepInv, AloneInv, CatalogInv, RegistryIsCommitted
<1>7. r.prev # r.id
  BY <1>1, <1>2, <1>6, RegistryAssumption
     DEF InStepInv, AloneInv, CatalogInv, RequestOK
<1>8. s.flag = (s.id \in active')
  BY <1>1, <1>3, <1>6
<1>9. Matches((live \ {r.prev}) \cup (IF r.flag THEN {r.id} ELSE {}))'
  BY <1>1, <1>3, <1>5 DEF Matches
<1>10. Outstanding(req[w])'
  BY <1>1, <1>3, <1>7, <1>8, <1>9 DEF Outstanding
<1>11. ~Before(req[w])'
  BY <1>3 DEF Before
<1>12. QED
  BY <1>4, <1>10, <1>11 DEF InStepInv

LEMMA CommitFlagKeepsStep ==
    ASSUME OneRequest, InStepInv, AloneInv', NEW w \in Requests,
           CommitFlag(w)
    PROVE  InStepInv'
<1> DEFINE r == req[w]
<1>1. /\ r.op \in {"toggle", "delete"} /\ r.pc = "loaded"
      /\ active' = IF ~r.dirty THEN active
                   ELSE IF r.flag THEN active \cup {r.id} ELSE active \ {r.id}
      /\ req' = [req EXCEPT ![w].pc = "committed", ![w].dirty = FALSE]
      /\ UNCHANGED <<live, server>>
  BY DEF CommitFlag
<1>2. r \in Request /\ req \in [Requests -> Request]
  BY DEF InStepInv, AloneInv, CatalogInv, CatalogTypeOK
<1>3. /\ req'[w].pc = "committed" /\ req'[w].op = r.op /\ req'[w].id = r.id
      /\ req'[w].flag = r.flag
  BY <1>1, <1>2 DEF Request
<1>4. \A x \in Requests : x = w
  BY DEF OneRequest
<1>5. Matches(live)
  BY <1>1, <1>4 DEF InStepInv, Before
<1>6. r.dirty = ((r.id \in active) # r.flag) /\ r.flag \in BOOLEAN
  BY <1>1, <1>2 DEF InStepInv, Outstanding, Request
<1>7. active' = IF r.flag THEN active \cup {r.id} ELSE active \ {r.id}
  <2>1. CASE r.dirty
    BY <2>1, <1>1
  <2>2. CASE ~r.dirty /\ r.flag
    <3>1. r.id \in active
      BY <2>2, <1>6
    <3>2. QED
      BY <2>2, <3>1, <1>1
  <2>3. CASE ~r.dirty /\ ~r.flag
    <3>1. r.id \notin active
      BY <2>3, <1>6
    <3>2. QED
      BY <2>3, <3>1, <1>1
  <2>4. QED
    BY <2>1, <2>2, <2>3
<1>8. r.flag = (r.id \in active')
  <2>1. CASE r.flag
    BY <2>1, <1>6, <1>7
  <2>2. CASE ~r.flag
    BY <2>2, <1>6, <1>7
  <2>3. QED
    BY <2>1, <2>2
<1>9. Matches(IF r.flag THEN live \cup {r.id} ELSE live \ {r.id})'
  BY <1>1, <1>3, <1>5, <1>7 DEF Matches
<1>10. Outstanding(req[w])'
  BY <1>1, <1>3, <1>8, <1>9 DEF Outstanding
<1>11. ~Before(req[w])'
  BY <1>3 DEF Before
<1>12. QED
  BY <1>4, <1>10, <1>11 DEF InStepInv

LEMMA RefreshKeepsStep ==
    ASSUME OneRequest, InStepInv, AloneInv', NEW w \in Requests,
           Refresh(w)
    PROVE  InStepInv'
<1> DEFINE r == req[w]
<1>1. /\ r.pc = "committed"
      /\ req' = [req EXCEPT ![w].pc = "refreshed", ![w].flag = r.id \in active]
      /\ UNCHANGED <<live, active, server>>
  BY DEF Refresh
<1>2. r \in Request /\ req \in [Requests -> Request]
  BY DEF InStepInv, AloneInv, CatalogInv, CatalogTypeOK
<1>3. Outstanding(r)
  BY DEF InStepInv
<1>4. /\ req'[w].pc = "refreshed" /\ req'[w].op = r.op /\ req'[w].id = r.id
      /\ req'[w].prev = r.prev /\ req'[w].flag = (r.id \in active)
  BY <1>1, <1>2 DEF Request
<1>5. r.flag = (r.id \in active) /\ r.op \in {"post", "toggle", "delete"}
  BY <1>1, <1>3 DEF Outstanding
<1>6. req'[w].flag = r.flag
  BY <1>4, <1>5
<1>7. req'[w].flag = (req'[w].id \in active')
  BY <1>1, <1>4
<1>8. /\ r.op = "post" =>
             /\ r.prev # r.id
             /\ Matches((live \ {r.prev}) \cup (IF r.flag THEN {r.id} ELSE {}))
      /\ r.op # "post" =>
             Matches(IF r.flag THEN live \cup {r.id} ELSE live \ {r.id})
  BY <1>1, <1>3 DEF Outstanding
<1> DEFINE t == req'[w]
<1> HIDE DEF r, t
<1>9. /\ t.op \in {"post", "toggle", "delete"}
      /\ t.flag = (t.id \in active')
      /\ t.op = "post" =>
             /\ t.prev # t.id
             /\ Matches((live \ {t.prev}) \cup (IF t.flag THEN {t.id} ELSE {}))
      /\ t.op # "post" =>
             Matches(IF t.flag THEN live \cup {t.id} ELSE live \ {t.id})
  BY <1>1, <1>4, <1>5, <1>6, <1>7, <1>8 DEF t
<1>10. Outstanding(req[w])'
  BY <1>1, <1>4, <1>9 DEF Outstanding, Matches, t
<1>11. ~Before(req[w])'
  BY <1>4 DEF Before
<1>12. QED
  BY <1>10, <1>11 DEF InStepInv, OneRequest

\* The last step does just what was outstanding.
LEMMA ApplyFinishes ==
    ASSUME OneRequest, InStepInv, NEW w \in Requests, Apply(w)
    PROVE  Matches(live)' /\ req'[w] = Idle
<1> DEFINE r == req[w]
<1>1. r \in Request /\ req \in [Requests -> Request] /\ live \subseteq Ids
      /\ None \notin Ids
  BY RegistryAssumption
     DEF InStepInv, AloneInv, CatalogInv, CatalogTypeOK, RegistryTypeOK
<1>2. r.pc \in {"committed", "refreshed"}
  BY DEF Apply
<1>3. /\ r.op \in {"post", "toggle", "delete"}
      /\ r.op = "post" =>
             /\ r.prev # r.id
             /\ Matches((live \ {r.prev}) \cup (IF r.flag THEN {r.id} ELSE {}))
      /\ r.op # "post" =>
             Matches(IF r.flag THEN live \cup {r.id} ELSE live \ {r.id})
  BY <1>2 DEF InStepInv, Outstanding
<1>4. active' = active /\ server' = server /\ req'[w] = Idle
  BY <1>1 DEF Apply
<1>5. CASE r.op = "post" /\ r.flag
  <2>1. live' = (live \ {r.prev}) \cup {r.id}
    BY <1>3, <1>5 DEF Apply, ReplaceActive
  <2>2. QED
    BY <2>1, <1>3, <1>4, <1>5 DEF Matches
<1>6. CASE r.op = "post" /\ ~r.flag
  <2>1. Matches(live \ {r.prev})
    BY <1>3, <1>6
  <2>2. CASE r.prev = None
    <3>1. live' = live \ {r.prev}
      BY <2>2, <1>1, <1>6 DEF Apply, registryVars
    <3>2. QED
      BY <2>1, <3>1, <1>4 DEF Matches
  <2>3. CASE r.prev # None
    <3>1. live' = live \ {r.prev}
      BY <2>3, <1>6 DEF Apply, Unregister
    <3>2. QED
      BY <2>1, <3>1, <1>4 DEF Matches
  <2>4. QED
    BY <2>2, <2>3
<1>7. CASE r.op # "post" /\ r.flag
  <2>1. Register(r.id)
    BY <1>3, <1>7 DEF Apply
  <2>2. QED
    BY <2>1, <1>3, <1>4, <1>7 DEF Register, Matches
<1>8. CASE r.op # "post" /\ ~r.flag
  <2>1. Unregister(r.id)
    BY <1>3, <1>8 DEF Apply
  <2>2. QED
    BY <2>1, <1>3, <1>4, <1>8 DEF Unregister, Matches
<1>9. QED
  BY <1>4, <1>5, <1>6, <1>7, <1>8

\* When no request is past its load, nothing is outstanding.
LEMMA SettledInStep ==
    ASSUME AloneInv', Matches(live)', \A x \in Requests : req'[x].pc = "idle"
    PROVE  InStepInv'
<1>1. ASSUME NEW x \in Requests
      PROVE  Outstanding(req[x])'
  BY DEF Outstanding
<1>2. QED
  BY <1>1 DEF InStepInv

LEMMA InStepRequest ==
    ASSUME OneRequest, ~DbMayFail, InStepInv, AloneInv',
           NEW w \in Requests, Step(w)
    PROVE  InStepInv'
<1>1. \A x \in Requests : x = w
  BY DEF OneRequest
<1>2. req \in [Requests -> Request]
  BY DEF InStepInv, AloneInv, CatalogInv, CatalogTypeOK
<1>3. CASE CreateTool(w)
  <2>1. PICK u \in Users, n \in Names, flag \in BOOLEAN, i \in Ids :
           Upsert(w, "post", <<u, n>>, i, flag)
    BY <1>3 DEF CreateTool, Fresh
  <2>2. QED
    BY <2>1, <1>3, UpsertLoadKeepsStep DEF CreateTool, Free, Before
<1>4. CASE UpdateTool(w)
  <2>1. PICK u \in Users, i \in Rows, flag \in BOOLEAN :
           Upsert(w, "put", <<u, NameOf(i)>>, i, flag)
    BY <1>4 DEF UpdateTool
  <2>2. QED
    BY <2>1, <1>4, UpsertLoadKeepsStep DEF UpdateTool, Free, Before
<1>5. CASE ToggleActive(w) \/ DeleteTool(w)
  <2>1. PICK op \in {"toggle", "delete"}, i \in Rows, flag \in BOOLEAN :
           LoadRow(w, op, i, flag)
    BY <1>5 DEF ToggleActive, DeleteTool
  <2>2. Before(req[w])
    BY <1>5 DEF ToggleActive, DeleteTool, Free, Before
  <2>3. QED
    BY <2>1, <2>2, RowLoadKeepsStep
<1>6. CASE CommitUpsertFails(w)
  <2>1. Matches(live)' /\ req'[w] = Idle
    BY <1>1, <1>2, <1>6
       DEF CommitUpsertFails, Abort, InStepInv, Before, Matches
  <2>2. QED
    BY <1>1, <2>1, IdleIsIdle, SettledInStep
<1>7. CASE Apply(w)
  BY <1>1, <1>7, ApplyFinishes, IdleIsIdle, SettledInStep
<1>8. QED
  BY <1>3, <1>4, <1>5, <1>6, <1>7, CommitUpsertKeepsStep, CommitFlagKeepsStep,
     RefreshKeepsStep DEF Step, DbFailure

LEMMA InStepNext ==
    ASSUME OneRequest, ~DbMayFail, InStepInv, [Next]_vars
    PROVE  InStepInv'
<1>1. AloneInv'
  BY AloneNext DEF InStepInv
<1>2. CASE UNCHANGED vars
  BY <1>1, <1>2 DEF vars, InStepInv, Outstanding, Before, Matches
<1>3. CASE SeedRows \/ BootstrapFails \/ Hydrate
  <2>1. (\A x \in Requests : req[x].pc = "idle") /\ UNCHANGED req
    BY <1>3 DEF SeedRows, BootstrapFails, Hydrate, InStepInv, AloneInv,
                ServedAfterStartup
  <2>2. Matches(live)
    BY <2>1 DEF InStepInv, Before
  <2>3. Matches(live)'
    BY <1>3, <2>2 DEF SeedRows, BootstrapFails, Hydrate, Matches
  <2>4. QED
    BY <1>1, <2>1, <2>3, SettledInStep
<1>4. CASE Crash
  <2>1. live' = {} /\ \A x \in Requests : req'[x].pc = "idle"
    BY <1>4, IdleIsIdle DEF Crash
  <2>2. Matches(live)'
    BY <2>1, <1>4 DEF Matches, Crash
  <2>3. QED
    BY <1>1, <2>1, <2>2, SettledInStep
<1>5. QED
  BY <1>1, <1>2, <1>3, <1>4, InStepRequest DEF Next

LEMMA InStepInvariant ==
    ASSUME OneRequest, ~DbMayFail
    PROVE  Spec => []InStepInv
<1>1. Init => InStepInv
  <2>1. Init => AloneInv
    BY CatalogInit, IdleIsIdle DEF AloneInv, ServedAfterStartup, LoadedStill, Init
  <2>2. Init => Matches(live) /\ \A w \in Requests : Outstanding(req[w])
    BY IdleIsIdle DEF Init, RegistryInit, Matches, Outstanding
  <2>3. QED
    BY <2>1, <2>2 DEF InStepInv
<1>2. InStepInv /\ [Next]_vars => InStepInv'
  BY InStepNext
<1>3. QED
  BY <1>1, <1>2, PTL DEF Spec

(* With no request in flight, what can be called is what tool_definitions  *)
(* has active, after any sequence of registrations, updates, toggles,      *)
(* deletes and restarts that are served one at a time by a database that   *)
(* answers; the two hypotheses are needed, as DbFailure and two racing     *)
(* requests both leave registry and table apart for good.                  *)
THEOREM CatalogInStep ==
    ASSUME OneRequest, ~DbMayFail
    PROVE  Spec => []InStepWhenQuiet
<1>1. InStepInv => InStepWhenQuiet
  BY DEF InStepInv, InStepWhenQuiet, Quiet, Before, Matches
<1>2. QED
  BY <1>1, InStepInvariant, PTL

(* After a startup that failed, at whatever point, the process that goes   *)
(* on serving never calls a version the table has switched off, though its *)
(* registry does not know the rows the requests work on.                   *)
THEOREM CatalogDegraded ==
    ASSUME OneRequest, ~DbMayFail
    PROVE  Spec => []DegradedServesActive
<1>1. InStepInv => DegradedServesActive
  BY DEF InStepInv, DegradedServesActive, Before, Matches
<1>2. QED
  BY <1>1, InStepInvariant, PTL

-----------------------------------------------------------------------------
(* Names for whatever is offered *)

\* The registry holds one version of a tool, and a name for each.
LiveOne == \A i, j \in live : KeyOf[i] = KeyOf[j] => i = j

IndexComplete == \A i \in live : index[KeyOf[i]] # None

NamedInv == InStepInv /\ (server = "up" => LiveOne /\ IndexComplete)

\* A tool of the user or of the system is found through the index, any
\* other public one by the scan.
LEMMA NamedResolves ==
    ASSUME RegistryInv, IndexComplete
    PROVE  OfferedResolves
<1> SUFFICES ASSUME NEW u \in Users, NEW i \in Visible(u, Ids)
             PROVE  None \notin Resolve(u, NameOf(i))
  BY DEF OfferedResolves
<1> DEFINE n == NameOf(i)
           own == index[<<u, n>>]
           builtin == index[<<System, n>>]
<1>1. /\ i \in live /\ i \in Ids /\ VisibleTo(i, u)
      /\ None \notin live /\ live \subseteq Ids
  BY RegistryAssumption DEF Visible, RegistryInv, RegistryTypeOK
<1>2. KeyOf[i] \in Keys /\ KeyOf[i] = <<OwnerOf(i), n>>
  BY <1>1, RegistryAssumption DEF Keys, OwnerOf, NameOf
<1>3. <<System, n>> \in Keys
  BY <1>2 DEF Keys, Owners
<1>4. CASE own \in live
  BY <1>1, <1>4 DEF Resolve
<1>5. CASE own \notin live /\ builtin # None
  <2>1. builtin \in live
    BY <1>3, <1>5 DEF RegistryInv, IndexSound
  <2>2. QED
    BY <1>5, <2>1 DEF Resolve
<1>6. CASE own \notin live /\ builtin = None
  <2>1. OwnerOf(i) # u
    BY <1>1, <1>2, <1>6 DEF IndexComplete, RegistryInv, IndexSound
  <2>2. i \in Public
    BY <1>1, <2>1, RegistryAssumption DEF VisibleTo, OwnerOf
  <2>3. i \in PublicNamed(n) /\ None \notin PublicNamed(n)
    BY <1>1, <2>2 DEF PublicNamed
  <2>4. QED
    BY <1>6, <2>3 DEF Resolve
<1>7. QED
  BY <1>4, <1>5, <1>6

\* Hydration indexes one row of every tool with an active row.
LEMMA HydrateNames ==
    ASSUME active \subseteq Ids, Hydrate
    PROVE  IndexComplete'
<1>1. PICK last \in SUBSET active :
        /\ \A i \in active : \E j \in last :
               {h \in last : KeyOf[h] = KeyOf[i]} = {j}
        /\ index' = [k \in Keys |-> IF \E i \in last : KeyOf[i] = k
                                      THEN CHOOSE i \in last : KeyOf[i] = k
                                      ELSE None]
  BY DEF Hydrate
<1>2. ASSUME NEW i \in active
      PROVE  index'[KeyOf[i]] # None
  <2>1. PICK j \in last : KeyOf[j] = KeyOf[i]
    BY <1>1
  <2>2. KeyOf[i] \in Keys
    BY RegistryAssumption
  <2>3. index'[KeyOf[i]] \in last
    BY <1>1, <2>1, <2>2
  <2>4. QED
    BY <2>3, RegistryAssumption
<1>3. QED
  BY <1>2 DEF IndexComplete, Hydrate

\* The last step of a request leaves every tool of the registry its name.
LEMMA ApplyNames ==
    ASSUME RegistryInv, LiveOne, IndexComplete, NEW w \in Requests,
           req[w].id \in Ids, req[w].prev \in Ids \cup {None},
           req[w].op = "post" => KeyOf[req[w].id] = KeyOf[req[w].prev]
                                 \/ req[w].prev = None,
           Apply(w)
    PROVE  IndexComplete'
<1>1. /\ None \notin Ids /\ \A i \in Ids : KeyOf[i] \in Keys
      /\ index \in [Keys -> Ids \cup {None}] /\ live \subseteq Ids
  BY RegistryAssumption DEF RegistryInv, RegistryTypeOK
<1>2. ASSUME NEW i \in Ids, index' = [index EXCEPT ![KeyOf[i]] = i],
             live' \subseteq live \cup {i}
      PROVE  IndexComplete'
  BY <1>1, <1>2 DEF IndexComplete
<1>3. ASSUME NEW i \in Ids, Unregister(i)
      PROVE  IndexComplete'
  <2>1. ASSUME NEW j \in live'
        PROVE  index'[KeyOf[j]] # None
    <3>1. j \in live /\ j # i /\ index[KeyOf[j]] # None
      BY <1>3 DEF Unregister, IndexComplete
    <3>2. CASE i \in live
      <4>1. KeyOf[j] # KeyOf[i]
        BY <3>1, <3>2 DEF LiveOne
      <4>2. QED
        BY <3>1, <4>1, <1>1, <1>3 DEF Unregister
    <3>3. CASE i \notin live
      BY <3>1, <3>3, <1>3 DEF Unregister
    <3>4. QED
      BY <3>2, <3>3
  <2>2. QED
    BY <2>1 DEF IndexComplete
<1>4. CASE ReplaceActive(req[w].id, req[w].prev)
  BY <1>2, <1>4 DEF ReplaceActive
<1>5. CASE Register(req[w].id)
  BY <1>2, <1>5 DEF Register
<1>6. CASE UNCHANGED registryVars
  BY <1>6 DEF registryVars, IndexComplete
<1>7. CASE req[w].prev \in Ids /\ Unregister(req[w].prev)
  BY <1>3, <1>7
<1>8. CASE Unregister(req[w].id)
  BY <1>3, <1>8
<1>9. QED
  BY <1>4, <1>5, <1>6, <1>7, <1>8 DEF Apply

LEMMA NamedNext ==
    ASSUME OneRequest, ~DbMayFail, NamedInv, OneActiveVersion,
           OneActiveVersion', [Next]_vars
    PROVE  NamedInv'
<1>1. InStepInv' /\ RegistryInv /\ active \subseteq Ids
  BY InStepNext
     DEF NamedInv, InStepInv, AloneInv, CatalogInv, CatalogTypeOK, RegistryInv
<1>2. CASE UNCHANGED <<live, index, server>>
  BY <1>1, <1>2 DEF NamedInv, LiveOne, IndexComplete
<1>3. CASE SeedRows \/ BootstrapFails \/ Crash
  BY <1>1, <1>3 DEF NamedInv, SeedRows, BootstrapFails, Crash
<1>4. CASE Hydrate
  <2>1. LiveOne'
    BY <1>4 DEF Hydrate, LiveOne, OneActiveVersion
  <2>2. QED
    BY <1>1, <1>4, <2>1, HydrateNames DEF NamedInv
<1>5. ASSUME NEW w \in Requests, Apply(w), server = "up"
      PROVE  NamedInv'
  <2>1. LiveOne'
    BY <1>5, ApplyFinishes DEF NamedInv, LiveOne, OneActiveVersion, Matches
  <2>2. req[w] \in Request /\ RequestOK(req[w]) /\ req[w].pc # "idle"
    BY <1>5 DEF NamedInv, InStepInv, AloneInv, CatalogInv, CatalogTypeOK, Apply
  <2>3. /\ req[w].id \in Ids /\ req[w].prev \in Ids \cup {None}
        /\ req[w].op = "post" => KeyOf[req[w].id] = KeyOf[req[w].prev]
                                 \/ req[w].prev = None
    BY <2>2 DEF Request, RequestOK
  <2>4. IndexComplete'
    BY <1>1, <1>5, <2>3, ApplyNames DEF NamedInv
  <2>5. QED
    BY <1>1, <2>1, <2>4 DEF NamedInv
<1>6. ASSUME NEW w \in Requests, Step(w)
      PROVE  NamedInv'
  <2>1. CASE Apply(w)
    <3>1. UNCHANGED server
      BY <2>1 DEF Apply
    <3>2. QED
      BY <1>1, <1>5, <2>1, <3>1 DEF NamedInv
  <2>2. CASE ~Apply(w)
    <3>1. UNCHANGED <<live, index, server>>
      BY <1>6, <2>2
         DEF Step, CreateTool, UpdateTool, Upsert, ToggleActive, DeleteTool,
             LoadRow, CommitUpsert, CommitUpsertFails, CommitFlag, Refresh,
             DbFailure, Abort
    <3>2. QED
      BY <3>1, <1>2
  <2>3. QED
    BY <2>1, <2>2
<1>7. QED
  BY <1>2, <1>3, <1>4, <1>6 DEF Next, vars

(* Under the same hypotheses, and while no tool gets a second active       *)
(* version, every tool the picker and bind_tools offer a user resolves by  *)
(* its name between requests.                                              *)
THEOREM CatalogResolvesOffered ==
    ASSUME OneRequest, ~DbMayFail
    PROVE  Spec => ResolvesUnlessDoublyActive
<1>1. Init => server # "up"
  BY DEF Init
<1>2. InStepInv /\ server # "up" => NamedInv
  BY DEF NamedInv
<1>3. NamedInv /\ OneActiveVersion /\ OneActiveVersion' /\ [Next]_vars => NamedInv'
  BY NamedNext
<1>4. NamedInv => OfferedResolvesWhenQuiet
  BY NamedResolves
     DEF NamedInv, InStepInv, AloneInv, CatalogInv, CatalogTypeOK, RegistryInv,
         OfferedResolvesWhenQuiet, Quiet
<1>5. Spec /\ []OneActiveVersion => []NamedInv
  BY <1>1, <1>2, <1>3, InStepInvariant, PTL DEF Spec
<1>6. Spec /\ []OneActiveVersion => []OfferedResolvesWhenQuiet
  BY <1>4, <1>5, PTL
<1>7. QED
  BY <1>6, PTL DEF ResolvesUnlessDoublyActive
=============================================================================
