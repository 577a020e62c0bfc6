---------------------------- MODULE RagStoreProofs ----------------------------
(***************************************************************************)
(* Theorems about RagStore for any collections, domains, points and number *)
(* of requests under way, with and without failures.                       *)
(*                                                                         *)
(* A request that creates or deletes a collection has it to itself unless  *)
(* something raced; what it has found or done so far then stays true       *)
(* (HoldsCollection).  A deletion of a domain lists the collections after  *)
(* it loaded the row, and nothing is stored under the domain from then on  *)
(* unless it is late: what is listed covers its points, and after the loop *)
(* there are none (Purging).                                               *)
(***************************************************************************)
EXTENDS RagStore, TLAPS

ReqOK(r) ==
    /\ r.pc = "idle" => r.op = "none"
    /\ r.op = "none" => r.col = None /\ r.dom = None
    /\ r.op = "domain" => r.dom \in Domains /\ r.col = None
    /\ r.op \in {"create", "delete"} => r.col \in Collections /\ r.dom = None
    /\ r.pc \in {"committed", "refreshed"} => r.op = "create"
    /\ r.pc = "listed" => r.op = "domain"
    /\ r.pc \in {"loaded", "purged"} => r.op \in {"delete", "domain"}

Typed == RagTypeOK /\ \A w \in Requests : ReqOK(req[w])

\* Points are in collections that exist.
Housed == \A p \in Points : point[p] # None => HomeOf[p] \in store

ListedUsable == "failed" \notin mishap => \A c \in cols \ store : Busy(c)

HoldsCollection ==
    /\ store \subseteq cols
    /\ \A v, w \in Requests : req[v].col = req[w].col /\ req[v].col # None => v = w
    /\ \A w \in Requests :
         /\ req[w].op = "create" => req[w].col \in cols
         /\ req[w].op = "delete" /\ req[w].pc = "loaded" => req[w].col \in cols
         /\ req[w].op = "delete" /\ req[w].pc = "purged" => req[w].col \notin store

Purging ==
    /\ \A p \in Points : point[p] # None => point[p] \in doms
    /\ \A w \in Requests, p \in Points :
         req[w].op = "domain" /\ point[p] = req[w].dom =>
            /\ req[w].pc = "listed" => HomeOf[p] \in req[w].listed
            /\ req[w].pc # "purged"

RagInv ==
    /\ Typed
    /\ Housed
    /\ ListedUsable
    /\ mishap \cap {"kept", "raced"} = {} => HoldsCollection
    /\ mishap \cap {"kept", "raced", "late"} = {} => Purging

-----------------------------------------------------------------------------
(* Helpers *)

LEMMA IdleOK ==
    /\ Idle \in Request /\ ReqOK(Idle) /\ Idle.pc = "idle" /\ Idle.op = "none"
    /\ Idle.col = None /\ Idle.dom = None
BY DEF Idle, Request, ReqOK

\* Request w becomes r.
LEMMA ReqStep ==
    ASSUME Typed, NEW w \in Requests, NEW r \in Request, ReqOK(r),
           req' = [req EXCEPT ![w] = r]
    PROVE  /\ req' \in [Requests -> Request] /\ \A x \in Requests : ReqOK(req'[x])
           /\ \A x \in Requests : req'[x] = IF x = w THEN r ELSE req[x]
<1>1. \A x \in Requests : req'[x] = IF x = w THEN r ELSE req[x]
  BY DEF Typed, RagTypeOK
<1>2. \A x \in Requests : ReqOK(req'[x])
  BY <1>1 DEF Typed
<1>3. QED
  BY <1>1, <1>2 DEF Typed, RagTypeOK

LEMMA NoteOK ==
    ASSUME Typed, NEW kind \in Mishaps, NEW if \in BOOLEAN, Note(kind, if)
    PROVE  /\ mishap' \subseteq Mishaps /\ mishap \subseteq mishap'
           /\ if => kind \in mishap'
           /\ \A k : k # kind => (k \in mishap' <=> k \in mishap)
           /\ ~if => mishap' = mishap
BY DEF Typed, RagTypeOK, Note

\* Points only disappear.
LEMMA WithoutOK ==
    ASSUME Typed, NEW S \in SUBSET Points, point' = Without(S)
    PROVE  /\ point' \in [Points -> Domains \cup {None}]
           /\ \A p \in Points : point'[p] = IF p \in S THEN None ELSE point[p]
BY DEF Typed, RagTypeOK, Without

-----------------------------------------------------------------------------
(* create_collection and delete_collection *)

LEMMA BeginStep ==
    ASSUME RagInv, NEW w \in Requests, NEW c \in Collections, NEW vector \in BOOLEAN,
           CreateCollection(w, c) \/ DeleteCollection(w, c, vector)
    PROVE  RagInv'
<1> DEFINE r == req'[w]
<1>0. Typed /\ req[w].pc = "idle" /\ req[w].col = None
  BY DEF RagInv, CreateCollection, DeleteCollection, Typed, ReqOK
<1>1. /\ r \in Request /\ ReqOK(r) /\ req' = [req EXCEPT ![w] = r] /\ r.col = c
      /\ r.op = "create" => c \in cols'
      /\ r.op = "delete" => c \in cols' /\ r.pc = "loaded"
      /\ r.op # "domain" /\ r.op # "none" /\ r.dom = None
  <2>1. CASE CreateCollection(w, c)
    <3> DEFINE s == [Idle EXCEPT !.pc = "committed", !.op = "create", !.col = c]
    <3>1. /\ s \in Request /\ s.pc = "committed" /\ s.op = "create" /\ s.col = c
          /\ s.dom = None
      BY IdleOK DEF Request
    <3>2. req' = [req EXCEPT ![w] = s] /\ c \in cols'
      BY <2>1 DEF CreateCollection
    <3> HIDE DEF s
    <3>3. r = s
      BY <3>2, <1>0 DEF Typed, RagTypeOK
    <3>4. QED
      BY <3>1, <3>2, <3>3 DEF ReqOK
  <2>2. CASE DeleteCollection(w, c, vector)
    <3> DEFINE s == [Idle EXCEPT !.pc = "loaded", !.op = "delete", !.col = c,
                                 !.vector = vector]
    <3>1. /\ s \in Request /\ s.pc = "loaded" /\ s.op = "delete" /\ s.col = c
          /\ s.dom = None
      BY IdleOK DEF Request
    <3>2. req' = [req EXCEPT ![w] = s] /\ c \in cols'
      BY <2>2 DEF DeleteCollection
    <3> HIDE DEF s
    <3>3. r = s
      BY <3>2, <1>0 DEF Typed, RagTypeOK
    <3>4. QED
      BY <3>1, <3>2, <3>3 DEF ReqOK
  <2>3. QED
    BY <2>1, <2>2
<1>2. /\ UNCHANGED <<doms, retired, store, point>> /\ Note("raced", Contended(w, c))
      /\ cols \subseteq cols' /\ cols' \subseteq cols \cup {c}
      /\ cols' \subseteq Collections
  BY <1>0 DEF CreateCollection, DeleteCollection, Typed, RagTypeOK
<1> HIDE DEF r
<1>3. /\ req' \in [Requests -> Request] /\ \A x \in Requests : ReqOK(req'[x])
      /\ \A x \in Requests : req'[x] = IF x = w THEN r ELSE req[x]
  BY <1>0, <1>1, ReqStep
<1>4. /\ mishap' \subseteq Mishaps /\ mishap \subseteq mishap'
      /\ "raced" \notin mishap' => ~Contended(w, c)
  BY <1>0, <1>2, NoteOK DEF Mishaps, Contended
<1>5. Typed'
  BY <1>0, <1>2, <1>3, <1>4 DEF Typed, RagTypeOK
<1>6. Housed'
  BY <1>2 DEF RagInv, Housed
<1>7. ListedUsable'
  <2>1. \A d : Busy(d) /\ d # None => Busy(d)'
    BY <1>0, <1>3 DEF Busy
  <2>2. Busy(c)'
    BY <1>1, <1>3 DEF Busy
  <2>3. None \notin cols
    BY <1>0, RagAssumption DEF Typed, RagTypeOK
  <2>4. QED
    BY <1>2, <1>4, <2>1, <2>2, <2>3 DEF RagInv, ListedUsable
<1>8. mishap' \cap {"kept", "raced"} = {} => HoldsCollection'
  BY <1>1, <1>2, <1>3, <1>4 DEF RagInv, HoldsCollection, Contended
<1>9. mishap' \cap {"kept", "raced", "late"} = {} => Purging'
  BY <1>1, <1>2, <1>3, <1>4 DEF RagInv, Purging
<1>10. QED
  BY <1>5, <1>6, <1>7, <1>8, <1>9 DEF RagInv

(* A request that ends, with what it was about settled or a failure noted; *)
(* points may disappear.                                                   *)
LEMMA EndStep ==
    ASSUME RagInv, NEW w \in Requests, req' = [req EXCEPT ![w] = Idle],
           cols' \subseteq cols, store \subseteq store', UNCHANGED <<doms, retired>>,
           point' \in [Points -> Domains \cup {None}],
           \A p \in Points : point'[p] \in {None, point[p]},
           store' \subseteq store \cup ({req[w].col} \cap Collections),
           \A c \in cols : c # req[w].col => c \in cols',
           mishap' \subseteq Mishaps, mishap \subseteq mishap',
           "failed" \notin mishap' => req[w].col \notin cols' \ store',
           mishap' \cap {"kept", "raced"} = {} => store' \subseteq cols'
    PROVE  RagInv'
<1>0. Typed
  BY DEF RagInv
<1>1. /\ req' \in [Requests -> Request] /\ \A x \in Requests : ReqOK(req'[x])
      /\ \A x \in Requests : req'[x] = IF x = w THEN Idle ELSE req[x]
  BY <1>0, IdleOK, ReqStep
<1>2. Typed'
  BY <1>0, <1>1 DEF Typed, RagTypeOK
<1>3. Housed'
  BY DEF RagInv, Housed
<1>4. ListedUsable'
  <2> SUFFICES ASSUME "failed" \notin mishap', NEW c \in cols' \ store'
               PROVE  Busy(c)'
    BY DEF ListedUsable
  <2>1. c # req[w].col /\ c \in cols \ store
    OBVIOUS
  <2>2. PICK x \in Requests : req[x].col = c
    BY <2>1 DEF RagInv, ListedUsable, Busy
  <2>3. QED
    BY <1>1, <2>1, <2>2 DEF Busy
<1>5. ASSUME mishap' \cap {"kept", "raced"} = {}
      PROVE  HoldsCollection'
  <2>1. HoldsCollection /\ store' \subseteq cols'
    BY <1>5 DEF RagInv
  <2>2. \A v, x \in Requests : req'[v].col = req'[x].col /\ req'[v].col # None => v = x
    BY <1>1, <2>1, IdleOK DEF HoldsCollection
  <2>3. ASSUME NEW x \in Requests, req'[x].op \in {"create", "delete"}
        PROVE  /\ x # w /\ req'[x] = req[x] /\ req[x].col # req[w].col
               /\ req[x].col # None
    <3>1. x # w /\ req'[x] = req[x]
      BY <1>1, <2>3, IdleOK
    <3>2. req[x].col # None
      BY <1>0, <2>3, <3>1, RagAssumption DEF Typed, ReqOK
    <3>3. QED
      BY <2>1, <3>1, <3>2 DEF HoldsCollection
  <2>4. \A x \in Requests :
          /\ req'[x].op = "create" => req'[x].col \in cols'
          /\ req'[x].op = "delete" /\ req'[x].pc = "loaded" => req'[x].col \in cols'
          /\ req'[x].op = "delete" /\ req'[x].pc = "purged" => req'[x].col \notin store'
    BY <2>1, <2>3 DEF HoldsCollection
  <2>5. QED
    BY <2>1, <2>2, <2>4 DEF HoldsCollection
<1>6. mishap' \cap {"kept", "raced", "late"} = {} => Purging'
  <2>1. Purging => Purging'
    BY <1>0, <1>1, IdleOK, RagAssumption DEF Purging, Typed, ReqOK
  <2>2. QED
    BY <2>1 DEF RagInv
<1>7. QED
  BY <1>2, <1>3, <1>4, <1>5, <1>6 DEF RagInv

LEMMA RefreshStep ==
    ASSUME RagInv, NEW w \in Requests, RefreshCollection(w)
    PROVE  RagInv'
<1>0. /\ Typed /\ req[w] \in Request /\ req[w].pc = "committed"
      /\ req[w].op = "create" /\ req[w].col \in Collections
      /\ UNCHANGED <<cols, doms, retired, store, point, mishap>>
  BY DEF RagInv, RefreshCollection, Typed, RagTypeOK, ReqOK
<1>1. CASE req[w].col \in cols
  <2> DEFINE r == [req[w] EXCEPT !.pc = "refreshed"]
  <2>1. /\ r \in Request /\ r.pc = "refreshed" /\ r.op = "create"
        /\ r.col = req[w].col /\ r.dom = req[w].dom
    BY <1>0 DEF Request
  <2>2. ReqOK(r)
    BY <1>0, <2>1 DEF Typed, ReqOK
  <2>3. req' = [req EXCEPT ![w] = r]
    BY <1>1 DEF RefreshCollection
  <2> HIDE DEF r
  <2>4. /\ req' \in [Requests -> Request] /\ \A x \in Requests : ReqOK(req'[x])
        /\ \A x \in Requests : req'[x] = IF x = w THEN r ELSE req[x]
    BY <1>0, <2>1, <2>2, <2>3, ReqStep
  <2>5. Typed' /\ Housed'
    BY <1>0, <2>4 DEF Typed, RagTypeOK, RagInv, Housed
  <2>6. ListedUsable'
    BY <1>0, <2>1, <2>4 DEF RagInv, ListedUsable, Busy
  <2>7. HoldsCollection => HoldsCollection'
    BY <1>0, <2>1, <2>4 DEF HoldsCollection
  <2>8. Purging => Purging'
    BY <1>0, <2>1, <2>4 DEF Purging
  <2>9. QED
    BY <1>0, <2>5, <2>6, <2>7, <2>8 DEF RagInv
<1>2. CASE req[w].col \notin cols
  <2>1. req' = [req EXCEPT ![w] = Idle]
    BY <1>2 DEF RefreshCollection
  <2>2. /\ mishap' \subseteq Mishaps /\ point \in [Points -> Domains \cup {None}]
        /\ mishap' \cap {"kept", "raced"} = {} => store' \subseteq cols'
    BY <1>0 DEF Typed, RagTypeOK, RagInv, HoldsCollection
  <2>3. QED
    BY <1>0, <1>2, <2>1, <2>2, EndStep
<1>3. QED
  BY <1>1, <1>2

LEMMA CreateInQdrantStep ==
    ASSUME RagInv, NEW w \in Requests, CreateInQdrant(w)
    PROVE  RagInv'
<1>1. /\ Typed /\ req[w].op = "create" /\ req[w].col \in Collections
      /\ req' = [req EXCEPT ![w] = Idle] /\ store' = store \cup {req[w].col}
      /\ UNCHANGED <<cols, doms, retired, point, mishap>> /\ mishap \subseteq Mishaps
      /\ point \in [Points -> Domains \cup {None}]
  BY DEF RagInv, CreateInQdrant, Typed, RagTypeOK, ReqOK
<1>2. mishap' \cap {"kept", "raced"} = {} => store' \subseteq cols'
  BY <1>1 DEF RagInv, HoldsCollection
<1>3. QED
  BY <1>1, <1>2, EndStep

LEMMA CommitCollectionStep ==
    ASSUME RagInv, NEW w \in Requests, CommitCollection(w)
    PROVE  RagInv'
<1>1. /\ Typed /\ req[w].op = "delete" /\ req[w].pc = "purged"
      /\ req[w].col \in Collections
      /\ req' = [req EXCEPT ![w] = Idle] /\ cols' = cols \ {req[w].col}
      /\ UNCHANGED <<store, doms, retired, point, mishap>> /\ mishap \subseteq Mishaps
      /\ point \in [Points -> Domains \cup {None}]
  BY DEF RagInv, CommitCollection, Typed, RagTypeOK, ReqOK
<1>2. mishap' \cap {"kept", "raced"} = {} => store' \subseteq cols'
  BY <1>1 DEF RagInv, HoldsCollection
<1>3. QED
  BY <1>1, <1>2, EndStep

LEMMA DropStep ==
    ASSUME RagInv, NEW w \in Requests, DropFromQdrant(w)
    PROVE  RagInv'
<1> DEFINE c == req[w].col
           r == [req[w] EXCEPT !.pc = "purged"]
<1>0. /\ Typed /\ req[w] \in Request /\ req[w].pc = "loaded"
      /\ req[w].op = "delete" /\ c \in Collections
      /\ UNCHANGED <<cols, doms, retired>> /\ req' = [req EXCEPT ![w] = r]
  BY DEF RagInv, DropFromQdrant, Typed, RagTypeOK, ReqOK
<1>1. /\ r \in Request /\ r.pc = "purged" /\ r.op = "delete"
      /\ r.col = c /\ r.dom = req[w].dom
  BY <1>0 DEF Request
<1>2. ReqOK(r)
  BY <1>0, <1>1 DEF Typed, ReqOK
<1> HIDE DEF r
<1>3. /\ req' \in [Requests -> Request] /\ \A x \in Requests : ReqOK(req'[x])
      /\ \A x \in Requests : req'[x] = IF x = w THEN r ELSE req[x]
  BY <1>0, <1>1, <1>2, ReqStep
<1>4. /\ mishap' \subseteq Mishaps /\ mishap \subseteq mishap'
      /\ store' \subseteq store /\ store \subseteq store' \cup {c}
      /\ "kept" \notin mishap' => c \notin store'
      /\ point' \in [Points -> Domains \cup {None}]
      /\ \A p \in Points : /\ point'[p] # None => point'[p] = point[p]
                           /\ point'[p] # None /\ HomeOf[p] \in store =>
                                HomeOf[p] \in store'
  <2>1. CASE req[w].vector
    <3>1. /\ store' = store \ {c} /\ UNCHANGED mishap
          /\ point' = Without({p \in Points : HomeOf[p] = c})
      BY <2>1 DEF DropFromQdrant
    <3>2. \A p \in Points : point'[p] = IF HomeOf[p] = c THEN None ELSE point[p]
      BY <1>0, <3>1, WithoutOK
    <3>3. point' \in [Points -> Domains \cup {None}] /\ mishap \subseteq Mishaps
      BY <1>0, <3>1, WithoutOK DEF Typed, RagTypeOK
    <3>4. QED
      BY <3>1, <3>2, <3>3
  <2>2. CASE ~req[w].vector
    <3>1. UNCHANGED <<store, point>> /\ Note("kept", c \in store)
      BY <2>2 DEF DropFromQdrant
    <3>2. /\ mishap' \subseteq Mishaps /\ mishap \subseteq mishap'
          /\ c \in store => "kept" \in mishap'
      BY <1>0, <3>1 DEF Typed, RagTypeOK, Note, Mishaps
    <3>3. QED
      BY <1>0, <3>1, <3>2 DEF Typed, RagTypeOK
  <2>3. QED
    BY <2>1, <2>2
<1>5. Typed'
  BY <1>0, <1>3, <1>4 DEF Typed, RagTypeOK
<1>6. Housed'
  BY <1>4 DEF RagInv, Housed
<1>7. ListedUsable'
  <2>1. \A d : Busy(d)' <=> Busy(d)
    BY <1>1, <1>3 DEF Busy
  <2>2. Busy(c)
    BY DEF Busy
  <2>3. QED
    BY <1>0, <1>4, <2>1, <2>2 DEF RagInv, ListedUsable
<1>8. ASSUME mishap' \cap {"kept", "raced"} = {}
      PROVE  HoldsCollection'
  <2>1. HoldsCollection /\ c \notin store'
    BY <1>4, <1>8 DEF RagInv
  <2>2. QED
    BY <1>0, <1>1, <1>3, <1>4, <2>1 DEF HoldsCollection
<1>9. mishap' \cap {"kept", "raced", "late"} = {} => Purging'
  <2>1. Purging => Purging'
    BY <1>0, <1>1, <1>3, <1>4, RagAssumption DEF Purging, Typed, ReqOK
  <2>2. QED
    BY <1>4, <2>1 DEF RagInv
<1>10. QED
  BY <1>5, <1>6, <1>7, <1>8, <1>9 DEF RagInv

-----------------------------------------------------------------------------
(* create_domain and delete_domain *)

(* Request w goes on with a domain; of points, those that it purges go.    *)
LEMMA DomainStep ==
    ASSUME RagInv, NEW w \in Requests, NEW r \in Request, ReqOK(r),
           req[w].col = None, r.op = "domain",
           req' = [req EXCEPT ![w] = r],
           UNCHANGED <<cols, doms, retired, store, mishap>>,
           point' \in [Points -> Domains \cup {None}],
           \A p \in Points : point'[p] \in {None, point[p]},
           mishap \cap {"kept", "raced", "late"} = {} =>
               \A p \in Points : point'[p] = r.dom =>
                  /\ r.pc = "listed" => HomeOf[p] \in r.listed
                  /\ r.pc # "purged"
    PROVE  RagInv'
<1>0. Typed /\ r.col = None
  BY DEF RagInv, ReqOK
<1>1. /\ req' \in [Requests -> Request] /\ \A x \in Requests : ReqOK(req'[x])
      /\ \A x \in Requests : req'[x] = IF x = w THEN r ELSE req[x]
  BY <1>0, ReqStep
<1>2. Typed'
  BY <1>0, <1>1 DEF Typed, RagTypeOK
<1>3. Housed'
  BY DEF RagInv, Housed
<1>4. ListedUsable'
  <2>1. \A c : Busy(c)' <=> Busy(c)
    BY <1>0, <1>1 DEF Busy
  <2>2. QED
    BY <2>1 DEF RagInv, ListedUsable
<1>5. HoldsCollection => HoldsCollection'
  BY <1>0, <1>1 DEF HoldsCollection
<1>6. mishap \cap {"kept", "raced", "late"} = {} => Purging'
  <2> SUFFICES ASSUME mishap \cap {"kept", "raced", "late"} = {} PROVE Purging'
    OBVIOUS
  <2>0. Purging
    BY DEF RagInv
  <2>1. \A p \in Points : point'[p] # None => point'[p] = point[p] /\ point[p] \in doms
    BY <2>0 DEF Purging
  <2>2. ASSUME NEW x \in Requests, NEW p \in Points, req'[x].op = "domain",
               point'[p] = req'[x].dom
        PROVE  /\ req'[x].pc = "listed" => HomeOf[p] \in req'[x].listed
               /\ req'[x].pc # "purged"
    <3>1. CASE x = w
      BY <1>1, <2>2, <3>1
    <3>2. CASE x # w
      <4>1. req'[x] = req[x] /\ req[x].dom # None
        BY <1>0, <1>1, <2>2, <3>2, RagAssumption DEF Typed, ReqOK
      <4>2. QED
        BY <4>1, <2>0, <2>1, <2>2 DEF Purging
    <3>3. QED
      BY <3>1, <3>2
  <2>3. QED
    BY <2>1, <2>2 DEF Purging
<1>7. QED
  BY <1>2, <1>3, <1>4, <1>5, <1>6 DEF RagInv

LEMMA DeleteDomainStep ==
    ASSUME RagInv, NEW w \in Requests, NEW d \in Domains, DeleteDomain(w, d)
    PROVE  RagInv'
<1> DEFINE r == [Idle EXCEPT !.pc = "loaded", !.op = "domain", !.dom = d]
<1>1. /\ r \in Request /\ r.pc = "loaded" /\ r.op = "domain" /\ r.dom = d
      /\ r.col = None
  BY IdleOK DEF Request
<1>2. ReqOK(r)
  BY <1>1 DEF ReqOK
<1>3. /\ req' = [req EXCEPT ![w] = r] /\ req[w].pc = "idle"
      /\ UNCHANGED <<cols, doms, retired, store, point, mishap>>
  BY DEF DeleteDomain
<1> HIDE DEF r
<1>4. req[w].col = None /\ point \in [Points -> Domains \cup {None}]
  BY <1>3 DEF RagInv, Typed, RagTypeOK, ReqOK
<1>5. QED
  BY <1>1, <1>2, <1>3, <1>4, DomainStep

LEMMA ListStep ==
    ASSUME RagInv, NEW w \in Requests, ListCollections(w)
    PROVE  RagInv'
<1> DEFINE r == [req[w] EXCEPT !.pc = "listed", !.listed = cols]
<1>0. /\ Typed /\ req[w] \in Request /\ req[w].op = "domain" /\ req[w].col = None
      /\ cols \subseteq Collections /\ req[w].dom \in Domains
      /\ point \in [Points -> Domains \cup {None}]
  BY DEF RagInv, ListCollections, Typed, RagTypeOK, ReqOK
<1>1. /\ r \in Request /\ r.pc = "listed" /\ r.op = "domain" /\ r.dom = req[w].dom
      /\ r.col = None /\ r.listed = cols
  BY <1>0 DEF Request
<1>2. ReqOK(r)
  BY <1>0, <1>1 DEF ReqOK
<1>3. /\ req' = [req EXCEPT ![w] = r]
      /\ UNCHANGED <<cols, doms, retired, store, point, mishap>>
  BY DEF ListCollections
<1> HIDE DEF r
<1>4. mishap \cap {"kept", "raced", "late"} = {} =>
          \A p \in Points : point[p] = r.dom => HomeOf[p] \in r.listed
  BY <1>0, <1>1, RagAssumption DEF RagInv, HoldsCollection, Housed
<1>5. QED
  BY <1>0, <1>1, <1>2, <1>3, <1>4, DomainStep

LEMMA PurgeStep ==
    ASSUME RagInv, NEW w \in Requests, PurgeDomain(w)
    PROVE  RagInv'
<1> DEFINE r == [req[w] EXCEPT !.pc = "purged", !.listed = {}]
           S == PointsOf(req[w].dom, req[w].listed \cap store)
<1>0. /\ Typed /\ req[w] \in Request /\ req[w].op = "domain" /\ req[w].col = None
      /\ req[w].pc = "listed" /\ req[w].dom \in Domains
  BY DEF RagInv, PurgeDomain, Typed, RagTypeOK, ReqOK
<1>1. /\ r \in Request /\ r.pc = "purged" /\ r.op = "domain" /\ r.dom = req[w].dom
      /\ r.col = None
  BY <1>0 DEF Request
<1>2. ReqOK(r)
  BY <1>0, <1>1 DEF ReqOK
<1>3. /\ req' = [req EXCEPT ![w] = r] /\ point' = Without(S)
      /\ UNCHANGED <<cols, doms, retired, store, mishap>>
  BY DEF PurgeDomain
<1> HIDE DEF r
<1>4. S \in SUBSET Points
  BY DEF PointsOf
<1>5. /\ point' \in [Points -> Domains \cup {None}]
      /\ \A p \in Points : point'[p] = IF p \in S THEN None ELSE point[p]
  BY <1>0, <1>3, <1>4, WithoutOK
<1>6. ASSUME mishap \cap {"kept", "raced", "late"} = {}, NEW p \in Points
      PROVE  point'[p] # r.dom
  <2> SUFFICES ASSUME point[p] = req[w].dom PROVE p \in S
    BY <1>0, <1>1, <1>5, RagAssumption
  <2>1. HomeOf[p] \in req[w].listed
    BY <1>0, <1>6 DEF RagInv, Purging
  <2>2. HomeOf[p] \in store
    BY <1>0, RagAssumption DEF RagInv, Housed
  <2>3. QED
    BY <2>1, <2>2 DEF PointsOf
<1>7. QED
  BY <1>0, <1>1, <1>2, <1>3, <1>5, <1>6, DomainStep

LEMMA CommitDomainStep ==
    ASSUME RagInv, NEW w \in Requests, CommitDomain(w)
    PROVE  RagInv'
<1> DEFINE d == req[w].dom
<1>0. /\ Typed /\ req[w].op = "domain" /\ req[w].col = None
      /\ req[w].pc = "purged" /\ d \in Domains
      /\ req' = [req EXCEPT ![w] = Idle]
      /\ doms' = doms \ {d} /\ retired' = retired \cup {d}
      /\ UNCHANGED <<cols, store, point, mishap>>
  BY DEF RagInv, CommitDomain, Typed, RagTypeOK, ReqOK
<1>1. /\ req' \in [Requests -> Request] /\ \A x \in Requests : ReqOK(req'[x])
      /\ \A x \in Requests : req'[x] = IF x = w THEN Idle ELSE req[x]
  BY <1>0, IdleOK, ReqStep
<1>2. Typed' /\ Housed'
  BY <1>0, <1>1 DEF Typed, RagTypeOK, RagInv, Housed
<1>3. ListedUsable'
  <2>1. \A c : Busy(c) /\ c # None => Busy(c)'
    BY <1>0, <1>1 DEF Busy
  <2>2. None \notin cols
    BY <1>0, RagAssumption DEF Typed, RagTypeOK
  <2>3. QED
    BY <1>0, <2>1, <2>2 DEF RagInv, ListedUsable
<1>4. HoldsCollection => HoldsCollection'
  BY <1>0, <1>1, IdleOK DEF HoldsCollection
<1>5. Purging => Purging'
  BY <1>0, <1>1, IdleOK DEF Purging
<1>6. QED
  BY <1>0, <1>2, <1>3, <1>4, <1>5 DEF RagInv

LEMMA CreateDomainStep ==
    ASSUME RagInv, NEW d \in Domains, CreateDomain(d)
    PROVE  RagInv'
<1>1. /\ doms' = doms \cup {d}
      /\ UNCHANGED <<cols, retired, store, point, req, mishap>>
  BY DEF CreateDomain
<1>2. Typed' /\ Housed'
  BY <1>1 DEF RagInv, Typed, RagTypeOK, Housed
<1>3. ListedUsable' /\ (HoldsCollection => HoldsCollection')
  BY <1>1 DEF RagInv, ListedUsable, Busy, HoldsCollection
<1>4. Purging => Purging'
  BY <1>1 DEF Purging
<1>5. QED
  BY <1>1, <1>2, <1>3, <1>4 DEF RagInv

-----------------------------------------------------------------------------
(* Knowledge *)

LEMMA StoreStep ==
    ASSUME RagInv, NEW p \in Points, NEW d \in Domains, StorePoint(p, d)
    PROVE  RagInv'
<1>0. /\ Typed /\ point' = [point EXCEPT ![p] = d] /\ HomeOf[p] \in store
      /\ UNCHANGED <<cols, doms, retired, store, req>>
      /\ Note("late", d \notin doms \/ BeingDeleted(d))
  BY DEF RagInv, StorePoint
<1>1. /\ mishap' \subseteq Mishaps /\ mishap \subseteq mishap'
      /\ "late" \notin mishap' => d \in doms /\ ~BeingDeleted(d)
  BY <1>0 DEF Typed, RagTypeOK, Note, Mishaps
<1>2. /\ point' \in [Points -> Domains \cup {None}]
      /\ \A q \in Points : point'[q] = IF q = p THEN d ELSE point[q]
  BY <1>0 DEF Typed, RagTypeOK
<1>3. Typed' /\ Housed'
  BY <1>0, <1>1, <1>2 DEF Typed, RagTypeOK, RagInv, Housed
<1>4. ListedUsable' /\ (HoldsCollection => HoldsCollection')
  BY <1>0, <1>1 DEF RagInv, ListedUsable, Busy, HoldsCollection
<1>5. "late" \notin mishap' /\ Purging => Purging'
  BY <1>0, <1>1, <1>2 DEF Purging, BeingDeleted
<1>6. QED
  BY <1>1, <1>3, <1>4, <1>5 DEF RagInv

LEMMA DeletePointsStep ==
    ASSUME RagInv, NEW c \in Collections, NEW S \in SUBSET Points, DeletePoints(c, S)
    PROVE  RagInv'
<1>0. /\ Typed /\ point' = Without(S)
      /\ UNCHANGED <<cols, doms, retired, store, req, mishap>>
  BY DEF RagInv, DeletePoints
<1>1. /\ point' \in [Points -> Domains \cup {None}]
      /\ \A p \in Points : point'[p] = IF p \in S THEN None ELSE point[p]
  BY <1>0, WithoutOK
<1>2. Typed' /\ Housed'
  BY <1>0, <1>1 DEF Typed, RagTypeOK, RagInv, Housed
<1>3. ListedUsable' /\ (HoldsCollection => HoldsCollection')
  BY <1>0 DEF RagInv, ListedUsable, Busy, HoldsCollection
<1>4. Purging => Purging'
  BY <1>0, <1>1, RagAssumption DEF Purging, Typed, ReqOK
<1>5. QED
  BY <1>0, <1>2, <1>3, <1>4 DEF RagInv

-----------------------------------------------------------------------------
(* Failures *)

LEMMA FailStep ==
    ASSUME RagInv, NEW w \in Requests, QdrantFails(w) \/ DbFails(w)
    PROVE  RagInv'
<1>0. /\ Typed /\ req' = [req EXCEPT ![w] = Idle] /\ UNCHANGED <<cols, doms, retired>>
      /\ mishap' = mishap \cup {"failed"}
  BY DEF RagInv, QdrantFails, DbFails, Note
<1>1. /\ point' \in [Points -> Domains \cup {None}]
      /\ \A p \in Points : point'[p] \in {None, point[p]}
      /\ store' = store \/ (/\ req[w].pc = "refreshed"
                            /\ store' = store \cup {req[w].col})
  <2>1. CASE UNCHANGED point
    BY <1>0, <2>1 DEF QdrantFails, DbFails, Typed, RagTypeOK
  <2>2. ASSUME NEW C \in SUBSET req[w].listed,
               point' = Without(PointsOf(req[w].dom, C \cap store))
        PROVE  /\ point' \in [Points -> Domains \cup {None}]
               /\ \A p \in Points : point'[p] \in {None, point[p]}
    <3>1. PointsOf(req[w].dom, C \cap store) \in SUBSET Points
      BY DEF PointsOf
    <3>2. QED
      BY <1>0, <2>2, <3>1, WithoutOK
  <2>3. QED
    BY <2>1, <2>2 DEF QdrantFails, DbFails
<1>2. req[w].pc = "refreshed" => req[w].op = "create" /\ req[w].col \in Collections
  BY <1>0 DEF Typed, ReqOK
<1>3. /\ mishap' \subseteq Mishaps
      /\ mishap' \cap {"kept", "raced"} = {} => store' \subseteq cols'
  BY <1>0, <1>1, <1>2 DEF Typed, RagTypeOK, Mishaps, RagInv, HoldsCollection
<1>4. QED
  BY <1>0, <1>1, <1>2, <1>3, EndStep

LEMMA CrashStep ==
    ASSUME RagInv, Crash
    PROVE  RagInv'
<1>1. /\ req' = [w \in Requests |-> Idle] /\ mishap' = mishap \cup {"failed"}
      /\ UNCHANGED <<cols, doms, retired, store, point>>
  BY DEF Crash, Note
<1>2. \A w \in Requests : req'[w] = Idle
  BY <1>1
<1>3. Typed' /\ Housed'
  BY <1>1, <1>2, IdleOK DEF RagInv, Typed, RagTypeOK, Mishaps, Housed
<1>4. ListedUsable'
  BY <1>1 DEF ListedUsable
<1>5. (HoldsCollection => HoldsCollection') /\ (Purging => Purging')
  BY <1>1, <1>2, IdleOK DEF HoldsCollection, Purging
<1>6. QED
  BY <1>1, <1>3, <1>4, <1>5 DEF RagInv

-----------------------------------------------------------------------------

LEMMA RagInit == Init => RagInv
<1> SUFFICES ASSUME Init PROVE RagInv
  OBVIOUS
<1>1. /\ cols = {} /\ doms = {} /\ retired = {} /\ store = {} /\ mishap = {}
      /\ point = [p \in Points |-> None] /\ req = [w \in Requests |-> Idle]
  BY DEF Init
<1>2. Typed /\ Housed /\ ListedUsable
  BY <1>1, IdleOK DEF Typed, RagTypeOK, Housed, ListedUsable
<1>3. HoldsCollection /\ Purging
  BY <1>1, IdleOK DEF HoldsCollection, Purging
<1>4. QED
  BY <1>2, <1>3 DEF RagInv

LEMMA RagNext == RagInv /\ [Next]_vars => RagInv'
<1> SUFFICES ASSUME RagInv, [Next]_vars PROVE RagInv'
  OBVIOUS
<1>1. ASSUME NEW w \in Requests, Step(w)
      PROVE  RagInv'
  <2>1. {TRUE, ~KeepVectors} \subseteq BOOLEAN
    OBVIOUS
  <2>2. QED
    BY <1>1, <2>1, BeginStep, RefreshStep, CreateInQdrantStep, DropStep,
       CommitCollectionStep, DeleteDomainStep, ListStep, PurgeStep, CommitDomainStep,
       FailStep DEF Step
<1>2. CASE UNCHANGED vars
  BY <1>2 DEF vars, RagInv, Typed, RagTypeOK, Housed, ListedUsable, Busy,
              HoldsCollection, Purging
<1>3. QED
  BY <1>1, <1>2, CreateDomainStep, StoreStep, DeletePointsStep, CrashStep DEF Next

LEMMA RagInvariant == Spec => []RagInv
BY RagInit, RagNext, PTL DEF Spec

(* The stores agree but for what a failure, kept vectors or a race may     *)
(* leave: the order of the writes in create_collection and                 *)
(* delete_collection (service.py) excludes the rest.                       *)
THEOREM RagStoresAgree == Spec => []StoresAgree
<1>1. RagInv => StoresAgree
  BY DEF RagInv, Typed, ListedUsable, HoldsCollection, StoresAgree
<1>2. QED
  BY <1>1, RagInvariant, PTL

(* delete_domain leaves no point of the domain, at whatever await others   *)
(* interleave and whatever fails, but for the named exceptions.            *)
THEOREM RagNoOrphans == Spec => []NoOrphanPoint
<1>1. RagInv => NoOrphanPoint
  BY DEF RagInv, Typed, RagTypeOK, Purging, NoOrphanPoint
<1>2. QED
  BY <1>1, RagInvariant, PTL
=============================================================================
