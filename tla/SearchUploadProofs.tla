-------------------------- MODULE SearchUploadProofs --------------------------
(***************************************************************************)
(* Theorems about KnowledgeQuery, for any contents, limits, collections    *)
(* and pages of a scroll, and about BulkUpload, for any uploads, polls and *)
(* sizes of files, with and without restarts.                              *)
(*                                                                         *)
(* Of the points that a search has come past (Passed), one that it was     *)
(* asked for is among the results, or there is a reason it need not be     *)
(* (Crowded): as many results as the limit, for a vector search that many  *)
(* at least as near, for a listing a collection that was cut.  Adding      *)
(* results takes no such reason away (Gain), and the sorted and cut answer *)
(* keeps what the reasons are about.                                       *)
(* There always is a page to take and an order to sort by: a finite set    *)
(* with a strict order is enumerated by how many come before (Enumeration).*)
(*                                                                         *)
(* An answer that says "done" is final: the background work of its task is *)
(* over and nothing but a restart touches its status any more (PollOK).    *)
(* Unless an answer came late the page deals with one upload at a time:    *)
(* the interval and every poll under way are for currentTaskId, and there  *)
(* are none once the page shows that it is over (OneAtATime).              *)
(***************************************************************************)
EXTENDS KnowledgeQuery, BulkUpload, SequenceTheorems, WellFoundedInduction,
        FiniteSetTheorems, TLAPS

-----------------------------------------------------------------------------
(* Sequences without repetition *)

\* s enumerates S, each member once.
Lists(s, S) == s \in Seq(S) /\ IsInjective(s) /\ ToSet(s) = S

LEMMA ListCounts ==
    ASSUME NEW s, NEW S, Lists(s, S)
    PROVE  /\ Len(s) \in Nat /\ DOMAIN s = 1..Len(s)
           /\ IsFiniteSet(S) /\ Cardinality(S) = Len(s)
<1>1. s \in [1..Len(s) -> S] /\ Len(s) \in Nat
    BY DEF Lists
<1>2. DOMAIN s = 1..Len(s)
    BY <1>1
<1>3. \A x \in S : \E k \in 1..Len(s) : s[k] = x
    BY <1>2 DEF Lists, ToSet
<1>4. \A j, k \in 1..Len(s) : s[j] = s[k] => j = k
    BY <1>2 DEF Lists, IsInjective
<1>5. s \in Bijection(1..Len(s), S)
    BY <1>1, <1>3, <1>4 DEF Bijection, Injection, Surjection, IsInjective
<1>6. ExistsBijection(1..Len(s), S)
    BY <1>5 DEF ExistsBijection
<1> QED BY <1>1, <1>2, <1>6, FS_CountingElements, FS_NatBijection

LEMMA InjectiveLists ==
    ASSUME NEW S, NEW s \in Seq(S), IsInjective(s)
    PROVE  Lists(s, ToSet(s)) /\ ToSet(s) \subseteq S
<1>1. s \in [1..Len(s) -> S] /\ Len(s) \in Nat
    OBVIOUS
<1>2. ToSet(s) \subseteq S /\ \A k \in 1..Len(s) : s[k] \in ToSet(s)
    BY <1>1 DEF ToSet
<1>3. s \in [1..Len(s) -> ToSet(s)]
    BY <1>1, <1>2
<1>4. s \in Seq(ToSet(s))
    BY <1>1, <1>3, SeqDef
<1> QED BY <1>2, <1>4 DEF Lists

LEMMA SetToSeqsLists ==
    ASSUME NEW S, IsFiniteSet(S), NEW s \in SetToSeqs(S)
    PROVE  Lists(s, S)
<1> DEFINE n == Cardinality(S)
<1>1. n \in Nat
    BY FS_CardinalityType
<1>2. s \in [1..n -> S] /\ \A i, j \in 1..n : i # j => s[i] # s[j]
    BY DEF SetToSeqs
<1>3. s \in Seq(S) /\ Len(s) = n /\ IsInjective(s)
    BY <1>1, <1>2, SeqDef, LenProperties DEF IsInjective
<1>4. Lists(s, ToSet(s)) /\ ToSet(s) \subseteq S
    BY <1>3, InjectiveLists
<1>5. Cardinality(ToSet(s)) = n
    BY <1>3, <1>4, ListCounts
<1>6. ToSet(s) = S
    BY <1>4, <1>5, FS_Subset
<1> QED BY <1>3, <1>6 DEF Lists

LEMMA ConcatLists ==
    ASSUME NEW s, NEW S, Lists(s, S), NEW t, NEW T, Lists(t, T), S \cap T = {}
    PROVE  Lists(s \o t, S \cup T) /\ Len(s \o t) = Len(s) + Len(t)
<1> DEFINE u == s \o t
<1>1. s \in Seq(S \cup T) /\ t \in Seq(S \cup T)
    BY SeqMonotonic, SMT DEF Lists
<1>2. /\ u \in Seq(S \cup T) /\ Len(u) = Len(s) + Len(t)
      /\ \A i \in 1..Len(s) + Len(t) : u[i] = IF i <= Len(s) THEN s[i] ELSE t[i - Len(s)]
    BY <1>1, ConcatProperties
<1>3. /\ DOMAIN u = 1..Len(s) + Len(t) /\ DOMAIN s = 1..Len(s) /\ DOMAIN t = 1..Len(t)
      /\ Len(s) \in Nat /\ Len(t) \in Nat
    BY <1>1, <1>2, LenProperties
<1>4. \A i \in 1..Len(s) : u[i] = s[i] /\ s[i] \in S
    BY <1>2, <1>3 DEF Lists
<1>5. \A i \in 1..Len(t) : u[Len(s) + i] = t[i] /\ t[i] \in T
  <2> TAKE i \in 1..Len(t)
  <2>1. Len(s) + i \in 1..Len(s) + Len(t) /\ ~(Len(s) + i <= Len(s)) /\ Len(s) + i - Len(s) = i
      BY <1>3
  <2> QED BY <1>2, <1>3, <2>1 DEF Lists
<1>6. \A i \in 1..Len(s) + Len(t) : i \in 1..Len(s) \/ \E j \in 1..Len(t) : i = Len(s) + j
  <2> TAKE i \in 1..Len(s) + Len(t)
  <2>1. CASE i <= Len(s)
      BY <1>3, <2>1
  <2>2. CASE i > Len(s)
    <3>1. i - Len(s) \in 1..Len(t) /\ i = Len(s) + (i - Len(s))
        BY <1>3, <2>2
    <3> QED BY <3>1
  <2> QED BY <1>3, <2>1, <2>2
<1>7. ToSet(u) = S \cup T
  <2>1. ToSet(u) \subseteq S \cup T
      BY <1>3, <1>4, <1>5, <1>6 DEF ToSet
  <2>2. S \subseteq ToSet(u)
    <3> SUFFICES ASSUME NEW x \in S PROVE x \in ToSet(u)
        OBVIOUS
    <3>1. PICK i \in 1..Len(s) : s[i] = x
        BY <1>3 DEF Lists, ToSet
    <3> QED BY <1>3, <1>4, <3>1 DEF ToSet
  <2>3. T \subseteq ToSet(u)
    <3> SUFFICES ASSUME NEW x \in T PROVE x \in ToSet(u)
        OBVIOUS
    <3>1. PICK i \in 1..Len(t) : t[i] = x
        BY <1>3 DEF Lists, ToSet
    <3>2. Len(s) + i \in DOMAIN u
        BY <1>3
    <3> QED BY <1>5, <3>1, <3>2 DEF ToSet
  <2> QED BY <2>1, <2>2, <2>3
<1>8. IsInjective(u)
  <2>1. /\ \A i, j \in 1..Len(s) : s[i] = s[j] => i = j
        /\ \A i, j \in 1..Len(t) : t[i] = t[j] => i = j
      BY <1>3 DEF Lists, IsInjective
  <2> SUFFICES ASSUME NEW i \in DOMAIN u, NEW j \in DOMAIN u, u[i] = u[j]
               PROVE  i = j
      BY DEF IsInjective
  <2>2. CASE i \in 1..Len(s) /\ j \in 1..Len(s)
      BY <1>4, <2>1, <2>2
  <2>3. CASE \E k, l \in 1..Len(t) : i = Len(s) + k /\ j = Len(s) + l
      BY <1>5, <2>1, <2>3
  <2>4. CASE i \in 1..Len(s) /\ \E l \in 1..Len(t) : j = Len(s) + l
      BY <1>4, <1>5, <2>4
  <2>5. CASE j \in 1..Len(s) /\ \E l \in 1..Len(t) : i = Len(s) + l
      BY <1>4, <1>5, <2>5
  <2> QED BY <1>3, <1>6, <2>2, <2>3, <2>4, <2>5
<1> QED BY <1>2, <1>7, <1>8 DEF Lists

LEMMA TailLists ==
    ASSUME NEW s, NEW S, Lists(s, S), s # <<>>
    PROVE  Head(s) \in S /\ Lists(Tail(s), S \ {Head(s)})
<1> DEFINE t == Tail(s)
<1>1. /\ Len(s) \in Nat \ {0} /\ DOMAIN s = 1..Len(s)
      /\ Head(s) = s[1] /\ t \in Seq(S) /\ Len(t) = Len(s) - 1
      /\ \A i \in 1..Len(t) : t[i] = s[i + 1]
    BY HeadTailProperties, EmptySeq, LenProperties DEF Lists
<1>2. DOMAIN t = 1..Len(s) - 1
    BY <1>1, LenProperties
<1>3. \A i, j \in 1..Len(s) : s[i] = s[j] => i = j
    BY <1>1 DEF Lists, IsInjective
<1>4. IsInjective(t)
  <2> SUFFICES ASSUME NEW i \in DOMAIN t, NEW j \in DOMAIN t, t[i] = t[j]
               PROVE  i = j
      BY DEF IsInjective
  <2>1. i + 1 \in 1..Len(s) /\ j + 1 \in 1..Len(s) /\ s[i + 1] = s[j + 1]
      BY <1>1, <1>2
  <2> QED BY <1>2, <1>3, <2>1
<1>5. ToSet(t) \subseteq S \ {Head(s)}
  <2> SUFFICES ASSUME NEW i \in DOMAIN t
               PROVE  t[i] \in S /\ t[i] # Head(s)
      BY DEF ToSet
  <2>1. i + 1 \in 1..Len(s) /\ i + 1 # 1 /\ 1 \in 1..Len(s) /\ t[i] = s[i + 1]
      BY <1>1, <1>2
  <2>2. t[i] \in S
      BY <2>1 DEF Lists
  <2> QED BY <1>1, <1>3, <2>1, <2>2
<1>6. S \ {Head(s)} \subseteq ToSet(t)
  <2> SUFFICES ASSUME NEW x \in S, x # Head(s)
               PROVE  x \in ToSet(t)
      OBVIOUS
  <2>1. PICK i \in 1..Len(s) : s[i] = x
      BY <1>1 DEF Lists, ToSet
  <2>2. i # 1 /\ i - 1 \in 1..Len(s) - 1 /\ (i - 1) + 1 = i
      BY <1>1, <2>1
  <2> QED BY <1>1, <1>2, <2>1, <2>2 DEF ToSet
<1>7. Head(s) \in S
    BY <1>1 DEF Lists
<1>8. Lists(t, ToSet(t))
    BY <1>1, <1>4, InjectiveLists
<1> QED BY <1>5, <1>6, <1>7, <1>8 DEF Lists

-----------------------------------------------------------------------------
(* What is taken from a collection, and the sorting and cutting *)

LEMMA PagesList ==
    ASSUME NEW S, IsFiniteSet(S), NEW n \in Nat, NEW batch \in Pages(S, n)
    PROVE  /\ Lists(batch, ToSet(batch)) /\ ToSet(batch) \subseteq S
           /\ Len(batch) <= n
           /\ ToSet(batch) = S \/ Len(batch) = n
<1>1. PICK T \in SUBSET S : batch \in SetToSeqs(T)
    BY DEF Pages
<1>2. IsFiniteSet(T)
    BY FS_Subset
<1>3. Lists(batch, T)
    BY <1>1, <1>2, SetToSeqsLists
<1>4. T = ToSet(batch)
    BY <1>3 DEF Lists
<1>5. Len(batch) = IF Cardinality(S) < n THEN Cardinality(S) ELSE n
    BY DEF Pages
<1>6. Cardinality(T) = Len(batch) /\ Cardinality(S) \in Nat
    BY <1>3, ListCounts, FS_CardinalityType
<1>7. Cardinality(S) = Cardinality(T) => S = T
    BY FS_Subset
<1> QED BY <1>3, <1>4, <1>5, <1>6, <1>7

LEMMA SortingsList ==
    ASSUME NEW s, NEW S, Lists(s, S), \A p \in S : Key(p) \in Nat, NEW t \in Sortings(s)
    PROVE  /\ Lists(t, S) /\ Len(t) = Len(s)
           /\ \A j, k \in DOMAIN t : j < k => Key(t[j]) >= Key(t[k])
<1> DEFINE n == Len(s)
<1>1. n \in Nat /\ DOMAIN s = 1..n
    BY ListCounts
<1>2. PICK o \in SetToSeqs(1..n) :
        /\ t = [k \in 1..n |-> s[o[k]]]
        /\ \A j, k \in 1..n : j < k => \/ Key(s[o[j]]) > Key(s[o[k]])
                                       \/ Key(s[o[j]]) = Key(s[o[k]]) /\ o[j] < o[k]
    BY <1>1 DEF Sortings
<1>3. IsFiniteSet(1..n) /\ Cardinality(1..n) = n
  <2> HIDE DEF n
  <2>1. 1 \in Int /\ n \in Int
      BY <1>1
  <2>2. IsFiniteSet(1..n) /\ Cardinality(1..n) = IF 1 > n THEN 0 ELSE n - 1 + 1
      BY <2>1, FS_Interval
  <2> QED BY <1>1, <2>2
<1>4. Lists(o, 1..n)
    BY <1>3, SetToSeqsLists
<1>5. Len(o) = n /\ DOMAIN o = 1..n
    BY <1>3, <1>4, ListCounts
<1>6. \A k \in 1..n : o[k] \in 1..n
    BY <1>4, <1>5 DEF Lists
<1>7. s \in [1..n -> S]
    BY <1>1 DEF Lists
<1>8. t \in Seq(S) /\ Len(t) = n /\ DOMAIN t = 1..n
  <2>1. t \in [1..n -> S]
      BY <1>2, <1>6, <1>7
  <2> QED BY <1>1, <2>1, SeqDef, LenProperties
<1>9. IsInjective(t)
    BY <1>1, <1>2, <1>4, <1>5, <1>6, <1>8 DEF Lists, IsInjective
<1>10. Lists(t, ToSet(t)) /\ ToSet(t) \subseteq S
    BY <1>8, <1>9, InjectiveLists
<1>11. S \subseteq ToSet(t)
  <2> SUFFICES ASSUME NEW x \in S PROVE x \in ToSet(t)
      OBVIOUS
  <2>1. PICK i \in 1..n : s[i] = x
      BY <1>1 DEF Lists, ToSet
  <2>2. PICK k \in 1..n : o[k] = i
      BY <1>4, <1>5 DEF Lists, ToSet
  <2> QED BY <1>2, <1>8, <2>1, <2>2 DEF ToSet
<1>12. \A j, k \in 1..n : j < k => Key(t[j]) >= Key(t[k])
  <2> SUFFICES ASSUME NEW j \in 1..n, NEW k \in 1..n, j < k
               PROVE  Key(t[j]) >= Key(t[k])
      OBVIOUS
  <2>1. t[j] = s[o[j]] /\ t[k] = s[o[k]] /\ t[j] \in S /\ t[k] \in S
      BY <1>2, <1>6, <1>7
  <2>2. Key(t[j]) \in Nat /\ Key(t[k]) \in Nat
      BY <2>1
  <2> QED BY <1>2, <2>1, <2>2
<1>13. ToSet(t) = S
    BY <1>10, <1>11
<1>14. Lists(t, S)
    BY <1>10, <1>13
<1> QED BY <1>8, <1>12, <1>14

LEMMA CutLists ==
    ASSUME NEW s, NEW S, Lists(s, S), NEW n \in Nat
    PROVE  LET cut == SubSeq(s, 1, IF Len(s) < n THEN Len(s) ELSE n)
           IN  /\ Lists(cut, ToSet(cut)) /\ ToSet(cut) \subseteq S
               /\ Len(cut) = IF Len(s) < n THEN Len(s) ELSE n
               /\ DOMAIN cut = 1..Len(cut)
               /\ \A k \in 1..Len(cut) : cut[k] = s[k]
<1> DEFINE m == IF Len(s) < n THEN Len(s) ELSE n
           cut == SubSeq(s, 1, m)
<1>1. Len(s) \in Nat /\ DOMAIN s = 1..Len(s)
    BY ListCounts
<1>2. m \in Nat /\ m <= Len(s) /\ \A i \in 1..m : i \in 1..Len(s) /\ s[i] \in S
    BY <1>1 DEF Lists
<1>3. cut \in Seq(S) /\ Len(cut) = m /\ \A i \in 1..m : cut[i] = s[i]
  <2> HIDE DEF m
  <2>1. m \in Int /\ 1 \in Int /\ \A i \in 1..m : s[i] \in S
      BY <1>2
  <2>2. /\ SubSeq(s, 1, m) \in Seq(S)
        /\ Len(SubSeq(s, 1, m)) = IF 1 <= m THEN m - 1 + 1 ELSE 0
        /\ \A i \in 1..m - 1 + 1 : SubSeq(s, 1, m)[i] = s[1 + i - 1]
      BY <2>1, SubSeqProperties
  <2> QED BY <1>2, <2>2
<1>4. DOMAIN cut = 1..m
    BY <1>3, LenProperties
<1>5. IsInjective(cut)
  <2> HIDE DEF m, cut
  <2> QED BY <1>1, <1>2, <1>3, <1>4 DEF Lists, IsInjective
<1>6. Lists(cut, ToSet(cut)) /\ ToSet(cut) \subseteq S
  <2> HIDE DEF m, cut
  <2> QED BY <1>3, <1>5, InjectiveLists
<1> QED BY <1>3, <1>4, <1>6

-----------------------------------------------------------------------------
(* The invariant *)

\* The scroll of p's collection has come past p, or has ended.
Passed(p) ==
    \/ point[p].in \in listed \ ToSet(left)
    \/ offset # Unset /\ point[p].in = Head(left) /\ p < offset

Nearer(p) == {q \in ToSet(results) : point[q].rank >= point[p].rank}

\* Why a point that the request asks for may be left out
Crowded(p) ==
    /\ Len(results) >= req.limit
    /\ req.kind = "vector" => Cardinality(Nearer(p)) >= req.limit
    /\ req.kind = "list" => ~Uncut

VisitOK ==
    /\ Lists(left, ToSet(left)) /\ ToSet(left) \subseteq listed
    /\ Lists(results, ToSet(results))
    /\ offset # Unset => left # <<>> /\ Head(left) \in exists /\ req.kind = "points"
    /\ \A p \in ToSet(results) : p \in Wanted /\ Passed(p)
    /\ \A p \in Wanted : Passed(p) => p \in ToSet(results) \/ Crowded(p)

QueryInv ==
    /\ QueryTypeOK
    /\ pc = "visit" => VisitOK
    /\ pc = "answered" => AnswerRight

LEMMA QueryData ==
    ASSUME QueryTypeOK
    PROVE  /\ req.limit \in Nat
           /\ \A p \in Points : p \in Nat /\ point[p].rank \in Nat /\ Key(p) \in Nat
           /\ \A c : Matching(c) \subseteq Points /\ IsFiniteSet(Matching(c))
           /\ \A c : \A p \in Matching(c) : point[p].in = c
           /\ \A p : p \in Wanted <=>
                /\ p \in Points /\ point[p].in \in exists /\ point[p].in \in listed
                /\ p \in Matching(point[p].in)
                /\ req.kind = "points" => point[p].hit
           /\ Wanted \subseteq Points /\ IsFiniteSet(Wanted)
           /\ ToSet(results) \subseteq Points
<1>1. req.limit \in Nat
    BY QueryAssumption DEF QueryTypeOK, Request
<1>2. \A p \in Points : p \in Nat /\ point[p].rank \in Nat
    BY QueryAssumption DEF QueryTypeOK, Point
<1>3. \A p \in Points : Key(p) \in Nat
    BY <1>2 DEF Key
<1>4. \A c : Matching(c) \subseteq Points /\ IsFiniteSet(Matching(c))
  <2> TAKE c
  <2>1. Matching(c) \subseteq Points
      BY DEF Matching
  <2> QED BY <2>1, QueryAssumption, FS_Subset
<1>5. \A c : \A p \in Matching(c) : point[p].in = c
    BY DEF Matching
<1>6. \A p : p \in Wanted <=>
        /\ p \in Points /\ point[p].in \in exists /\ point[p].in \in listed
        /\ p \in Matching(point[p].in)
        /\ req.kind = "points" => point[p].hit
    BY DEF Wanted, Matching
<1>7. Wanted \subseteq Points /\ IsFiniteSet(Wanted)
  <2>1. Wanted \subseteq Points
      BY <1>6
  <2> QED BY <2>1, QueryAssumption, FS_Subset
<1>8. ToSet(results) \subseteq Points
    BY DEF QueryTypeOK, ToSet
<1> QED BY <1>1, <1>2, <1>3, <1>4, <1>5, <1>6, <1>7, <1>8

LEMMA ContentsStay ==
    ASSUME UNCHANGED contents
    PROVE  /\ point' = point /\ exists' = exists /\ req' = req /\ listed' = listed
           /\ Wanted' = Wanted /\ Uncut' = Uncut
           /\ \A p : Key(p)' = Key(p)
BY DEF contents, Wanted, Uncut, Matching, Key

LEMMA QueryStarts == QueryInit => QueryInv
<1> SUFFICES ASSUME QueryInit PROVE QueryInv
    OBVIOUS
<1>1. /\ point \in [Points -> Point] /\ exists \subseteq Collections /\ req \in Request
      /\ offset = Unset /\ results = <<>> /\ pc = "visit"
    BY DEF QueryInit
<1>2. listed \subseteq Collections
    BY <1>1 DEF QueryInit, Request
<1>3. IsFiniteSet(listed)
    BY <1>2, QueryAssumption, FS_Subset
<1>4. Lists(left, listed)
    BY <1>3, SetToSeqsLists DEF QueryInit
<1>5. ToSet(left) = listed /\ left \in Seq(Collections)
    BY <1>2, <1>4, SeqMonotonic DEF Lists
<1>6. results \in Seq(Points) /\ Len(results) = 0 /\ ToSet(results) = {} /\ IsInjective(results)
    BY <1>1 DEF ToSet, IsInjective
<1>7. Lists(results, ToSet(results))
    BY <1>6, InjectiveLists
<1>8. req.limit \in Nat
    BY <1>1, QueryAssumption DEF Request
<1>9. QueryTypeOK
    BY <1>1, <1>2, <1>5, <1>6, <1>8 DEF QueryTypeOK
<1>10. \A p \in Wanted : ~Passed(p)
    BY <1>1, <1>5 DEF Passed
<1> QED BY <1>1, <1>4, <1>5, <1>6, <1>7, <1>9, <1>10 DEF QueryInv, VisitOK

-----------------------------------------------------------------------------
(* The visit of a collection *)

LEMMA Visited ==
    ASSUME QueryInv, pc = "visit", left # <<>>
    PROVE  /\ Head(left) \in ToSet(left) /\ Head(left) \in listed
           /\ Tail(left) \in Seq(Collections)
           /\ Lists(Tail(left), ToSet(Tail(left)))
           /\ ToSet(Tail(left)) = ToSet(left) \ {Head(left)}
<1>1. Lists(left, ToSet(left)) /\ ToSet(left) \subseteq listed /\ left \in Seq(Collections)
    BY DEF QueryInv, VisitOK, QueryTypeOK
<1>2. Head(left) \in ToSet(left) /\ Lists(Tail(left), ToSet(left) \ {Head(left)})
    BY <1>1, TailLists
<1>3. ToSet(Tail(left)) = ToSet(left) \ {Head(left)}
    BY <1>2 DEF Lists
<1>4. Tail(left) \in Seq(Collections)
    BY <1>1, HeadTailProperties
<1> QED BY <1>1, <1>2, <1>3, <1>4

\* Nothing of what the next batch is taken from has been found before.
LEMMA Fresh ==
    ASSUME QueryInv, pc = "visit", left # <<>>,
           NEW p \in Matching(Head(left)), offset # Unset => p >= offset
    PROVE  p \notin ToSet(results)
<1>1. point[p].in = Head(left) /\ p \in Points /\ p \in Nat
    BY QueryData DEF QueryInv
<1>2. Head(left) \in ToSet(left)
    BY Visited
<1>3. offset # Unset => offset \in Nat
    BY QueryAssumption DEF QueryInv, QueryTypeOK
<1>4. ~Passed(p)
    BY <1>1, <1>2, <1>3 DEF Passed
<1> QED BY <1>4 DEF QueryInv, VisitOK

\* What a batch adds to the results takes no reason away.
LEMMA Gain ==
    ASSUME QueryInv, pc = "visit", UNCHANGED contents,
           NEW batch, Lists(batch, ToSet(batch)), ToSet(batch) \subseteq Points,
           ToSet(batch) \cap ToSet(results) = {},
           results' = results \o batch
    PROVE  /\ results' \in Seq(Points) /\ Lists(results, ToSet(results))'
           /\ ToSet(results)' = ToSet(results) \cup ToSet(batch)
           /\ Len(results)' = Len(results) + Len(batch)
           /\ \A p \in Points : Crowded(p) => Crowded(p)'
<1>1. Lists(results, ToSet(results)) /\ results \in Seq(Points)
    BY DEF QueryInv, VisitOK, QueryTypeOK
<1>2. /\ Lists(results', ToSet(results) \cup ToSet(batch))
      /\ Len(results') = Len(results) + Len(batch)
    BY <1>1, ConcatLists, Zenon
<1>3. ToSet(results') = ToSet(results) \cup ToSet(batch)
    BY <1>2 DEF Lists
<1>4. ToSet(results) \subseteq Points
    BY QueryData DEF QueryInv
<1>5. results' \in Seq(Points)
    BY <1>2, <1>4, SeqMonotonic DEF Lists
<1>6. Len(results) \in Nat /\ Len(batch) \in Nat /\ req.limit \in Nat
    BY <1>1, ListCounts, QueryData DEF QueryInv
<1>7. ASSUME NEW p \in Points, Crowded(p)
      PROVE  Crowded(p)'
  <2>1. Len(results') >= req.limit
      BY <1>2, <1>6, <1>7 DEF Crowded
  <2>2. Nearer(p) \subseteq Nearer(p)'
      BY <1>3, ContentsStay DEF Nearer
  <2>3. IsFiniteSet(Nearer(p)')
    <3>1. Nearer(p)' \subseteq Points
        BY <1>3, <1>4 DEF Nearer
    <3> QED BY <3>1, QueryAssumption, FS_Subset
  <2>4. /\ Cardinality(Nearer(p)) <= Cardinality(Nearer(p)')
        /\ Cardinality(Nearer(p)) \in Nat /\ Cardinality(Nearer(p)') \in Nat
      BY <2>2, <2>3, FS_Subset, FS_CardinalityType
  <2> QED BY <1>6, <1>7, <2>1, <2>4, ContentsStay DEF Crowded
<1> QED BY <1>2, <1>3, <1>5, <1>7

LEMMA SkipStep ==
    ASSUME QueryInv, SkipMissing
    PROVE  QueryInv'
<1>1. /\ pc = "visit" /\ pc' = "visit" /\ left # <<>> /\ Head(left) \notin exists
      /\ left' = Tail(left) /\ offset' = offset /\ results' = results /\ UNCHANGED contents
    BY DEF SkipMissing
<1>2. VisitOK /\ QueryTypeOK
    BY <1>1 DEF QueryInv
<1>3. offset = Unset
    BY <1>1, <1>2 DEF VisitOK
<1>4. QueryTypeOK'
    BY <1>1, <1>2, Visited, ContentsStay DEF QueryTypeOK
<1>5. /\ Lists(left', ToSet(left')) /\ ToSet(left') = ToSet(left) \ {Head(left)}
      /\ ToSet(left) \subseteq listed
    BY <1>1, <1>2, Visited DEF VisitOK
<1>6. \A p \in Wanted : Passed(p)' <=> Passed(p)
    BY <1>1, <1>2, <1>3, <1>5, QueryData, ContentsStay DEF Passed
<1>7. \A p : Crowded(p)' <=> Crowded(p)
    BY <1>1, ContentsStay DEF Crowded, Nearer
<1>8. VisitOK'
    BY <1>1, <1>2, <1>3, <1>5, <1>6, <1>7, ContentsStay DEF VisitOK
<1> QED BY <1>1, <1>4, <1>8 DEF QueryInv

LEMMA SearchStep ==
    ASSUME QueryInv, SearchCollection
    PROVE  QueryInv'
<1> DEFINE c == Head(left)
           S == Matching(c)
<1>1. /\ pc = "visit" /\ pc' = "visit" /\ left # <<>> /\ c \in exists /\ req.kind # "points"
      /\ left' = Tail(left) /\ offset' = offset /\ UNCHANGED contents
    BY DEF SearchCollection
<1>2. PICK batch \in IF req.kind = "vector" THEN Nearest(S, req.limit) ELSE First(S, req.limit) :
        results' = results \o batch
    BY DEF SearchCollection
<1>3. VisitOK /\ QueryTypeOK
    BY <1>1 DEF QueryInv
<1>4. offset = Unset
    BY <1>1, <1>3 DEF VisitOK
<1>5. /\ req.limit \in Nat /\ IsFiniteSet(S) /\ S \subseteq Points
      /\ \A p \in S : point[p].in = c
    BY <1>3, QueryData
<1>6. /\ Lists(batch, ToSet(batch)) /\ ToSet(batch) \subseteq S /\ Len(batch) <= req.limit
      /\ ToSet(batch) = S \/ Len(batch) = req.limit
  <2>1. batch \in Pages(S, req.limit)
      BY <1>2 DEF Nearest, First
  <2> HIDE DEF S
  <2> QED BY <1>5, <2>1, PagesList
<1>7. /\ c \in ToSet(left) /\ c \in listed /\ Tail(left) \in Seq(Collections)
      /\ Lists(left', ToSet(left')) /\ ToSet(left') = ToSet(left) \ {c}
      /\ ToSet(left) \subseteq listed
    BY <1>1, <1>3, Visited DEF VisitOK
<1>8. ToSet(batch) \cap ToSet(results) = {}
    BY <1>1, <1>4, <1>6, Fresh
<1>9. /\ results' \in Seq(Points) /\ Lists(results, ToSet(results))'
      /\ ToSet(results)' = ToSet(results) \cup ToSet(batch)
      /\ Len(results)' = Len(results) + Len(batch)
      /\ \A p \in Points : Crowded(p) => Crowded(p)'
    BY <1>1, <1>2, <1>5, <1>6, <1>8, Gain
<1>10. QueryTypeOK'
    BY <1>1, <1>3, <1>7, <1>9, ContentsStay DEF QueryTypeOK
<1>11. S \subseteq Wanted
    BY <1>1, <1>3, <1>5, <1>7, QueryData
<1>12. \A p \in Wanted : Passed(p)' <=> Passed(p) \/ p \in S
    BY <1>1, <1>3, <1>4, <1>7, QueryData, ContentsStay DEF Passed
<1>13. ASSUME NEW p \in S, p \notin ToSet(batch)
       PROVE  Crowded(p)'
  <2>1. Len(batch) = req.limit /\ Cardinality(ToSet(batch)) = req.limit /\ IsFiniteSet(ToSet(batch))
      BY <1>6, <1>13, ListCounts
  <2>2. Len(results') >= req.limit
    <3>1. Len(results) \in Nat
        BY <1>3, ListCounts DEF VisitOK
    <3> QED BY <1>5, <1>9, <2>1, <3>1
  <2>3. ASSUME req.kind = "vector" PROVE Cardinality(Nearer(p)') >= req.limit
    <3>1. \A q \in ToSet(batch) : point[q].rank >= point[p].rank
        BY <1>2, <1>13, <2>3 DEF Nearest
    <3>2. ToSet(batch) \subseteq Nearer(p)'
        BY <1>9, <3>1, <1>1, ContentsStay DEF Nearer
    <3>3. Nearer(p)' \subseteq Points
        BY <1>10 DEF Nearer, QueryTypeOK, ToSet
    <3>4. IsFiniteSet(Nearer(p)')
        BY <3>3, QueryAssumption, FS_Subset
    <3>5. Cardinality(ToSet(batch)) <= Cardinality(Nearer(p)') /\ Cardinality(Nearer(p)') \in Nat
        BY <3>2, <3>4, FS_Subset, FS_CardinalityType
    <3> QED BY <1>5, <2>1, <3>5
  <2>4. ~Uncut
    <3>1. /\ Cardinality(ToSet(batch)) <= Cardinality(S)
          /\ Cardinality(S) # Cardinality(ToSet(batch)) /\ Cardinality(S) \in Nat
        BY <1>5, <1>6, <1>13, FS_Subset, FS_CardinalityType
    <3> QED BY <1>1, <1>5, <2>1, <3>1 DEF Uncut
  <2> QED BY <1>1, <2>2, <2>3, <2>4, ContentsStay DEF Crowded
<1>14. \A p \in ToSet(results)' : p \in Wanted /\ Passed(p)'
    BY <1>3, <1>6, <1>9, <1>11, <1>12 DEF VisitOK
<1>15. \A p \in Wanted : Passed(p)' => p \in ToSet(results)' \/ Crowded(p)'
    BY <1>3, <1>9, <1>12, <1>13, QueryData DEF VisitOK
<1>16. VisitOK'
    BY <1>1, <1>4, <1>7, <1>9, <1>14, <1>15, ContentsStay DEF VisitOK
<1> QED BY <1>1, <1>10, <1>16 DEF QueryInv

LEMMA EnoughStep ==
    ASSUME QueryInv, ScrollEnough
    PROVE  QueryInv'
<1>1. /\ pc = "visit" /\ pc' = "visit" /\ left # <<>> /\ req.kind = "points"
      /\ Len(results) >= req.limit
      /\ left' = Tail(left) /\ offset' = Unset /\ results' = results /\ UNCHANGED contents
    BY DEF ScrollEnough
<1>2. VisitOK /\ QueryTypeOK
    BY <1>1 DEF QueryInv
<1>3. /\ Head(left) \in listed /\ Tail(left) \in Seq(Collections)
      /\ Lists(left', ToSet(left')) /\ ToSet(left') = ToSet(left) \ {Head(left)}
      /\ ToSet(left) \subseteq listed
    BY <1>1, <1>2, Visited DEF VisitOK
<1>4. QueryTypeOK'
    BY <1>1, <1>2, <1>3, ContentsStay DEF QueryTypeOK
<1>5. \A p \in Points : Passed(p) => Passed(p)'
    BY <1>1, <1>3, ContentsStay DEF Passed
<1>6. \A p : Crowded(p)'
    BY <1>1, ContentsStay DEF Crowded
<1>7. \A p \in ToSet(results)' : p \in Wanted /\ Passed(p)'
    BY <1>1, <1>2, <1>5, QueryData DEF VisitOK
<1>8. VisitOK'
    BY <1>1, <1>2, <1>3, <1>6, <1>7, ContentsStay DEF VisitOK
<1> QED BY <1>1, <1>4, <1>8 DEF QueryInv

LEMMA LeastNatural ==
    ASSUME NEW S \in SUBSET Nat, S # {}
    PROVE  \E p \in S : \A q \in S : p <= q
<1> DEFINE R == OpToRel(<, Nat)
<1>1. IsWellFoundedOn(R, Nat)
    BY NatLessThanWellFounded
<1>2. \A p, q \in Nat : p < q => <<p, q>> \in R
    BY DEF OpToRel
<1> HIDE DEF R
<1>3. PICK p \in S : \A q \in S : ~ (<<q, p>> \in R)
    BY <1>1, WFMin
<1>4. \A q \in S : ~(q < p)
    BY <1>2, <1>3
<1>5. \A q \in S : p \in Int /\ q \in Int
    OBVIOUS
<1>6. \A q \in S : p <= q
    BY <1>4, <1>5
<1> QED BY <1>6

LEMMA ScrollStep ==
    ASSUME QueryInv, ScrollPage
    PROVE  QueryInv'
<1> DEFINE c == Head(left)
           S == {p \in Matching(c) : offset # Unset => p >= offset}
<1>1. /\ pc = "visit" /\ pc' = "visit" /\ left # <<>> /\ c \in exists /\ req.kind = "points"
      /\ Len(results) < req.limit /\ UNCHANGED contents
    BY DEF ScrollPage
<1>0. PICK batch \in First(S, req.limit) :
        \E next \in NextOffsets(S, batch), kept \in Kept(batch) :
          /\ results' = results \o kept
          /\ IF LastPage(batch, next)
             THEN left' = Tail(left) /\ offset' = Unset
             ELSE left' = left /\ offset' = next
    BY DEF ScrollPage
<1>2. PICK next \in NextOffsets(S, batch), kept \in Kept(batch) :
        /\ results' = results \o kept
        /\ IF LastPage(batch, next)
           THEN left' = Tail(left) /\ offset' = Unset
           ELSE left' = left /\ offset' = next
    BY <1>0
<1>3. VisitOK /\ QueryTypeOK
    BY <1>1 DEF QueryInv
<1>4. req.limit \in Nat /\ Len(results) \in Nat
    BY <1>3, QueryData, ListCounts DEF VisitOK
<1>5. /\ \A p \in S : p \in Points /\ p \in Nat /\ point[p].in = c /\ p \in Matching(c)
      /\ S \subseteq Points /\ IsFiniteSet(S)
  <2>1. S \subseteq Points
      BY <1>3, QueryData
  <2>2. IsFiniteSet(S)
      BY <2>1, QueryAssumption, FS_Subset
  <2> QED BY <1>3, <2>1, <2>2, QueryData
<1>6. offset # Unset => offset \in Points /\ offset \in Nat
    BY <1>3, QueryAssumption DEF QueryTypeOK
<1>7. /\ Lists(batch, ToSet(batch)) /\ ToSet(batch) \subseteq S
      /\ ToSet(batch) = S \/ Len(batch) = req.limit
      /\ \A p \in ToSet(batch), q \in S \ ToSet(batch) : p < q
  <2>1. batch \in Pages(S, req.limit)
      BY <1>2 DEF First
  <2>2. \A p \in ToSet(batch), q \in S \ ToSet(batch) : p < q
      BY <1>2 DEF First
  <2> HIDE DEF S
  <2> QED BY <1>4, <1>5, <2>1, <2>2, PagesList
<1>8. /\ Lists(kept, ToSet(kept)) /\ ToSet(kept) \subseteq ToSet(batch)
      /\ \A p \in ToSet(kept) : point[p].hit
      /\ Len(kept) \in Nat /\ Len(results) + Len(kept) <= req.limit
      /\ \/ \A p \in ToSet(batch) : point[p].hit => p \in ToSet(kept)
         \/ Len(results) + Len(kept) = req.limit
  <2> DEFINE H == {p \in ToSet(batch) : point[p].hit}
             n == req.limit - Len(results)
  <2>1. IsFiniteSet(H)
      BY <1>5, <1>7, FS_Subset
  <2>2. n \in Nat
      BY <1>1, <1>4
  <2>3. kept \in Pages(H, n)
      BY <1>2 DEF Kept, First
  <2>4. /\ Lists(kept, ToSet(kept)) /\ ToSet(kept) \subseteq H /\ Len(kept) <= n
        /\ ToSet(kept) = H \/ Len(kept) = n
    <3> HIDE DEF H, n
    <3> QED BY <2>1, <2>2, <2>3, PagesList
  <2>5. Len(kept) \in Nat
      BY <2>4, ListCounts
  <2> QED BY <1>4, <2>4, <2>5
<1>9. /\ c \in ToSet(left) /\ c \in listed /\ Tail(left) \in Seq(Collections)
      /\ Lists(Tail(left), ToSet(Tail(left))) /\ ToSet(Tail(left)) = ToSet(left) \ {c}
      /\ ToSet(left) \subseteq listed
    BY <1>1, <1>3, Visited DEF VisitOK
<1>10. /\ results' \in Seq(Points) /\ Lists(results, ToSet(results))'
       /\ ToSet(results)' = ToSet(results) \cup ToSet(kept)
       /\ Len(results)' = Len(results) + Len(kept)
       /\ \A p \in Points : Crowded(p) => Crowded(p)'
  <2>1. ToSet(kept) \cap ToSet(results) = {}
      BY <1>1, <1>7, <1>8, Fresh
  <2>2. ToSet(kept) \subseteq Points
      BY <1>5, <1>7, <1>8
  <2> QED BY <1>1, <1>2, <1>8, <2>1, <2>2, Gain
\* The offset is past the batch and not past the rest; without one there is no rest.
<1>11. /\ next = Unset => ToSet(batch) = S
       /\ next # Unset => /\ next \in Points /\ next \in Nat
                          /\ \A p \in ToSet(batch) : p < next
                          /\ \A p \in S : p < next => p \in ToSet(batch)
  <2>1. CASE S \ ToSet(batch) # {}
    <3> DEFINE least == CHOOSE p \in S \ ToSet(batch) : \A q \in S \ ToSet(batch) : p <= q
    <3>1. S \ ToSet(batch) \in SUBSET Nat
        BY <1>5
    <3>2. \E p \in S \ ToSet(batch) : \A q \in S \ ToSet(batch) : p <= q
        BY <2>1, <3>1, LeastNatural
    <3>3. least \in S \ ToSet(batch) /\ \A q \in S \ ToSet(batch) : least <= q
        BY <3>2
    <3>4. next = least
        BY <1>2, <2>1 DEF NextOffsets
    <3>5. next \in S \ ToSet(batch) /\ \A q \in S \ ToSet(batch) : next <= q
        BY <3>3, <3>4
    <3>6. next # Unset
        BY <1>5, <3>5, QueryAssumption
    <3>7. \A p \in S : p < next => p \in ToSet(batch)
      <4> SUFFICES ASSUME NEW p \in S, p < next, p \notin ToSet(batch) PROVE FALSE
          OBVIOUS
      <4>1. next <= p
          BY <3>5
      <4>2. next \in Nat /\ p \in Nat
          BY <1>5, <3>5
      <4> QED BY <4>1, <4>2
    <3> QED BY <1>5, <1>7, <3>5, <3>6, <3>7
  <2>2. CASE S \ ToSet(batch) = {}
    <3>1. ToSet(batch) = S
        BY <1>7, <2>2
    <3>2. next = Unset \/ (next \in Points /\ \A q \in S : q < next)
        BY <1>2, <2>2 DEF NextOffsets
    <3> QED BY <3>1, <3>2, QueryAssumption
  <2> QED BY <2>1, <2>2
<1>12. batch = <<>> => S = {}
  <2>1. batch = <<>> => Len(batch) = 0 /\ ToSet(batch) = {}
      BY DEF ToSet
  <2> QED BY <1>1, <1>4, <1>7, <2>1
<1>13. QueryTypeOK'
    BY <1>1, <1>2, <1>3, <1>8, <1>9, <1>10, <1>11, ContentsStay DEF QueryTypeOK, LastPage
<1>14. \A p \in ToSet(kept) : p \in Wanted
    BY <1>1, <1>3, <1>5, <1>7, <1>8, <1>9, QueryData
<1>15. ASSUME NEW p \in Wanted, p \in S, p \in ToSet(batch)
       PROVE  p \in ToSet(results)' \/ Crowded(p)'
  <2>1. point[p].hit
      BY <1>1, <1>3, <1>15, QueryData
  <2>2. CASE p \in ToSet(kept)
      BY <1>10, <2>2
  <2>3. CASE Len(results) + Len(kept) = req.limit
      BY <1>1, <1>4, <1>10, <2>3, ContentsStay DEF Crowded
  <2> QED BY <1>8, <1>15, <2>1, <2>2, <2>3
<1>16. CASE LastPage(batch, next)
  <2>1. left' = Tail(left) /\ offset' = Unset
      BY <1>2, <1>16
  <2>2. ToSet(batch) = S
      BY <1>7, <1>11, <1>12, <1>16 DEF LastPage
  <2>3. \A p \in Wanted : Passed(p)' <=> Passed(p) \/ p \in S
      BY <1>1, <1>3, <1>5, <1>6, <1>9, <2>1, QueryData, ContentsStay DEF Passed
  <2>4. \A p \in ToSet(results)' : p \in Wanted /\ Passed(p)'
      BY <1>3, <1>7, <1>8, <1>10, <1>14, <2>3 DEF VisitOK
  <2>5. \A p \in Wanted : Passed(p)' => p \in ToSet(results)' \/ Crowded(p)'
      BY <1>3, <1>10, <1>15, <2>2, <2>3, QueryData DEF VisitOK
  <2>6. VisitOK'
      BY <1>1, <1>9, <1>10, <2>1, <2>4, <2>5, ContentsStay DEF VisitOK
  <2> QED BY <1>1, <1>13, <2>6 DEF QueryInv
<1>17. CASE ~LastPage(batch, next)
  <2>1. left' = left /\ offset' = next /\ next # Unset
      BY <1>2, <1>17 DEF LastPage
  <2>2. batch # <<>>
      BY <1>17 DEF LastPage
  <2>3. PICK first \in ToSet(batch) : first \in S
    <3>1. batch \in [1..Len(batch) -> ToSet(batch)] /\ Len(batch) \in Nat /\ Len(batch) # 0
        BY <1>7, <2>2 DEF Lists
    <3>2. batch[1] \in ToSet(batch)
        BY <3>1
    <3> QED BY <1>7, <3>2
  <2>4. offset # Unset => offset < next
      BY <1>5, <1>6, <1>11, <2>1, <2>3
  <2>5. \A p \in Wanted : Passed(p)' <=> Passed(p) \/ (p \in S /\ p < next)
    <3> SUFFICES ASSUME NEW p \in Wanted
                 PROVE  Passed(p)' <=> Passed(p) \/ (p \in S /\ p < next)
        OBVIOUS
    <3>1. p \in Nat /\ (point[p].in = c => p \in Matching(c))
        BY <1>3, QueryData
    <3> QED BY <1>1, <1>5, <1>6, <1>11, <2>1, <2>4, <3>1, ContentsStay DEF Passed
  <2>6. \A p \in ToSet(results)' : p \in Wanted /\ Passed(p)'
      BY <1>3, <1>7, <1>8, <1>10, <1>11, <1>14, <2>1, <2>5 DEF VisitOK
  <2>7. \A p \in Wanted : Passed(p)' => p \in ToSet(results)' \/ Crowded(p)'
      BY <1>3, <1>10, <1>11, <1>15, <2>1, <2>5, QueryData DEF VisitOK
  <2>8. VisitOK'
    <3>1. Lists(left, ToSet(left))
        BY <1>3 DEF VisitOK
    <3> QED BY <1>1, <1>9, <1>10, <2>1, <2>6, <2>7, <3>1, ContentsStay DEF VisitOK
  <2> QED BY <1>1, <1>13, <2>8 DEF QueryInv
<1> QED BY <1>16, <1>17

-----------------------------------------------------------------------------
(* The answer *)

LEMMA SortAndCutStep ==
    ASSUME QueryInv, Answer
    PROVE  QueryInv'
<1> DEFINE R == ToSet(results)
           n == req.limit
<1>1. pc = "visit" /\ pc' = "answered" /\ left = <<>> /\ UNCHANGED <<contents, left, offset>>
    BY DEF Answer
<1>2. VisitOK /\ QueryTypeOK /\ UNCHANGED contents
    BY <1>1 DEF QueryInv
<1>3. Lists(results, R) /\ R \subseteq Wanted
    BY <1>2 DEF VisitOK
<1>4. \A p \in Wanted : p \in R \/ Crowded(p)
  <2>1. ToSet(left) = {}
      BY <1>1 DEF ToSet
  <2> QED BY <1>2, <2>1, QueryData DEF VisitOK, Passed
<1>5. PICK t \in Sortings(results) :
        results' = SubSeq(t, 1, IF Len(t) < n THEN Len(t) ELSE n)
    BY DEF Answer
<1>6. /\ n \in Nat /\ R \subseteq Points /\ IsFiniteSet(Wanted) /\ Wanted \subseteq Points
      /\ \A p \in Points : Key(p) \in Nat
    BY <1>2, QueryData
<1>7. /\ Lists(t, R) /\ Len(t) = Len(results)
      /\ \A j, k \in DOMAIN t : j < k => Key(t[j]) >= Key(t[k])
  <2> HIDE DEF R
  <2> QED BY <1>3, <1>5, <1>6, SortingsList
<1>8. Len(t) \in Nat /\ DOMAIN t = 1..Len(t) /\ Cardinality(R) = Len(t)
    BY <1>7, ListCounts
<1> DEFINE m == IF Len(t) < n THEN Len(t) ELSE n
           given == ToSet(results')
<1>9. /\ Lists(results', given) /\ given \subseteq R /\ Len(results') = m
      /\ DOMAIN results' = 1..m /\ \A k \in 1..m : results'[k] = t[k]
  <2> DEFINE cut == SubSeq(t, 1, m)
  <2>1. /\ Lists(cut, ToSet(cut)) /\ ToSet(cut) \subseteq R /\ Len(cut) = m
        /\ DOMAIN cut = 1..Len(cut) /\ \A k \in 1..Len(cut) : cut[k] = t[k]
    <3> HIDE DEF R, n
    <3> QED BY <1>6, <1>7, CutLists
  <2>2. results' = cut
      BY <1>5
  <2> HIDE DEF cut, m, R
  <2> QED BY <2>1, <2>2
<1>10. Cardinality(given) = Len(results')
    BY <1>9, ListCounts
<1>11. m = IF Cardinality(Wanted) < n THEN Cardinality(Wanted) ELSE n
  <2>1. Cardinality(R) <= Cardinality(Wanted) /\ Cardinality(Wanted) \in Nat
      BY <1>3, <1>6, FS_Subset, FS_CardinalityType
  <2>2. CASE Wanted = R
      BY <1>8, <2>2
  <2>3. CASE Wanted # R
    <3>1. Len(results) >= n
        BY <1>3, <1>4, <2>3 DEF Crowded
    <3> QED BY <1>6, <1>7, <1>8, <2>1, <3>1
  <2> QED BY <2>2, <2>3
<1>12. \A j, k \in 1..m : j < k => Key(results'[j]) >= Key(results'[k])
  <2>1. \A k \in 1..m : k \in 1..Len(t)
      BY <1>6, <1>8
  <2> QED BY <1>7, <1>8, <1>9, <2>1
<1>13. ASSUME req.kind = "vector" \/ (req.kind = "list" /\ Uncut),
              NEW p \in given, NEW q \in Wanted \ given
       PROVE  Key(p) >= Key(q)
  <2>1. PICK i \in 1..m : p = t[i]
      BY <1>9 DEF ToSet
  <2>2. i \in 1..Len(t) /\ i <= n /\ i \in Nat
      BY <1>6, <1>8, <2>1
  <2>3. /\ p \in R /\ Key(p) \in Nat /\ Key(q) \in Nat /\ q \in Points
        /\ \A r \in R : r \in Points /\ Key(r) \in Nat
      BY <1>6, <1>9
  <2>4. CASE q \in R
    <3>1. PICK j \in 1..Len(t) : q = t[j]
        BY <1>7, <1>8, <2>4 DEF Lists, ToSet
    <3>2. j \notin 1..m
        BY <1>9, <1>13, <3>1 DEF ToSet
    <3>3. i < j
        BY <1>6, <1>8, <2>1, <3>1, <3>2
    <3> QED BY <1>7, <1>8, <2>1, <2>2, <3>1, <3>3
  <2>5. CASE q \notin R
    <3>1. Crowded(q) /\ req.kind = "vector"
        BY <1>4, <1>13, <2>5 DEF Crowded
    <3>2. Cardinality(Nearer(q)) >= n
        BY <3>1 DEF Crowded
    <3> SUFFICES ASSUME Key(p) < Key(q) PROVE FALSE
        BY <2>3
    <3> DEFINE ahead == SubSeq(t, 1, IF Len(t) < i - 1 THEN Len(t) ELSE i - 1)
    <3>3. i - 1 \in Nat /\ ~(Len(t) < i - 1)
        BY <1>8, <2>2
    <3>4. /\ Lists(ahead, ToSet(ahead)) /\ Len(ahead) = i - 1
          /\ DOMAIN ahead = 1..Len(ahead) /\ \A k \in 1..Len(ahead) : ahead[k] = t[k]
      <4> HIDE DEF R
      <4> QED BY <1>7, <3>3, CutLists
    <3>5. Nearer(q) \subseteq ToSet(ahead)
      <4> SUFFICES ASSUME NEW r \in Nearer(q) PROVE r \in ToSet(ahead)
          OBVIOUS
      <4>1. r \in R /\ Key(r) >= Key(q) /\ Key(r) \in Nat
          BY <2>3, <3>1 DEF Nearer, Key
      <4>2. PICK k \in 1..Len(t) : r = t[k]
          BY <1>7, <1>8, <4>1 DEF Lists, ToSet
      <4>3. k # i
          BY <2>1, <2>3, <4>1, <4>2
      <4>4. ~(i < k)
          BY <1>7, <1>8, <2>1, <2>2, <2>3, <4>1, <4>2
      <4>5. k \in 1..Len(ahead)
          BY <1>8, <2>2, <3>4, <4>2, <4>3, <4>4
      <4> QED BY <3>4, <4>2, <4>5 DEF ToSet
    <3>6. IsFiniteSet(ToSet(ahead)) /\ Cardinality(ToSet(ahead)) = i - 1
        BY <3>4, ListCounts
    <3>7. Cardinality(Nearer(q)) <= i - 1 /\ Cardinality(Nearer(q)) \in Nat
        BY <3>5, <3>6, FS_Subset, FS_CardinalityType
    <3> QED BY <1>6, <2>2, <3>2, <3>7
  <2> QED BY <2>4, <2>5
<1>14. QueryTypeOK'
  <2>1. results' \in Seq(Points)
      BY <1>6, <1>9, SeqMonotonic DEF Lists
  <2>2. Len(results') <= n
      BY <1>6, <1>8, <1>9
  <2> QED BY <1>1, <1>2, <2>1, <2>2, ContentsStay DEF QueryTypeOK
<1>15. given \subseteq Wanted
    BY <1>3, <1>9
<1>16. AnswerRight'
  <2> HIDE DEF given, m, R
  <2>1. given = ToSet(results)'
      BY DEF given
  <2> QED BY <1>2, <1>9, <1>10, <1>11, <1>12, <1>13, <1>14, <1>15, <2>1, ContentsStay
          DEF AnswerRight
<1> QED BY <1>1, <1>14, <1>16 DEF QueryInv

LEMMA QueryStutters ==
    ASSUME QueryInv, UNCHANGED queryVars
    PROVE  QueryInv'
<1>1. /\ UNCHANGED contents /\ left' = left /\ offset' = offset /\ results' = results
      /\ pc' = pc
    BY DEF queryVars
<1>2. QueryTypeOK'
    BY <1>1, ContentsStay DEF QueryInv, QueryTypeOK
<1>3. VisitOK => VisitOK'
  <2>1. \A p : (Passed(p)' <=> Passed(p)) /\ (Crowded(p)' <=> Crowded(p))
      BY <1>1, ContentsStay DEF Passed, Crowded, Nearer
  <2> QED BY <1>1, <2>1, ContentsStay DEF VisitOK
<1>4. AnswerRight => AnswerRight'
    BY <1>1, <1>2, ContentsStay DEF AnswerRight
<1> QED BY <1>1, <1>2, <1>3, <1>4 DEF QueryInv

LEMMA QueryInvariant == QuerySpec => []QueryInv
<1>1. QueryInv /\ [QueryNext]_queryVars => QueryInv'
    BY SkipStep, SearchStep, ScrollStep, EnoughStep, SortAndCutStep, QueryStutters DEF QueryNext
<1> QED BY <1>1, QueryStarts, PTL DEF QuerySpec

(* An answer of search_rag or get_knowledge_points has only what was asked *)
(* for, sorted, each point once, and all of it or as much as the limit     *)
(* allows; a vector search never misses the best, nor does a listing while *)
(* no collection is cut (service.py).                                      *)
THEOREM QueryAnswersRight == QuerySpec => []AnswerRight
<1>1. QueryInv => AnswerRight
  <2>1. QueryTypeOK => pc \in {"visit", "answered"}
      BY DEF QueryTypeOK
  <2> QED BY <2>1 DEF QueryInv, AnswerRight
<1> QED BY <1>1, QueryInvariant, PTL

-----------------------------------------------------------------------------
(* That there is a page to take, and an order to sort by *)

\* R orders S strictly, no two members apart.
Orders(R, S) ==
    /\ \A p \in S : <<p, p>> \notin R
    /\ \A p, q, r \in S : <<p, q>> \in R /\ <<q, r>> \in R => <<p, r>> \in R
    /\ \A p, q \in S : p = q \/ <<p, q>> \in R \/ <<q, p>> \in R

InOrder(s, R) == \A j, k \in DOMAIN s : j < k => <<s[j], s[k]>> \in R

LEMMA ListsSetToSeqs ==
    ASSUME NEW s, NEW S, Lists(s, S)
    PROVE  s \in SetToSeqs(S)
<1>1. Len(s) \in Nat /\ DOMAIN s = 1..Len(s) /\ Cardinality(S) = Len(s)
    BY ListCounts
<1>2. s \in [1..Cardinality(S) -> S]
    BY <1>1, LenProperties DEF Lists
<1>3. \A j, k \in 1..Cardinality(S) : j # k => s[j] # s[k]
    BY <1>1 DEF Lists, IsInjective
<1> QED BY <1>2, <1>3 DEF SetToSeqs

\* The place of p is the number of those up to it.
LEMMA Enumeration ==
    ASSUME NEW S, IsFiniteSet(S), NEW R, Orders(R, S)
    PROVE  \E s : Lists(s, S) /\ InOrder(s, R)
<1> DEFINE n == Cardinality(S)
           UpTo(p) == {q \in S : q = p \/ <<q, p>> \in R}
           place == [p \in S |-> Cardinality(UpTo(p))]
<1>1. n \in Nat /\ IsFiniteSet(1..n) /\ Cardinality(1..n) = n
  <2> HIDE DEF n
  <2>1. n \in Nat
      BY FS_CardinalityType DEF n
  <2>2. IsFiniteSet(1..n) /\ Cardinality(1..n) = IF 1 > n THEN 0 ELSE n - 1 + 1
      BY <2>1, FS_Interval
  <2> QED BY <2>1, <2>2
<1>2. \A p \in S : /\ UpTo(p) \subseteq S /\ IsFiniteSet(UpTo(p))
                   /\ Cardinality(UpTo(p)) \in 1..n
  <2> TAKE p \in S
  <2>1. UpTo(p) \subseteq S /\ p \in UpTo(p)
      OBVIOUS
  <2>2. IsFiniteSet(UpTo(p)) /\ Cardinality(UpTo(p)) <= n
      BY <2>1, FS_Subset
  <2>3. Cardinality(UpTo(p)) \in Nat /\ Cardinality(UpTo(p)) # 0
      BY <2>1, <2>2, FS_CardinalityType, FS_EmptySet
  <2> HIDE DEF UpTo, n
  <2> QED BY <1>1, <2>1, <2>2, <2>3
<1>3. \A p, q \in S : <<p, q>> \in R => place[p] < place[q]
  <2> SUFFICES ASSUME NEW p \in S, NEW q \in S, <<p, q>> \in R
               PROVE  Cardinality(UpTo(p)) < Cardinality(UpTo(q))
      OBVIOUS
  <2>1. UpTo(p) \subseteq UpTo(q) /\ q \in UpTo(q) /\ q \notin UpTo(p)
      BY DEF Orders
  <2>2. /\ Cardinality(UpTo(p)) <= Cardinality(UpTo(q))
        /\ Cardinality(UpTo(p)) # Cardinality(UpTo(q))
      BY <1>2, <2>1, FS_Subset
  <2> HIDE DEF UpTo, n
  <2> QED BY <1>1, <1>2, <2>2
<1>4. place \in [S -> 1..n] /\ \A p \in S : place[p] \in 1..n
    BY <1>2
<1> HIDE DEF place, n
<1>5. \A p, q \in S : place[p] = place[q] => p = q
  <2> SUFFICES ASSUME NEW p \in S, NEW q \in S, place[p] = place[q]
               PROVE  p = q
      OBVIOUS
  <2>1. place[p] \in Int /\ place[q] \in Int
      BY <1>1, <1>4
  <2>2. ~(place[p] < place[q]) /\ ~(place[q] < place[p])
      BY <2>1
  <2>3. <<p, q>> \notin R /\ <<q, p>> \notin R
      BY <1>3, <2>2
  <2> QED BY <2>3 DEF Orders
<1>6. place \in Injection(S, 1..n)
    BY <1>4, <1>5 DEF Injection, IsInjective
<1>7. place \in Surjection(S, 1..n)
    BY <1>1, <1>6, FS_Injection DEF n
<1>8. \A k \in 1..n : \E p \in S : place[p] = k
    BY <1>7 DEF Surjection
<1> DEFINE s == [k \in 1..n |-> CHOOSE p \in S : place[p] = k]
<1>9. s \in [1..n -> S] /\ \A k \in 1..n : s[k] \in S /\ place[s[k]] = k
    BY <1>8
<1>10. s \in Seq(S) /\ Len(s) = n /\ DOMAIN s = 1..n
    BY <1>1, <1>9, SeqDef, LenProperties
<1> HIDE DEF s
<1>11. IsInjective(s)
    BY <1>9, <1>10 DEF IsInjective
<1>12. S \subseteq ToSet(s)
  <2> SUFFICES ASSUME NEW p \in S PROVE p \in ToSet(s)
      OBVIOUS
  <2>1. place[p] \in 1..n /\ s[place[p]] = p
      BY <1>4, <1>5, <1>9
  <2> QED BY <1>10, <2>1 DEF ToSet
<1>13. ToSet(s) = S
    BY <1>10, <1>11, <1>12, InjectiveLists
<1>14. InOrder(s, R)
  <2> SUFFICES ASSUME NEW j \in 1..n, NEW k \in 1..n, j < k
               PROVE  <<s[j], s[k]>> \in R
      BY <1>10 DEF InOrder
  <2>1. s[j] \in S /\ s[k] \in S /\ place[s[j]] = j /\ place[s[k]] = k
      BY <1>9
  <2>2. s[j] # s[k] /\ <<s[k], s[j]>> \notin R
      BY <1>3, <2>1
  <2> QED BY <2>1, <2>2 DEF Orders
<1> QED BY <1>10, <1>11, <1>13, <1>14 DEF Lists

LEMMA SomePage ==
    ASSUME NEW S, IsFiniteSet(S), NEW n \in Nat, NEW R, Orders(R, S)
    PROVE  \E batch \in Pages(S, n) :
             /\ InOrder(batch, R)
             /\ \A p \in ToSet(batch), q \in S \ ToSet(batch) : <<p, q>> \in R
<1>1. PICK s : Lists(s, S) /\ InOrder(s, R)
    BY Enumeration
<1>2. Len(s) \in Nat /\ DOMAIN s = 1..Len(s) /\ Cardinality(S) = Len(s)
    BY <1>1, ListCounts
<1> DEFINE m == IF Len(s) < n THEN Len(s) ELSE n
           cut == SubSeq(s, 1, m)
<1>3. /\ Lists(cut, ToSet(cut)) /\ ToSet(cut) \subseteq S /\ Len(cut) = m
      /\ DOMAIN cut = 1..Len(cut) /\ \A k \in 1..Len(cut) : cut[k] = s[k]
    BY <1>1, CutLists
<1>4. m \in Nat /\ m <= Len(s)
    BY <1>2
<1>5. m = IF Cardinality(S) < n THEN Cardinality(S) ELSE n
    BY <1>2
<1> HIDE DEF m, cut
<1>6. cut \in Pages(S, n)
    BY <1>3, <1>5, ListsSetToSeqs DEF Pages
<1>7. InOrder(cut, R)
  <2>1. \A k \in 1..m : k \in 1..Len(s)
      BY <1>2, <1>4
  <2> QED BY <1>1, <1>2, <1>3, <2>1 DEF InOrder
<1>8. ASSUME NEW p \in ToSet(cut), NEW q \in S \ ToSet(cut)
      PROVE  <<p, q>> \in R
  <2>1. PICK j \in 1..m : p = s[j]
      BY <1>3 DEF ToSet
  <2>2. PICK k \in 1..Len(s) : q = s[k]
      BY <1>1, <1>2 DEF Lists, ToSet
  <2>3. k \notin 1..m
      BY <1>3, <1>8, <2>2 DEF ToSet
  <2>4. j \in 1..Len(s) /\ j < k
      BY <1>2, <1>4, <2>3
  <2> QED BY <1>1, <1>2, <2>1, <2>2, <2>4 DEF InOrder
<1> QED BY <1>6, <1>7, <1>8

LEMMA PagesThere ==
    ASSUME QueryTypeOK, NEW S \in SUBSET Points, NEW n \in Nat
    PROVE  First(S, n) # {} /\ Nearest(S, n) # {}
<1>1. IsFiniteSet(S) /\ \A p \in S : p \in Nat /\ point[p].rank \in Nat
    BY QueryAssumption, QueryData, FS_Subset
<1>2. First(S, n) # {}
  <2> DEFINE R == {pq \in S \X S : pq[1] < pq[2]}
  <2>1. \A p, q \in S : <<p, q>> \in R <=> p < q
      OBVIOUS
  <2> HIDE DEF R
  <2>2. Orders(R, S)
      BY <1>1, <2>1 DEF Orders
  <2>3. PICK batch \in Pages(S, n) :
          /\ InOrder(batch, R)
          /\ \A p \in ToSet(batch), q \in S \ ToSet(batch) : <<p, q>> \in R
      BY <1>1, <2>2, SomePage
  <2>4. ToSet(batch) \subseteq S
      BY <1>1, PagesList
  <2> QED BY <2>1, <2>3, <2>4 DEF First, InOrder, ToSet
<1>3. Nearest(S, n) # {}
  <2> DEFINE Ahead(p, q) == \/ point[p].rank > point[q].rank
                            \/ point[p].rank = point[q].rank /\ p < q
             R == {pq \in S \X S : Ahead(pq[1], pq[2])}
  <2>1. \A p, q \in S : <<p, q>> \in R <=> Ahead(p, q)
      OBVIOUS
  <2> HIDE DEF R
  <2>2. Orders(R, S)
      BY <1>1, <2>1 DEF Orders
  <2>3. PICK batch \in Pages(S, n) :
          /\ InOrder(batch, R)
          /\ \A p \in ToSet(batch), q \in S \ ToSet(batch) : <<p, q>> \in R
      BY <1>1, <2>2, SomePage
  <2>4. ToSet(batch) \subseteq S
      BY <1>1, PagesList
  <2>5. \A p, q \in S : <<p, q>> \in R => point[p].rank >= point[q].rank
      BY <1>1, <2>1
  <2> QED BY <2>3, <2>4, <2>5 DEF Nearest, InOrder, ToSet
<1> QED BY <1>2, <1>3

LEMMA SortingThere ==
    ASSUME QueryTypeOK
    PROVE  Sortings(results) # {}
<1> DEFINE n == Len(results)
           D == 1..n
           Before(j, k) == \/ Key(results[j]) > Key(results[k])
                           \/ Key(results[j]) = Key(results[k]) /\ j < k
           R == {jk \in D \X D : Before(jk[1], jk[2])}
<1>1. n \in Nat /\ DOMAIN results = D /\ \A k \in D : Key(results[k]) \in Nat
  <2>1. results \in Seq(Points)
      BY DEF QueryTypeOK
  <2>2. n \in Nat /\ DOMAIN results = D /\ \A k \in D : results[k] \in Points
      BY <2>1, LenProperties
  <2> QED BY <2>2, QueryData
<1>2. IsFiniteSet(D)
  <2> HIDE DEF n
  <2> QED BY <1>1, FS_Interval
<1>3. \A j, k \in D : <<j, k>> \in R <=> Before(j, k)
    OBVIOUS
<1>4. \A j \in D : j \in Nat
    BY <1>1
<1> HIDE DEF R, D
<1>5. Orders(R, D)
    BY <1>1, <1>3, <1>4 DEF Orders
<1>6. PICK o : Lists(o, D) /\ InOrder(o, R)
    BY <1>2, <1>5, Enumeration
<1>7. o \in SetToSeqs(DOMAIN results)
    BY <1>1, <1>6, ListsSetToSeqs
<1>8. DOMAIN o = D /\ \A k \in D : o[k] \in D
  <2>1. Cardinality(D) = Len(o) /\ DOMAIN o = 1..Len(o)
      BY <1>6, ListCounts
  <2>2. Cardinality(D) = n
    <3> HIDE DEF n
    <3>1. n \in Int /\ 1 \in Int
        BY <1>1
    <3>2. Cardinality(1..n) = IF 1 > n THEN 0 ELSE n - 1 + 1
        BY <3>1, FS_Interval
    <3> QED BY <1>1, <3>2 DEF D
  <2> QED BY <1>6, <2>1, <2>2 DEF D, Lists
<1>9. \A j, k \in DOMAIN results : j < k => Before(o[j], o[k])
    BY <1>1, <1>3, <1>6, <1>8 DEF InOrder
<1>10. [k \in DOMAIN results |-> results[o[k]]] \in Sortings(results)
    BY <1>7, <1>9 DEF Sortings
<1> QED BY <1>10

\* What the next step of a request takes its choice from is there.
Answerable ==
    /\ \A S \in SUBSET Points, n \in Nat : First(S, n) # {} /\ Nearest(S, n) # {}
    /\ Sortings(results) # {}

(* No search is stuck: whatever a collection holds there is a page of it,  *)
(* however often similarities are equal, and whatever was found can be     *)
(* sorted (service.py, search_rag and get_knowledge_points).               *)
THEOREM QueryNotStuck == QuerySpec => []Answerable
<1>1. QueryInv => Answerable
    BY PagesThere, SortingThere DEF QueryInv, Answerable
<1> QED BY <1>1, QueryInvariant, PTL

-----------------------------------------------------------------------------
(* The bulk upload *)

Working == {"read", "rows", "save"}

\* A task's status s, when its background work is at j.
StatusOK(s, j) ==
    /\ j \in {"none", "lost"} => s = None
    /\ j \in Working => s \in Status /\ ~s.done
    /\ j \in {"read", "rows"} => s.error = 0
    /\ j = "save" => s.error \in Rows
    /\ j = "over" => s = None \/ s.done

PollOK(p) ==
    p # None /\ p.answer # None /\ p.answer.done =>
        job[p.task] = "over" /\ task[p.task] \in {None, p.answer}

\* What the page shows of an upload that is over.
ShowsFinal ==
    /\ page.current # None /\ job[page.current] = "over"
    /\ task[page.current] # None =>
         /\ page.total = task[page.current].total
         /\ page.success = task[page.current].success
         /\ page.error = task[page.current].error

OneAtATime ==
    /\ timers \subseteq {page.current}
    /\ ~page.overlay \/ page.upload # None \/ page.over => timers = {}
    /\ \A i \in Polls : poll[i] # None => poll[i].task = page.current /\ page.upload = None
    /\ ~page.overlay \/ page.over => page.upload = None
    /\ page.over => ShowsFinal
    /\ page.offer => page.over /\ page.error > 0

\* The error file f of a task that is over without a mishap.
FileOK(s, f) ==
    /\ s \in Status /\ s # None
    /\ s.error > 0 => s.errorFile /\ f = s.error

BulkInv ==
    /\ BulkTypeOK
    /\ \A t \in Tasks : StatusOK(task[t], job[t])
    /\ \A i \in Polls : PollOK(poll[i])
    /\ "late" \notin mishap => OneAtATime
    /\ mishap = {} => \A t \in Tasks : job[t] = "over" => FileOK(task[t], file[t])

-----------------------------------------------------------------------------
(* Helpers *)

LEMMA NoteOK ==
    ASSUME BulkInv, NEW kind \in Mishaps, NEW happened \in BOOLEAN, Note(kind, happened)
    PROVE  /\ mishap' \subseteq Mishaps /\ mishap \subseteq mishap'
           /\ happened => kind \in mishap'
           /\ \A k : k # kind => (k \in mishap' <=> k \in mishap)
BY DEF BulkInv, BulkTypeOK, Note

\* A task, or its job, becomes what is said of it.
LEMMA TaskStep ==
    ASSUME BulkInv, NEW t \in Tasks, NEW s \in Status,
           NEW j \in {"none", "read", "rows", "save", "over", "lost"},
           task' = [task EXCEPT ![t] = s], job' = [job EXCEPT ![t] = j]
    PROVE  /\ task' \in [Tasks -> Status \cup {None}]
           /\ job' \in [Tasks -> {"none", "read", "rows", "save", "over", "lost"}]
           /\ \A u \in Tasks : task'[u] = IF u = t THEN s ELSE task[u]
           /\ \A u \in Tasks : job'[u] = IF u = t THEN j ELSE job[u]
<1>1. \A u \in Tasks : task'[u] = IF u = t THEN s ELSE task[u]
  BY DEF BulkInv, BulkTypeOK
<1>2. \A u \in Tasks : job'[u] = IF u = t THEN j ELSE job[u]
  BY DEF BulkInv, BulkTypeOK
<1>3. QED
  BY <1>1, <1>2 DEF BulkInv, BulkTypeOK

\* Poll i becomes p.
LEMMA PollStep ==
    ASSUME BulkInv, NEW i \in Polls, NEW p \in Poll \cup {None},
           poll' = [poll EXCEPT ![i] = p]
    PROVE  /\ poll' \in [Polls -> Poll \cup {None}]
           /\ \A k \in Polls : poll'[k] = IF k = i THEN p ELSE poll[k]
BY DEF BulkInv, BulkTypeOK

-----------------------------------------------------------------------------
(* process_bulk_upload_task *)

\* The work on t goes from one of its awaits to the next, or ends.
LEMMA WorkStep ==
    ASSUME BulkInv, NEW t \in Tasks, job[t] \in Working,
           NEW s \in Status, NEW j \in {"rows", "save", "over"},
           task' = [task EXCEPT ![t] = s], job' = [job EXCEPT ![t] = j],
           StatusOK(s, j),
           NEW f \in (1..MaxRows) \cup {None}, file' = [file EXCEPT ![t] = f],
           mishap \subseteq mishap', mishap' \subseteq Mishaps,
           "late" \in mishap' => "late" \in mishap,
           mishap' = {} /\ j = "over" => FileOK(s, f),
           UNCHANGED <<timers, poll, page>>
    PROVE  BulkInv'
<1>1. /\ task' \in [Tasks -> Status \cup {None}]
      /\ job' \in [Tasks -> {"none", "read", "rows", "save", "over", "lost"}]
      /\ \A u \in Tasks : task'[u] = IF u = t THEN s ELSE task[u]
      /\ \A u \in Tasks : job'[u] = IF u = t THEN j ELSE job[u]
  BY TaskStep
<1>2. /\ file' \in [Tasks -> (1..MaxRows) \cup {None}]
      /\ \A u \in Tasks : file'[u] = IF u = t THEN f ELSE file[u]
  BY DEF BulkInv, BulkTypeOK
<1>3. BulkTypeOK'
  BY <1>1, <1>2 DEF BulkInv, BulkTypeOK
<1>4. \A u \in Tasks : StatusOK(task'[u], job'[u])
  BY <1>1 DEF BulkInv
<1>5. job[t] # "over"
  BY DEF Working
<1>6. ASSUME NEW i \in Polls
      PROVE  PollOK(poll[i])'
  <2>1. poll[i] # None => poll[i].task \in Tasks
    BY DEF BulkInv, BulkTypeOK, Poll
  <2>2. QED
    BY <1>1, <1>5, <2>1 DEF BulkInv, PollOK
<1>7. "late" \notin mishap' => OneAtATime'
  <2>1. SUFFICES ASSUME OneAtATime
                 PROVE  OneAtATime'
    BY DEF BulkInv
  <2>2. page.current \in Tasks \cup {None}
    BY DEF BulkInv, BulkTypeOK, Page
  <2>3. ShowsFinal => ShowsFinal'
    BY <1>1, <1>5, <2>2 DEF ShowsFinal
  <2>4. QED
    BY <2>1, <2>3 DEF OneAtATime
<1>8. mishap' = {} => \A u \in Tasks : job'[u] = "over" => FileOK(task'[u], file'[u])
  BY <1>1, <1>2 DEF BulkInv
<1>9. QED
  BY <1>3, <1>4, <1>6, <1>7, <1>8 DEF BulkInv

\* Fail, from any of the steps.
LEMMA FailStep ==
    ASSUME BulkInv, NEW t \in Tasks, job[t] \in Working, Fail(t),
           UNCHANGED <<file, timers, poll, page>>
    PROVE  BulkInv'
<1> DEFINE s == [task[t] EXCEPT !.error = @ + 1, !.done = TRUE]
<1>1. task[t] \in Status /\ task[t].error \in Rows /\ MaxRows \in Nat
  BY BulkAssumption DEF BulkInv, StatusOK, Working, Rows
<1>2. task[t].error + 1 \in Errors
  BY <1>1 DEF Rows, Errors
<1>3. s \in Status /\ s.done
  BY <1>1, <1>2 DEF Status
<1>4. task' = [task EXCEPT ![t] = s] /\ job' = [job EXCEPT ![t] = "over"]
  BY DEF Fail, BulkInv, BulkTypeOK
<1> HIDE DEF s
<1>5. StatusOK(s, "over")
  BY <1>3 DEF StatusOK, Working
<1>6. /\ file[t] \in (1..MaxRows) \cup {None} /\ file' = [file EXCEPT ![t] = file[t]]
  BY DEF BulkInv, BulkTypeOK
<1>7. /\ mishap \subseteq mishap' /\ mishap' \subseteq Mishaps /\ "failed" \in mishap'
      /\ "late" \in mishap' => "late" \in mishap
  BY NoteOK DEF Fail, Mishaps
<1>8. mishap' # {}
  BY <1>7
<1>9. QED
  BY <1>3, <1>4, <1>5, <1>6, <1>7, <1>8, WorkStep

LEMMA ReadStep ==
    ASSUME BulkInv, NEW t \in Tasks, ReadFile(t)
    PROVE  BulkInv'
<1>1. job[t] = "read" /\ job[t] \in Working /\ UNCHANGED <<file, timers, poll, page>>
  BY DEF ReadFile, Working
<1>2. CASE Fail(t)
  BY <1>1, <1>2, FailStep
<1>3. CASE ~Fail(t)
  <2>1. PICK n \in Rows : task' = [task EXCEPT ![t].total = n]
    BY <1>3 DEF ReadFile
  <2> DEFINE s == [task[t] EXCEPT !.total = n]
  <2>2. task[t] \in Status /\ ~task[t].done /\ task[t].error = 0
    BY <1>1 DEF BulkInv, StatusOK
  <2>3. s \in Status /\ s.done = task[t].done /\ s.error = task[t].error
    BY <2>2 DEF Status
  <2>4. task' = [task EXCEPT ![t] = s] /\ job' = [job EXCEPT ![t] = "rows"] /\ mishap' = mishap
    BY <1>3, <2>1 DEF ReadFile, BulkInv, BulkTypeOK
  <2> HIDE DEF s
  <2>5. StatusOK(s, "rows")
    BY <2>2, <2>3 DEF StatusOK, Working
  <2>6. file[t] \in (1..MaxRows) \cup {None} /\ file' = [file EXCEPT ![t] = file[t]]
    BY <1>1 DEF BulkInv, BulkTypeOK
  <2>7. mishap \subseteq Mishaps
    BY DEF BulkInv, BulkTypeOK
  <2>8. QED
    BY <1>1, <2>3, <2>4, <2>5, <2>6, <2>7, WorkStep
<1>4. QED
  BY <1>2, <1>3

LEMMA RowsStep ==
    ASSUME BulkInv, NEW t \in Tasks, UploadRows(t)
    PROVE  BulkInv'
<1>1. job[t] = "rows" /\ job[t] \in Working /\ UNCHANGED <<file, timers, poll, page>>
  BY DEF UploadRows, Working
<1>2. CASE Fail(t)
  BY <1>1, <1>2, FailStep
<1>3. CASE ~Fail(t)
  <2>1. PICK n \in 0..task[t].total :
          task' = [task EXCEPT ![t].success = n, ![t].error = task[t].total - n]
    BY <1>3 DEF UploadRows
  <2> DEFINE s == [task[t] EXCEPT !.success = n, !.error = task[t].total - n]
  <2>2. task[t] \in Status /\ ~task[t].done /\ task[t].total \in Rows /\ MaxRows \in Nat
    BY <1>1, BulkAssumption DEF BulkInv, StatusOK, Working, Status
  <2>3. n \in Rows /\ task[t].total - n \in Rows /\ task[t].total - n \in Errors
    BY <2>2 DEF Rows, Errors
  <2>4. s \in Status /\ s.done = task[t].done /\ s.error = task[t].total - n
    BY <2>2, <2>3 DEF Status
  <2>5. task' = [task EXCEPT ![t] = s] /\ job' = [job EXCEPT ![t] = "save"] /\ mishap' = mishap
    BY <1>3, <2>1 DEF UploadRows, BulkInv, BulkTypeOK
  <2> HIDE DEF s
  <2>6. StatusOK(s, "save")
    BY <2>2, <2>3, <2>4 DEF StatusOK, Working
  <2>7. file[t] \in (1..MaxRows) \cup {None} /\ file' = [file EXCEPT ![t] = file[t]]
    BY <1>1 DEF BulkInv, BulkTypeOK
  <2>8. mishap \subseteq Mishaps
    BY DEF BulkInv, BulkTypeOK
  <2>9. QED
    BY <1>1, <2>4, <2>5, <2>6, <2>7, <2>8, WorkStep
<1>4. QED
  BY <1>2, <1>3

LEMMA SaveStep ==
    ASSUME BulkInv, NEW t \in Tasks, SaveErrors(t)
    PROVE  BulkInv'
<1>1. job[t] = "save" /\ job[t] \in Working /\ UNCHANGED <<timers, poll, page>>
  BY DEF SaveErrors, Working
<1>2. CASE Fail(t) /\ UNCHANGED file
  BY <1>1, <1>2, FailStep
<1>3. CASE ~(Fail(t) /\ UNCHANGED file)
  <2> DEFINE failed == task[t].error > 0
             s == [task[t] EXCEPT !.done = TRUE, !.errorFile = failed]
             f == IF failed THEN task[t].error ELSE file[t]
  <2>1. task[t] \in Status /\ task[t].error \in Rows /\ MaxRows \in Nat
    BY <1>1, BulkAssumption DEF BulkInv, StatusOK, Working
  <2>2. /\ task' = [task EXCEPT ![t] = s] /\ job' = [job EXCEPT ![t] = "over"]
        /\ mishap' = mishap
        /\ file' = IF failed THEN [file EXCEPT ![t] = task[t].error] ELSE file
    BY <1>3 DEF SaveErrors, BulkInv, BulkTypeOK
  <2>3. f \in (1..MaxRows) \cup {None} /\ file' = [file EXCEPT ![t] = f]
    <3>1. file \in [Tasks -> (1..MaxRows) \cup {None}]
      BY DEF BulkInv, BulkTypeOK
    <3>2. CASE failed
      <4>1. f = task[t].error /\ task[t].error \in 1..MaxRows
        BY <2>1, <3>2 DEF Rows
      <4>2. QED
        BY <2>2, <3>2, <4>1
    <3>3. CASE ~failed
      <4>1. f = file[t] /\ file' = file
        BY <2>2, <3>3
      <4>2. QED
        BY <3>1, <4>1
    <3>4. QED
      BY <3>2, <3>3
  <2>4. failed \in BOOLEAN /\ (failed <=> task[t].error > 0)
    BY <2>1 DEF Rows
  <2>5. failed => f = task[t].error
    OBVIOUS
  <2> HIDE DEF failed, f
  <2>6. s \in Status /\ s.done /\ s.errorFile = failed /\ s.error = task[t].error
    BY <2>1, <2>4 DEF Status
  <2> HIDE DEF s
  <2>7. StatusOK(s, "over") /\ FileOK(s, f)
    BY <2>4, <2>5, <2>6, BulkAssumption DEF StatusOK, Working, FileOK
  <2>8. mishap \subseteq Mishaps
    BY DEF BulkInv, BulkTypeOK
  <2>9. QED
    BY <1>1, <2>2, <2>3, <2>6, <2>7, <2>8, WorkStep
<1>4. QED
  BY <1>2, <1>3

\* Only "over" tasks keep their job, all statuses are gone.
LEMMA RestartStep ==
    ASSUME BulkInv, Restart
    PROVE  BulkInv'
<1>1. /\ task' = [t \in Tasks |-> None] /\ UNCHANGED <<file, timers, page>>
      /\ mishap' \subseteq Mishaps /\ "restart" \in mishap'
      /\ "late" \in mishap => "late" \in mishap'
  BY NoteOK DEF Restart, Mishaps
<1>2. \A t \in Tasks :
        job'[t] = IF job[t] \in {"none", "over"} THEN job[t] ELSE "lost"
  BY DEF Restart
<1>3. \A i \in Polls :
        poll'[i] = IF poll[i] # None /\ ~poll[i].back THEN None ELSE poll[i]
  BY DEF Restart
<1>4. BulkTypeOK'
  <2>1. job' \in [Tasks -> {"none", "read", "rows", "save", "over", "lost"}]
    BY <1>2 DEF Restart, BulkInv, BulkTypeOK
  <2>2. poll' \in [Polls -> Poll \cup {None}]
    BY <1>3 DEF Restart, BulkInv, BulkTypeOK
  <2>3. QED
    BY <1>1, <2>1, <2>2 DEF BulkInv, BulkTypeOK
<1>5. \A t \in Tasks : StatusOK(task'[t], job'[t])
  BY <1>1, <1>2 DEF StatusOK, Working
<1>6. ASSUME NEW i \in Polls
      PROVE  PollOK(poll[i])'
  <2>1. poll[i] # None => poll[i].task \in Tasks
    BY DEF BulkInv, BulkTypeOK, Poll
  <2>2. CASE poll'[i] = None
    BY <2>2 DEF PollOK
  <2>3. CASE poll'[i] = poll[i]
    BY <1>1, <1>2, <2>1, <2>3 DEF BulkInv, PollOK
  <2>4. QED
    BY <1>3, <2>2, <2>3
<1>7. "late" \notin mishap' => OneAtATime'
  <2>1. SUFFICES ASSUME OneAtATime
                 PROVE  OneAtATime'
    BY <1>1 DEF BulkInv
  <2>2. ShowsFinal => ShowsFinal'
    BY <1>1, <1>2 DEF ShowsFinal, BulkInv, BulkTypeOK, Page
  <2>3. \A i \in Polls : poll'[i] # None => poll[i] # None /\ poll'[i] = poll[i]
    BY <1>3
  <2>4. QED
    BY <1>1, <2>1, <2>2, <2>3 DEF OneAtATime
<1>8. mishap' # {}
  BY <1>1
<1>9. QED
  BY <1>4, <1>5, <1>6, <1>7, <1>8 DEF BulkInv

-----------------------------------------------------------------------------
(* The page *)

\* The page changes, but for what it shows of the server's.
LEMMA PageStep ==
    ASSUME BulkInv, page' \in Page, timers' \subseteq Tasks, UNCHANGED <<task, job, file, poll, mishap>>,
           "late" \notin mishap => OneAtATime'
    PROVE  BulkInv'
<1>1. BulkTypeOK'
  BY DEF BulkInv, BulkTypeOK
<1>2. \A i \in Polls : PollOK(poll[i])'
  BY DEF BulkInv, PollOK
<1>3. QED
  BY <1>1, <1>2 DEF BulkInv

LEMMA StartStep ==
    ASSUME BulkInv, NEW t \in Tasks, StartUpload(t)
    PROVE  BulkInv'
<1>1. /\ ~page.overlay /\ job[t] = "none" /\ job' = [job EXCEPT ![t] = "read"]
      /\ task' = [task EXCEPT ![t] = NewStatus] /\ UNCHANGED <<file, timers, poll>>
  BY DEF StartUpload
<1>2. NewStatus \in Status /\ StatusOK(NewStatus, "read")
  BY BulkAssumption DEF NewStatus, Status, StatusOK, Working, Rows, Errors
<1>3. /\ task' \in [Tasks -> Status \cup {None}]
      /\ job' \in [Tasks -> {"none", "read", "rows", "save", "over", "lost"}]
      /\ \A u \in Tasks : task'[u] = IF u = t THEN NewStatus ELSE task[u]
      /\ \A u \in Tasks : job'[u] = IF u = t THEN "read" ELSE job[u]
  BY <1>1, <1>2, TaskStep
<1>4. /\ page' \in Page /\ page'.overlay /\ page'.upload = t /\ page'.current = page.current
      /\ ~page'.over /\ ~page'.offer
  <2> DEFINE r == Cleared(page.current)
  <2>1. page.current \in Tasks \cup {None} /\ 0 \in Rows /\ 0 \in Errors
    BY BulkAssumption DEF BulkInv, BulkTypeOK, Page, Rows, Errors
  <2>2. r \in Page /\ r.overlay /\ r.current = page.current /\ ~r.over /\ ~r.offer
    BY <2>1 DEF Cleared, Page
  <2>3. page' = [r EXCEPT !.upload = t]
    BY DEF StartUpload
  <2> HIDE DEF r
  <2>4. QED
    BY <2>2, <2>3 DEF Page
<1>5. /\ mishap' \subseteq Mishaps /\ mishap \subseteq mishap'
      /\ (\E i \in Polls : poll[i] # None) => "late" \in mishap'
  BY NoteOK DEF StartUpload, Mishaps
<1>6. BulkTypeOK'
  BY <1>1, <1>3, <1>4, <1>5 DEF BulkInv, BulkTypeOK
<1>7. \A u \in Tasks : StatusOK(task'[u], job'[u])
  BY <1>2, <1>3 DEF BulkInv
<1>8. ASSUME NEW i \in Polls
      PROVE  PollOK(poll[i])'
  <2>1. poll[i] # None => poll[i].task \in Tasks
    BY DEF BulkInv, BulkTypeOK, Poll
  <2>2. QED
    BY <1>1, <1>3, <2>1 DEF BulkInv, PollOK
<1>9. "late" \notin mishap' => OneAtATime'
  BY <1>1, <1>4, <1>5 DEF BulkInv, OneAtATime
<1>10. mishap' = {} => \A u \in Tasks : job'[u] = "over" => FileOK(task'[u], file'[u])
  BY <1>1, <1>3, <1>5 DEF BulkInv
<1>11. QED
  BY <1>6, <1>7, <1>8, <1>9, <1>10 DEF BulkInv

LEMMA AnsweredStep ==
    ASSUME BulkInv, UploadAnswered
    PROVE  BulkInv'
<1>1. page \in Page /\ page.upload \in Tasks /\ page.upload # None
  BY DEF UploadAnswered, BulkInv, BulkTypeOK, Page
<1>2. /\ page' \in Page /\ page'.current = page.upload /\ page'.upload = None
      /\ page'.overlay = page.overlay /\ page'.over = page.over /\ page'.offer = page.offer
  BY <1>1 DEF UploadAnswered, Page
<1>3. timers' = timers \cup {page.upload} /\ UNCHANGED <<task, job, file, poll, mishap>>
  BY DEF UploadAnswered
<1>4. timers' \subseteq Tasks
  BY <1>1, <1>3 DEF BulkInv, BulkTypeOK
<1>5. "late" \notin mishap => OneAtATime'
  BY <1>1, <1>2, <1>3 DEF BulkInv, OneAtATime
<1>6. QED
  BY <1>2, <1>3, <1>4, <1>5, PageStep

LEMMA HideStep ==
    ASSUME BulkInv, UploadLost \/ CloseProgress
    PROVE  BulkInv'
<1>1. /\ timers' = timers /\ UNCHANGED <<task, job, file, poll, mishap>>
      /\ timers \subseteq Tasks /\ page \in Page
  BY DEF UploadLost, CloseProgress, BulkInv, BulkTypeOK
<1>2. /\ page' \in Page /\ ~page'.overlay /\ page'.over = page.over
      /\ page'.offer = page.offer /\ page'.current = page.current
      /\ page'.total = page.total /\ page'.success = page.success
      /\ page'.error = page.error
      /\ page'.upload = None \/ (page'.upload = page.upload /\ page.over)
      /\ page.upload # None \/ page.over
  <2>1. CASE UploadLost
    BY <1>1, <2>1 DEF UploadLost, Page
  <2>2. CASE CloseProgress
    BY <1>1, <2>2 DEF CloseProgress, Page
  <2>3. QED
    BY <2>1, <2>2
<1>3. "late" \notin mishap => OneAtATime'
  <2>1. SUFFICES ASSUME OneAtATime
                 PROVE  OneAtATime'
    BY DEF BulkInv
  <2>2. ShowsFinal => ShowsFinal'
    BY <1>1, <1>2 DEF ShowsFinal
  <2>3. QED
    BY <1>1, <1>2, <2>1, <2>2 DEF OneAtATime
<1>4. QED
  BY <1>1, <1>2, <1>3, PageStep

-----------------------------------------------------------------------------
(* pollProgress *)

\* A poll is sent, answered or lost.
LEMMA WireStep ==
    ASSUME BulkInv, NEW i \in Polls, NEW p \in Poll \cup {None},
           poll' = [poll EXCEPT ![i] = p], PollOK(p),
           p # None => \/ p.task \in timers
                       \/ poll[i] # None /\ p.task = poll[i].task,
           UNCHANGED <<task, job, file, timers, page, mishap>>
    PROVE  BulkInv'
<1>1. /\ poll' \in [Polls -> Poll \cup {None}]
      /\ \A k \in Polls : poll'[k] = IF k = i THEN p ELSE poll[k]
  BY PollStep
<1>2. BulkTypeOK'
  BY <1>1 DEF BulkInv, BulkTypeOK
<1>3. \A k \in Polls : PollOK(poll[k])'
  BY <1>1 DEF BulkInv, PollOK
<1>4. "late" \notin mishap => OneAtATime'
  <2>1. SUFFICES ASSUME OneAtATime
                 PROVE  OneAtATime'
    BY DEF BulkInv
  <2>2. ShowsFinal => ShowsFinal'
    BY DEF ShowsFinal
  <2>3. QED
    BY <1>1, <2>1, <2>2 DEF OneAtATime
<1>5. QED
  BY <1>2, <1>3, <1>4 DEF BulkInv

LEMMA SendStep ==
    ASSUME BulkInv, NEW t \in Tasks, SendPoll(t)
    PROVE  BulkInv'
<1> DEFINE p == [task |-> t, back |-> FALSE, answer |-> None]
<1>1. PICK i \in Polls : poll' = [poll EXCEPT ![i] = p]
  BY DEF SendPoll
<1>2. /\ p \in Poll /\ p.answer = None /\ p.task = t
      /\ t \in timers /\ UNCHANGED <<task, job, file, timers, page, mishap>>
  BY DEF SendPoll, Poll
<1> HIDE DEF p
<1>3. PollOK(p)
  BY <1>2 DEF PollOK
<1>4. QED
  BY <1>1, <1>2, <1>3, WireStep

LEMMA AnswerStep ==
    ASSUME BulkInv, NEW t \in Tasks, AnswerPoll(t)
    PROVE  BulkInv'
<1>1. PICK i \in Polls :
         /\ poll[i] # None /\ poll[i].task = t
         /\ poll' = [poll EXCEPT ![i].back = TRUE, ![i].answer = task[t]]
  BY DEF AnswerPoll
<1> DEFINE p == [poll[i] EXCEPT !.back = TRUE, !.answer = task[t]]
<1>2. /\ poll[i] \in Poll /\ task[t] \in Status \cup {None}
      /\ UNCHANGED <<task, job, file, timers, page, mishap>>
  BY <1>1 DEF AnswerPoll, BulkInv, BulkTypeOK
<1>3. /\ p \in Poll /\ p.answer = task[t] /\ p.task = t
      /\ poll' = [poll EXCEPT ![i] = p]
  BY <1>1, <1>2 DEF Poll
<1> HIDE DEF p
<1>4. task[t] # None /\ task[t].done => job[t] = "over"
  BY DEF BulkInv, BulkTypeOK, StatusOK, Working
<1>5. PollOK(p)
  BY <1>3, <1>4 DEF PollOK
<1>6. QED
  BY <1>1, <1>2, <1>3, <1>5, WireStep

LEMMA LoseStep ==
    ASSUME BulkInv, NEW i \in Polls, LosePoll(i)
    PROVE  BulkInv'
<1>1. PollOK(None)
  BY DEF PollOK
<1>2. QED
  BY <1>1, WireStep DEF LosePoll

\* What is said to be done stays so: unless it is late, the page shows it.
LEMMA ReceiveStep ==
    ASSUME BulkInv, NEW i \in Polls, ReceivePoll(i)
    PROVE  BulkInv'
<1> DEFINE s == poll[i].answer
           t == poll[i].task
<1>1. /\ poll[i] \in Poll /\ poll[i] # None /\ s # None /\ s \in Status /\ t \in Tasks
      /\ page \in Page /\ poll' = [poll EXCEPT ![i] = None]
      /\ UNCHANGED <<task, job, file>>
      /\ timers' = IF s.done THEN timers \ {t} ELSE timers
  BY DEF ReceivePoll, BulkInv, BulkTypeOK, Poll
<1>2. /\ poll' \in [Polls -> Poll \cup {None}]
      /\ \A k \in Polls : poll'[k] = IF k = i THEN None ELSE poll[k]
  BY <1>1, PollStep
<1>3. /\ mishap' \subseteq Mishaps /\ mishap \subseteq mishap'
      /\ t \notin timers => "late" \in mishap'
  BY NoteOK DEF ReceivePoll, Mishaps
<1> DEFINE over == page.over \/ s.done
           offer == page.offer \/ (s.done /\ s.error > 0)
<1>4. page' = [page EXCEPT !.total = s.total, !.success = s.success, !.error = s.error,
                           !.over = over, !.offer = offer]
  BY DEF ReceivePoll
<1>5. /\ over \in BOOLEAN /\ (over <=> page.over \/ s.done)
      /\ offer \in BOOLEAN /\ (offer => page.offer \/ (s.done /\ s.error > 0))
  OBVIOUS
<1> HIDE DEF over, offer
<1>6. s.total \in Rows /\ s.success \in Rows /\ s.error \in Errors
  BY <1>1 DEF Status
<1>7. /\ page' \in Page /\ page'.total = s.total /\ page'.success = s.success
      /\ page'.error = s.error /\ page'.over = over /\ page'.offer = offer
      /\ page'.overlay = page.overlay /\ page'.upload = page.upload
      /\ page'.current = page.current
  BY <1>1, <1>4, <1>5, <1>6 DEF Page
<1>8. PollOK(poll[i])
  BY DEF BulkInv
<1> HIDE DEF s, t
<1>9. BulkTypeOK'
  BY <1>1, <1>2, <1>3, <1>7 DEF BulkInv, BulkTypeOK
<1>10. \A k \in Polls : PollOK(poll[k])'
  BY <1>1, <1>2 DEF BulkInv, PollOK
<1>11. ASSUME "late" \notin mishap'
       PROVE  OneAtATime'
  <2>1. OneAtATime /\ t \in timers /\ t = poll[i].task
    BY <1>3, <1>11 DEF BulkInv, t
  <2>2. /\ t = page.current /\ timers = {t} /\ page.overlay /\ page.upload = None
        /\ ~page.over /\ ~page.offer
    BY <1>1, <2>1 DEF OneAtATime
  <2>3. CASE s.done
    <3>1. timers' = {}
      BY <1>1, <2>2, <2>3
    <3>2. job[t] = "over" /\ task[t] \in {None, s}
      BY <1>1, <1>8, <2>3 DEF PollOK, s, t
    <3>3. ShowsFinal'
      BY <1>1, <1>7, <2>2, <3>2, BulkAssumption DEF ShowsFinal
    <3>4. over /\ (offer => s.error > 0)
      BY <1>5, <2>2, <2>3
    <3>5. page'.over /\ (page'.offer => page'.over /\ page'.error > 0)
      BY <1>7, <3>4
    <3>6. \A k \in Polls : poll'[k] # None => poll'[k].task = page'.current
      BY <1>2, <1>7, <2>1 DEF OneAtATime
    <3>7. QED
      BY <1>7, <2>2, <3>1, <3>3, <3>5, <3>6 DEF OneAtATime
  <2>4. CASE ~s.done
    <3>1. timers' = timers
      BY <1>1, <2>4
    <3>2. ~over /\ ~offer
      BY <1>5, <2>2, <2>4
    <3>3. ~page'.over /\ ~page'.offer
      BY <1>7, <3>2
    <3>4. \A k \in Polls : poll'[k] # None => poll'[k].task = page'.current
      BY <1>2, <1>7, <2>1 DEF OneAtATime
    <3>5. QED
      BY <1>7, <2>2, <3>1, <3>3, <3>4 DEF OneAtATime
  <2>5. QED
    BY <2>3, <2>4
<1>12. mishap' = {} => \A u \in Tasks : job'[u] = "over" => FileOK(task'[u], file'[u])
  BY <1>1, <1>3 DEF BulkInv
<1>13. QED
  BY <1>1, <1>9, <1>10, <1>11, <1>12 DEF BulkInv

-----------------------------------------------------------------------------
(* The theorems *)

LEMMA BulkInit == Init => BulkInv
<1>1. 0 \in Rows /\ 0 \in Errors
  BY BulkAssumption DEF Rows, Errors
<1>2. Init => BulkTypeOK
  BY <1>1 DEF Init, BulkTypeOK, Page, Cleared
<1>3. Init => timers = {} /\ ~page.over /\ ~page.offer /\ page.upload = None
  BY DEF Init, Cleared
<1>4. Init => OneAtATime
  BY <1>3 DEF Init, OneAtATime
<1>5. QED
  BY <1>2, <1>4 DEF Init, BulkInv, StatusOK, Working, PollOK

LEMMA BulkNext == BulkInv /\ [Next]_vars => BulkInv'
<1> SUFFICES ASSUME BulkInv, [Next]_vars
             PROVE  BulkInv'
  OBVIOUS
<1>1. CASE UNCHANGED vars
  <2>1. UNCHANGED <<task, job, file, timers, poll, page, mishap>>
    BY <1>1 DEF vars
  <2>2. OneAtATime => OneAtATime'
    BY <2>1 DEF OneAtATime, ShowsFinal
  <2>3. \A i \in Polls : PollOK(poll[i])'
    BY <2>1 DEF BulkInv, PollOK
  <2>4. QED
    BY <2>1, <2>2, <2>3 DEF BulkInv, BulkTypeOK
<1>2. CASE Next
  BY <1>2, StartStep, ReadStep, RowsStep, SaveStep, SendStep, AnswerStep, AnsweredStep,
     HideStep, LoseStep, ReceiveStep, RestartStep DEF Next, Work
<1>3. QED
  BY <1>1, <1>2

LEMMA BulkInvariant == Spec => []BulkInv
BY BulkInit, BulkNext, PTL DEF Spec

(* "Completed" is only shown of the page's upload when its work is over,   *)
(* and with its final counts, unless an answer came late (bulk.js,         *)
(* pollProgress; api.py, process_bulk_upload_task).                        *)
THEOREM BulkCompletedIsFinal == Spec => []CompletedIsFinal
<1>1. BulkInv => CompletedIsFinal
  BY DEF BulkInv, OneAtATime, ShowsFinal, CompletedIsFinal
<1>2. QED
  BY <1>1, BulkInvariant, PTL

(* While nothing goes wrong the download button that is offered has a file *)
(* behind it, which lists every row that was counted as an error.          *)
THEOREM BulkNoDeadDownload == Spec => []NoDeadDownload
<1>1. BulkInv => NoDeadDownload
  <2>1. SUFFICES ASSUME BulkInv, page.offer, mishap = {}
                 PROVE  /\ task[page.current].errorFile
                        /\ file[page.current] = page.error
    BY DEF NoDeadDownload
  <2>2. /\ page.over /\ page.error > 0 /\ ShowsFinal
        /\ page.current \in Tasks /\ job[page.current] = "over"
    BY <2>1 DEF BulkInv, BulkTypeOK, Page, OneAtATime, ShowsFinal
  <2>3. FileOK(task[page.current], file[page.current])
    BY <2>1, <2>2 DEF BulkInv
  <2>4. QED
    BY <2>2, <2>3 DEF FileOK, ShowsFinal
<1>2. QED
  BY <1>1, BulkInvariant, PTL
=============================================================================
