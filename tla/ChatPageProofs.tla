---------------------------- MODULE ChatPageProofs ----------------------------
(***************************************************************************)
(* Theorems about ChatMemory and ChatPage for any window, threads, number  *)
(* of requests under way, messages and lengths of answers.                 *)
(*                                                                         *)
(* The memory is bounded although requests of a thread append to it long   *)
(* after it was trimmed for them: each request under way may add one       *)
(* exchange before the next trim, and no request starts without one        *)
(* (BoundHolds counts what is there and what may still come).              *)
(*                                                                         *)
(* On the page, an answer is in three places at once: in bubbles, on the   *)
(* wire, and in what the memory will be given.  PageInv says for each      *)
(* message how many pieces are still under way (StreamOK) and, while no    *)
(* mishap happened, which of the bubbles is unfinished and how much of     *)
(* what they say the memory was given (TalkOK).                            *)
(***************************************************************************)
EXTENDS ChatPage, FiniteSetTheorems, TLAPS

\* The requests under way on thread t.
Busy(t) == {q \in Requests : req[q].pc # "idle" /\ req[q].thread = t}

\* What a thread holds, and what those under way may add to it.
BoundHolds ==
    \A t \in Threads :
        Len(history[t]) + 2 * Cardinality(Busy(t)) <= Window + 2 * Cardinality(Requests)

RequestsOK ==
    \A q \in Requests :
        /\ req[q].pc # "idle" => req[q].thread \in Threads
        /\ req[q].pc = "fetched" => req[q].mode = "stream"

PromptsBounded ==
    \A q \in Requests :
        /\ req[q].mode = "sync" => Len(req[q].prompt) <= Window
        /\ Len(req[q].prompt) <= Window + 2 * (Cardinality(Requests) - 1)

MemoryInv ==
    /\ MemoryTypeOK
    /\ RequestsOK
    /\ PromptsAreExchanges
    /\ Window > 0 => BoundHolds /\ PromptsBounded

-----------------------------------------------------------------------------
(* Lists of messages *)

\* What trimming leaves are the last messages, at most a window full of them.
LEMMA TrimmedIs ==
    ASSUME NEW m \in Seq(Message)
    PROVE  /\ Trimmed(m) \in Seq(Message)
           /\ Len(Trimmed(m)) <= Len(m)
           /\ Window > 0 => Len(Trimmed(m)) <= Window
           /\ Len(Trimmed(m)) # Len(m) => Len(Trimmed(m)) = Window
           /\ \A k \in 1..Len(Trimmed(m)) :
                Trimmed(m)[k] = m[Len(m) - Len(Trimmed(m)) + k]
<1>1. Len(m) \in Nat /\ Window \in Nat
  BY MemoryAssumption
<1>2. CASE Len(m) > Window /\ Window > 0
  <2> DEFINE s == SubSeq(m, Len(m) - Window + 1, Len(m))
  <2>1. Trimmed(m) = s
    BY <1>1, <1>2 DEF Trimmed, Last
  <2>2. /\ s \in Seq(Message) /\ Len(s) = Window
        /\ \A k \in 1..Window : s[k] = m[Len(m) - Window + k]
    BY <1>1, <1>2
  <2> HIDE DEF s
  <2>3. QED
    BY <1>1, <1>2, <2>1, <2>2
<1>3. CASE ~(Len(m) > Window /\ Window > 0)
  <2>1. Trimmed(m) = m
    BY <1>1, <1>3 DEF Trimmed, Last
  <2>2. QED
    BY <1>1, <1>3, <2>1
<1>4. QED
  BY <1>2, <1>3

LEMMA TrimmedExchanges ==
    ASSUME NEW m \in Seq(Message), Exchanges(m)
    PROVE  Exchanges(Trimmed(m))
<1> DEFINE s == Trimmed(m)
           n == Len(m)
           l == Len(s)
<1>1. /\ s \in Seq(Message) /\ n \in Nat /\ l \in Nat /\ l <= n
      /\ l # n => l = Window
      /\ \A k \in 1..l : s[k] = m[n - l + k]
  BY TrimmedIs
<1> HIDE DEF s
<1>2. ASSUME NEW k \in 1..l
      PROVE  /\ s[k].role = IF (l - k) % 2 = 0 THEN "assistant" ELSE "user"
             /\ (l - k) % 2 = 0 /\ k > 1 => s[k].of = s[k - 1].of
  <2> DEFINE j == n - l + k
  <2>1. j \in 1..n /\ n - j = l - k /\ (k > 1 => j > 1 /\ j - 1 = n - l + (k - 1))
    BY <1>1
  <2>2. s[k] = m[j] /\ (k > 1 => s[k - 1] = m[j - 1])
    <3>1. s[k] = m[j]
      BY <1>1
    <3>2. ASSUME k > 1
          PROVE  s[k - 1] = m[j - 1]
      <4>1. k - 1 \in 1..l
        BY <1>1, <3>2
      <4>2. s[k - 1] = m[n - l + (k - 1)]
        BY <1>1, <4>1
      <4>3. QED
        BY <2>1, <3>2, <4>2
    <3>3. QED
      BY <3>1, <3>2
  <2>3. /\ m[j].role = IF (n - j) % 2 = 0 THEN "assistant" ELSE "user"
        /\ (n - j) % 2 = 0 /\ j > 1 => m[j].of = m[j - 1].of
    BY <2>1 DEF Exchanges
  <2> HIDE DEF j
  <2>4. QED
    BY <2>1, <2>2, <2>3
<1>3. Window % 2 = 0 => l % 2 = 0
  BY <1>1 DEF Exchanges
<1>4. QED
  BY <1>2, <1>3 DEF Exchanges, s

\* One more exchange.
LEMMA AppendedExchanges ==
    ASSUME NEW m \in Seq(Message), Exchanges(m), NEW q \in Requests
    PROVE  /\ m \o <<Question(q), Reply(q)>> \in Seq(Message)
           /\ Len(m \o <<Question(q), Reply(q)>>) = Len(m) + 2
           /\ Exchanges(m \o <<Question(q), Reply(q)>>)
<1> DEFINE e == <<Question(q), Reply(q)>>
           s == m \o e
           n == Len(m)
<1>1. Question(q) \in Message /\ Reply(q) \in Message
  BY DEF Question, Reply, Message
<1>2. /\ n \in Nat /\ s \in Seq(Message) /\ Len(s) = n + 2
      /\ \A k \in 1..n : s[k] = m[k]
      /\ s[n + 1] = Question(q) /\ s[n + 2] = Reply(q)
  BY <1>1
<1> HIDE DEF s
<1>3. \A x \in Nat : (x + 2) % 2 = x % 2
  OBVIOUS
<1>4. ASSUME NEW k \in 1..(n + 2)
      PROVE  /\ s[k].role = IF (n + 2 - k) % 2 = 0 THEN "assistant" ELSE "user"
             /\ (n + 2 - k) % 2 = 0 /\ k > 1 => s[k].of = s[k - 1].of
  <2>1. CASE k \in 1..n
    <3>1. (n + 2 - k) % 2 = (n - k) % 2
      BY <1>2, <1>3, <2>1
    <3>2. s[k] = m[k] /\ (k > 1 => s[k - 1] = m[k - 1])
      BY <1>2, <2>1
    <3>3. QED
      BY <3>1, <3>2, <2>1 DEF Exchanges
  <2>2. CASE k = n + 1
    BY <1>2, <2>2 DEF Question
  <2>3. CASE k = n + 2
    BY <1>2, <2>3 DEF Question, Reply
  <2>4. QED
    BY <1>2, <2>1, <2>2, <2>3
<1>5. Window % 2 = 0 => (n + 2) % 2 = 0
  BY <1>2, <1>3 DEF Exchanges
<1>6. QED
  BY <1>2, <1>4, <1>5 DEF Exchanges, s

LEMMA EmptyExchanges == <<>> \in Seq(Message) /\ Len(<<>>) = 0 /\ Exchanges(<<>>)
BY DEF Exchanges

-----------------------------------------------------------------------------
(* Requests under way *)

\* Counting them when one ends, and bounding them when one starts.
LEMMA BusyCount ==
    ASSUME NEW S \in SUBSET Requests
    PROVE  /\ Cardinality(S) \in Nat /\ Cardinality(S) <= Cardinality(Requests)
           /\ Cardinality(Requests) \in Nat
           /\ \A q \in S : /\ Cardinality(S \ {q}) = Cardinality(S) - 1
                           /\ Cardinality(S) >= 1
<1>1. IsFiniteSet(Requests) /\ IsFiniteSet(S)
  BY MemoryAssumption, FS_Subset
<1>2. /\ Cardinality(S) \in Nat /\ Cardinality(S) <= Cardinality(Requests)
      /\ Cardinality(Requests) \in Nat
  BY <1>1, FS_Subset, FS_CardinalityType
<1>3. ASSUME NEW q \in S
      PROVE  Cardinality(S \ {q}) = Cardinality(S) - 1 /\ Cardinality(S) >= 1
  <2>1. Cardinality(S \ {q}) = Cardinality(S) - 1
    BY <1>1, FS_RemoveElement
  <2>2. IsFiniteSet(S \ {q}) /\ Cardinality(S \ {q}) \in Nat
    BY <1>1, FS_RemoveElement, FS_CardinalityType
  <2>3. QED
    BY <1>2, <2>1, <2>2
<1>4. QED
  BY <1>2, <1>3

LEMMA IdleOK ==
    /\ Idle \in Request /\ Idle.pc = "idle" /\ Idle.mode # "sync"
    /\ Idle.prompt = <<>>
BY DEF Idle, Request

(* A step of request q that starts it on thread t with prompt p, over the  *)
(* trimmed memory.                                                         *)
LEMMA StartStep ==
    ASSUME MemoryInv, NEW q \in Requests, NEW t \in Threads, NEW r \in Request,
           r.pc # "idle", r.thread = t, r.pc = "fetched" => r.mode = "stream",
           r.prompt \in {<<>>, Trimmed(history[t])},
           history' = [history EXCEPT ![t] = Trimmed(@)],
           req' = [req EXCEPT ![q] = r]
    PROVE  MemoryInv'
<1>1. /\ history \in [Threads -> Seq(Message)] /\ history[t] \in Seq(Message)
      /\ Exchanges(history[t]) /\ req \in [Requests -> Request] /\ Window \in Nat
  BY MemoryAssumption DEF MemoryInv, MemoryTypeOK, PromptsAreExchanges
<1>2. /\ Trimmed(history[t]) \in Seq(Message) /\ Exchanges(Trimmed(history[t]))
      /\ Window > 0 => Len(Trimmed(history[t])) <= Window
  BY <1>1, TrimmedIs, TrimmedExchanges
<1>3. /\ \A u \in Threads :
           history'[u] = IF u = t THEN Trimmed(history[t]) ELSE history[u]
      /\ \A x \in Requests : req'[x] = IF x = q THEN r ELSE req[x]
  BY <1>1
<1>4. MemoryTypeOK' /\ RequestsOK'
  BY <1>1, <1>2, <1>3 DEF MemoryInv, MemoryTypeOK, RequestsOK
<1>5. /\ Exchanges(r.prompt) /\ Len(r.prompt) \in Nat
      /\ Window > 0 => Len(r.prompt) <= Window
  BY <1>1, <1>2, EmptyExchanges
<1>6. PromptsAreExchanges'
  <2>1. \A x \in Requests : Exchanges(req'[x].prompt)
    BY <1>3, <1>5 DEF MemoryInv, PromptsAreExchanges
  <2>2. \A u \in Threads : Exchanges(history'[u])
    BY <1>2, <1>3 DEF MemoryInv, PromptsAreExchanges
  <2>3. QED
    BY <2>1, <2>2 DEF PromptsAreExchanges
<1>7. ASSUME Window > 0
      PROVE  BoundHolds' /\ PromptsBounded'
  <2>1. ASSUME NEW u \in Threads
        PROVE  Len(history'[u]) + 2 * Cardinality(Busy(u)')
                 <= Window + 2 * Cardinality(Requests)
    <3>1. CASE u = t
      <4>1. Busy(u)' \in SUBSET Requests
        BY DEF Busy
      <4>2. Cardinality(Busy(u)') \in Nat /\ Cardinality(Requests) \in Nat
            /\ Cardinality(Busy(u)') <= Cardinality(Requests)
        BY <4>1, BusyCount
      <4>3. Len(history'[u]) \in Nat /\ Len(history'[u]) <= Window
        BY <3>1, <1>2, <1>3, <1>7
      <4>4. QED
        BY <4>2, <4>3, <1>1
    <3>2. CASE u # t
      <4>1. Busy(u)' = Busy(u) \/ (q \in Busy(u) /\ Busy(u)' = Busy(u) \ {q})
        BY <3>2, <1>3 DEF Busy
      <4>2. Busy(u) \in SUBSET Requests
        BY DEF Busy
      <4>3. /\ Cardinality(Busy(u)) \in Nat /\ Cardinality(Busy(u)') \in Nat
            /\ Cardinality(Busy(u)') <= Cardinality(Busy(u))
            /\ Cardinality(Requests) \in Nat
        BY <4>1, <4>2, BusyCount
      <4>4. history'[u] = history[u] /\ Len(history[u]) \in Nat
            /\ Len(history[u]) + 2 * Cardinality(Busy(u))
                 <= Window + 2 * Cardinality(Requests)
        BY <3>2, <1>1, <1>3, <1>7 DEF MemoryInv, BoundHolds
      <4>5. QED
        BY <4>3, <4>4, <1>1
    <3>3. QED
      BY <3>1, <3>2
  <2>2. Cardinality(Requests) \in Nat /\ Cardinality(Requests) >= 1
    BY BusyCount
  <2>3. PromptsBounded'
    BY <1>1, <1>3, <1>5, <1>7, <2>2 DEF MemoryInv, PromptsBounded
  <2>4. QED
    BY <2>1, <2>3 DEF BoundHolds
<1>8. QED
  BY <1>4, <1>6, <1>7 DEF MemoryInv

LEMMA CopyStep ==
    ASSUME MemoryInv, NEW q \in Requests, CopyHistory(q)
    PROVE  MemoryInv'
<1> DEFINE t == req[q].thread
           r == [req[q] EXCEPT !.pc = "llm", !.prompt = history[t]]
<1>1. /\ req \in [Requests -> Request] /\ req[q] \in Request /\ t \in Threads
      /\ history \in [Threads -> Seq(Message)] /\ history[t] \in Seq(Message)
      /\ req[q].pc = "fetched" /\ UNCHANGED history /\ Window \in Nat
  BY MemoryAssumption DEF MemoryInv, MemoryTypeOK, RequestsOK, CopyHistory
<1>2. /\ r \in Request /\ r.pc = "llm" /\ r.thread = t /\ r.mode = req[q].mode
      /\ r.prompt = history[t] /\ req' = [req EXCEPT ![q] = r]
  BY <1>1 DEF CopyHistory, Request
<1> HIDE DEF r
<1>3. \A x \in Requests : req'[x] = IF x = q THEN r ELSE req[x]
  BY <1>1, <1>2
<1>4. MemoryTypeOK' /\ RequestsOK'
  BY <1>1, <1>2, <1>3 DEF MemoryInv, MemoryTypeOK, RequestsOK
<1>5. PromptsAreExchanges'
  <2>1. \A x \in Requests : Exchanges(req'[x].prompt)
    BY <1>1, <1>2, <1>3 DEF MemoryInv, PromptsAreExchanges
  <2>2. QED
    BY <1>1, <2>1 DEF MemoryInv, PromptsAreExchanges
<1>6. ASSUME Window > 0
      PROVE  BoundHolds' /\ PromptsBounded'
  <2>1. \A u \in Threads : Busy(u)' = Busy(u)
    BY <1>1, <1>2, <1>3 DEF Busy
  <2>2. BoundHolds'
    BY <1>1, <1>6, <2>1 DEF MemoryInv, BoundHolds
  <2>3. q \in Busy(t) /\ Busy(t) \in SUBSET Requests
    BY <1>1 DEF Busy
  <2>4. /\ Cardinality(Busy(t)) \in Nat /\ Cardinality(Busy(t)) >= 1
        /\ Cardinality(Requests) \in Nat
    BY <2>3, BusyCount
  <2>5. Len(history[t]) + 2 * Cardinality(Busy(t)) <= Window + 2 * Cardinality(Requests)
    BY <1>1, <1>6 DEF MemoryInv, BoundHolds
  <2>6. Len(r.prompt) <= Window + 2 * (Cardinality(Requests) - 1)
    BY <1>1, <1>2, <2>4, <2>5
  <2>7. r.mode # "sync"
    BY <1>1, <1>2 DEF MemoryInv, RequestsOK
  <2>8. QED
    BY <1>3, <1>6, <2>2, <2>6, <2>7 DEF MemoryInv, PromptsBounded
<1>7. QED
  BY <1>4, <1>5, <1>6 DEF MemoryInv

(* A step that ends request q; its thread may get one more exchange.       *)
LEMMA EndStep ==
    ASSUME MemoryInv, NEW q \in Requests, Remember(q) \/ Abandon(q)
    PROVE  MemoryInv'
<1> DEFINE t == req[q].thread
<1>1. /\ req \in [Requests -> Request] /\ req[q].pc # "idle" /\ t \in Threads
      /\ history \in [Threads -> Seq(Message)] /\ history[t] \in Seq(Message)
      /\ req' = [req EXCEPT ![q] = Idle] /\ Window \in Nat
  BY MemoryAssumption DEF MemoryInv, MemoryTypeOK, RequestsOK, Remember, Abandon
<1>2. \A x \in Requests : req'[x] = IF x = q THEN Idle ELSE req[x]
  BY <1>1
<1>3. /\ history' \in [Threads -> Seq(Message)]
      /\ \A u \in Threads : Exchanges(history'[u])
      /\ \A u \in Threads : u # t => history'[u] = history[u]
      /\ Len(history'[t]) <= Len(history[t]) + 2
  <2>1. CASE Remember(q)
    <3> DEFINE s == history[t] \o <<Question(q), Reply(q)>>
    <3>1. s \in Seq(Message) /\ Len(s) = Len(history[t]) + 2 /\ Exchanges(s)
      BY <1>1, AppendedExchanges DEF MemoryInv, PromptsAreExchanges
    <3>2. history' = [history EXCEPT ![t] = s]
      BY <2>1 DEF Remember
    <3> HIDE DEF s
    <3>3. \A u \in Threads : history'[u] = IF u = t THEN s ELSE history[u]
      BY <1>1, <3>2
    <3>4. QED
      BY <1>1, <3>1, <3>2, <3>3 DEF MemoryInv, PromptsAreExchanges
  <2>2. CASE Abandon(q)
    BY <1>1, <2>2 DEF Abandon, MemoryInv, PromptsAreExchanges
  <2>3. QED
    BY <2>1, <2>2
<1>4. MemoryTypeOK' /\ RequestsOK'
  BY <1>1, <1>2, <1>3, IdleOK DEF MemoryInv, MemoryTypeOK, RequestsOK
<1>5. PromptsAreExchanges'
  <2>1. \A x \in Requests : Exchanges(req'[x].prompt)
    BY <1>2, IdleOK, EmptyExchanges DEF MemoryInv, PromptsAreExchanges
  <2>2. QED
    BY <1>3, <2>1 DEF PromptsAreExchanges
<1>6. ASSUME Window > 0
      PROVE  BoundHolds' /\ PromptsBounded'
  <2>1. ASSUME NEW u \in Threads
        PROVE  Len(history'[u]) + 2 * Cardinality(Busy(u)')
                 <= Window + 2 * Cardinality(Requests)
    <3>1. /\ Busy(u) \in SUBSET Requests /\ Len(history'[u]) \in Nat
          /\ Len(history[u]) \in Nat
          /\ Len(history[u]) + 2 * Cardinality(Busy(u))
               <= Window + 2 * Cardinality(Requests)
      BY <1>1, <1>3, <1>6 DEF Busy, MemoryInv, BoundHolds
    <3>2. CASE u = t
      <4>1. q \in Busy(u) /\ Busy(u)' = Busy(u) \ {q}
        BY <3>2, <1>1, <1>2, IdleOK DEF Busy
      <4>2. /\ Cardinality(Busy(u)) \in Nat /\ Cardinality(Requests) \in Nat
            /\ Cardinality(Busy(u)') = Cardinality(Busy(u)) - 1
        BY <3>1, <4>1, BusyCount
      <4>3. QED
        BY <3>1, <3>2, <4>2, <1>1, <1>3
    <3>3. CASE u # t
      <4>1. Busy(u)' = Busy(u)
        BY <3>3, <1>2, IdleOK DEF Busy
      <4>2. QED
        BY <3>1, <3>3, <4>1, <1>3
    <3>4. QED
      BY <3>2, <3>3
  <2>2. Cardinality(Requests) \in Nat /\ Cardinality(Requests) >= 1
    BY BusyCount
  <2>3. PromptsBounded'
    BY <1>1, <1>2, <1>6, <2>2, IdleOK, EmptyExchanges DEF MemoryInv, PromptsBounded
  <2>4. QED
    BY <2>1, <2>3 DEF BoundHolds
<1>7. QED
  BY <1>4, <1>5, <1>6 DEF MemoryInv

-----------------------------------------------------------------------------

LEMMA MemoryInit == Init => MemoryInv
<1> SUFFICES ASSUME Init PROVE MemoryInv
  OBVIOUS
<1>1. /\ \A t \in Threads : history[t] = <<>>
      /\ \A q \in Requests : req[q] = Idle
  BY DEF Init
<1>2. MemoryTypeOK /\ RequestsOK /\ PromptsAreExchanges
  BY <1>1, IdleOK, EmptyExchanges
     DEF Init, MemoryTypeOK, RequestsOK, PromptsAreExchanges
<1>3. \A S \in SUBSET Requests :
        /\ Cardinality(S) \in Nat /\ Cardinality(S) <= Cardinality(Requests)
        /\ Cardinality(Requests) \in Nat
  BY BusyCount
<1>4. BoundHolds
  <2>1. \A t \in Threads : Busy(t) \in SUBSET Requests
    BY DEF Busy
  <2>2. QED
    BY <1>1, <1>3, <2>1, EmptyExchanges, MemoryAssumption DEF BoundHolds
<1>5. Requests # {} => Cardinality(Requests) >= 1
  BY BusyCount
<1>6. PromptsBounded
  BY <1>1, <1>3, <1>5, IdleOK, EmptyExchanges, MemoryAssumption DEF PromptsBounded
<1>7. QED
  BY <1>2, <1>4, <1>6 DEF MemoryInv

LEMMA MemoryNext == MemoryInv /\ [Next]_vars => MemoryInv'
<1> SUFFICES ASSUME MemoryInv, [Next]_vars PROVE MemoryInv'
  OBVIOUS
<1>1. ASSUME NEW q \in Requests, NEW t \in Threads, StartStream(q, t) \/ StartSync(q, t)
      PROVE  MemoryInv'
  <2>1. req \in [Requests -> Request] /\ Trimmed(history[t]) \in Seq(Message)
    BY TrimmedIs DEF MemoryInv, MemoryTypeOK
  <2>2. CASE StartStream(q, t)
    <3> DEFINE r == [Idle EXCEPT !.pc = "fetched", !.mode = "stream", !.thread = t]
    <3>1. /\ r \in Request /\ r.pc = "fetched" /\ r.mode = "stream" /\ r.thread = t
          /\ r.prompt = <<>>
      BY IdleOK DEF Request
    <3>2. /\ req' = [req EXCEPT ![q] = r]
          /\ history' = [history EXCEPT ![t] = Trimmed(@)]
      BY <2>2 DEF StartStream
    <3> HIDE DEF r
    <3>3. QED
      BY <3>1, <3>2, StartStep
  <2>3. CASE StartSync(q, t)
    <3> DEFINE r == [pc |-> "llm", mode |-> "sync", thread |-> t,
                     prompt |-> Trimmed(history[t])]
    <3>1. /\ r \in Request /\ r.pc = "llm" /\ r.thread = t
          /\ r.prompt = Trimmed(history[t])
      BY <2>1 DEF Request
    <3>2. /\ req' = [req EXCEPT ![q] = r]
          /\ history' = [history EXCEPT ![t] = Trimmed(@)]
      BY <2>3 DEF StartSync
    <3> HIDE DEF r
    <3>3. QED
      BY <3>1, <3>2, StartStep
  <2>4. QED
    BY <1>1, <2>2, <2>3
<1>2. CASE UNCHANGED vars
  BY <1>2 DEF vars, MemoryInv, MemoryTypeOK, RequestsOK, PromptsAreExchanges,
              BoundHolds, PromptsBounded, Busy
<1>3. QED
  BY <1>1, <1>2, CopyStep, EndStep DEF Next

LEMMA MemoryInvariant == Spec => []MemoryInv
BY MemoryInit, MemoryNext, PTL DEF Spec

(* Type correctness of the memory and the requests.                        *)
THEOREM MemoryTypes == Spec => []MemoryTypeOK
<1>1. MemoryInv => MemoryTypeOK
  BY DEF MemoryInv
<1>2. QED
  BY <1>1, MemoryInvariant, PTL

(* The LLM is shown whole exchanges (but for one cut by an odd window),    *)
(* however the requests of a thread overlap (memory.py, the two handlers   *)
(* of POST /chat and /api/chat/sync).                                      *)
THEOREM PromptsKeepExchanges == Spec => []PromptsAreExchanges
<1>1. MemoryInv => PromptsAreExchanges
  BY DEF MemoryInv
<1>2. QED
  BY <1>1, MemoryInvariant, PTL

LEMMA WindowFollows == MemoryInv => WindowKept
<1> SUFFICES ASSUME MemoryInv, Window > 0
             PROVE  /\ \A t \in Threads :
                          Len(history[t]) <= Window + 2 * Cardinality(Requests)
                    /\ PromptsBounded
  BY DEF WindowKept, PromptsBounded
<1>1. ASSUME NEW t \in Threads
      PROVE  Len(history[t]) <= Window + 2 * Cardinality(Requests)
  <2>1. Busy(t) \in SUBSET Requests /\ Len(history[t]) \in Nat
    BY DEF Busy, MemoryInv, MemoryTypeOK
  <2>2. Cardinality(Busy(t)) \in Nat /\ Cardinality(Requests) \in Nat
    BY <2>1, BusyCount
  <2>3. QED
    BY <2>1, <2>2, MemoryAssumption DEF MemoryInv, BoundHolds
<1>2. QED
  BY <1>1 DEF MemoryInv

(* The window bounds the memory of each thread and every prompt.           *)
THEOREM WindowBounds == Spec => []WindowKept
BY WindowFollows, MemoryInvariant, PTL

-----------------------------------------------------------------------------
(* The page: the invariant *)

\* The pieces of the answer to q that the bubbles show.
PiecesIn(bs, q) ==
    UNION {{k} \X {j \in DOMAIN bs[k].text : bs[k].text[j] = q} : k \in DOMAIN bs}

\* How the two sides of a message stand to each other.
LinksOK(q) ==
    /\ sent[q] = "no" => reply[q] = "none"
    /\ reply[q] = "none" => req[q].pc = "idle" /\ answer[q] = 0 /\ wire[q] = <<>>
    /\ req[q].pc # "idle" => reply[q] \in {"stream", "failed"} /\ req[q].thread = Mine
    /\ sent[q] = "reading" => reply[q] # "none" /\ current # 0
    /\ mishap \subseteq {"overlap"} =>
         /\ sent[q] = "over" => reply[q] = "ended"
         /\ reply[q] # "refused"

\* Under way to the page are n pieces, then the error, if any.
WireOK(q, n) ==
    LET w == wire[q]
    IN  /\ n <= Len(w)
        /\ sent[q] \in {"no", "asked"} => answer[q] = n
        /\ \A j \in 1..Len(w) : /\ w[j] = "token" <=> j <= n
                                /\ w[j] = "error" => j = n + 1
                                /\ reply[q] = "failed" => w[j] # "done"
        /\ reply[q] \in {"none", "stream"} => Len(w) = n

\* Every other piece is on the page.
ShownOK(q, n) ==
    mishap \subseteq {"overlap"} =>
        /\ IsFiniteSet(PiecesIn(bubbles, q))
        /\ Cardinality(PiecesIn(bubbles, q)) + n = answer[q]

\* What the last bubble shows of the answer that is read.
TextOK(q, n) ==
    LET t == bubbles[Len(bubbles)].text
    IN  mishap = {} /\ sent[q] = "reading" =>
          /\ \A j \in 1..(answer[q] - n) : j <= Len(t) /\ t[j] = q
          /\ \/ Len(t) = answer[q] - n
             \/ /\ n = 0 /\ Len(t) = answer[q] + 1 /\ t[Len(t)] = "error"
                /\ reply[q] \in {"failed", "ended"}
                /\ \A j \in 1..Len(wire[q]) : wire[q][j] # "error"

StreamOK(q) == \E n \in Nat : WireOK(q, n) /\ ShownOK(q, n) /\ TextOK(q, n)

Size == Len(bubbles)

\* Questions and answers in turn; only the last answer can be incomplete.
BubbleOK(k) ==
    /\ bubbles[k].role = IF k % 2 = 1 THEN "user" ELSE "assistant"
    /\ k % 2 = 0 =>
         /\ bubbles[k].of = bubbles[k - 1].of
         /\ bubbles[k].of \in Requests
         /\ \/ sent[bubbles[k].of] = "reading" /\ k = Size
            \/ /\ sent[bubbles[k].of] = "over"
               /\ bubbles[k].text \in TextOf(bubbles[k].of)

\* The last bubble is of the message that is under way.
Turn(q) ==
    /\ sent[q] = "asked" => Size % 2 = 1 /\ bubbles[Size].of = q
    /\ sent[q] = "reading" =>
         Size % 2 = 0 /\ Size > 0 /\ bubbles[Size].of = q /\ current = Size

Alternate ==
    /\ \A k \in 1..Size : BubbleOK(k)
    /\ Open = {} => Size % 2 = 0
    /\ \A p, q \in Open : p = q
    /\ \A q \in Requests : Turn(q)

\* The k-th message of the conversation, of which the page may still lack
\* the last answer.
Line(k) ==
    [role |-> IF k % 2 = 1 THEN "user" ELSE "assistant",
     of |-> bubbles[IF k % 2 = 1 THEN k ELSE k - 1].of]

\* How many of its messages the memory has been given.
GivenFor(l, q) ==
    /\ sent[q] = "asked" => l = IF reply[q] = "ended" THEN Size + 1 ELSE Size - 1
    /\ sent[q] = "reading" => l = IF reply[q] = "ended" THEN Size ELSE Size - 2

Given(l) ==
    /\ Open = {} => l = Size
    /\ \A q \in Requests : GivenFor(l, q)

\* The memory holds the last of them.
Remembered(l) ==
    LET h == history[Mine]
    IN  /\ Len(h) <= l
        /\ Len(h) = l \/ Len(h) >= Window
        /\ \A k \in 1..l : k > l - Len(h) => h[k - (l - Len(h))] = Line(k)

TalkOK == mishap = {} => Alternate /\ \E l \in Nat : Given(l) /\ Remembered(l)

PageInv ==
    /\ MemoryInv
    /\ ChatTypeOK
    /\ \A q \in Requests : LinksOK(q) /\ StreamOK(q)
    /\ TalkOK

-----------------------------------------------------------------------------
(* The steps of the page: types and links *)

\* What a step of message q is.
PageStep(q) ==
    \/ SendMessage(q) \/ Unauthorised(q) \/ Refuse(q)
    \/ Serve(q) \/ BeginGenerator(q) \/ EmitToken(q) \/ LlmFails(q)
    \/ Finish(q) \/ Cancel(q)
    \/ HeadersArrive(q) \/ Read(q) \/ ReadTorn(q) \/ EndOfStream(q) \/ Break(q)

\* To the memory, a step of the page is a step of its clients.
LEMMA PageKeepsMemory ==
    ASSUME MemoryInv, NEW q \in Requests, PageStep(q)
    PROVE  MemoryInv'
<1>1. UNCHANGED vars \/ StartStream(q, Mine) \/ CopyHistory(q) \/ Remember(q) \/ Abandon(q)
  BY DEF PageStep, SendMessage, Unauthorised, Refuse, Serve, BeginGenerator,
         EmitToken, LlmFails, Finish, Cancel, HeadersArrive, Read, ReadTorn,
         EndOfStream, Break
<1>2. [Next]_vars
  BY <1>1, PageAssumption DEF Next
<1>3. QED
  BY <1>2, MemoryNext

LEMMA Events ==
    ASSUME NEW w \in Seq({"token", "error", "done"})
    PROVE  /\ \A e \in {"token", "error", "done"} :
                /\ Append(w, e) \in Seq({"token", "error", "done"})
                /\ Len(Append(w, e)) = Len(w) + 1 /\ Append(w, e)[Len(w) + 1] = e
                /\ \A j \in 1..Len(w) : Append(w, e)[j] = w[j]
           /\ w # <<>> =>
                /\ Head(w) = w[1] /\ w[1] \in {"token", "error", "done"}
                /\ Tail(w) \in Seq({"token", "error", "done"})
                /\ Len(w) \in Nat \ {0} /\ Len(Tail(w)) = Len(w) - 1
                /\ \A j \in 1..(Len(w) - 1) : Tail(w)[j] = w[j + 1]
OBVIOUS

\* Another bubble, without text, is one more; a piece goes into one of them.
LEMMA NewBubble ==
    ASSUME NEW b \in Bubble, bubbles \in Seq(Bubble)
    PROVE  /\ Append(bubbles, b) \in Seq(Bubble)
           /\ Len(Append(bubbles, b)) = Size + 1 /\ Size \in Nat
           /\ Append(bubbles, b)[Size + 1] = b
           /\ \A k \in 1..Size : Append(bubbles, b)[k] = bubbles[k]
BY DEF Size

Extended(c, x) == [bubbles EXCEPT ![c].text = Append(@, x)]

LEMMA MorePieces ==
    ASSUME bubbles \in Seq(Bubble), NEW c \in 1..Size,
           NEW x \in Requests \cup {"error"}
    PROVE  LET bs == Extended(c, x)
           IN  /\ bs \in Seq(Bubble) /\ Len(bs) = Size
               /\ \A k \in 1..Size : bs[k].role = bubbles[k].role /\ bs[k].of = bubbles[k].of
               /\ \A k \in 1..Size : k # c => bs[k] = bubbles[k]
               /\ bs[c].text = Append(bubbles[c].text, x)
<1> DEFINE t == Append(bubbles[c].text, x)
           b == [bubbles[c] EXCEPT !.text = t]
           bs == [bubbles EXCEPT ![c] = b]
<1>1. bubbles[c] \in Bubble /\ t \in Seq(Requests \cup {"error"})
  <2>1. bubbles[c] \in Bubble
    BY DEF Size
  <2>2. bubbles[c].text \in Seq(Requests \cup {"error"})
    BY <2>1 DEF Bubble
  <2>3. QED
    BY <2>1, <2>2
<1>2. b \in Bubble /\ b.role = bubbles[c].role /\ b.of = bubbles[c].of /\ b.text = t
  BY <1>1 DEF Bubble
<1>3. bs = Extended(c, x)
  BY DEF Extended
<1> HIDE DEF b
<1>4. bs \in Seq(Bubble) /\ Len(bs) = Size /\ bs[c] = b
      /\ \A k \in 1..Size : k # c => bs[k] = bubbles[k]
  BY <1>2 DEF Size
<1> HIDE DEF bs, t
<1>5. QED
  BY <1>2, <1>3, <1>4 DEF t

LEMMA AiBubbleOK ==
    ASSUME NEW q \in Requests \cup {None}
    PROVE  AiBubble(q) \in Bubble /\ AiBubble(q).text = <<>>
           /\ AiBubble(q).role = "assistant" /\ AiBubble(q).of = q
BY DEF AiBubble, Bubble

LEMMA UserBubbleOK ==
    ASSUME NEW q \in Requests
    PROVE  LET b == [role |-> "user", of |-> q, text |-> <<>>]
           IN  b \in Bubble /\ b.text = <<>> /\ b.role = "user" /\ b.of = q
BY DEF Bubble

LEMMA PageTypes ==
    ASSUME PageInv, NEW q \in Requests, PageStep(q)
    PROVE  ChatTypeOK'
<1>1. MemoryTypeOK'
  BY PageKeepsMemory DEF PageInv, MemoryInv
<1>2. /\ sent \in [Requests -> {"no", "asked", "reading", "over"}]
      /\ reply \in [Requests -> {"none", "stream", "failed", "ended", "refused"}]
      /\ answer \in [Requests -> 0..MaxTokens] /\ MaxTokens \in Nat
      /\ wire \in [Requests -> Seq({"token", "error", "done"})]
      /\ \A x \in Requests : sent[x] \in {"no", "over"} => wire[x] = <<>>
      /\ bubbles \in Seq(Bubble)
      /\ current \in 0..Size
      /\ mishap \subseteq Mishaps
      /\ LinksOK(q)
  BY PageAssumption DEF PageInv, ChatTypeOK, Size
<1>3. CASE SendMessage(q)
  BY <1>1, <1>2, <1>3, NewBubble, UserBubbleOK
     DEF SendMessage, Note, Mishaps, ChatTypeOK, Size, LinksOK
<1>4. CASE Unauthorised(q) \/ Refuse(q)
  BY <1>1, <1>2, <1>4 DEF Unauthorised, Refuse, Note, Mishaps, ChatTypeOK, Size, LinksOK
<1>5. CASE Serve(q) \/ BeginGenerator(q)
  BY <1>1, <1>2, <1>5 DEF Serve, BeginGenerator, pageVars, ChatTypeOK, Size
<1>6. ASSUME NEW e \in {"token", "error", "done"}, Emit(q, e), sent[q] # "no"
      PROVE  /\ wire' \in [Requests -> Seq({"token", "error", "done"})]
             /\ \A x \in Requests : sent[x] \in {"no", "over"} => wire'[x] = <<>>
  <2>1. Append(wire[q], e) \in Seq({"token", "error", "done"})
    BY <1>2, Events
  <2>2. QED
    BY <1>2, <1>6, <2>1 DEF Emit
<1>7. CASE EmitToken(q)
  BY <1>1, <1>2, <1>6, <1>7 DEF EmitToken, ChatTypeOK, Size, LinksOK
<1>8. CASE LlmFails(q)
  BY <1>1, <1>2, <1>6, <1>8 DEF LlmFails, ChatTypeOK, Size, LinksOK
<1>9. CASE Finish(q)
  BY <1>1, <1>2, <1>6, <1>9 DEF Finish, Remember, ChatTypeOK, Size, LinksOK
<1>10. CASE Cancel(q) \/ EndOfStream(q)
  BY <1>1, <1>2, <1>10 DEF Cancel, EndOfStream, ChatTypeOK, Size
<1>11. CASE HeadersArrive(q)
  <2>1. AiBubble(q) \in Bubble
    BY AiBubbleOK
  <2>2. /\ bubbles' \in Seq(Bubble) /\ Len(bubbles') = Size + 1
        /\ current' = Size + 1 /\ Size \in Nat
    BY <1>2, <1>11, <2>1, NewBubble DEF HeadersArrive, Size
  <2>3. QED
    BY <1>1, <1>2, <1>11, <2>2 DEF HeadersArrive, ChatTypeOK
<1>12. CASE Break(q)
  <2>1. AiBubble(None) \in Bubble
    BY AiBubbleOK
  <2>2. /\ bubbles' \in Seq(Bubble) /\ Len(bubbles') = Size + 1 /\ Size \in Nat
    BY <1>2, <1>12, <2>1, NewBubble DEF Break, Size
  <2>3. QED
    BY <1>1, <1>2, <1>12, <2>2 DEF Break, Note, Mishaps, ChatTypeOK
<1>13. ASSUME Read(q) \/ ReadTorn(q)
       PROVE  /\ wire' \in [Requests -> Seq({"token", "error", "done"})]
              /\ \A x \in Requests : sent[x] \in {"no", "over"} => wire'[x] = <<>>
              /\ current \in 1..Size
              /\ Head(wire[q]) \in {"token", "error", "done"}
  <2>1. /\ wire' = [wire EXCEPT ![q] = Tail(@)] /\ wire[q] # <<>>
        /\ sent[q] = "reading"
    BY <1>13 DEF Read, ReadTorn
  <2>2. Tail(wire[q]) \in Seq({"token", "error", "done"})
        /\ Head(wire[q]) \in {"token", "error", "done"}
    BY <1>2, <2>1, Events
  <2>3. QED
    BY <1>2, <2>1, <2>2 DEF LinksOK, Size
<1>14. CASE Read(q)
  <2>1. bubbles' \in Seq(Bubble) /\ Len(bubbles') = Size
    BY <1>2, <1>13, <1>14, MorePieces DEF Read, Size, Extended
  <2>2. QED
    BY <1>1, <1>2, <1>13, <1>14, <2>1 DEF Read, ChatTypeOK
<1>15. CASE ReadTorn(q)
  BY <1>1, <1>2, <1>13, <1>15 DEF ReadTorn, Note, Mishaps, ChatTypeOK, Size
<1>16. QED
  BY <1>3, <1>4, <1>5, <1>7, <1>8, <1>9, <1>10, <1>11, <1>12, <1>14, <1>15
     DEF PageStep

\* What a step of q leaves to the other messages.
LEMMA PageFrame ==
    ASSUME PageInv, NEW q \in Requests, PageStep(q)
    PROVE  /\ \A x \in Requests \ {q} :
                /\ sent'[x] = sent[x] /\ reply'[x] = reply[x] /\ answer'[x] = answer[x]
                /\ wire'[x] = wire[x] /\ req'[x] = req[x]
           /\ mishap \subseteq mishap'
           /\ current # 0 => current' # 0
<1>1. /\ sent \in [Requests -> {"no", "asked", "reading", "over"}]
      /\ reply \in [Requests -> {"none", "stream", "failed", "ended", "refused"}]
      /\ answer \in [Requests -> 0..MaxTokens] /\ req \in [Requests -> Request]
      /\ wire \in [Requests -> Seq({"token", "error", "done"})]
      /\ bubbles \in Seq(Bubble)
  BY DEF PageInv, ChatTypeOK, MemoryTypeOK
<1>2. ASSUME NEW e, Emit(q, e)
      PROVE  \A x \in Requests \ {q} : wire'[x] = wire[x]
  BY <1>1, <1>2 DEF Emit
<1>3. CASE SendMessage(q) \/ Unauthorised(q) \/ Refuse(q) \/ Break(q) \/ ReadTorn(q)
  BY <1>1, <1>3 DEF SendMessage, Unauthorised, Refuse, Break, ReadTorn, Note, vars
<1>4. CASE Serve(q) \/ BeginGenerator(q) \/ Cancel(q)
  BY <1>1, <1>4 DEF Serve, StartStream, BeginGenerator, CopyHistory, pageVars, Cancel,
                    Abandon
<1>5. CASE EmitToken(q) \/ LlmFails(q) \/ Finish(q)
  BY <1>1, <1>2, <1>5 DEF EmitToken, LlmFails, Finish, Remember, vars
<1>6. CASE HeadersArrive(q) \/ Read(q) \/ EndOfStream(q)
  <2>1. Len(bubbles) + 1 # 0
    BY <1>1
  <2>2. QED
    BY <1>1, <1>6, <2>1 DEF HeadersArrive, Read, EndOfStream, vars
<1>7. QED
  BY <1>3, <1>4, <1>5, <1>6 DEF PageStep

LEMMA LinksStep ==
    ASSUME PageInv, NEW q \in Requests, PageStep(q), NEW x \in Requests
    PROVE  LinksOK(x)'
<1>1. /\ sent \in [Requests -> {"no", "asked", "reading", "over"}]
      /\ reply \in [Requests -> {"none", "stream", "failed", "ended", "refused"}]
      /\ answer \in [Requests -> 0..MaxTokens] /\ req \in [Requests -> Request]
      /\ wire \in [Requests -> Seq({"token", "error", "done"})]
      /\ bubbles \in Seq(Bubble) /\ mishap \subseteq mishap'
      /\ LinksOK(x) /\ LinksOK(q) /\ MaxTokens \in Nat
  BY PageFrame, PageAssumption DEF PageInv, ChatTypeOK, MemoryTypeOK
<1>2. CASE x # q
  <2>1. /\ sent'[x] = sent[x] /\ reply'[x] = reply[x] /\ answer'[x] = answer[x]
        /\ wire'[x] = wire[x] /\ req'[x] = req[x]
        /\ current # 0 => current' # 0
    BY <1>2, PageFrame
  <2>2. QED
    BY <1>1, <2>1 DEF LinksOK
<1> SUFFICES ASSUME x = q PROVE LinksOK(q)'
  BY <1>2
<1>3. CASE SendMessage(q)
  BY <1>1, <1>3 DEF SendMessage, LinksOK, vars
<1>4. CASE Unauthorised(q) \/ Refuse(q)
  BY <1>1, <1>4 DEF Unauthorised, Refuse, Note, LinksOK, vars
<1>5. CASE Break(q)
  BY <1>1, <1>5 DEF Break, Note, LinksOK, vars
<1>6. CASE ReadTorn(q)
  BY <1>1, <1>6 DEF ReadTorn, LinksOK, vars
<1>7. CASE Serve(q)
  <2>1. req'[q].thread = Mine /\ req'[q].pc = "fetched"
    BY <1>1, <1>7 DEF Serve, StartStream, Idle
  <2>2. QED
    BY <1>1, <1>7, <2>1 DEF Serve, LinksOK
<1>8. CASE BeginGenerator(q)
  <2>1. /\ req'[q].thread = req[q].thread /\ req'[q].pc = "llm" /\ req[q].pc = "fetched"
        /\ UNCHANGED pageVars
    BY <1>1, <1>8 DEF BeginGenerator, CopyHistory, Request
  <2>2. QED
    BY <1>1, <2>1 DEF LinksOK, pageVars
<1>9. CASE EmitToken(q)
  BY <1>1, <1>9 DEF EmitToken, LinksOK, vars
<1>10. CASE LlmFails(q)
  BY <1>1, <1>10 DEF LlmFails, LinksOK, vars
<1>11. CASE Finish(q) \/ Cancel(q)
  BY <1>1, <1>11, IdleOK DEF Finish, Remember, Cancel, Abandon, LinksOK
<1>12. CASE HeadersArrive(q)
  <2>1. Len(bubbles) + 1 # 0
    BY <1>1
  <2>2. QED
    BY <1>1, <1>12, <2>1 DEF HeadersArrive, LinksOK, vars
<1>13. CASE Read(q)
  BY <1>1, <1>13 DEF Read, LinksOK, vars
<1>14. CASE EndOfStream(q)
  BY <1>1, <1>14 DEF EndOfStream, LinksOK, vars
<1>15. QED
  BY <1>3, <1>4, <1>5, <1>6, <1>7, <1>8, <1>9, <1>10, <1>11, <1>12, <1>13, <1>14
     DEF PageStep

-----------------------------------------------------------------------------
(* The steps of the page: pieces *)

LEMMA PiecesAre ==
    ASSUME NEW bs \in Seq(Bubble), NEW x
    PROVE  \A e : e \in PiecesIn(bs, x) <=>
             \E k \in 1..Len(bs) : \E j \in 1..Len(bs[k].text) :
                 e = <<k, j>> /\ bs[k].text[j] = x
<1>1. ASSUME NEW k \in 1..Len(bs)
      PROVE  k \in DOMAIN bs /\ DOMAIN bs[k].text = 1..Len(bs[k].text)
  <2>1. bs[k] \in Bubble
    OBVIOUS
  <2>2. bs[k].text \in Seq(Requests \cup {"error"})
    BY <2>1 DEF Bubble
  <2>3. QED
    BY <2>2
<1>2. DOMAIN bs = 1..Len(bs)
  OBVIOUS
<1>3. QED
  BY <1>1, <1>2 DEF PiecesIn

\* A bubble without text shows no piece.
LEMMA NoMorePieces ==
    ASSUME bubbles \in Seq(Bubble), NEW b \in Bubble, b.text = <<>>, NEW x
    PROVE  PiecesIn(Append(bubbles, b), x) = PiecesIn(bubbles, x)
<1> DEFINE bs == Append(bubbles, b)
<1>1. /\ bs \in Seq(Bubble) /\ Len(bs) = Len(bubbles) + 1 /\ Len(bubbles) \in Nat
      /\ bs[Len(bubbles) + 1] = b
      /\ \A k \in 1..Len(bubbles) : bs[k] = bubbles[k]
  OBVIOUS
<1> HIDE DEF bs
<1>2. Len(b.text) = 0
  OBVIOUS
<1>3. \A k \in 1..Len(bs) : \A j \in 1..Len(bs[k].text) :
         k \in 1..Len(bubbles) /\ bs[k] = bubbles[k]
  BY <1>1, <1>2
<1>4. \A e : e \in PiecesIn(bs, x) <=> e \in PiecesIn(bubbles, x)
  BY <1>1, <1>3, PiecesAre
<1>5. PiecesIn(bs, x) = PiecesIn(bubbles, x)
  BY <1>4
<1>6. QED
  BY <1>5 DEF bs

\* What the pieces are when y was added to bubble c.
LEMMA PiecesThen ==
    ASSUME bubbles \in Seq(Bubble), NEW c \in 1..Size,
           NEW y \in Requests \cup {"error"}, NEW x \in Requests, NEW f
    PROVE  f \in PiecesIn(Extended(c, y), x) <=>
             \/ f \in PiecesIn(bubbles, x)
             \/ x = y /\ f = <<c, Len(bubbles[c].text) + 1>>
<1> DEFINE bs == Extended(c, y)
           t == bubbles[c].text
           e == <<c, Len(t) + 1>>
<1>1. /\ bs \in Seq(Bubble) /\ Len(bs) = Size
      /\ \A k \in 1..Size : k # c => bs[k] = bubbles[k]
      /\ bs[c].text = Append(t, y)
  BY MorePieces
<1>2. t \in Seq(Requests \cup {"error"}) /\ Len(t) \in Nat
  <2>1. bubbles[c] \in Bubble
    BY DEF Size
  <2>2. t \in Seq(Requests \cup {"error"})
    BY <2>1 DEF Bubble
  <2>3. QED
    BY <2>2
<1>3. /\ Len(bs[c].text) = Len(t) + 1 /\ bs[c].text[Len(t) + 1] = y
      /\ \A j \in 1..Len(t) : bs[c].text[j] = t[j]
  BY <1>1, <1>2
<1>4. f \in PiecesIn(bubbles, x) <=>
          \E k \in 1..Size : \E j \in 1..Len(bubbles[k].text) :
              f = <<k, j>> /\ bubbles[k].text[j] = x
  BY PiecesAre DEF Size
<1> HIDE DEF bs
<1>5. f \in PiecesIn(bs, x) <=>
          \E k \in 1..Size : \E j \in 1..Len(bs[k].text) :
              f = <<k, j>> /\ bs[k].text[j] = x
  BY <1>1, PiecesAre
<1>6. \A k \in 1..Size : k # c => Len(bs[k].text) = Len(bubbles[k].text)
                               /\ bs[k].text = bubbles[k].text
  BY <1>1
<1>7. t = bubbles[c].text
  OBVIOUS
<1> HIDE DEF t
<1>8. ASSUME f \in PiecesIn(bs, x)
      PROVE  f \in PiecesIn(bubbles, x) \/ (x = y /\ f = e)
  <2>0. PICK k \in 1..Size : \E j \in 1..Len(bs[k].text) :
                 f = <<k, j>> /\ bs[k].text[j] = x
    BY <1>5, <1>8
  <2>1. PICK j \in 1..Len(bs[k].text) : f = <<k, j>> /\ bs[k].text[j] = x
    BY <2>0
  <2>2. CASE k # c
    BY <2>1, <2>2, <1>4, <1>6
  <2>3. CASE k = c /\ j \in 1..Len(t)
    <3>1. t[j] = x
      BY <2>1, <2>3, <1>3
    <3>2. QED
      BY <2>1, <2>3, <3>1, <1>4, <1>7
  <2>4. CASE k = c /\ j = Len(t) + 1
    BY <2>1, <2>4, <1>3
  <2>5. QED
    BY <2>1, <2>2, <2>3, <2>4, <1>2, <1>3
<1>9. ASSUME f \in PiecesIn(bubbles, x)
      PROVE  f \in PiecesIn(bs, x)
  <2>0. PICK k \in 1..Size : \E j \in 1..Len(bubbles[k].text) :
                 f = <<k, j>> /\ bubbles[k].text[j] = x
    BY <1>4, <1>9
  <2>1. PICK j \in 1..Len(bubbles[k].text) : f = <<k, j>> /\ bubbles[k].text[j] = x
    BY <2>0
  <2>2. CASE k # c
    BY <2>1, <2>2, <1>5, <1>6
  <2>3. CASE k = c
    <3>1. j \in 1..Len(t) /\ t[j] = x
      BY <2>1, <2>3, <1>7
    <3>2. j \in 1..Len(bs[k].text) /\ bs[k].text[j] = x
      BY <2>3, <3>1, <1>2, <1>3
    <3>3. QED
      BY <2>1, <3>2, <1>5
  <2>4. QED
    BY <2>2, <2>3
<1>10. ASSUME x = y, f = e
       PROVE  f \in PiecesIn(bs, x)
  <2>1. Len(t) + 1 \in 1..Len(bs[c].text) /\ bs[c].text[Len(t) + 1] = x
    BY <1>2, <1>3, <1>10
  <2>2. QED
    BY <2>1, <1>5, <1>10
<1>11. f \in PiecesIn(bs, x) <=> f \in PiecesIn(bubbles, x) \/ (x = y /\ f = e)
  BY <1>8, <1>9, <1>10
<1>12. QED
  BY <1>11, <1>7 DEF bs

LEMMA OtherPieces ==
    ASSUME bubbles \in Seq(Bubble), NEW c \in 1..Size,
           NEW y \in Requests \cup {"error"}, NEW x \in Requests, x # y
    PROVE  PiecesIn(Extended(c, y), x) = PiecesIn(bubbles, x)
<1>1. \A f : f \in PiecesIn(Extended(c, y), x) <=> f \in PiecesIn(bubbles, x)
  BY PiecesThen
<1>2. QED
  BY <1>1

\* A piece that is added is one more of its answer.
LEMMA OneMorePiece ==
    ASSUME bubbles \in Seq(Bubble), NEW c \in 1..Size, NEW x \in Requests
    PROVE  \E e : /\ e \notin PiecesIn(bubbles, x)
                  /\ PiecesIn(Extended(c, x), x) = PiecesIn(bubbles, x) \cup {e}
<1> DEFINE e == <<c, Len(bubbles[c].text) + 1>>
<1>1. e \notin PiecesIn(bubbles, x)
  <2>1. bubbles[c] \in Bubble
    BY DEF Size
  <2>2. bubbles[c].text \in Seq(Requests \cup {"error"})
    BY <2>1 DEF Bubble
  <2>3. Len(bubbles[c].text) + 1 \notin 1..Len(bubbles[c].text)
    BY <2>2
  <2>4. \A k \in 1..Size : \A j \in 1..Len(bubbles[k].text) : e # <<k, j>>
    BY <2>3
  <2>5. QED
    BY <2>4, PiecesAre DEF Size
<1>2. \A f : f \in PiecesIn(Extended(c, x), x) <=> f \in PiecesIn(bubbles, x) \/ f = e
  BY PiecesThen
<1> HIDE DEF e
<1>3. PiecesIn(Extended(c, x), x) = PiecesIn(bubbles, x) \cup {e}
  BY <1>2
<1>4. QED
  BY <1>1, <1>3

\* A step of q changes no other answer on the page.
LEMMA PiecesFrame ==
    ASSUME PageInv, NEW q \in Requests, PageStep(q), NEW x \in Requests, x # q
    PROVE  PiecesIn(bubbles, x)' = PiecesIn(bubbles, x)
<1>1. /\ bubbles \in Seq(Bubble) /\ current \in 0..Size /\ LinksOK(q)
      /\ "error" \notin Requests
  BY PageAssumption DEF PageInv, ChatTypeOK, Size
<1>2. ASSUME NEW b \in Bubble, b.text = <<>>, bubbles' = Append(bubbles, b)
      PROVE  PiecesIn(bubbles, x)' = PiecesIn(bubbles, x)
  <2>1. PiecesIn(Append(bubbles, b), x) = PiecesIn(bubbles, x)
    BY <1>1, <1>2, NoMorePieces
  <2>2. QED
    BY <2>1, <1>2
<1>3. CASE SendMessage(q)
  BY <1>2, <1>3, UserBubbleOK DEF SendMessage
<1>4. CASE HeadersArrive(q)
  BY <1>2, <1>4, AiBubbleOK DEF HeadersArrive
<1>5. CASE Break(q)
  BY <1>2, <1>5, AiBubbleOK DEF Break
<1>6. CASE Read(q)
  <2>1. current \in 1..Size
    BY <1>1, <1>6 DEF Read, LinksOK, Size
  <2>2. ASSUME NEW y \in {q, "error"}
        PROVE  PiecesIn(Extended(current, y), x) = PiecesIn(bubbles, x)
    <3>1. y \in Requests \cup {"error"} /\ x # y
      BY <1>1
    <3>2. QED
      BY <1>1, <2>1, <3>1, OtherPieces
  <2>3. Head(wire[q]) \in {"token", "error", "done"}
    BY <1>6, Events DEF Read, PageInv, ChatTypeOK
  <2>4. \/ UNCHANGED bubbles
        \/ \E y \in {q, "error"} : bubbles' = Extended(current, y)
    BY <1>6, <2>3 DEF Read, Extended
  <2>5. CASE UNCHANGED bubbles
    BY <2>5
  <2>6. ASSUME NEW y \in {q, "error"}, bubbles' = Extended(current, y)
        PROVE  PiecesIn(bubbles', x) = PiecesIn(bubbles, x)
    BY <2>2, <2>6
  <2>7. QED
    BY <2>4, <2>5, <2>6
<1>7. CASE ~(SendMessage(q) \/ HeadersArrive(q) \/ Break(q) \/ Read(q))
  <2>1. UNCHANGED bubbles
    BY <1>7 DEF PageStep, Unauthorised, Refuse, Serve, BeginGenerator, pageVars,
                EmitToken, LlmFails, Finish, Cancel, ReadTorn, EndOfStream
  <2>2. QED
    BY <2>1
<1>8. QED
  BY <1>3, <1>4, <1>5, <1>6, <1>7

\* Without a mishap, nothing else is under way.
LEMMA Alone ==
    ASSUME PageInv, NEW q \in Requests, PageStep(q), mishap' = {}
    PROVE  mishap = {} /\ (\A x \in Requests \ {q} : x \notin Open)
           /\ (SendMessage(q) => Open = {}) /\ (~SendMessage(q) => q \in Open)
<1>1. mishap = {} /\ Alternate
  BY PageFrame DEF PageInv, TalkOK
<1>2. CASE SendMessage(q)
  <2>1. Open = {}
    BY <1>2 DEF SendMessage, Note
  <2>2. QED
    BY <1>1, <1>2, <2>1
<1>3. CASE ~SendMessage(q)
  <2>1. q \in Open
    BY <1>3 DEF PageStep, Unauthorised, Refuse, Serve, BeginGenerator, CopyHistory,
                EmitToken, LlmFails, Finish, Remember, Cancel, Abandon, HeadersArrive,
                Read, ReadTorn, EndOfStream, Break, Open, UnderWay
  <2>2. QED
    BY <1>1, <1>3, <2>1 DEF Alternate
<1>4. QED
  BY <1>2, <1>3

\* The pieces under way and shown, after a step of another message.
LEMMA StreamOfOthers ==
    ASSUME PageInv, NEW q \in Requests, PageStep(q), NEW x \in Requests, x # q
    PROVE  StreamOK(x)'
<1>1. /\ sent'[x] = sent[x] /\ reply'[x] = reply[x] /\ answer'[x] = answer[x]
      /\ wire'[x] = wire[x] /\ mishap \subseteq mishap'
  BY PageFrame
<1>2. PICK n \in Nat : WireOK(x, n) /\ ShownOK(x, n) /\ TextOK(x, n)
  BY DEF PageInv, StreamOK
<1>3. WireOK(x, n)'
  BY <1>1, <1>2 DEF WireOK
<1>4. ShownOK(x, n)'
  <2>1. PiecesIn(bubbles, x)' = PiecesIn(bubbles, x)
    BY PiecesFrame
  <2>2. QED
    BY <1>1, <1>2, <2>1 DEF ShownOK
<1>5. TextOK(x, n)'
  <2>1. mishap' = {} => sent'[x] # "reading"
    BY <1>1, Alone DEF Open, UnderWay
  <2>2. QED
    BY <2>1 DEF TextOK
<1>6. QED
  BY <1>3, <1>4, <1>5 DEF StreamOK

\* Steps of q that touch neither its answer nor its events under way, and
\* after which it is not read, or no more than before.
LEMMA StreamKept ==
    ASSUME PageInv, NEW q \in Requests,
           mishap \subseteq mishap', UNCHANGED <<answer, wire>>,
           PiecesIn(bubbles, q)' = PiecesIn(bubbles, q),
           sent'[q] # "reading",
           sent'[q] \in {"no", "asked"} => sent[q] \in {"no", "asked"},
           reply'[q] = "failed" => reply[q] = "failed",
           reply'[q] \in {"none", "stream"} => reply[q] \in {"none", "stream"}
    PROVE  StreamOK(q)'
<1>1. PICK n \in Nat : WireOK(q, n) /\ ShownOK(q, n) /\ TextOK(q, n)
  BY DEF PageInv, StreamOK
<1>2. WireOK(q, n)'
  BY <1>1 DEF WireOK
<1>3. ShownOK(q, n)'
  BY <1>1 DEF ShownOK
<1>4. TextOK(q, n)'
  BY DEF TextOK
<1>5. QED
  BY <1>2, <1>3, <1>4 DEF StreamOK

\* The server adds an event.
LEMMA StreamEmitted ==
    ASSUME PageInv, NEW q \in Requests, EmitToken(q) \/ LlmFails(q) \/ Finish(q)
    PROVE  StreamOK(q)'
<1>1. /\ sent \in [Requests -> {"no", "asked", "reading", "over"}]
      /\ reply \in [Requests -> {"none", "stream", "failed", "ended", "refused"}]
      /\ answer \in [Requests -> 0..MaxTokens] /\ MaxTokens \in Nat
      /\ wire \in [Requests -> Seq({"token", "error", "done"})]
      /\ LinksOK(q) /\ req[q].pc = "llm"
      /\ UNCHANGED <<sent, bubbles, mishap>>
  BY PageAssumption DEF PageInv, ChatTypeOK, EmitToken, LlmFails, Finish, Remember
<1>2. /\ reply[q] \in {"stream", "failed"} /\ sent[q] # "no"
      /\ mishap \subseteq {"overlap"} => sent[q] # "over"
  BY <1>1 DEF LinksOK
<1>3. PICK n \in Nat : WireOK(q, n) /\ ShownOK(q, n) /\ TextOK(q, n)
  BY DEF PageInv, StreamOK
<1> DEFINE w == wire[q]
<1>4. w \in Seq({"token", "error", "done"}) /\ Len(w) \in Nat
  BY <1>1
<1>5. ASSUME NEW e \in {"token", "error", "done"}, Emit(q, e), sent[q] # "over"
      PROVE  /\ Len(wire'[q]) = Len(w) + 1 /\ wire'[q][Len(w) + 1] = e
             /\ \A j \in 1..Len(w) : wire'[q][j] = w[j]
  <2>1. wire'[q] = Append(w, e)
    BY <1>1, <1>5 DEF Emit
  <2>2. QED
    BY <1>4, <2>1
<1>6. CASE EmitToken(q)
  <2>1. /\ reply[q] = "stream" /\ UNCHANGED reply /\ answer'[q] = answer[q] + 1
        /\ Emit(q, "token") /\ Len(w) = n
    BY <1>1, <1>3, <1>6 DEF EmitToken, WireOK
  <2>2. CASE sent[q] = "over"
    <3>1. UNCHANGED wire /\ ~(mishap \subseteq {"overlap"})
      BY <1>2, <2>1, <2>2 DEF Emit
    <3>2. WireOK(q, n)' /\ ShownOK(q, n)' /\ TextOK(q, n)'
      BY <1>1, <1>3, <2>1, <2>2, <3>1 DEF WireOK, ShownOK, TextOK
    <3>3. QED
      BY <3>2 DEF StreamOK
  <2>3. CASE sent[q] # "over"
    <3>1. /\ Len(wire'[q]) = n + 1 /\ wire'[q][n + 1] = "token"
          /\ \A j \in 1..n : wire'[q][j] = w[j]
      BY <1>5, <2>1, <2>3
    <3>2. \A j \in 1..n : w[j] = "token"
      BY <1>3, <2>1 DEF WireOK
    <3>3. \A j \in 1..(n + 1) : wire'[q][j] = "token"
      BY <3>1, <3>2
    <3>4. WireOK(q, n + 1)'
      <4>1. sent[q] = "asked" => answer'[q] = n + 1
        BY <1>3, <2>1 DEF WireOK
      <4>2. QED
        BY <1>1, <1>2, <2>1, <3>1, <3>3, <4>1 DEF WireOK
    <3>5. ShownOK(q, n + 1)'
      <4>1. ASSUME mishap \subseteq {"overlap"}
            PROVE  Cardinality(PiecesIn(bubbles, q)) + (n + 1) = answer'[q]
        <5>1. IsFiniteSet(PiecesIn(bubbles, q))
              /\ Cardinality(PiecesIn(bubbles, q)) + n = answer[q]
          BY <1>3, <4>1 DEF ShownOK
        <5>2. Cardinality(PiecesIn(bubbles, q)) \in Nat
          BY <5>1, FS_CardinalityType
        <5>3. QED
          BY <5>1, <5>2, <2>1
      <4>2. QED
        BY <1>1, <1>3, <4>1 DEF ShownOK
    <3>6. TextOK(q, n + 1)'
      <4>1. answer'[q] - (n + 1) = answer[q] - n /\ answer[q] \in Nat
        BY <1>1, <2>1
      <4>2. QED
        BY <1>1, <1>3, <2>1, <4>1 DEF TextOK
    <3>7. QED
      BY <3>4, <3>5, <3>6 DEF StreamOK
  <2>4. QED
    BY <2>2, <2>3
<1>7. CASE LlmFails(q)
  <2>1. /\ reply[q] = "stream" /\ reply'[q] = "failed" /\ UNCHANGED answer
        /\ Emit(q, "error") /\ Len(w) = n
    BY <1>1, <1>3, <1>7 DEF LlmFails, WireOK
  <2>2. \A j \in 1..n : w[j] = "token"
    BY <1>3, <2>1 DEF WireOK
  <2>3. WireOK(q, n)'
    <3>1. CASE sent[q] = "over"
      BY <1>1, <1>3, <2>1, <2>2, <3>1 DEF WireOK, Emit
    <3>2. CASE sent[q] # "over"
      <4>1. /\ Len(wire'[q]) = n + 1 /\ wire'[q][n + 1] = "error"
            /\ \A j \in 1..n : wire'[q][j] = "token"
        BY <1>5, <2>1, <2>2, <3>2
      <4>2. \A j \in 1..Len(wire'[q]) : j \in 1..n \/ j = n + 1
        BY <4>1
      <4>3. QED
        BY <1>1, <1>3, <2>1, <4>1, <4>2 DEF WireOK
    <3>3. QED
      BY <3>1, <3>2
  <2>4. ShownOK(q, n)' /\ TextOK(q, n)'
    BY <1>1, <1>3, <2>1 DEF ShownOK, TextOK
  <2>5. QED
    BY <2>3, <2>4 DEF StreamOK
<1>8. CASE Finish(q)
  <2>1. reply'[q] = "ended" /\ UNCHANGED answer /\ Emit(q, "done")
    BY <1>1, <1>8 DEF Finish
  <2>2. \/ sent[q] = "over" /\ UNCHANGED wire
        \/ /\ Len(wire'[q]) = Len(w) + 1 /\ wire'[q][Len(w) + 1] = "done"
           /\ \A j \in 1..Len(w) : wire'[q][j] = w[j]
    BY <1>5, <2>1 DEF Emit
  <2>3. \A j \in 1..Len(wire'[q]) :
            \/ j \in 1..Len(w) /\ wire'[q][j] = w[j]
            \/ j > Len(w) /\ wire'[q][j] = "done"
    BY <1>4, <2>2
  <2>4. Len(w) <= Len(wire'[q]) /\ Len(wire'[q]) \in Nat
    BY <1>4, <2>2
  <2>5. WireOK(q, n)'
    <3>1. \A j \in 1..Len(w) : (w[j] = "token" <=> j <= n) /\ (w[j] = "error" => j = n + 1)
      BY <1>3 DEF WireOK
    <3>2. n <= Len(w) /\ (sent[q] \in {"no", "asked"} => answer[q] = n)
      BY <1>3 DEF WireOK
    <3>3. \A j \in 1..Len(wire'[q]) : /\ wire'[q][j] = "token" <=> j <= n
                                      /\ wire'[q][j] = "error" => j = n + 1
      BY <1>4, <2>3, <2>4, <3>1, <3>2
    <3>4. n <= Len(wire'[q])
      BY <1>4, <2>4, <3>2
    <3>5. QED
      BY <1>1, <2>1, <3>2, <3>3, <3>4 DEF WireOK
  <2>6. ShownOK(q, n)'
    BY <1>1, <1>3, <2>1 DEF ShownOK
  <2>7. TextOK(q, n)'
    <3>1. (\A j \in 1..Len(w) : w[j] # "error")
             => \A j \in 1..Len(wire'[q]) : wire'[q][j] # "error"
      BY <2>3
    <3>2. QED
      BY <1>1, <1>3, <2>1, <3>1 DEF TextOK
  <2>8. QED
    BY <2>5, <2>6, <2>7 DEF StreamOK
<1>9. QED
  BY <1>6, <1>7, <1>8

LEMMA StreamStarts ==
    ASSUME PageInv, NEW q \in Requests, HeadersArrive(q)
    PROVE  StreamOK(q)'
<1>1. /\ bubbles \in Seq(Bubble) /\ AiBubble(q) \in Bubble /\ AiBubble(q).text = <<>>
      /\ sent[q] = "asked" /\ bubbles' = Append(bubbles, AiBubble(q))
      /\ sent'[q] = "reading"
      /\ UNCHANGED <<reply, answer, wire, mishap>>
      /\ answer[q] \in Nat
  BY AiBubbleOK, PageAssumption DEF HeadersArrive, PageInv, ChatTypeOK
<1>2. PICK n \in Nat : WireOK(q, n) /\ ShownOK(q, n)
  BY DEF PageInv, StreamOK
<1>3. answer[q] = n
  BY <1>1, <1>2 DEF WireOK
<1>4. WireOK(q, n)'
  BY <1>1, <1>2 DEF WireOK
<1>5. ShownOK(q, n)'
  <2>1. PiecesIn(Append(bubbles, AiBubble(q)), q) = PiecesIn(bubbles, q)
    BY <1>1, NoMorePieces
  <2>2. PiecesIn(bubbles, q)' = PiecesIn(bubbles, q)
    BY <2>1, <1>1
  <2>3. QED
    BY <1>1, <1>2, <2>2 DEF ShownOK
<1>6. TextOK(q, n)'
  <2>1. bubbles'[Len(bubbles')] = AiBubble(q)
    BY <1>1
  <2>2. Len(bubbles'[Len(bubbles')].text) = 0
    BY <1>1, <2>1
  <2>3. answer'[q] - n = 0
    BY <1>1, <1>3
  <2>4. QED
    BY <2>2, <2>3 DEF TextOK
<1>7. QED
  BY <1>4, <1>5, <1>6 DEF StreamOK

\* What is left under way when the first event was read.
LEMMA WireRead ==
    ASSUME PageInv, NEW q \in Requests, sent[q] = "reading", wire[q] # <<>>,
           wire' = [wire EXCEPT ![q] = Tail(@)], UNCHANGED <<sent, reply, answer>>,
           NEW n \in Nat, WireOK(q, n)
    PROVE  /\ wire[q][1] = Head(wire[q])
           /\ Head(wire[q]) = "token" => n > 0 /\ WireOK(q, n - 1)'
           /\ Head(wire[q]) # "token" => n = 0 /\ WireOK(q, n)'
           /\ Head(wire[q]) = "error" =>
                /\ \A j \in 1..Len(wire'[q]) : wire'[q][j] # "error"
                /\ reply[q] \in {"failed", "ended", "refused"}
<1> DEFINE w == wire[q]
           v == wire'[q]
<1>1. /\ reply[q] \in {"none", "stream", "failed", "ended", "refused"}
      /\ w \in Seq({"token", "error", "done"}) /\ v = Tail(w)
      /\ wire \in [Requests -> Seq({"token", "error", "done"})]
  BY DEF PageInv, ChatTypeOK
<1>2. /\ Head(w) = w[1] /\ w[1] \in {"token", "error", "done"}
      /\ Len(w) \in Nat \ {0} /\ Len(v) = Len(w) - 1
      /\ \A j \in 1..(Len(w) - 1) : v[j] = w[j + 1]
  BY <1>1, Events
<1>3. /\ n <= Len(w)
      /\ \A j \in 1..Len(w) : /\ w[j] = "token" <=> j <= n
                              /\ w[j] = "error" => j = n + 1
                              /\ reply[q] = "failed" => w[j] # "done"
      /\ reply[q] \in {"none", "stream"} => Len(w) = n
  BY DEF WireOK
<1> HIDE DEF w, v
<1>4. CASE Head(w) = "token"
  <2>1. n > 0
    BY <1>2, <1>3, <1>4
  <2>2. /\ n - 1 \in Nat /\ n - 1 <= Len(v)
        /\ \A j \in 1..Len(v) : /\ v[j] = "token" <=> j <= n - 1
                                /\ v[j] = "error" => j = (n - 1) + 1
                                /\ reply[q] = "failed" => v[j] # "done"
        /\ reply[q] \in {"none", "stream"} => Len(v) = n - 1
    <3>1. \A j \in 1..Len(v) : j + 1 \in 1..Len(w) /\ v[j] = w[j + 1]
                                 /\ (j + 1 <= n <=> j <= n - 1)
                                 /\ (j + 1 = n + 1 <=> j = (n - 1) + 1)
      BY <1>2
    <3>2. QED
      BY <1>2, <1>3, <2>1, <3>1
  <2>3. WireOK(q, n - 1)'
    BY <2>2 DEF WireOK, v
  <2>4. QED
    BY <1>2, <1>4, <2>1, <2>3 DEF w
<1>5. CASE Head(w) # "token"
  <2>1. n = 0
    BY <1>2, <1>3, <1>5
  <2>2. \A j \in 1..Len(v) : j + 1 \in 1..Len(w) /\ v[j] = w[j + 1] /\ j + 1 # 1
    BY <1>2
  <2>3. \A j \in 1..Len(v) : /\ v[j] # "token" /\ v[j] # "error"
                             /\ reply[q] = "failed" => v[j] # "done"
    BY <1>3, <2>1, <2>2
  <2>4. reply[q] \notin {"none", "stream"}
    BY <1>2, <1>3, <2>1
  <2>5. Len(v) \in Nat /\ \A j \in 1..Len(v) : ~(j <= 0)
    BY <1>2
  <2>6. WireOK(q, n)'
    BY <2>1, <2>3, <2>4, <2>5 DEF WireOK, v
  <2>7. QED
    BY <1>1, <1>2, <1>5, <2>1, <2>3, <2>4, <2>6 DEF w, v
<1>6. QED
  BY <1>4, <1>5 DEF w

LEMMA StreamTorn ==
    ASSUME PageInv, NEW q \in Requests, ReadTorn(q)
    PROVE  StreamOK(q)'
<1>1. /\ sent[q] = "reading" /\ wire[q] # <<>> /\ wire' = [wire EXCEPT ![q] = Tail(@)]
      /\ UNCHANGED <<sent, reply, answer, bubbles>>
      /\ mishap' = mishap \cup (IF Head(wire[q]) # "done" THEN {"torn"} ELSE {})
  BY DEF ReadTorn, Note
<1>2. PICK n \in Nat : WireOK(q, n) /\ ShownOK(q, n) /\ TextOK(q, n)
  BY DEF PageInv, StreamOK
<1>3. CASE Head(wire[q]) = "done"
  <2>1. n = 0 /\ WireOK(q, n)' /\ mishap' = mishap
    BY <1>1, <1>2, <1>3, WireRead
  <2>2. ShownOK(q, n)'
    BY <1>1, <1>2, <2>1 DEF ShownOK
  <2>3. TextOK(q, n)'
    <3>1. wire[q] \in Seq({"token", "error", "done"}) /\ wire'[q] = Tail(wire[q])
      BY <1>1 DEF PageInv, ChatTypeOK
    <3>2. \A j \in 1..Len(wire'[q]) : \E i \in 1..Len(wire[q]) : wire'[q][j] = wire[q][i]
      <4>1. /\ Len(Tail(wire[q])) = Len(wire[q]) - 1 /\ Len(wire[q]) \in Nat
            /\ \A j \in 1..(Len(wire[q]) - 1) : Tail(wire[q])[j] = wire[q][j + 1]
        BY <1>1, <3>1, Events
      <4>2. \A j \in 1..Len(wire'[q]) : j + 1 \in 1..Len(wire[q])
        BY <4>1, <3>1
      <4>3. QED
        BY <3>1, <4>1, <4>2
    <3>3. QED
      BY <1>1, <1>2, <2>1, <3>2 DEF TextOK
  <2>4. QED
    BY <2>1, <2>2, <2>3 DEF StreamOK
<1>4. CASE Head(wire[q]) # "done"
  <2>1. "torn" \in mishap'
    BY <1>1, <1>4
  <2>2. PICK m \in Nat : WireOK(q, m)'
    <3>1. WireOK(q, n)
      BY <1>2
    <3>2. CASE Head(wire[q]) = "token"
      <4>1. n > 0 /\ WireOK(q, n - 1)'
        BY <1>1, <3>1, <3>2, WireRead
      <4>2. n - 1 \in Nat
        BY <4>1
      <4>3. QED
        BY <4>1, <4>2
    <3>3. CASE Head(wire[q]) # "token"
      <4>1. WireOK(q, n)'
        BY <1>1, <3>1, <3>3, WireRead
      <4>2. QED
        BY <4>1
    <3>4. QED
      BY <3>2, <3>3
  <2>3. ShownOK(q, m)' /\ TextOK(q, m)'
    BY <2>1 DEF ShownOK, TextOK
  <2>4. QED
    BY <2>2, <2>3 DEF StreamOK
<1>5. QED
  BY <1>3, <1>4

\* The page shows the next event in the bubble it last started.
LEMMA StreamRead ==
    ASSUME PageInv, NEW q \in Requests, Read(q)
    PROVE  StreamOK(q)'
<1> DEFINE t == bubbles[Len(bubbles)].text
           u == bubbles'[Len(bubbles')].text
<1>1. /\ sent[q] = "reading" /\ wire[q] # <<>> /\ wire' = [wire EXCEPT ![q] = Tail(@)]
      /\ UNCHANGED <<sent, reply, answer, mishap>>
      /\ bubbles \in Seq(Bubble) /\ "error" \notin Requests
      /\ wire[q] \in Seq({"token", "error", "done"}) /\ wire'[q] = Tail(wire[q])
      /\ answer[q] \in Nat
  BY PageAssumption DEF Read, PageInv, ChatTypeOK
<1>2. /\ current \in 1..Size
      /\ mishap = {} => current = Size /\ reply[q] # "refused"
  BY <1>1 DEF PageInv, TalkOK, Alternate, Turn, LinksOK, ChatTypeOK, Size
<1>3. PICK n \in Nat : WireOK(q, n) /\ ShownOK(q, n) /\ TextOK(q, n)
  BY DEF PageInv, StreamOK
<1>4. WireOK(q, n)
  BY <1>3
<1>5. ASSUME NEW y \in {q, "error"}, bubbles' = Extended(current, y)
      PROVE  mishap = {} => /\ u = Append(t, y) /\ Len(u) = Len(t) + 1 /\ Len(t) \in Nat
                            /\ u[Len(t) + 1] = y /\ \A j \in 1..Len(t) : u[j] = t[j]
  <2> SUFFICES ASSUME mishap = {}
               PROVE  /\ u = Append(t, y) /\ Len(u) = Len(t) + 1 /\ Len(t) \in Nat
                      /\ u[Len(t) + 1] = y /\ \A j \in 1..Len(t) : u[j] = t[j]
    OBVIOUS
  <2>1. /\ Len(Extended(current, y)) = Size
        /\ Extended(current, y)[current].text = Append(bubbles[current].text, y)
    BY <1>1, <1>2, MorePieces
  <2>2. u = Append(t, y)
    BY <2>1, <1>2, <1>5 DEF Size
  <2>3. bubbles[Len(bubbles)] \in Bubble
    BY <1>1, <1>2 DEF Size
  <2>4. t \in Seq(Requests \cup {"error"})
    BY <2>3 DEF Bubble
  <2> HIDE DEF t, u
  <2>5. QED
    BY <2>2, <2>4
<1> HIDE DEF t, u
<1>6. CASE Head(wire[q]) = "token"
  <2>1. n > 0 /\ WireOK(q, n - 1)'
    BY <1>1, <1>4, <1>6, WireRead
  <2>2. n - 1 \in Nat
    BY <2>1
  <2>3. bubbles' = Extended(current, q)
    BY <1>6 DEF Read, Extended
  <2>4. ShownOK(q, n - 1)'
    <3>1. PICK e : /\ e \notin PiecesIn(bubbles, q)
                   /\ PiecesIn(Extended(current, q), q) = PiecesIn(bubbles, q) \cup {e}
      BY <1>1, <1>2, OneMorePiece
    <3> DEFINE P == PiecesIn(bubbles, q)
    <3>2. PiecesIn(bubbles', q) = P \cup {e} /\ e \notin P
      BY <2>3, <3>1
    <3>3. ASSUME mishap \subseteq {"overlap"}
          PROVE  /\ IsFiniteSet(P \cup {e})
                 /\ Cardinality(P \cup {e}) + (n - 1) = answer[q]
      <4>1. IsFiniteSet(P) /\ Cardinality(P) + n = answer[q]
        BY <1>3, <3>3 DEF ShownOK
      <4> HIDE DEF P
      <4>2. /\ IsFiniteSet(P \cup {e}) /\ Cardinality(P \cup {e}) = Cardinality(P) + 1
            /\ Cardinality(P) \in Nat
        BY <3>2, <4>1, FS_AddElement, FS_CardinalityType
      <4>3. QED
        BY <4>1, <4>2
    <3> HIDE DEF P
    <3>4. QED
      BY <1>1, <3>2, <3>3 DEF ShownOK
  <2>5. TextOK(q, n - 1)'
    <3>1. ASSUME mishap = {}
          PROVE  /\ \A j \in 1..(answer[q] - (n - 1)) : j <= Len(u) /\ u[j] = q
                 /\ Len(u) = answer[q] - (n - 1)
      <4>1. /\ \A j \in 1..(answer[q] - n) : j <= Len(t) /\ t[j] = q
            /\ Len(t) = answer[q] - n
        BY <1>1, <1>3, <2>1, <3>1 DEF TextOK, t
      <4>2. /\ Len(u) = Len(t) + 1 /\ Len(t) \in Nat
            /\ u[Len(t) + 1] = q /\ \A j \in 1..Len(t) : u[j] = t[j]
        BY <1>5, <2>3, <3>1
      <4>3. \A j \in 1..(answer[q] - (n - 1)) : j \in 1..Len(t) \/ j = Len(t) + 1
        BY <1>1, <4>1, <4>2
      <4>4. ASSUME NEW j \in 1..(answer[q] - (n - 1))
            PROVE  j <= Len(u) /\ u[j] = q
        <5>1. CASE j \in 1..Len(t)
          <6>1. t[j] = q
            BY <4>1, <5>1
          <6>2. u[j] = t[j] /\ j <= Len(u)
            BY <4>2, <5>1
          <6>3. QED
            BY <6>1, <6>2
        <5>2. CASE j = Len(t) + 1
          BY <4>2, <5>2
        <5>3. QED
          BY <4>3, <5>1, <5>2
      <4>5. answer[q] \in Nat
        BY <1>1
      <4>6. Len(u) = answer[q] - (n - 1)
        BY <4>1, <4>2, <4>5
      <4>7. QED
        BY <4>4, <4>6
    <3>2. QED
      BY <1>1, <3>1 DEF TextOK, u
  <2>6. QED
    BY <2>1, <2>2, <2>4, <2>5 DEF StreamOK
<1>7. CASE Head(wire[q]) = "error"
  <2>1. /\ n = 0 /\ WireOK(q, n)' /\ wire[q][1] = "error"
        /\ \A j \in 1..Len(wire'[q]) : wire'[q][j] # "error"
        /\ reply[q] \in {"failed", "ended", "refused"}
    BY <1>1, <1>4, <1>7, WireRead
  <2>2. bubbles' = Extended(current, "error")
    BY <1>7 DEF Read, Extended
  <2>3. ShownOK(q, n)'
    <3>1. PiecesIn(Extended(current, "error"), q) = PiecesIn(bubbles, q)
      BY <1>1, <1>2, OtherPieces
    <3>2. PiecesIn(bubbles', q) = PiecesIn(bubbles, q)
      BY <2>2, <3>1
    <3>3. QED
      BY <1>1, <1>3, <3>2 DEF ShownOK
  <2>4. TextOK(q, n)'
    <3>1. ASSUME mishap = {}
          PROVE  /\ \A j \in 1..(answer[q] - n) : j <= Len(u) /\ u[j] = q
                 /\ Len(u) = answer[q] + 1 /\ u[Len(u)] = "error"
                 /\ reply[q] \in {"failed", "ended"}
      <4>1. 1 \in 1..Len(wire[q])
        BY <1>1
      <4>2. /\ \A j \in 1..(answer[q] - n) : j <= Len(t) /\ t[j] = q
            /\ Len(t) = answer[q] - n
        BY <1>1, <1>3, <2>1, <3>1, <4>1 DEF TextOK, t
      <4>3. /\ Len(u) = Len(t) + 1 /\ Len(t) \in Nat
            /\ u[Len(t) + 1] = "error" /\ \A j \in 1..Len(t) : u[j] = t[j]
        BY <1>5, <2>2, <3>1
      <4>4. answer[q] \in Nat /\ n = 0
        BY <1>1, <2>1
      <4>5. \A j \in 1..(answer[q] - n) : j \in 1..Len(t)
        BY <4>2, <4>3, <4>4
      <4>6. \A j \in 1..(answer[q] - n) : j <= Len(u) /\ u[j] = q
        BY <4>2, <4>3, <4>5
      <4>7. Len(u) = answer[q] + 1 /\ u[Len(u)] = "error"
        BY <4>2, <4>3, <4>4
      <4>8. reply[q] \in {"failed", "ended"}
        BY <1>2, <2>1, <3>1
      <4>9. QED
        BY <4>6, <4>7, <4>8
    <3>2. QED
      BY <1>1, <2>1, <3>1 DEF TextOK, u
  <2>5. QED
    BY <2>1, <2>3, <2>4 DEF StreamOK
<1>8. CASE Head(wire[q]) = "done"
  <2>1. n = 0 /\ WireOK(q, n)' /\ UNCHANGED bubbles
    BY <1>1, <1>4, <1>8, WireRead DEF Read
  <2>2. ShownOK(q, n)'
    BY <1>1, <1>3, <2>1 DEF ShownOK
  <2>3. \A j \in 1..Len(wire'[q]) : \E i \in 1..Len(wire[q]) : wire'[q][j] = wire[q][i]
    <3>1. /\ Len(Tail(wire[q])) = Len(wire[q]) - 1 /\ Len(wire[q]) \in Nat
          /\ \A j \in 1..(Len(wire[q]) - 1) : Tail(wire[q])[j] = wire[q][j + 1]
      BY <1>1, Events
    <3>2. wire'[q] = Tail(wire[q])
      BY <1>1
    <3>3. \A j \in 1..Len(wire'[q]) : j + 1 \in 1..Len(wire[q])
      BY <3>1, <3>2
    <3>4. QED
      BY <3>1, <3>2, <3>3
  <2>4. TextOK(q, n)'
    BY <1>1, <1>3, <2>1, <2>3 DEF TextOK
  <2>5. QED
    BY <2>1, <2>2, <2>4 DEF StreamOK
<1>9. Head(wire[q]) \in {"token", "error", "done"}
  BY <1>1, Events
<1>10. QED
  BY <1>6, <1>7, <1>8, <1>9

\* The connection is lost, and with it what was under way.
LEMMA StreamBroken ==
    ASSUME PageInv, NEW q \in Requests, Break(q)
    PROVE  StreamOK(q)'
<1>1. /\ sent'[q] = "over" /\ wire'[q] = <<>> /\ "broken" \in mishap'
      /\ UNCHANGED <<reply, answer>>
      /\ reply[q] \in {"none", "stream", "failed", "ended", "refused"}
  BY DEF Break, Note, PageInv, ChatTypeOK
<1>2. WireOK(q, 0)'
  BY <1>1 DEF WireOK
<1>3. ShownOK(q, 0)' /\ TextOK(q, 0)'
  BY <1>1 DEF ShownOK, TextOK
<1>4. 0 \in Nat
  OBVIOUS
<1>5. QED
  BY <1>2, <1>3, <1>4 DEF StreamOK

LEMMA StreamStep ==
    ASSUME PageInv, NEW q \in Requests, PageStep(q), NEW x \in Requests
    PROVE  StreamOK(x)'
<1>1. CASE x # q
  BY <1>1, StreamOfOthers
<1> SUFFICES ASSUME x = q PROVE StreamOK(q)'
  BY <1>1
<1>2. /\ sent \in [Requests -> {"no", "asked", "reading", "over"}]
      /\ reply \in [Requests -> {"none", "stream", "failed", "ended", "refused"}]
      /\ bubbles \in Seq(Bubble) /\ mishap \subseteq mishap'
      /\ LinksOK(q)
  BY PageFrame DEF PageInv, ChatTypeOK
<1>3. CASE SendMessage(q)
  <2> DEFINE b == [role |-> "user", of |-> q, text |-> <<>>]
  <2>1. b \in Bubble /\ b.text = <<>>
    BY UserBubbleOK
  <2>2. bubbles' = Append(bubbles, b)
    BY <1>3 DEF SendMessage
  <2> HIDE DEF b
  <2>3. PiecesIn(Append(bubbles, b), q) = PiecesIn(bubbles, q)
    BY <1>2, <2>1, NoMorePieces
  <2>4. PiecesIn(bubbles, q)' = PiecesIn(bubbles, q)
    BY <2>2, <2>3
  <2>5. sent[q] = "no" /\ sent'[q] = "asked" /\ UNCHANGED <<reply, answer, wire>>
    BY <1>2, <1>3 DEF SendMessage
  <2>6. QED
    BY <1>2, <2>4, <2>5, StreamKept
<1>4. CASE Unauthorised(q) \/ Refuse(q) \/ Serve(q) \/ Cancel(q) \/ EndOfStream(q)
  <2>1. /\ UNCHANGED <<answer, wire, bubbles>> /\ sent'[q] # "reading"
        /\ sent'[q] \in {"no", "asked"} => sent[q] \in {"no", "asked"}
        /\ reply'[q] = "failed" => reply[q] = "failed"
        /\ reply'[q] \in {"none", "stream"} => reply[q] \in {"none", "stream"}
    BY <1>2, <1>4 DEF Unauthorised, Refuse, Serve, Cancel, EndOfStream
  <2>2. PiecesIn(bubbles, q)' = PiecesIn(bubbles, q)
    BY <2>1
  <2>3. QED
    BY <1>2, <2>1, <2>2, StreamKept
<1>5. CASE BeginGenerator(q)
  BY <1>5 DEF PageInv, BeginGenerator, pageVars, StreamOK, WireOK, ShownOK, TextOK
<1>6. QED
  BY <1>3, <1>4, <1>5, StreamEmitted, StreamStarts, StreamRead, StreamTorn, StreamBroken
     DEF PageStep

-----------------------------------------------------------------------------
(* The steps of the page: the conversation *)

\* Without a mishap, a step is one of a message that is not over yet, and
\* no other is under way before or after it.
LEMMA OneTalk ==
    ASSUME PageInv, NEW q \in Requests, PageStep(q), mishap' = {}
    PROVE  /\ mishap = {} /\ Alternate /\ sent[q] # "over"
           /\ \A x \in Requests \ {q} :
                /\ ~UnderWay(x) /\ x \notin Open'
                /\ sent'[x] \notin {"asked", "reading"}
<1>1. mishap = {} /\ Alternate
  BY Alone DEF PageInv, TalkOK
<1>2. sent[q] # "over"
  <2>1. CASE SendMessage(q)
    BY <2>1 DEF SendMessage
  <2>2. CASE ~SendMessage(q)
    <3>1. UnderWay(q) \/ req[q].pc # "idle"
      BY <2>2, Alone DEF Open
    <3>2. LinksOK(q)
      BY DEF PageInv
    <3>3. QED
      BY <1>1, <3>1, <3>2 DEF LinksOK, UnderWay
  <2>3. QED
    BY <2>1, <2>2
<1>3. ASSUME NEW x \in Requests \ {q}
      PROVE  /\ ~UnderWay(x) /\ x \notin Open'
             /\ sent'[x] \notin {"asked", "reading"}
  <2>1. x \notin Open /\ sent'[x] = sent[x] /\ req'[x] = req[x]
    BY Alone, PageFrame
  <2>2. QED
    BY <2>1 DEF Open, UnderWay
<1>4. QED
  BY <1>1, <1>2, <1>3

\* What is left to show of a step of q.
LEMMA TalkIf ==
    ASSUME PageInv, NEW q \in Requests, PageStep(q), mishap' = {},
           \A k \in 1..Size' : BubbleOK(k)', Turn(q)',
           Open' = {} => Size' % 2 = 0,
           NEW l \in Nat, Open' = {} => l = Size', GivenFor(l, q)', Remembered(l)'
    PROVE  TalkOK'
<1>1. \A x \in Requests \ {q} : x \notin Open' /\ sent'[x] \notin {"asked", "reading"}
  BY OneTalk
<1>2. \A x \in Requests : Turn(x)' /\ GivenFor(l, x)'
  BY <1>1 DEF Turn, GivenFor
<1>3. \A x, y \in Open' : x = y
  BY <1>1 DEF Open
<1>4. Alternate' /\ Given(l)'
  BY <1>2, <1>3 DEF Alternate, Given
<1>5. QED
  BY <1>4 DEF TalkOK

\* A bubble of an answer that is over, or of a question, is left as it is.
LEMMA BubbleKept ==
    ASSUME PageInv, NEW q \in Requests, PageStep(q), mishap' = {},
           NEW k \in 1..Size, bubbles'[k] = bubbles[k],
           k % 2 = 0 => bubbles'[k - 1].of = bubbles[k - 1].of,
           k % 2 = 0 => bubbles[k].of # q
    PROVE  BubbleOK(k)'
<1>1. BubbleOK(k) /\ Size \in Nat
  BY OneTalk DEF Alternate, PageInv, ChatTypeOK, Size
<1>2. CASE k % 2 = 1
  BY <1>1, <1>2 DEF BubbleOK
<1>3. CASE k % 2 = 0
  <2>1. PICK x \in Requests \ {q} : bubbles[k].of = x
    BY <1>1, <1>3 DEF BubbleOK
  <2>2. sent'[x] = sent[x] /\ sent[x] # "reading" /\ answer'[x] = answer[x]
    BY PageFrame, OneTalk DEF UnderWay
  <2>3. sent[x] = "over" /\ bubbles[k].text \in TextOf(x)
    BY <1>1, <1>3, <2>1, <2>2 DEF BubbleOK
  <2>4. bubbles[k].text \in TextOf(x)'
    BY <2>2, <2>3 DEF TextOf
  <2>5. /\ bubbles'[k].of = x /\ bubbles'[k].text = bubbles[k].text
        /\ bubbles'[k].role = bubbles[k].role
    BY <2>1
  <2>6. bubbles'[k].text \in TextOf(bubbles[k].of)'
    BY <2>4, <2>5 DEF TextOf
  <2>7. /\ bubbles[k].role = IF k % 2 = 1 THEN "user" ELSE "assistant"
        /\ bubbles[k].of = bubbles[k - 1].of
    BY <1>1, <1>3 DEF BubbleOK
  <2>8. bubbles'[k].of = bubbles'[k - 1].of /\ sent'[bubbles'[k].of] = "over"
    BY <1>3, <2>1, <2>2, <2>3, <2>5, <2>7
  <2>9. QED
    BY <1>3, <2>5, <2>6, <2>7, <2>8 DEF BubbleOK
<1>4. QED
  BY <1>2, <1>3

LEMMA LineKept ==
    ASSUME Size \in Nat, NEW k \in Nat \ {0}, k <= Size \/ (k = Size + 1 /\ k % 2 = 0),
           \A i \in 1..Size : bubbles'[i].of = bubbles[i].of
    PROVE  Line(k)' = Line(k)
<1>1. CASE k % 2 = 1
  <2>1. k \in 1..Size
    BY <1>1
  <2>2. QED
    BY <1>1, <2>1 DEF Line
<1>2. CASE k % 2 = 0
  <2>1. k - 1 \in 1..Size
    BY <1>2
  <2>2. QED
    BY <1>2, <2>1 DEF Line
<1>3. QED
  BY <1>1, <1>2

\* The memory is the end of the same conversation when neither changes.
LEMMA RememberedKept ==
    ASSUME PageInv, NEW l \in Nat, Remembered(l), history'[Mine] = history[Mine],
           l <= Size \/ (l = Size + 1 /\ l % 2 = 0),
           \A i \in 1..Size : bubbles'[i].of = bubbles[i].of
    PROVE  Remembered(l)'
<1> DEFINE h == history[Mine]
<1>1. h \in Seq(Message) /\ Size \in Nat /\ Len(h) \in Nat
  BY PageAssumption DEF PageInv, ChatTypeOK, MemoryTypeOK, Size
<1>2. Len(h) <= l /\ (Len(h) = l \/ Len(h) >= Window)
  BY DEF Remembered
<1> HIDE DEF h
<1>3. ASSUME NEW k \in 1..l
      PROVE  Line(k)' = Line(k)
  <2>1. CASE k = l
    BY <1>1, <2>1, LineKept
  <2>2. CASE k # l
    <3>1. k \in Nat \ {0} /\ k <= Size
      BY <1>1, <2>2
    <3>2. QED
      BY <1>1, <3>1, LineKept
  <2>3. QED
    BY <2>1, <2>2
<1>4. \A k \in 1..l : k > l - Len(h) => h[k - (l - Len(h))] = Line(k)
  BY DEF Remembered, h
<1>5. QED
  BY <1>2, <1>3, <1>4 DEF Remembered, h

\* What is known when a step keeps the page in order.
LEMMA TalkFacts ==
    ASSUME PageInv, NEW q \in Requests, PageStep(q), mishap' = {}
    PROVE  /\ mishap = {} /\ Alternate /\ sent[q] # "over"
           /\ Size \in Nat /\ bubbles \in Seq(Bubble)
           /\ \A k \in 1..Size : BubbleOK(k)
           /\ Turn(q) /\ LinksOK(q)
           /\ sent \in [Requests -> {"no", "asked", "reading", "over"}]
           /\ reply \in [Requests -> {"none", "stream", "failed", "ended", "refused"}]
           /\ req \in [Requests -> Request]
           /\ history \in [Threads -> Seq(Message)] /\ Mine \in Threads
           /\ history[Mine] \in Seq(Message) /\ Window \in Nat
           /\ \E l \in Nat : Given(l) /\ Remembered(l)
BY OneTalk, PageAssumption, MemoryAssumption
   DEF PageInv, ChatTypeOK, MemoryTypeOK, TalkOK, Alternate, Size

\* Steps that leave the bubbles and the thread alone, and the message under way.
LEMMA TalkIdles ==
    ASSUME PageInv, NEW q \in Requests, PageStep(q), mishap' = {},
           UNCHANGED <<bubbles, current, history, sent>>,
           sent[q] \in {"asked", "reading"},
           reply'[q] = "ended" <=> reply[q] = "ended"
    PROVE  TalkOK'
<1>1. PICK l \in Nat : Given(l) /\ Remembered(l)
  BY TalkFacts
<1>2. q \in Open' /\ GivenFor(l, q) /\ Turn(q) /\ Size \in Nat
      /\ \A k \in 1..Size : BubbleOK(k)
  BY <1>1, TalkFacts DEF Open, UnderWay, Given
<1>3. \A k \in 1..Size : BubbleOK(k)'
  <2>1. TAKE k \in 1..Size
  <2>2. CASE k % 2 = 0 => bubbles[k].of # q
    BY <2>2, BubbleKept
  <2>3. CASE k % 2 = 0 /\ bubbles[k].of = q
    <3>1. BubbleOK(k)
      BY <1>2
    <3>2. k = Size /\ sent[q] = "reading"
      BY <2>3, <3>1 DEF BubbleOK
    <3>3. QED
      BY <2>3, <3>1, <3>2 DEF BubbleOK, Size
  <2>4. QED
    BY <2>2, <2>3
<1>4. Turn(q)' /\ GivenFor(l, q)' /\ Size' = Size
  BY <1>2 DEF Turn, GivenFor, Size
<1>5. Remembered(l)'
  BY <1>1 DEF Remembered, Line
<1>6. QED
  BY <1>2, <1>3, <1>4, <1>5, TalkIf

LEMMA TalkSends ==
    ASSUME PageInv, NEW q \in Requests, SendMessage(q), mishap' = {}
    PROVE  TalkOK'
<1> DEFINE b == [role |-> "user", of |-> q, text |-> <<>>]
<1>0. PageStep(q)
  BY DEF PageStep
<1>1. PICK l \in Nat : Given(l) /\ Remembered(l)
  BY <1>0, TalkFacts
<1>2. /\ Open = {} /\ sent[q] = "no" /\ sent'[q] = "asked" /\ reply'[q] = "none"
      /\ bubbles' = Append(bubbles, b) /\ history' = history
  BY <1>0, Alone, TalkFacts DEF SendMessage, LinksOK, vars
<1>3. b \in Bubble /\ b.role = "user" /\ b.of = q
  BY UserBubbleOK
<1> HIDE DEF b
<1>4. /\ Size' = Size + 1 /\ Size \in Nat /\ bubbles'[Size + 1] = b
      /\ \A k \in 1..Size : bubbles'[k] = bubbles[k]
  BY <1>0, <1>2, <1>3, TalkFacts, NewBubble DEF Size
<1>5. l = Size /\ Size % 2 = 0
  BY <1>0, <1>1, <1>2, TalkFacts DEF Given, Alternate
<1>6. (Size + 1) % 2 = 1
  BY <1>4, <1>5
<1>7. \A k \in 1..Size' : BubbleOK(k)'
  <2>1. TAKE k \in 1..Size'
  <2>2. CASE k \in 1..Size
    <3>1. BubbleOK(k)
      BY <1>0, <2>2, TalkFacts
    <3>2. k % 2 = 0 => bubbles[k].of # q /\ k - 1 \in 1..Size
      BY <1>2, <1>4, <2>2, <3>1 DEF BubbleOK
    <3>3. QED
      BY <1>0, <1>4, <2>2, <3>2, BubbleKept
  <2>3. CASE k = Size + 1
    BY <1>3, <1>4, <1>6, <2>3 DEF BubbleOK
  <2>4. QED
    BY <1>4, <2>2, <2>3
<1>8. Turn(q)' /\ GivenFor(l, q)' /\ q \in Open'
  BY <1>2, <1>3, <1>4, <1>5, <1>6 DEF Turn, GivenFor, Open, UnderWay
<1>9. Remembered(l)'
  <2>1. history'[Mine] = history[Mine] /\ Remembered(l)
    BY <1>1, <1>2
  <2>2. \A k \in 1..Size : bubbles'[k].of = bubbles[k].of
    BY <1>4
  <2>3. l <= Size
    BY <1>4, <1>5
  <2>4. QED
    BY <2>1, <2>2, <2>3, RememberedKept
<1>10. QED
  BY <1>0, <1>7, <1>8, <1>9, TalkIf

LEMMA TalkServed ==
    ASSUME PageInv, NEW q \in Requests, Serve(q), mishap' = {}
    PROVE  TalkOK'
<1> DEFINE h == history[Mine]
           s == Trimmed(h)
<1>0. PageStep(q)
  BY DEF PageStep
<1>1. PICK l \in Nat : Given(l) /\ Remembered(l)
  BY <1>0, TalkFacts
<1>2. /\ sent[q] = "asked" /\ reply[q] = "none" /\ reply'[q] = "stream"
      /\ UNCHANGED <<sent, bubbles, current>>
      /\ history' = [history EXCEPT ![Mine] = s]
  BY <1>0, TalkFacts DEF Serve, StartStream
<1>3. /\ s \in Seq(Message) /\ Len(s) <= Len(h)
      /\ Len(s) # Len(h) => Len(s) = Window
      /\ \A k \in 1..Len(s) : s[k] = h[Len(h) - Len(s) + k]
      /\ h \in Seq(Message) /\ history'[Mine] = s /\ Window \in Nat
  BY <1>0, <1>2, TrimmedIs, TalkFacts
<1>4. /\ Len(h) <= l /\ (Len(h) = l \/ Len(h) >= Window)
      /\ \A k \in 1..l : k > l - Len(h) => h[k - (l - Len(h))] = Line(k)
  BY <1>1 DEF Remembered
<1> HIDE DEF h, s
<1>5. Len(s) \in Nat /\ Len(h) \in Nat
  BY <1>3
<1>6. Len(s) <= l /\ (Len(s) = l \/ Len(s) >= Window)
  BY <1>3, <1>4, <1>5
<1>7. ASSUME NEW k \in 1..l, k > l - Len(s)
      PROVE  s[k - (l - Len(s))] = Line(k)
  <2>1. /\ k - (l - Len(s)) \in 1..Len(s)
        /\ Len(h) - Len(s) + (k - (l - Len(s))) = k - (l - Len(h))
        /\ k > l - Len(h)
    BY <1>3, <1>4, <1>5, <1>7
  <2>2. s[k - (l - Len(s))] = h[k - (l - Len(h))]
    BY <1>3, <2>1
  <2>3. QED
    BY <1>4, <2>1, <2>2
<1>8. \A k \in 1..l : Line(k)' = Line(k)
  BY <1>2 DEF Line
<1>9. Remembered(l)'
  BY <1>3, <1>6, <1>7, <1>8 DEF Remembered
<1>10. q \in Open' /\ GivenFor(l, q) /\ Turn(q) /\ Size \in Nat
       /\ \A k \in 1..Size : BubbleOK(k)
  BY <1>0, <1>1, <1>2, TalkFacts DEF Open, UnderWay, Given
<1>11. \A k \in 1..Size : BubbleOK(k)'
  <2>1. TAKE k \in 1..Size
  <2>2. BubbleOK(k)
    BY <1>10
  <2>3. k % 2 = 0 => bubbles[k].of # q
    BY <1>2, <1>10, <2>2 DEF BubbleOK
  <2>4. QED
    BY <1>0, <1>2, <2>3, BubbleKept
<1>12. Turn(q)' /\ GivenFor(l, q)' /\ Size' = Size
  BY <1>2, <1>10 DEF Turn, GivenFor, Size
<1>13. QED
  BY <1>0, <1>9, <1>10, <1>11, <1>12, TalkIf

\* The exchange that is remembered is the one on the page.
LEMMA TalkRemembered ==
    ASSUME PageInv, NEW q \in Requests, Finish(q), mishap' = {}
    PROVE  TalkOK'
<1> DEFINE h == history[Mine]
           s == h \o <<Question(q), Reply(q)>>
<1>0. PageStep(q)
  BY DEF PageStep
<1>1. PICK l \in Nat : Given(l) /\ Remembered(l)
  BY <1>0, TalkFacts
<1>2. /\ req[q].pc = "llm" /\ reply'[q] = "ended"
      /\ UNCHANGED <<sent, bubbles, current>>
      /\ sent[q] \in {"asked", "reading"} /\ reply[q] \in {"stream", "failed"}
      /\ history' = [history EXCEPT ![Mine] = s]
  BY <1>0, TalkFacts DEF Finish, Remember, LinksOK
<1>3. /\ h \in Seq(Message) /\ Len(h) \in Nat /\ history'[Mine] = s
      /\ Len(s) = Len(h) + 2
      /\ s[Len(h) + 1] = Question(q) /\ s[Len(h) + 2] = Reply(q)
      /\ \A k \in 1..Len(h) : s[k] = h[k]
  BY <1>0, <1>2, TalkFacts
<1>4. /\ Len(h) <= l /\ (Len(h) = l \/ Len(h) >= Window)
      /\ \A k \in 1..l : k > l - Len(h) => h[k - (l - Len(h))] = Line(k)
  BY <1>1 DEF Remembered
<1> HIDE DEF h, s
<1>5. GivenFor(l, q) /\ Turn(q) /\ Size \in Nat /\ Window \in Nat
      /\ \A k \in 1..Size : BubbleOK(k)
  BY <1>0, <1>1, TalkFacts DEF Given
<1>6. \/ sent[q] = "asked" /\ l = Size - 1 /\ Size % 2 = 1 /\ bubbles[Size].of = q
      \/ /\ sent[q] = "reading" /\ l = Size - 2 /\ Size % 2 = 0 /\ Size > 0
         /\ bubbles[Size].of = q
  BY <1>2, <1>5 DEF GivenFor, Turn
<1>7. (l + 1) % 2 = 1 /\ (l + 2) % 2 = 0 /\ l + 1 <= Size /\ l + 2 - 1 = l + 1
  BY <1>5, <1>6
<1>8. bubbles[l + 1].of = q
  <2>1. CASE sent[q] = "asked"
    BY <1>5, <1>6, <2>1
  <2>2. CASE sent[q] = "reading"
    <3>1. l + 1 = Size - 1 /\ Size \in 1..Size /\ BubbleOK(Size)
      BY <1>5, <1>6, <2>2
    <3>2. QED
      BY <1>6, <2>2, <3>1 DEF BubbleOK
  <2>3. QED
    BY <1>6, <2>1, <2>2
<1>9. Line(l + 1) = Question(q) /\ Line(l + 2) = Reply(q)
  BY <1>7, <1>8 DEF Line, Question, Reply
<1>10. ASSUME NEW k \in 1..(l + 2), k > l + 2 - Len(s)
       PROVE  s[k - (l + 2 - Len(s))] = Line(k)
  <2>1. l + 2 - Len(s) = l - Len(h)
    BY <1>3
  <2>2. CASE k \in 1..l
    <3>1. k > l - Len(h) /\ k - (l - Len(h)) \in 1..Len(h)
      BY <1>3, <1>4, <1>10, <2>1, <2>2
    <3>2. QED
      BY <1>3, <1>4, <2>1, <2>2, <3>1
  <2>3. CASE k = l + 1
    <3>1. k - (l - Len(h)) = Len(h) + 1
      BY <1>3, <2>3
    <3>2. QED
      BY <1>3, <1>9, <2>1, <2>3, <3>1
  <2>4. CASE k = l + 2
    <3>1. k - (l - Len(h)) = Len(h) + 2
      BY <1>3, <2>4
    <3>2. QED
      BY <1>3, <1>9, <2>1, <2>4, <3>1
  <2>5. QED
    BY <2>2, <2>3, <2>4
<1>11. \A k \in 1..(l + 2) : Line(k)' = Line(k)
  BY <1>2 DEF Line
<1>12. Len(s) <= l + 2 /\ (Len(s) = l + 2 \/ Len(s) >= Window)
  BY <1>3, <1>4, <1>5
<1>13. Remembered(l + 2)'
  BY <1>3, <1>10, <1>11, <1>12 DEF Remembered
<1>14. \A k \in 1..Size : BubbleOK(k)'
  <2>1. TAKE k \in 1..Size
  <2>2. CASE k % 2 = 0 => bubbles[k].of # q
    BY <1>0, <1>2, <2>2, BubbleKept
  <2>3. CASE k % 2 = 0 /\ bubbles[k].of = q
    <3>1. BubbleOK(k)
      BY <1>5
    <3>2. k = Size /\ sent[q] = "reading"
      BY <1>2, <2>3, <3>1 DEF BubbleOK
    <3>3. QED
      BY <1>2, <2>3, <3>1, <3>2 DEF BubbleOK, Size
  <2>4. QED
    BY <2>2, <2>3
<1>15. Turn(q)' /\ GivenFor(l + 2, q)' /\ Size' = Size /\ q \in Open' /\ l + 2 \in Nat
  BY <1>2, <1>5, <1>6 DEF Turn, GivenFor, Size, Open, UnderWay
<1>16. QED
  BY <1>0, <1>13, <1>14, <1>15, TalkIf

LEMMA TalkAnswers ==
    ASSUME PageInv, NEW q \in Requests, HeadersArrive(q), mishap' = {}
    PROVE  TalkOK'
<1> DEFINE b == AiBubble(q)
<1>0. PageStep(q)
  BY DEF PageStep
<1>1. PICK l \in Nat : Given(l) /\ Remembered(l)
  BY <1>0, TalkFacts
<1>2. /\ sent[q] = "asked" /\ sent'[q] = "reading" /\ UNCHANGED <<reply, history>>
      /\ bubbles' = Append(bubbles, b) /\ current' = Size + 1
      /\ GivenFor(l, q) /\ Turn(q)
  BY <1>0, <1>1, TalkFacts DEF HeadersArrive, vars, Given, Size
<1>3. b \in Bubble /\ b.role = "assistant" /\ b.of = q
  BY AiBubbleOK
<1> HIDE DEF b
<1>4. /\ Size' = Size + 1 /\ Size \in Nat /\ bubbles'[Size + 1] = b
      /\ \A k \in 1..Size : bubbles'[k] = bubbles[k]
  BY <1>0, <1>2, <1>3, TalkFacts, NewBubble DEF Size
<1>5. Size % 2 = 1 /\ bubbles[Size].of = q /\ (Size + 1) % 2 = 0
  BY <1>2, <1>4 DEF Turn
<1>6. Size \in 1..Size /\ (Size + 1) - 1 = Size
  BY <1>4, <1>5
<1>7. \A k \in 1..Size' : BubbleOK(k)'
  <2>1. TAKE k \in 1..Size'
  <2>2. CASE k \in 1..Size
    <3>1. BubbleOK(k)
      BY <1>0, <2>2, TalkFacts
    <3>2. k % 2 = 0 => bubbles[k].of # q /\ k - 1 \in 1..Size
      BY <1>2, <1>4, <2>2, <3>1 DEF BubbleOK
    <3>3. QED
      BY <1>0, <1>4, <2>2, <3>2, BubbleKept
  <2>3. CASE k = Size + 1
    <3>1. bubbles'[k - 1].of = q /\ bubbles'[k].of = q /\ bubbles'[k].role = "assistant"
      BY <1>3, <1>4, <1>5, <1>6, <2>3
    <3>2. k % 2 = 0 /\ k % 2 # 1 /\ k = Size' /\ sent'[q] = "reading"
      BY <1>2, <1>4, <1>5, <2>3
    <3>3. /\ sent'[bubbles'[k].of] = "reading" /\ bubbles'[k].of \in Requests
          /\ bubbles'[k].of = bubbles'[k - 1].of
      BY <3>1, <3>2
    <3>4. bubbles'[k].role = "assistant"
      BY <3>1
    <3>5. QED
      BY <3>2, <3>3, <3>4 DEF BubbleOK
  <2>4. QED
    BY <1>4, <2>2, <2>3
<1>8. Turn(q)' /\ GivenFor(l, q)' /\ q \in Open'
  BY <1>2, <1>3, <1>4, <1>5 DEF Turn, GivenFor, Open, UnderWay, Size
<1>9. Remembered(l)'
  <2>1. history'[Mine] = history[Mine] /\ Remembered(l)
    BY <1>1, <1>2
  <2>2. \A k \in 1..Size : bubbles'[k].of = bubbles[k].of
    BY <1>4
  <2>3. l <= Size \/ (l = Size + 1 /\ l % 2 = 0)
    BY <1>2, <1>4, <1>5 DEF GivenFor
  <2>4. QED
    BY <2>1, <2>2, <2>3, RememberedKept
<1>10. QED
  BY <1>0, <1>7, <1>8, <1>9, TalkIf

LEMMA TalkRead ==
    ASSUME PageInv, NEW q \in Requests, Read(q), mishap' = {}
    PROVE  TalkOK'
<1>0. PageStep(q)
  BY DEF PageStep
<1>1. PICK l \in Nat : Given(l) /\ Remembered(l)
  BY <1>0, TalkFacts
<1>2. /\ sent[q] = "reading" /\ UNCHANGED <<sent, reply, history, current>>
      /\ GivenFor(l, q) /\ Turn(q) /\ Size \in Nat
      /\ \A k \in 1..Size : BubbleOK(k)
      /\ bubbles \in Seq(Bubble)
  BY <1>0, <1>1, TalkFacts DEF Read, vars, Given
<1>3. Size % 2 = 0 /\ Size > 0 /\ bubbles[Size].of = q /\ current = Size
  BY <1>2 DEF Turn
<1>4. Size \in 1..Size /\ current \in 1..Size
  BY <1>2, <1>3
<1>5. \/ bubbles' = bubbles
      \/ \E y \in {q, "error"} : bubbles' = Extended(current, y)
  <2>1. Head(wire[q]) \in {"token", "error", "done"}
    BY Events DEF Read, PageInv, ChatTypeOK
  <2>2. QED
    BY <2>1 DEF Read, Extended
<1>6. /\ Size' = Size
      /\ \A k \in 1..Size : /\ bubbles'[k].role = bubbles[k].role
                            /\ bubbles'[k].of = bubbles[k].of
                            /\ k # Size => bubbles'[k] = bubbles[k]
  <2>1. ASSUME NEW y \in {q, "error"}, bubbles' = Extended(current, y)
        PROVE  /\ Size' = Size
               /\ \A k \in 1..Size : /\ bubbles'[k].role = bubbles[k].role
                                     /\ bubbles'[k].of = bubbles[k].of
                                     /\ k # Size => bubbles'[k] = bubbles[k]
    <3>1. /\ Len(Extended(current, y)) = Size
          /\ \A k \in 1..Size : /\ Extended(current, y)[k].role = bubbles[k].role
                                /\ Extended(current, y)[k].of = bubbles[k].of
          /\ \A k \in 1..Size : k # current => Extended(current, y)[k] = bubbles[k]
      <4>1. bubbles \in Seq(Bubble)
        BY <1>2
      <4>2. current \in 1..Size /\ y \in Requests \cup {"error"}
        BY <1>4
      <4>3. QED
        BY <4>1, <4>2, MorePieces
    <3>2. QED
      BY <1>3, <2>1, <3>1 DEF Size
  <2>2. CASE bubbles' = bubbles
    BY <2>2 DEF Size
  <2>3. QED
    BY <1>5, <2>1, <2>2
<1>7. \A k \in 1..Size : BubbleOK(k)'
  <2>1. TAKE k \in 1..Size
  <2>2. BubbleOK(k)
    BY <1>2
  <2>3. CASE k = Size
    <3>1. Size - 1 \in 1..Size
      BY <1>2, <1>3
    <3>2. bubbles'[k].of = q /\ bubbles'[k - 1].of = q /\ k % 2 = 0
          /\ bubbles'[k].role = "assistant"
      BY <1>2, <1>3, <1>4, <1>6, <2>2, <2>3, <3>1 DEF BubbleOK
    <3>3. QED
      BY <1>2, <1>6, <2>3, <3>2 DEF BubbleOK
  <2>4. CASE k # Size
    <3>1. k % 2 = 0 => bubbles[k].of # q /\ k - 1 \in 1..Size
      BY <1>2, <2>2, <2>4 DEF BubbleOK
    <3>2. QED
      BY <1>0, <1>6, <2>4, <3>1, BubbleKept
  <2>5. QED
    BY <2>3, <2>4
<1>8. Turn(q)' /\ GivenFor(l, q)' /\ q \in Open'
  <2>1. bubbles'[Size].of = q
    BY <1>3, <1>4, <1>6
  <2>2. Turn(q)'
    BY <1>2, <1>3, <1>6, <2>1 DEF Turn
  <2>3. GivenFor(l, q)' /\ q \in Open'
    BY <1>2, <1>6 DEF GivenFor, Open, UnderWay
  <2>4. QED
    BY <2>2, <2>3
<1>9. Remembered(l)'
  <2>1. history'[Mine] = history[Mine] /\ Remembered(l)
    BY <1>1, <1>2
  <2>2. \A k \in 1..Size : bubbles'[k].of = bubbles[k].of
    BY <1>6
  <2>3. l <= Size
    BY <1>2 DEF GivenFor
  <2>4. QED
    BY <2>1, <2>2, <2>3, RememberedKept
<1>10. QED
  BY <1>0, <1>6, <1>7, <1>8, <1>9, TalkIf

\* An answer that was read to its end is the text of the last bubble.
LEMMA WholeAnswer ==
    ASSUME PageInv, NEW q \in Requests, mishap = {}, sent[q] = "reading",
           wire[q] = <<>>, Size > 0
    PROVE  bubbles[Size].text \in TextOf(q)
<1> DEFINE t == bubbles[Size].text
           a == answer[q]
           pieces == [j \in 1..a |-> q]
<1>1. /\ bubbles \in Seq(Bubble) /\ Size \in Nat /\ a \in Nat
  BY PageAssumption DEF PageInv, ChatTypeOK, Size
<1>2. t \in Seq(Requests \cup {"error"})
  <2>1. bubbles[Size] \in Bubble
    BY <1>1 DEF Size
  <2>2. QED
    BY <2>1 DEF Bubble
<1>3. PICK n \in Nat : WireOK(q, n) /\ TextOK(q, n)
  BY DEF PageInv, StreamOK
<1>4. n = 0
  BY <1>3 DEF WireOK
<1>5. /\ \A j \in 1..a : j <= Len(t) /\ t[j] = q
      /\ Len(t) = a \/ (Len(t) = a + 1 /\ t[Len(t)] = "error")
  <2>1. a - n = a
    BY <1>1, <1>4
  <2>2. QED
    BY <1>3, <2>1 DEF TextOK, Size
<1> HIDE DEF t, a
<1>6. pieces \in Seq({q}) /\ Len(pieces) = a /\ \A j \in 1..a : pieces[j] = q
  BY <1>1
<1> HIDE DEF pieces
<1>7. CASE Len(t) = a
  <2>1. t = pieces
    BY <1>2, <1>5, <1>6, <1>7
  <2>2. QED
    BY <2>1 DEF TextOf, t, a, pieces
<1>8. CASE Len(t) = a + 1 /\ t[Len(t)] = "error"
  <2> DEFINE u == Append(pieces, "error")
  <2>1. /\ u \in Seq({q, "error"}) /\ Len(u) = a + 1 /\ u[a + 1] = "error"
        /\ \A j \in 1..a : u[j] = q
    BY <1>1, <1>6
  <2> HIDE DEF u
  <2>2. \A j \in 1..(a + 1) : t[j] = u[j]
    BY <1>1, <1>5, <1>8, <2>1
  <2>3. t = u
    BY <1>1, <1>2, <1>8, <2>1, <2>2
  <2>4. QED
    BY <2>3 DEF TextOf, t, a, pieces, u
<1>9. QED
  BY <1>5, <1>7, <1>8

LEMMA TalkEnds ==
    ASSUME PageInv, NEW q \in Requests, EndOfStream(q), mishap' = {}
    PROVE  TalkOK'
<1>0. PageStep(q)
  BY DEF PageStep
<1>1. PICK l \in Nat : Given(l) /\ Remembered(l)
  BY <1>0, TalkFacts
<1>2. /\ sent[q] = "reading" /\ sent'[q] = "over" /\ wire[q] = <<>> /\ mishap = {}
      /\ UNCHANGED <<bubbles, reply, answer, history, current>>
      /\ reply[q] = "ended"
      /\ GivenFor(l, q) /\ Turn(q) /\ Size \in Nat
      /\ \A k \in 1..Size : BubbleOK(k)
  BY <1>0, <1>1, TalkFacts DEF EndOfStream, LinksOK, vars, Given
<1>3. Size % 2 = 0 /\ Size > 0 /\ bubbles[Size].of = q /\ l = Size
  BY <1>2 DEF Turn, GivenFor
<1>4. bubbles[Size].text \in TextOf(q)
  BY <1>2, <1>3, WholeAnswer
<1>5. Size' = Size
  BY <1>2 DEF Size
<1>6. \A k \in 1..Size : BubbleOK(k)'
  <2>1. TAKE k \in 1..Size
  <2>2. BubbleOK(k)
    BY <1>2
  <2>3. CASE k = Size
    <3>1. bubbles'[k].text \in TextOf(bubbles[k].of)'
      BY <1>2, <1>3, <1>4, <2>3 DEF TextOf
    <3>2. QED
      BY <1>2, <1>3, <2>2, <2>3, <3>1 DEF BubbleOK
  <2>4. CASE k # Size
    <3>1. k % 2 = 0 => bubbles[k].of # q
      BY <1>2, <2>2, <2>4 DEF BubbleOK
    <3>2. QED
      BY <1>0, <1>2, <3>1, BubbleKept
  <2>5. QED
    BY <2>3, <2>4
<1>7. Turn(q)' /\ GivenFor(l, q)'
  BY <1>2 DEF Turn, GivenFor
<1>8. Remembered(l)'
  BY <1>1, <1>2 DEF Remembered, Line
<1>9. QED
  BY <1>0, <1>3, <1>5, <1>6, <1>7, <1>8, TalkIf

LEMMA TalkStep ==
    ASSUME PageInv, NEW q \in Requests, PageStep(q)
    PROVE  TalkOK'
<1> SUFFICES ASSUME mishap' = {} PROVE TalkOK'
  BY DEF TalkOK
<1>1. /\ sent \in [Requests -> {"no", "asked", "reading", "over"}]
      /\ reply \in [Requests -> {"none", "stream", "failed", "ended", "refused"}]
      /\ LinksOK(q) /\ sent[q] # "over"
  BY TalkFacts
<1>2. CASE BeginGenerator(q) \/ EmitToken(q) \/ LlmFails(q) \/ ReadTorn(q)
  <2>1. UNCHANGED <<bubbles, current, history, sent>>
    BY <1>2 DEF BeginGenerator, CopyHistory, pageVars, EmitToken, LlmFails, ReadTorn, vars
  <2>2. sent[q] = "reading" \/ req[q].pc # "idle"
    BY <1>2 DEF BeginGenerator, CopyHistory, EmitToken, LlmFails, ReadTorn
  <2>3. sent[q] \in {"asked", "reading"}
    BY <1>1, <2>2 DEF LinksOK
  <2>4. reply'[q] = "ended" <=> reply[q] = "ended"
    BY <1>1, <1>2 DEF BeginGenerator, pageVars, EmitToken, LlmFails, ReadTorn
  <2>5. QED
    BY <2>1, <2>3, <2>4, TalkIdles
<1>3. CASE Unauthorised(q) \/ Refuse(q) \/ Break(q) \/ Cancel(q)
  BY <1>1, <1>3 DEF Unauthorised, Refuse, Break, Cancel, Note
<1>4. QED
  BY <1>2, <1>3, TalkSends, TalkServed, TalkRemembered, TalkAnswers, TalkRead, TalkEnds
     DEF PageStep

-----------------------------------------------------------------------------

LEMMA PageInit == ChatInit => PageInv
<1> SUFFICES ASSUME ChatInit PROVE PageInv
  OBVIOUS
<1>1. /\ bubbles = <<>> /\ current = 0 /\ mishap = {} /\ Size = 0 /\ MaxTokens \in Nat
      /\ Mine \in Threads
      /\ \A q \in Requests : /\ sent[q] = "no" /\ reply[q] = "none" /\ answer[q] = 0
                             /\ wire[q] = <<>> /\ req[q] = Idle
  BY PageAssumption DEF ChatInit, Init, Size
<1>2. MemoryInv /\ MemoryTypeOK
  BY MemoryInit DEF ChatInit, MemoryInv
<1>3. ChatTypeOK
  BY <1>1, <1>2 DEF ChatInit, ChatTypeOK, Mishaps
<1>4. ASSUME NEW q \in Requests
      PROVE  LinksOK(q) /\ StreamOK(q)
  <2>1. LinksOK(q)
    BY <1>1, IdleOK DEF LinksOK
  <2>2. PiecesIn(bubbles, q) = {}
    BY <1>1 DEF PiecesIn
  <2>3. WireOK(q, 0)
    BY <1>1 DEF WireOK
  <2>4. ShownOK(q, 0)
    <3>1. IsFiniteSet({}) /\ Cardinality({}) = 0
      BY FS_EmptySet
    <3>2. /\ IsFiniteSet(PiecesIn(bubbles, q))
          /\ Cardinality(PiecesIn(bubbles, q)) = 0
      BY <2>2, <3>1
    <3>3. answer[q] = 0
      BY <1>1
    <3>4. QED
      BY <3>2, <3>3 DEF ShownOK
  <2>5. TextOK(q, 0) /\ 0 \in Nat
    BY <1>1 DEF TextOK
  <2>6. QED
    BY <2>1, <2>3, <2>4, <2>5 DEF StreamOK
<1>5. Open = {}
  BY <1>1, IdleOK DEF Open, UnderWay
<1>6. Alternate /\ Given(0)
  BY <1>1, <1>5 DEF Alternate, Turn, Given, GivenFor
<1>7. Remembered(0)
  BY <1>1 DEF ChatInit, Init, Remembered
<1>8. TalkOK
  BY <1>6, <1>7 DEF TalkOK
<1>9. QED
  BY <1>2, <1>3, <1>4, <1>8 DEF PageInv

LEMMA PageNext == PageInv /\ [ChatNext]_chatVars => PageInv'
<1> SUFFICES ASSUME PageInv, [ChatNext]_chatVars PROVE PageInv'
  OBVIOUS
<1>1. ASSUME NEW q \in Requests, PageStep(q)
      PROVE  PageInv'
  BY <1>1, PageKeepsMemory, PageTypes, LinksStep, StreamStep, TalkStep DEF PageInv
<1>2. CASE UNCHANGED chatVars
  <2>1. UNCHANGED vars /\ UNCHANGED pageVars
    BY <1>2 DEF chatVars
  <2>2. MemoryInv'
    BY <2>1, MemoryNext DEF PageInv
  <2>3. ChatTypeOK'
    BY <2>1, <2>2 DEF PageInv, MemoryInv, ChatTypeOK, pageVars
  <2>4. \A q \in Requests : LinksOK(q)' /\ StreamOK(q)'
    BY <2>1 DEF PageInv, LinksOK, StreamOK, WireOK, ShownOK, TextOK, vars, pageVars
  <2>5. TalkOK'
    <3>1. UNCHANGED <<history, req, sent, reply, answer, bubbles, current, mishap>>
      BY <2>1 DEF vars, pageVars
    <3>2. SUFFICES ASSUME mishap = {} PROVE TalkOK'
      BY <3>1 DEF TalkOK
    <3>3. Size' = Size /\ Open' = Open
      BY <3>1 DEF Size, Open, UnderWay
    <3>4. PICK l \in Nat : Alternate /\ Given(l) /\ Remembered(l)
      BY <3>2 DEF PageInv, TalkOK
    <3>5. \A k \in 1..Size : BubbleOK(k)'
      <4>1. TAKE k \in 1..Size
      <4>2. BubbleOK(k)
        BY <3>4 DEF Alternate
      <4>3. QED
        BY <3>1, <3>3, <4>2 DEF BubbleOK, TextOf
    <3>6. \A q \in Requests : Turn(q)' /\ GivenFor(l, q)'
      BY <3>1, <3>3, <3>4 DEF Alternate, Given, Turn, GivenFor
    <3>7. Alternate' /\ Given(l)'
      BY <3>3, <3>4, <3>5, <3>6 DEF Alternate, Given
    <3>8. Remembered(l)'
      BY <3>1, <3>4 DEF Remembered, Line
    <3>9. QED
      BY <3>7, <3>8 DEF TalkOK
  <2>6. QED
    BY <2>2, <2>3, <2>4, <2>5 DEF PageInv
<1>3. QED
  BY <1>1, <1>2 DEF ChatNext, PageStep

LEMMA PageInvariant == ChatSpec => []PageInv
BY PageInit, PageNext, PTL DEF ChatSpec

(* Type correctness of the chat, of its page and of what is between them.  *)
THEOREM ChatTypes == ChatSpec => []ChatTypeOK
<1>1. PageInv => ChatTypeOK
  BY DEF PageInv
<1>2. QED
  BY <1>1, PageInvariant, PTL

\* What the page shows at rest, and where the memory begins in it.
LEMMA AtRest ==
    ASSUME PageInv, Open = {}, mishap = {}
    PROVE  LET said == [k \in 1..Len(bubbles) |->
                          [role |-> bubbles[k].role, of |-> bubbles[k].of]]
           IN  /\ Exchanges(said) /\ Len(said) % 2 = 0
               /\ \A k \in 1..Len(bubbles) : bubbles[k].role = "assistant" =>
                    bubbles[k].text \in TextOf(bubbles[k].of)
               /\ \E k \in 1..Len(said) + 1 :
                    /\ history[Mine] = SubSeq(said, k, Len(said))
                    /\ k = 1 \/ Len(said) - k >= Window - 1
<1> DEFINE said == [k \in 1..Len(bubbles) |->
                      [role |-> bubbles[k].role, of |-> bubbles[k].of]]
           h == history[Mine]
           n == Size
<1>1. /\ bubbles \in Seq(Bubble) /\ n \in Nat /\ n = Len(bubbles)
      /\ h \in Seq(Message) /\ Len(h) \in Nat /\ Window \in Nat
  BY PageAssumption, MemoryAssumption DEF PageInv, ChatTypeOK, MemoryTypeOK, Size
<1>2. PICK l \in Nat : Alternate /\ Given(l) /\ Remembered(l)
  BY DEF PageInv, TalkOK
<1>3. n % 2 = 0 /\ l = n /\ \A k \in 1..n : BubbleOK(k)
  BY <1>2 DEF Alternate, Given
<1>4. /\ Len(h) <= n /\ (Len(h) = n \/ Len(h) >= Window)
      /\ \A k \in 1..n : k > n - Len(h) => h[k - (n - Len(h))] = Line(k)
  BY <1>2, <1>3 DEF Remembered
<1>5. \A k \in 1..n : ~UnderWay(bubbles[k].of) \/ bubbles[k].of \notin Requests
  BY DEF Open
<1>6. /\ Len(said) = n
      /\ \A k \in 1..n : said[k] = [role |-> bubbles[k].role, of |-> bubbles[k].of]
  BY <1>1
<1> HIDE DEF n, h, said
<1>7. ASSUME NEW k \in 1..n
      PROVE  /\ said[k] = Line(k) /\ said[k] \in Message
             /\ k % 2 = 0 => bubbles[k].of = bubbles[k - 1].of
             /\ bubbles[k].role = "assistant" =>
                  bubbles[k].text \in TextOf(bubbles[k].of)
             /\ bubbles[k].role = IF k % 2 = 1 THEN "user" ELSE "assistant"
  <2>1. BubbleOK(k)
    BY <1>3
  <2>2. CASE k % 2 = 0
    <3>1. /\ bubbles[k].role = "assistant" /\ bubbles[k].of = bubbles[k - 1].of
          /\ bubbles[k].of \in Requests /\ sent[bubbles[k].of] # "reading"
          /\ bubbles[k].text \in TextOf(bubbles[k].of)
      BY <1>5, <2>1, <2>2 DEF BubbleOK, UnderWay
    <3>2. said[k] = Line(k) /\ said[k] \in Message
      BY <1>6, <2>2, <3>1 DEF Line, Message
    <3>3. QED
      BY <2>2, <3>1, <3>2
  <2>3. CASE k % 2 = 1
    <3>1. bubbles[k].role = "user"
      BY <2>1, <2>3 DEF BubbleOK
    <3>2. k + 1 \in 1..n /\ (k + 1) % 2 = 0 /\ k + 1 - 1 = k
      BY <1>1, <1>3, <2>3
    <3>3. BubbleOK(k + 1)
      BY <1>3, <3>2
    <3>4. bubbles[k].of \in Requests
      BY <3>2, <3>3 DEF BubbleOK
    <3>5. said[k] = Line(k) /\ said[k] \in Message
      BY <1>6, <2>3, <3>1, <3>4 DEF Line, Message
    <3>6. QED
      BY <2>3, <3>1, <3>5
  <2>4. QED
    BY <1>1, <2>2, <2>3
<1>8. Exchanges(said)
  <2>1. ASSUME NEW k \in 1..n
        PROVE  /\ said[k].role = IF (n - k) % 2 = 0 THEN "assistant" ELSE "user"
               /\ (n - k) % 2 = 0 /\ k > 1 => said[k].of = said[k - 1].of
    <3>1. (n - k) % 2 = 0 <=> k % 2 = 0
      BY <1>1, <1>3
    <3>2. k % 2 = 1 \/ k % 2 = 0
      OBVIOUS
    <3>3. said[k].role = bubbles[k].role /\ said[k].of = bubbles[k].of
      BY <1>6
    <3>4. k > 1 => said[k - 1].of = bubbles[k - 1].of
      <4>1. k > 1 => k - 1 \in 1..n
        BY <1>1
      <4>2. QED
        BY <1>6, <4>1
    <3>5. QED
      BY <1>7, <3>1, <3>2, <3>3, <3>4
  <2>2. QED
    BY <1>3, <1>6, <2>1 DEF Exchanges
<1>9. \E k \in 1..Len(said) + 1 :
         /\ h = SubSeq(said, k, Len(said))
         /\ k = 1 \/ Len(said) - k >= Window - 1
  <2> DEFINE k == n - Len(h) + 1
             s == SubSeq(said, k, n)
  <2>1. said \in Seq(Message)
    <3>1. said \in [1..n -> Message]
      BY <1>1, <1>7 DEF said
    <3>2. QED
      BY <1>1, <3>1
  <2>2. k \in 1..(n + 1)
    BY <1>1, <1>4
  <2>3. /\ s \in Seq(Message) /\ Len(s) = Len(h)
        /\ \A j \in 1..Len(h) : s[j] = said[n - Len(h) + j]
    BY <1>1, <1>4, <1>6, <2>1, <2>2
  <2>4. \A j \in 1..Len(h) : h[j] = said[n - Len(h) + j]
    <3>1. TAKE j \in 1..Len(h)
    <3>2. n - Len(h) + j \in 1..n /\ n - Len(h) + j > n - Len(h)
          /\ (n - Len(h) + j) - (n - Len(h)) = j
      BY <1>1, <1>4
    <3>3. QED
      BY <1>4, <1>7, <3>2
  <2> HIDE DEF s
  <2>5. h = s
    BY <1>1, <2>3, <2>4
  <2>6. k = 1 \/ n - k >= Window - 1
    BY <1>1, <1>4
  <2>7. QED
    BY <1>6, <2>2, <2>5, <2>6 DEF s
<1>10. QED
  BY <1>1, <1>3, <1>6, <1>7, <1>8, <1>9 DEF n, h, said

(* Between messages the page shows what the LLM will be told, and every    *)
(* piece of an answer once however messages overlap (chat.js and the       *)
(* streaming handler of POST /chat), for any number of messages, at once   *)
(* or in turn, of any length.                                              *)
THEOREM ChatPageMatches == ChatSpec => []PageMatchesMemory
<1>1. ASSUME PageInv
      PROVE  PageMatchesMemory
  <2>1. ASSUME NEW q \in Requests, sent[q] = "over", mishap \subseteq {"overlap"}
        PROVE  Shown(q) = answer[q]
    <3>1. PICK n \in Nat : WireOK(q, n) /\ ShownOK(q, n)
      BY <1>1 DEF PageInv, StreamOK
    <3>2. wire[q] = <<>>
      BY <1>1, <2>1 DEF PageInv, ChatTypeOK
    <3>3. n = 0
      BY <3>1, <3>2 DEF WireOK
    <3>4. /\ IsFiniteSet(PiecesIn(bubbles, q))
          /\ Cardinality(PiecesIn(bubbles, q)) + 0 = answer[q]
      BY <2>1, <3>1, <3>3 DEF ShownOK
    <3>5. Cardinality(PiecesIn(bubbles, q)) \in Nat
      BY <3>4, FS_CardinalityType
    <3>6. Shown(q) = Cardinality(PiecesIn(bubbles, q))
      BY DEF Shown, PiecesIn
    <3>7. QED
      BY <3>4, <3>5, <3>6
  <2>2. ChatTypeOK
    BY <1>1 DEF PageInv
  <2>3. QED
    BY <1>1, <2>1, <2>2, AtRest DEF PageMatchesMemory
<1>2. QED
  BY <1>1, PageInvariant, PTL

(* The memory keeps its promises to the page too: what the LLM is shown    *)
(* are whole exchanges, and the window bounds them (memory.py), whatever   *)
(* the page does.                                                          *)
THEOREM ChatKeepsExchanges == ChatSpec => [](PromptsAreExchanges /\ WindowKept)
<1>1. PageInv => PromptsAreExchanges /\ WindowKept
  BY WindowFollows DEF PageInv, MemoryInv
<1>2. QED
  BY <1>1, PageInvariant, PTL
=============================================================================
