----------------------------- MODULE ToolRunProofs ----------------------------
(***************************************************************************)
(* Theorems about RunConversation for any users, tools, number of runs     *)
(* under way, length of the conversation and iteration limits.             *)
(*                                                                         *)
(* The inductive invariant ConversationInv says of every run, at whatever  *)
(* point it is, that its messages and its trace are well formed, that the  *)
(* trace follows the messages entry by entry from the user's prompt on,    *)
(* and that the loop has counted the answers of the LLM.  That holds of    *)
(* the run before the next turn is what makes it hold after it: a turn     *)
(* appends an answer with all its tool messages at once, to both.          *)
(*                                                                         *)
(* Theorems about HandlerPool for any calls and number of threads.         *)
(*                                                                         *)
(* A call that is neither new nor done is in the queue or on a thread, in  *)
(* one place only (Places); unless it was given up on it is the one that   *)
(* the event loop waits for (CallOK).  So while nobody was given up on, at *)
(* most one handler is between reading len(_USERS) and storing its user,   *)
(* and the entries are numbered without gaps (Numbered).                   *)
(***************************************************************************)
EXTENDS RunConversation, HandlerPool, SequenceTheorems, FiniteSetTheorems, TLAPS

\* Two messages that differ in their body only.
SameShape(m, s) == s.role = m.role /\ s.calls = m.calls /\ s.id = m.id

\* An entry of the trace tells what the message said, up to Blur.
Tells(m, s) == SameShape(m, s) /\ Blur(s.body) = Blur(m.body)

\* A trace follows the messages, entry by entry, from the prompt on.
Follows(steps, messages, seed) ==
    /\ seed \in 1..Len(messages)
    /\ Len(messages) = seed + Len(steps)
    /\ messages[seed] = Plain("user", "prompt")
    /\ \A k \in 1..Len(steps) : Tells(messages[seed + k], steps[k])

\* The loop has counted the answers of the LLM.
Counted(x) ==
    LET answers == Cardinality(AiSteps(x.steps))
        failed == "llm_invoke_failed" \in x.warnings
    IN  /\ x.max <= HardIterations /\ answers <= x.max
        /\ x.pc = "llm" =>
             /\ x.iterations = answers + 1 /\ x.iterations <= x.max
             /\ ~x.truncated /\ ~failed
        /\ x.pc \in {"commit", "answered"} =>
             /\ x.truncated <=> AsksForTools(x.steps) /\ ~failed
             /\ x.truncated => answers = x.max

RunOK(x) ==
    /\ x.pc = "idle" => x = IdleRun
    /\ x.pc # "idle" =>
         /\ WellFormed(x.messages) /\ WellFormed(x.steps)
         /\ Follows(x.steps, x.messages, x.seed)
         /\ Counted(x)

ConversationInv ==
    /\ ConversationTypeOK
    /\ WellFormed(history)
    /\ \A r \in Runs : RunOK(run[r])

-----------------------------------------------------------------------------
(* Well-formed conversations *)

LEMMA StepsAreMessages == Step \subseteq Message
BY DEF Step

(* The entries of a concatenation, the second part counted from its start. *)
LEMMA ConcatEntries ==
    ASSUME NEW S, NEW m \in Seq(S), NEW n \in Seq(S)
    PROVE  /\ m \o n \in Seq(S)
           /\ Len(m \o n) = Len(m) + Len(n)
           /\ Len(m) \in Nat /\ Len(n) \in Nat
           /\ \A k \in 1..Len(m) : (m \o n)[k] = m[k]
           /\ \A k \in 1..Len(n) : (m \o n)[Len(m) + k] = n[k]
BY ConcatProperties

LEMMA AppendThenConcat ==
    ASSUME NEW S, NEW m \in Seq(S), NEW e \in S, NEW n \in Seq(S)
    PROVE  Append(m, e) \o n = m \o (<<e>> \o n)
<1>1. <<e>> \in Seq(S) /\ Append(m, e) = m \o <<e>>
  BY AppendIsConcat
<1>2. (m \o <<e>>) \o n = m \o (<<e>> \o n)
  BY <1>1, ConcatAssociative
<1>3. QED
  BY <1>1, <1>2

(* Whether a conversation is well formed does not depend on the bodies.    *)
LEMMA ShapeDecides ==
    ASSUME NEW m \in Seq(Message), NEW s \in Seq(Message), Len(s) = Len(m),
           \A k \in 1..Len(m) : SameShape(m[k], s[k]),
           WellFormed(m)
    PROVE  WellFormed(s)
<1> SUFFICES ASSUME NEW k \in 1..Len(s)
             PROVE  /\ s[k].role = "assistant" => AnsweredAt(s, k)
                    /\ s[k].role = "tool" => Solicited(s, k)
  BY DEF WellFormed
<1>1. /\ m[k].role = s[k].role /\ m[k].calls = s[k].calls /\ m[k].id = s[k].id
      /\ k \in 1..Len(m) /\ Len(m) \in Nat
  BY DEF SameShape
<1>2. m[k] \in Message /\ Len(m[k].calls) \in Nat
  <2>1. m[k] \in Message
    BY <1>1, ElementOfSeq
  <2>2. QED
    BY <2>1 DEF Message
<1>3. ASSUME s[k].role = "assistant"
      PROVE  AnsweredAt(s, k)
  <2>1. AnsweredAt(m, k)
    BY <1>1, <1>3 DEF WellFormed
  <2>2. QED
    BY <1>1, <1>2, <2>1 DEF AnsweredAt, SameShape
<1>4. ASSUME s[k].role = "tool"
      PROVE  Solicited(s, k)
  <2>1. PICK j \in 1..(k - 1) :
          m[j].role = "assistant" /\ m[k].id = k - j /\ m[k].id \in 1..Len(m[j].calls)
    BY <1>1, <1>4 DEF WellFormed, Solicited
  <2>2. j \in 1..Len(m) /\ SameShape(m[j], s[j])
    BY <1>1
  <2>3. s[j].role = "assistant" /\ s[k].id = k - j /\ s[k].id \in 1..Len(s[j].calls)
    BY <1>1, <2>1, <2>2 DEF SameShape
  <2>4. QED
    BY <2>3 DEF Solicited
<1>5. QED
  BY <1>3, <1>4

(* One well-formed conversation after another is well formed.              *)
LEMMA ConcatWellFormed ==
    ASSUME NEW m \in Seq(Message), NEW n \in Seq(Message),
           WellFormed(m), WellFormed(n)
    PROVE  WellFormed(m \o n)
<1> DEFINE c == m \o n
<1>1. /\ Len(c) = Len(m) + Len(n) /\ Len(m) \in Nat /\ Len(n) \in Nat
      /\ \A k \in 1..Len(m) : c[k] = m[k]
      /\ \A k \in 1..Len(n) : c[Len(m) + k] = n[k]
  BY ConcatEntries
<1> HIDE DEF c
<1>2. ASSUME NEW k \in 1..Len(m)
      PROVE  /\ c[k].role = "assistant" => AnsweredAt(c, k)
             /\ c[k].role = "tool" => Solicited(c, k)
  <2>1. m[k] \in Message /\ Len(m[k].calls) \in Nat
    <3>1. m[k] \in Message
      BY ElementOfSeq
    <3>2. QED
      BY <3>1 DEF Message
  <2>2. ASSUME c[k].role = "assistant"
        PROVE  AnsweredAt(c, k)
    <3> DEFINE l == Len(m[k].calls)
    <3>1. k + l <= Len(m) /\ \A j \in 1..l : m[k + j].role = "tool" /\ m[k + j].id = j
      BY <2>2, <1>1 DEF WellFormed, AnsweredAt
    <3>2. \A j \in 1..l : k + j \in 1..Len(m)
      BY <3>1, <2>1, <1>1
    <3>3. \A j \in 1..l : c[k + j] = m[k + j]
      BY <3>2, <1>1
    <3>4. c[k].calls = m[k].calls /\ k + l <= Len(c)
      BY <3>1, <2>1, <1>1
    <3>5. QED
      BY <3>1, <3>3, <3>4 DEF AnsweredAt
  <2>3. ASSUME c[k].role = "tool"
        PROVE  Solicited(c, k)
    <3>1. PICK j \in 1..(k - 1) :
            m[j].role = "assistant" /\ m[k].id = k - j /\ m[k].id \in 1..Len(m[j].calls)
      BY <2>3, <1>1 DEF WellFormed, Solicited
    <3>2. j \in 1..Len(m) /\ c[j] = m[j] /\ c[k] = m[k]
      BY <1>1
    <3>3. QED
      BY <3>1, <3>2 DEF Solicited
  <2>4. QED
    BY <2>2, <2>3
<1>3. ASSUME NEW k \in 1..Len(n)
      PROVE  /\ c[Len(m) + k].role = "assistant" => AnsweredAt(c, Len(m) + k)
             /\ c[Len(m) + k].role = "tool" => Solicited(c, Len(m) + k)
  <2>1. n[k] \in Message /\ Len(n[k].calls) \in Nat
    <3>1. n[k] \in Message
      BY ElementOfSeq
    <3>2. QED
      BY <3>1 DEF Message
  <2>2. ASSUME c[Len(m) + k].role = "assistant"
        PROVE  AnsweredAt(c, Len(m) + k)
    <3> DEFINE l == Len(n[k].calls)
    <3>1. k + l <= Len(n) /\ \A j \in 1..l : n[k + j].role = "tool" /\ n[k + j].id = j
      BY <2>2, <1>1 DEF WellFormed, AnsweredAt
    <3>2. \A j \in 1..l :
             k + j \in 1..Len(n) /\ (Len(m) + k) + j = Len(m) + (k + j)
      BY <3>1, <2>1, <1>1
    <3>3. \A j \in 1..l : c[(Len(m) + k) + j] = n[k + j]
      BY <3>2, <1>1
    <3>4. c[Len(m) + k].calls = n[k].calls /\ (Len(m) + k) + l <= Len(c)
      BY <3>1, <2>1, <1>1
    <3>5. QED
      BY <3>1, <3>3, <3>4 DEF AnsweredAt
  <2>3. ASSUME c[Len(m) + k].role = "tool"
        PROVE  Solicited(c, Len(m) + k)
    <3>1. PICK j \in 1..(k - 1) :
            n[j].role = "assistant" /\ n[k].id = k - j /\ n[k].id \in 1..Len(n[j].calls)
      BY <2>3, <1>1 DEF WellFormed, Solicited
    <3>2. c[Len(m) + j] = n[j] /\ c[Len(m) + k] = n[k]
      BY <1>1
    <3>3. Len(m) + j \in 1..(Len(m) + k - 1) /\ n[k].id = (Len(m) + k) - (Len(m) + j)
      BY <3>1, <1>1
    <3>4. QED
      BY <3>1, <3>2, <3>3 DEF Solicited
  <2>4. QED
    BY <2>2, <2>3
<1>4. ASSUME NEW k \in 1..Len(c)
      PROVE  \/ k \in 1..Len(m)
             \/ \E j \in 1..Len(n) : k = Len(m) + j
  <2>1. CASE k <= Len(m)
    BY <2>1
  <2>2. CASE k > Len(m)
    <3>1. k - Len(m) \in 1..Len(n) /\ k = Len(m) + (k - Len(m))
      BY <2>2, <1>1
    <3>2. QED
      BY <3>1
  <2>3. QED
    BY <2>1, <2>2, <1>1
<1>5. WellFormed(c)
  <2> SUFFICES ASSUME NEW k \in 1..Len(c)
               PROVE  /\ c[k].role = "assistant" => AnsweredAt(c, k)
                      /\ c[k].role = "tool" => Solicited(c, k)
    BY DEF WellFormed
  <2>1. QED
    BY <1>2, <1>3, <1>4
<1>6. QED
  BY <1>5 DEF c

(* A system or user message alone, and an answer followed by one tool      *)
(* message for each of its calls, in order.                                *)
LEMMA PlainWellFormed ==
    ASSUME NEW role \in {"system", "user"}, NEW body \in Bodies
    PROVE  /\ Plain(role, body) \in Message
           /\ <<Plain(role, body)>> \in Seq(Message)
           /\ WellFormed(<<Plain(role, body)>>)
<1>1. <<>> \in ToolCalls
  <2>1. <<>> \in [1..0 -> Names] /\ 0 \in 0..MaxCalls
    BY RunnerAssumption
  <2>2. QED
    BY <2>1 DEF ToolCalls
<1>2. Plain(role, body) \in Message
  BY <1>1, RunnerAssumption DEF Plain, Message
<1>3. Plain(role, body).role = role
  BY DEF Plain
<1>4. QED
  BY <1>2, <1>3 DEF WellFormed

LEMMA TurnWellFormed ==
    ASSUME NEW t \in Seq(Message), NEW l \in Nat, Len(t) = l + 1,
           t[1].role = "assistant", Len(t[1].calls) = l,
           \A j \in 1..l : t[1 + j].role = "tool" /\ t[1 + j].id = j
    PROVE  WellFormed(t)
<1> SUFFICES ASSUME NEW k \in 1..Len(t)
             PROVE  /\ t[k].role = "assistant" => AnsweredAt(t, k)
                    /\ t[k].role = "tool" => Solicited(t, k)
  BY DEF WellFormed
<1>1. CASE k = 1
  BY <1>1 DEF AnsweredAt
<1>2. CASE k # 1
  <2>1. k - 1 \in 1..l /\ k = 1 + (k - 1) /\ 1 \in 1..(k - 1)
    BY <1>2
  <2>2. t[k].role = "tool" /\ t[k].id = k - 1
    BY <2>1
  <2>3. Solicited(t, k)
    BY <2>1, <2>2 DEF Solicited
  <2>4. QED
    BY <2>2, <2>3
<1>3. QED
  BY <1>1, <1>2

-----------------------------------------------------------------------------
(* The trace and what it tells *)

(* Sending the trace changes bodies only, and none beyond what Blur hides. *)
LEMMA SerialisedTells ==
    ASSUME NEW steps \in Seq(Step), record \in Values
    PROVE  /\ Serialised(steps) \in Seq(Step)
           /\ Len(Serialised(steps)) = Len(steps)
           /\ \A k \in 1..Len(steps) : Tells(steps[k], Serialised(steps)[k])
<1> DEFINE out(s) == [s EXCEPT !.body = IF s.body = "record" THEN record ELSE s.body]
<1>1. Len(steps) \in Nat
  OBVIOUS
<1>2. ASSUME NEW s \in Step
      PROVE  out(s) \in Step /\ Tells(s, out(s))
  <2>1. record \in {"old", "new"}
    BY RunnerAssumption
  <2>2. s \in Message /\ out(s) \in Message
    BY <2>1 DEF Step, Message, Bodies
  <2>3. /\ out(s).role = s.role /\ out(s).calls = s.calls /\ out(s).id = s.id
        /\ out(s).body = IF s.body = "record" THEN record ELSE s.body
    BY <2>2 DEF Message
  <2>4. out(s) \in Step
    BY <2>1, <2>2, <2>3 DEF Step
  <2>5. Blur(out(s).body) = Blur(s.body)
    BY <2>1, <2>3 DEF Blur
  <2>6. QED
    BY <2>3, <2>4, <2>5 DEF Tells, SameShape
<1>3. Serialised(steps) = [k \in 1..Len(steps) |-> out(steps[k])]
  BY DEF Serialised
<1>4. \A k \in 1..Len(steps) : steps[k] \in Step
  BY ElementOfSeq
<1> HIDE DEF out
<1>5. QED
  BY <1>1, <1>2, <1>3, <1>4

(* A trace that follows the messages still does after both have grown by   *)
(* entries that tell the same.                                             *)
LEMMA FollowsGrow ==
    ASSUME NEW m \in Seq(Message), NEW s \in Seq(Step), NEW seed \in Nat,
           NEW ms \in Seq(Message), NEW ss \in Seq(Step)
    PROVE  /\ Follows(s, m, seed)
           /\ Len(ms) = Len(ss)
           /\ \A k \in 1..Len(ss) : Tells(ms[k], ss[k])
           => Follows(s \o ss, m \o ms, seed)
<1> DEFINE mm == m \o ms
           tt == s \o ss
<1>1. /\ Len(mm) = Len(m) + Len(ms)
      /\ \A k \in 1..Len(m) : mm[k] = m[k]
      /\ \A k \in 1..Len(ms) : mm[Len(m) + k] = ms[k]
  BY ConcatEntries
<1>2. /\ Len(tt) = Len(s) + Len(ss)
      /\ \A k \in 1..Len(s) : tt[k] = s[k]
      /\ \A k \in 1..Len(ss) : tt[Len(s) + k] = ss[k]
  BY ConcatEntries
<1> SUFFICES ASSUME Follows(s, m, seed), Len(ms) = Len(ss),
                    \A k \in 1..Len(ss) : Tells(ms[k], ss[k])
             PROVE  Follows(tt, mm, seed)
  OBVIOUS
<1> HIDE DEF mm, tt
<1>3. /\ Len(m) \in Nat /\ Len(s) \in Nat /\ Len(ms) \in Nat
      /\ seed \in 1..Len(m) /\ Len(m) = seed + Len(s)
      /\ m[seed] = Plain("user", "prompt")
      /\ \A k \in 1..Len(s) : Tells(m[seed + k], s[k])
  BY DEF Follows
<1>4. ASSUME NEW k \in 1..Len(tt)
      PROVE  Tells(mm[seed + k], tt[k])
  <2>1. CASE k <= Len(s)
    <3>1. k \in 1..Len(s) /\ seed + k \in 1..Len(m)
      BY <2>1, <1>2, <1>3
    <3>2. mm[seed + k] = m[seed + k] /\ tt[k] = s[k]
      BY <3>1, <1>1, <1>2
    <3>3. QED
      BY <3>1, <3>2, <1>3
  <2>2. CASE k > Len(s)
    <3>1. PICK j \in 1..Len(ss) : k = Len(s) + j
      <4>1. k - Len(s) \in 1..Len(ss) /\ k = Len(s) + (k - Len(s))
        BY <2>2, <1>2, <1>3
      <4>2. QED
        BY <4>1
    <3>2. seed + k = Len(m) + j
      BY <3>1, <1>3
    <3>3. mm[seed + k] = ms[j] /\ tt[k] = ss[j]
      BY <3>1, <3>2, <1>1, <1>2
    <3>4. QED
      BY <3>3
  <2>3. QED
    BY <2>1, <2>2, <1>2, <1>3
<1>5. /\ seed \in 1..Len(mm) /\ Len(mm) = seed + Len(tt)
      /\ mm[seed] = Plain("user", "prompt")
  <2>1. seed \in 1..Len(m) /\ m[seed] = Plain("user", "prompt")
    BY <1>3
  <2>2. mm[seed] = m[seed]
    BY <1>1, <1>3, <2>1
  <2>3. Len(mm) = Len(m) + Len(ms) /\ Len(tt) = Len(s) + Len(ss) /\ Len(ms) = Len(ss)
    BY <1>1, <1>2
  <2>4. seed \in 1..Len(mm) /\ Len(mm) = seed + Len(tt)
    BY <1>3, <2>3
  <2>5. QED
    BY <2>1, <2>2, <2>4
<1>6. QED
  BY <1>4, <1>5 DEF Follows

LEMMA AiStepsFinite ==
    ASSUME NEW steps \in Seq(Step)
    PROVE  IsFiniteSet(AiSteps(steps)) /\ Cardinality(AiSteps(steps)) \in Nat
<1>1. IsFiniteSet(1..Len(steps))
  BY FS_Interval
<1>2. AiSteps(steps) \subseteq 1..Len(steps)
  BY DEF AiSteps
<1>3. QED
  BY <1>1, <1>2, FS_Subset, FS_CardinalityType

(* A turn adds one answer of the LLM, the last so far.                     *)
LEMMA TurnCounts ==
    ASSUME NEW steps \in Seq(Step), NEW t \in Seq(Step), Len(t) >= 1,
           t[1].role = "assistant",
           \A k \in 2..Len(t) : t[k].role # "assistant"
    PROVE  /\ Cardinality(AiSteps(steps \o t)) = Cardinality(AiSteps(steps)) + 1
           /\ AsksForTools(steps \o t) <=> t[1].calls # <<>>
<1> DEFINE c == steps \o t
           new == Len(steps) + 1
<1>1. /\ Len(c) = Len(steps) + Len(t) /\ Len(steps) \in Nat /\ Len(t) \in Nat
      /\ \A k \in 1..(Len(steps) + Len(t)) :
             c[k] = IF k <= Len(steps) THEN steps[k] ELSE t[k - Len(steps)]
  BY ConcatProperties
<1> HIDE DEF c
<1>2. c[new] = t[1] /\ new \in 1..Len(c)
  BY <1>1
<1>3. AiSteps(c) = AiSteps(steps) \cup {new}
  <2>1. ASSUME NEW k \in 1..Len(c)
        PROVE  c[k].role = "assistant" <=>
                   (k = new \/ (k \in 1..Len(steps) /\ steps[k].role = "assistant"))
    <3>1. CASE k <= Len(steps)
      BY <3>1, <1>1
    <3>2. CASE k = new
      BY <3>2, <1>2
    <3>3. CASE k > new
      <4>1. k - Len(steps) \in 2..Len(t) /\ c[k] = t[k - Len(steps)]
        BY <3>3, <1>1
      <4>2. QED
        BY <4>1, <3>3, <1>1
    <3>4. QED
      BY <3>1, <3>2, <3>3, <1>1
  <2>2. 1..Len(steps) \subseteq 1..Len(c)
    BY <1>1
  <2>3. QED
    BY <2>1, <2>2, <1>2 DEF AiSteps
<1>4. new \notin AiSteps(steps) /\ \A k \in AiSteps(steps) : k <= new
  BY <1>1 DEF AiSteps
<1>5. Cardinality(AiSteps(c)) = Cardinality(AiSteps(steps)) + 1
  BY <1>3, <1>4, AiStepsFinite, FS_AddElement
<1>6. AsksForTools(c) <=> t[1].calls # <<>>
  <2>1. \A k \in AiSteps(c) : (\A j \in AiSteps(c) : j <= k) <=> k = new
    <3>1. new \in Int /\ \A k \in AiSteps(c) : k \in Int /\ k <= new
      BY <1>1, <1>3, <1>4 DEF AiSteps
    <3>2. new \in AiSteps(c)
      BY <1>3
    <3> HIDE DEF new
    <3>3. QED
      BY <3>1, <3>2
  <2>2. QED
    BY <2>1, <1>2, <1>3 DEF AsksForTools
<1>7. QED
  BY <1>5, <1>6 DEF c

-----------------------------------------------------------------------------
(* One turn of the loop *)

ResultBodies == {"tool_not_found"} \cup HandlerResults \cup HandlerErrors

LEMMA OutcomeBodies ==
    ASSUME NEW u, NEW n, NEW o \in Outcomes(u, n)
    PROVE  o.body \in ResultBodies
BY DEF Outcomes, ResultBodies

\* An answer of the LLM with one tool message for each of its calls.
IsTurn(t, calls) ==
    /\ Len(t) = Len(calls) + 1
    /\ t[1].role = "assistant" /\ t[1].calls = calls
    /\ \A j \in 1..Len(calls) : t[1 + j].role = "tool" /\ t[1 + j].id = j

LEMMA CallsLength ==
    ASSUME NEW calls \in ToolCalls
    PROVE  Len(calls) \in Nat /\ Len(calls) <= MaxCalls
           /\ (Len(calls) = 0 => calls = <<>>)
<1>1. PICK l \in 0..MaxCalls : calls \in [1..l -> Names]
  BY DEF ToolCalls
<1>2. calls \in Seq(Names) /\ Len(calls) = l
  BY <1>1, RunnerAssumption
<1>3. QED
  BY <1>1, <1>2, RunnerAssumption

(* record_ai keeps what an answer said. *)
LEMMA AnswerTold ==
    ASSUME NEW calls \in ToolCalls, NEW b \in Contents
    PROVE  LET ai == Assistant(calls, b)
           IN  /\ ai \in Message /\ AiStep(ai) \in Step
               /\ ai.role = "assistant" /\ ai.calls = calls
               /\ Tells(ai, AiStep(ai))
<1> DEFINE ai == Assistant(calls, b)
           s == AiStep(ai)
<1>1. /\ ai \in Message /\ ai.role = "assistant" /\ ai.calls = calls
      /\ ai.id = 0 /\ ai.body = b /\ b \in {"text", "leak", "blocks"}
  BY RunnerAssumption DEF Assistant, Message, Bodies
<1> HIDE DEF ai
<1>2. /\ s \in Message /\ s.role = ai.role /\ s.calls = ai.calls /\ s.id = ai.id
      /\ s.body = IF b = "blocks" THEN "none" ELSE b
  BY <1>1 DEF AiStep, Message, Bodies
<1>3. s \in Step /\ Blur(s.body) = Blur(ai.body)
  BY <1>1, <1>2 DEF Step, Blur
<1>4. Tells(ai, s)
  BY <1>2, <1>3 DEF Tells, SameShape
<1>5. QED
  BY <1>1, <1>3, <1>4 DEF ai

(* record_tool and to_tool_message_content agree on every call. *)
LEMMA ResultsTold ==
    ASSUME NEW calls \in ToolCalls, NEW results, NEW values,
           DOMAIN results = 1..Len(calls), Len(results) = Len(calls),
           \A j \in 1..Len(calls) : results[j].body \in ResultBodies,
           values \in [1..Len(calls) -> Values]
    PROVE  LET ms == ToolMessages(results, values)
               ss == ToolSteps(results)
           IN  /\ ms \in Seq(Message) /\ Len(ms) = Len(calls)
               /\ ss \in Seq(Step) /\ Len(ss) = Len(calls)
               /\ \A j \in 1..Len(calls) :
                    ms[j].role = "tool" /\ ms[j].id = j /\ Tells(ms[j], ss[j])
<1> DEFINE mbody(j) == IF results[j].body = "record" THEN values[j] ELSE results[j].body
           sbody(j) == TraceBody(results[j])
           ms == ToolMessages(results, values)
           ss == ToolSteps(results)
<1>1. Len(calls) \in Nat /\ Len(calls) <= MaxCalls
  BY CallsLength
<1>2. ASSUME NEW j \in 1..Len(calls)
      PROVE  /\ mbody(j) \in Bodies /\ sbody(j) \in {"ok", "record", "error"}
             /\ Blur(mbody(j)) = Blur(sbody(j))
  <2>1. values[j] \in {"old", "new"}
    BY RunnerAssumption
  <2>2. results[j].body \in {"tool_not_found", "ok", "record", "timeout",
                             "exception", "return_schema_invalid"}
    BY RunnerAssumption DEF ResultBodies
  <2>3. QED
    BY <2>1, <2>2 DEF Bodies, TraceBody, Blur
<1>3. ASSUME NEW j \in 1..Len(calls), NEW body \in Bodies
      PROVE  ToolMessage(j, body) \in Message
  <2>1. <<>> \in ToolCalls
    BY PlainWellFormed, RunnerAssumption DEF Plain, Message, Bodies
  <2>2. QED
    BY <2>1, <1>1, RunnerAssumption DEF ToolMessage, Message
<1>4. ASSUME NEW j \in 1..Len(calls)
      PROVE  /\ ToolMessage(j, mbody(j)) \in Message
             /\ ToolMessage(j, sbody(j)) \in Step
  <2>1. ToolMessage(j, mbody(j)) \in Message
    BY <1>2, <1>3
  <2>2. ToolMessage(j, sbody(j)) \in Message /\ ToolMessage(j, sbody(j)).body = sbody(j)
    BY <1>2, <1>3 DEF Bodies, ToolMessage
  <2>3. QED
    BY <2>1, <2>2, <1>2 DEF Step
<1>5. ms = [j \in 1..Len(calls) |-> ToolMessage(j, mbody(j))]
      /\ ss = [j \in 1..Len(calls) |-> ToolMessage(j, sbody(j))]
  BY DEF ToolMessages, ToolSteps
<1> HIDE DEF mbody, sbody, ms, ss
<1>6. ms \in Seq(Message) /\ Len(ms) = Len(calls)
      /\ ss \in Seq(Step) /\ Len(ss) = Len(calls)
  BY <1>1, <1>4, <1>5
<1>7. ASSUME NEW j \in 1..Len(calls)
      PROVE  ms[j].role = "tool" /\ ms[j].id = j /\ Tells(ms[j], ss[j])
  BY <1>2, <1>5 DEF ToolMessage, Tells, SameShape
<1>8. QED
  BY <1>6, <1>7 DEF ms, ss

(* A turn appended to the messages of a run and, as it tells it, to its    *)
(* trace.                                                                  *)
LEMMA TurnGrows ==
    ASSUME NEW x \in Run, RunOK(x), x.pc = "llm",
           NEW ms \in Seq(Message), NEW ss \in Seq(Step), NEW calls \in ToolCalls,
           IsTurn(ms, calls), Len(ss) = Len(ms),
           \A k \in 1..Len(ms) : Tells(ms[k], ss[k])
    PROVE  LET messages == x.messages \o ms
               steps == x.steps \o ss
           IN  /\ messages \in Seq(Message) /\ steps \in Seq(Step)
               /\ WellFormed(messages) /\ WellFormed(steps)
               /\ Follows(steps, messages, x.seed)
               /\ Cardinality(AiSteps(steps)) = Cardinality(AiSteps(x.steps)) + 1
               /\ AsksForTools(steps) <=> calls # <<>>
<1> DEFINE l == Len(calls)
<1>1. /\ x.messages \in Seq(Message) /\ x.steps \in Seq(Step) /\ x.seed \in Nat
      /\ WellFormed(x.messages) /\ WellFormed(x.steps)
      /\ Follows(x.steps, x.messages, x.seed)
  BY DEF Run, RunOK
<1>2. ss \in Seq(Message) /\ x.steps \in Seq(Message)
  BY <1>1, StepsAreMessages, SeqMonotonic
<1>3. l \in Nat
  BY CallsLength
<1>4. /\ Len(ss) = l + 1
      /\ ss[1].role = "assistant" /\ ss[1].calls = calls
      /\ \A j \in 1..l : ss[1 + j].role = "tool" /\ ss[1 + j].id = j
  <2>1. \A k \in 1..(l + 1) : SameShape(ms[k], ss[k])
    BY <1>3 DEF IsTurn, Tells
  <2>2. 1 \in 1..(l + 1) /\ \A j \in 1..l : 1 + j \in 1..(l + 1)
    BY <1>3
  <2>3. QED
    BY <2>1, <2>2 DEF IsTurn, SameShape
<1>5. WellFormed(ms) /\ WellFormed(ss)
  <2>1. WellFormed(ms)
    BY <1>3, TurnWellFormed DEF IsTurn
  <2>2. WellFormed(ss)
    BY <1>2, <1>3, <1>4, TurnWellFormed
  <2>3. QED
    BY <2>1, <2>2
<1>6. WellFormed(x.messages \o ms) /\ WellFormed(x.steps \o ss)
  BY <1>1, <1>2, <1>5, ConcatWellFormed
<1>7. Follows(x.steps \o ss, x.messages \o ms, x.seed)
  BY <1>1, FollowsGrow
<1>8. /\ Cardinality(AiSteps(x.steps \o ss)) = Cardinality(AiSteps(x.steps)) + 1
      /\ AsksForTools(x.steps \o ss) <=> calls # <<>>
  <2>1. ASSUME NEW k \in 2..Len(ss)
        PROVE  ss[k].role # "assistant"
    <3>1. k - 1 \in 1..l /\ 1 + (k - 1) = k
      BY <1>3, <1>4
    <3>2. ss[k].role = "tool"
      BY <3>1, <1>4
    <3>3. QED
      BY <3>2
  <2>2. Len(ss) >= 1
    BY <1>3, <1>4
  <2>3. QED
    BY <2>1, <2>2, <1>1, <1>4, TurnCounts
<1>9. QED
  BY <1>1, <1>6, <1>7, <1>8, ConcatEntries

-----------------------------------------------------------------------------
(* The steps *)

LEMMA IdleOK == IdleRun \in Run /\ RunOK(IdleRun)
<1>1. IdleRun \in Run
  BY DEF IdleRun, Run, Bodies
<1>2. IdleRun.pc = "idle"
  BY DEF IdleRun
<1>3. QED
  BY <1>1, <1>2 DEF RunOK

LEMMA RunChanges ==
    ASSUME ConversationInv, NEW r \in Runs, NEW y \in Run, RunOK(y),
           run' = [run EXCEPT ![r] = y], record' \in Values,
           UNCHANGED <<live, index, history>>
    PROVE  ConversationInv'
<1>1. ConversationTypeOK'
  BY DEF ConversationInv, ConversationTypeOK, RegistryTypeOK
<1>2. \A q \in Runs : RunOK(run'[q])
  BY DEF ConversationInv, ConversationTypeOK
<1>3. QED
  BY <1>1, <1>2 DEF ConversationInv

(* The messages a run starts with. *)
LEMMA SeedOK ==
    ASSUME NEW h \in Seq(Step), WellFormed(h)
    PROVE  /\ Seed(h) \in Seq(Message) /\ WellFormed(Seed(h))
           /\ Len(Seed(h)) = Len(h) + 2 /\ Len(h) \in Nat
           /\ Seed(h)[Len(h) + 2] = Plain("user", "prompt")
<1> DEFINE first == <<Plain("system", "prompt")>>
           last == <<Plain("user", "prompt")>>
<1>1. /\ first \in Seq(Message) /\ Len(first) = 1 /\ WellFormed(first)
      /\ last \in Seq(Message) /\ Len(last) = 1 /\ WellFormed(last)
      /\ last[1] = Plain("user", "prompt")
  BY PlainWellFormed DEF Bodies
<1>2. h \in Seq(Message)
  BY StepsAreMessages, SeqMonotonic
<1> HIDE DEF first, last
<1> DEFINE front == first \o h
<1>3. front \in Seq(Message) /\ Len(front) = Len(first) + Len(h) /\ Len(h) \in Nat
  BY <1>1, <1>2, ConcatEntries
<1>4. WellFormed(front)
  BY <1>1, <1>2, ConcatWellFormed
<1> HIDE DEF front
<1>5. /\ front \o last \in Seq(Message) /\ Len(front \o last) = Len(front) + Len(last)
      /\ \A k \in 1..Len(last) : (front \o last)[Len(front) + k] = last[k]
  <2>1. front \in Seq(Message) /\ last \in Seq(Message)
    BY <1>1, <1>3
  <2>2. QED
    BY <2>1, ConcatEntries
<1>6. WellFormed(front \o last)
  BY <1>1, <1>3, <1>4, ConcatWellFormed
<1>7. Seed(h) = front \o last
  BY DEF Seed, front, first, last
<1>8. Len(front) + 1 = Len(h) + 2 /\ Len(front) + Len(last) = Len(h) + 2
      /\ 1 \in 1..Len(last)
  BY <1>1, <1>3
<1>9. (front \o last)[Len(h) + 2] = Plain("user", "prompt")
  BY <1>1, <1>5, <1>8
<1>10. QED
  BY <1>3, <1>5, <1>6, <1>7, <1>8, <1>9

LEMMA SendRunStep ==
    ASSUME ConversationInv, NEW r \in Runs, SendRun(r)
    PROVE  ConversationInv'
<1>1. PICK toolIds \in SUBSET Ids, asked \in Asked :
        Begin(r, Me, toolIds, asked, history)
  BY DEF SendRun
<1>2. PICK offered \in Offers(Me, toolIds) :
        run' = [run EXCEPT ![r] =
                 [IdleRun EXCEPT
                     !.pc = "llm", !.user = Me, !.offered = offered,
                     !.max = IterationCap(asked), !.iterations = 1,
                     !.messages = Seed(history), !.seed = Len(history) + 2]]
  BY <1>1 DEF Begin
<1> DEFINE y == [IdleRun EXCEPT
                     !.pc = "llm", !.user = Me, !.offered = offered,
                     !.max = IterationCap(asked), !.iterations = 1,
                     !.messages = Seed(history), !.seed = Len(history) + 2]
<1>3. offered \subseteq Ids
  BY DEF Offers, Visible
<1>4. IterationCap(asked) \in Nat /\ 1 <= IterationCap(asked)
      /\ IterationCap(asked) <= HardIterations
  BY RunnerAssumption, ConversationAssumption DEF IterationCap
<1>5. /\ Seed(history) \in Seq(Message) /\ WellFormed(Seed(history))
      /\ Len(Seed(history)) = Len(history) + 2 /\ Len(history) \in Nat
      /\ Seed(history)[Len(history) + 2] = Plain("user", "prompt")
  BY SeedOK DEF ConversationInv, ConversationTypeOK
<1>6. y \in Run /\ y.pc = "llm" /\ y.steps = <<>> /\ y.messages = Seed(history)
      /\ y.seed = Len(history) + 2 /\ y.iterations = 1 /\ y.max = IterationCap(asked)
      /\ y.truncated = FALSE /\ y.warnings = {}
  <2> DEFINE cap == IterationCap(asked)
             messages == Seed(history)
             seed == Len(history) + 2
  <2>1. cap \in Nat /\ messages \in Seq(Message) /\ seed \in Nat /\ Me \in Users
    BY <1>4, <1>5, ConversationAssumption
  <2> HIDE DEF cap, messages, seed
  <2>2. IdleRun \in Run
    BY IdleOK
  <2>3. [IdleRun EXCEPT !.pc = "llm", !.user = Me, !.offered = offered,
                     !.max = cap, !.iterations = 1,
                     !.messages = messages, !.seed = seed] \in Run
    BY <2>1, <2>2, <1>3 DEF Run
  <2>4. QED
    BY <2>3 DEF IdleRun, cap, messages, seed
<1> HIDE DEF y
<1>7. WellFormed(y.steps) /\ Follows(y.steps, y.messages, y.seed)
  BY <1>5, <1>6 DEF WellFormed, Follows
<1>8. Counted(y)
  <2>1. AiSteps(y.steps) = {}
    BY <1>6 DEF AiSteps
  <2>2. Cardinality(AiSteps(y.steps)) = 0
    BY <2>1, FS_EmptySet
  <2>3. QED
    BY <2>2, <1>4, <1>6 DEF Counted
<1>9. RunOK(y)
  BY <1>5, <1>6, <1>7, <1>8 DEF RunOK
<1>10. run' = [run EXCEPT ![r] = y]
  BY <1>2 DEF y
<1>11. QED
  BY <1>6, <1>9, <1>10, RunChanges
     DEF SendRun, ConversationInv, ConversationTypeOK

LEMMA FinalAnswerStep ==
    ASSUME ConversationInv, NEW r \in Runs, FinalAnswer(r),
           UNCHANGED <<live, index, history>>
    PROVE  ConversationInv'
<1> DEFINE x == run[r]
<1>1. x \in Run /\ RunOK(x) /\ x.pc = "llm" /\ run \in [Runs -> Run]
  BY DEF FinalAnswer, ConversationInv, ConversationTypeOK
<1>2. PICK b \in Contents :
        LET ai == Assistant(<<>>, b)
        IN  run' = [run EXCEPT
                 ![r].pc = "commit",
                 ![r].messages = Append(@, ai),
                 ![r].steps = Append(@, AiStep(ai)),
                 ![r].final = IF b = "blocks" THEN "none" ELSE b,
                 ![r].warnings = IF b = "leak"
                     THEN @ \cup {"tool_call_parser_likely_missing"} ELSE @]
  BY DEF FinalAnswer
<1> DEFINE ai == Assistant(<<>>, b)
           s == AiStep(ai)
           messages == x.messages \o <<ai>>
           steps == x.steps \o <<s>>
           final == IF b = "blocks" THEN "none" ELSE b
           warnings == IF b = "leak"
                         THEN x.warnings \cup {"tool_call_parser_likely_missing"}
                         ELSE x.warnings
           y == [x EXCEPT !.pc = "commit", !.messages = messages, !.steps = steps,
                          !.final = final, !.warnings = warnings]
<1>3. <<>> \in ToolCalls
  BY PlainWellFormed, RunnerAssumption DEF Plain, Message, Bodies
<1>4. ai \in Message /\ s \in Step /\ ai.role = "assistant" /\ ai.calls = <<>>
      /\ Tells(ai, s)
  BY <1>3, AnswerTold
<1> HIDE DEF ai, s
<1>5. /\ <<ai>> \in Seq(Message) /\ <<s>> \in Seq(Step)
      /\ Len(<<ai>>) = 1 /\ Len(<<s>>) = 1 /\ <<ai>>[1] = ai /\ <<s>>[1] = s
  BY <1>4
<1>6. IsTurn(<<ai>>, <<>>)
  BY <1>4, <1>5 DEF IsTurn
<1>7. \A k \in 1..Len(<<ai>>) : Tells(<<ai>>[k], <<s>>[k])
  BY <1>4, <1>5
<1>8. /\ messages \in Seq(Message) /\ steps \in Seq(Step)
      /\ WellFormed(messages) /\ WellFormed(steps)
      /\ Follows(steps, messages, x.seed)
      /\ Cardinality(AiSteps(steps)) = Cardinality(AiSteps(x.steps)) + 1
      /\ ~AsksForTools(steps)
  BY <1>1, <1>3, <1>5, <1>6, <1>7, TurnGrows
<1>9. x.messages \in Seq(Message) /\ x.steps \in Seq(Step)
  BY <1>1 DEF Run
<1>10. Append(x.messages, ai) = messages /\ Append(x.steps, s) = steps
  BY <1>4, <1>9, AppendIsConcat
<1>11. final \in Bodies
      /\ warnings \in SUBSET {"llm_invoke_failed", "tool_call_parser_likely_missing"}
      /\ ("llm_invoke_failed" \in warnings <=> "llm_invoke_failed" \in x.warnings)
  BY <1>1, RunnerAssumption DEF Bodies, Run
<1>12. run' = [run EXCEPT ![r] = y]
  BY <1>1, <1>2, <1>10 DEF ai, s
<1> HIDE DEF messages, steps, final, warnings
<1>13. /\ y \in Run /\ y.pc = "commit" /\ y.messages = messages /\ y.steps = steps
       /\ y.seed = x.seed /\ y.max = x.max /\ y.warnings = warnings
       /\ y.truncated = x.truncated
  BY <1>1, <1>8, <1>11 DEF Run
<1> HIDE DEF y
<1>14. Counted(y)
  <2>1. Counted(x)
    BY <1>1 DEF RunOK
  <2>2. Cardinality(AiSteps(x.steps)) \in Nat /\ x.max \in Nat /\ x.iterations \in Nat
    BY <1>1, <1>9, AiStepsFinite DEF Run
  <2>3. /\ y.max <= HardIterations
        /\ Cardinality(AiSteps(y.steps)) <= y.max
    BY <2>1, <2>2, <1>1, <1>8, <1>13 DEF Counted
  <2>4. ~y.truncated
    BY <2>1, <1>1, <1>13 DEF Counted
  <2>5. QED
    BY <2>3, <2>4, <1>8, <1>13 DEF Counted
<1>15. RunOK(y)
  BY <1>8, <1>13, <1>14 DEF RunOK
<1>16. QED
  BY <1>12, <1>13, <1>15, RunChanges
     DEF FinalAnswer, ConversationInv, ConversationTypeOK

(* A nonempty set of positions has a last one. *)
LEMMA LastPosition ==
    ASSUME NEW n \in Nat, NEW T, T \subseteq 1..n, T # {}
    PROVE  \E k \in T : \A j \in T : j <= k
<1> DEFINE D == {n - k : k \in T}
<1>1. D \subseteq Nat /\ D # {}
  <2>1. \A k \in T : k \in 1..n /\ n - k \in Nat
    OBVIOUS
  <2>2. PICK k \in T : TRUE
    OBVIOUS
  <2>3. n - k \in D
    BY <2>2
  <2>4. QED
    BY <2>1, <2>3
<1>2. IsWellFoundedOn(OpToRel(<, Nat), Nat)
  BY NatLessThanWellFounded
<1>3. PICK d \in D : \A e \in D : <<e, d>> \notin OpToRel(<, Nat)
  BY <1>1, <1>2, WFMin
<1>4. \A e \in D : ~(e < d)
  BY <1>1, <1>3 DEF OpToRel
<1>5. PICK k \in T : d = n - k
  OBVIOUS
<1>6. ASSUME NEW j \in T
      PROVE  j <= k
  <2>1. ~(n - j < n - k)
    BY <1>4, <1>5
  <2>2. QED
    BY <2>1
<1>7. QED
  BY <1>6

LEMMA LastTextBody ==
    ASSUME NEW steps \in Seq(Step)
    PROVE  LastText(steps) \in Bodies
<1> DEFINE texts == {k \in 1..Len(steps) :
                       steps[k].role = "assistant" /\ steps[k].body # "none"}
<1>1. CASE texts = {}
  BY <1>1 DEF LastText, Bodies
<1>2. CASE texts # {}
  <2> DEFINE last == CHOOSE k \in texts : \A j \in texts : j <= k
  <2>1. Len(steps) \in Nat /\ texts \subseteq 1..Len(steps)
    OBVIOUS
  <2>2. \E k \in texts : \A j \in texts : j <= k
    BY <1>2, <2>1, LastPosition
  <2>3. last \in texts
    BY <2>2
  <2>4. steps[last] \in Step
    BY <2>1, <2>3, ElementOfSeq
  <2>5. LastText(steps) = steps[last].body
    BY <1>2 DEF LastText
  <2> HIDE DEF last
  <2>6. QED
    BY <2>4, <2>5 DEF Step, Message
<1>3. QED
  BY <1>1, <1>2

LEMMA ToolTurnStep ==
    ASSUME ConversationInv, NEW r \in Runs, ToolTurn(r),
           UNCHANGED <<live, index, history>>
    PROVE  ConversationInv'
<1> DEFINE x == run[r]
<1>1. x \in Run /\ RunOK(x) /\ x.pc = "llm" /\ run \in [Runs -> Run]
  BY DEF ToolTurn, ConversationInv, ConversationTypeOK
<1>2. PICK calls \in ToolCalls \ {<<>>}, b \in Contents :
        \E results \in [1..Len(calls) -> UNION {Outcomes(x.user, n) : n \in Names}],
           values \in [1..Len(calls) -> Values] :
             LET ai == Assistant(calls, b)
                 steps == Append(x.steps, AiStep(ai)) \o ToolSteps(results)
             IN  /\ \A j \in 1..Len(calls) : results[j] \in Outcomes(x.user, calls[j])
                 /\ Changes(results, values)
                 /\ record' = values[Len(calls)]
                 /\ run' = [run EXCEPT
                      ![r].messages = Append(@, ai) \o ToolMessages(results, values),
                      ![r].steps = steps,
                      ![r].pc = IF Exhausted(x) THEN "commit" ELSE "llm",
                      ![r].iterations = IF Exhausted(x) THEN @ ELSE @ + 1,
                      ![r].truncated = Exhausted(x),
                      ![r].final = IF Exhausted(x) THEN LastText(steps) ELSE @]
  BY DEF ToolTurn
<1>3. PICK results \in [1..Len(calls) -> UNION {Outcomes(x.user, n) : n \in Names}],
           values \in [1..Len(calls) -> Values] :
             LET ai == Assistant(calls, b)
                 steps == Append(x.steps, AiStep(ai)) \o ToolSteps(results)
             IN  /\ \A j \in 1..Len(calls) : results[j] \in Outcomes(x.user, calls[j])
                 /\ Changes(results, values)
                 /\ record' = values[Len(calls)]
                 /\ run' = [run EXCEPT
                      ![r].messages = Append(@, ai) \o ToolMessages(results, values),
                      ![r].steps = steps,
                      ![r].pc = IF Exhausted(x) THEN "commit" ELSE "llm",
                      ![r].iterations = IF Exhausted(x) THEN @ ELSE @ + 1,
                      ![r].truncated = Exhausted(x),
                      ![r].final = IF Exhausted(x) THEN LastText(steps) ELSE @]
  BY <1>2
<1> DEFINE ai == Assistant(calls, b)
           s == AiStep(ai)
           ts == ToolMessages(results, values)
           rs == ToolSteps(results)
           ms == <<ai>> \o ts
           ss == <<s>> \o rs
           messages == x.messages \o ms
           steps == x.steps \o ss
           done == Exhausted(x)
           final == IF done THEN LastText(steps) ELSE x.final
           iterations == IF done THEN x.iterations ELSE x.iterations + 1
           pc == IF done THEN "commit" ELSE "llm"
           y == [x EXCEPT !.messages = messages, !.steps = steps, !.pc = pc,
                          !.iterations = iterations, !.truncated = done,
                          !.final = final]
<1>4. calls \in ToolCalls /\ calls # <<>> /\ Len(calls) \in Nat /\ Len(calls) # 0
  BY CallsLength
<1>5. /\ ai \in Message /\ s \in Step
      /\ ai.role = "assistant" /\ ai.calls = calls /\ Tells(ai, s)
  BY <1>4, AnswerTold
<1>6. /\ ts \in Seq(Message) /\ Len(ts) = Len(calls)
      /\ rs \in Seq(Step) /\ Len(rs) = Len(calls)
      /\ \A j \in 1..Len(calls) :
           ts[j].role = "tool" /\ ts[j].id = j /\ Tells(ts[j], rs[j])
  <2>1. DOMAIN results = 1..Len(calls) /\ Len(results) = Len(calls)
    BY <1>4
  <2>2. \A j \in 1..Len(calls) : results[j].body \in ResultBodies
    BY <1>3, OutcomeBodies
  <2>3. QED
    BY <2>1, <2>2, <1>4, ResultsTold
<1>7. record' \in Values
  <2>1. record' = values[Len(calls)]
    BY <1>3
  <2>2. Len(calls) \in 1..Len(calls)
    BY <1>4
  <2>3. QED
    BY <2>1, <2>2
<1> HIDE DEF ai, s, ts, rs
<1>8. <<ai>> \in Seq(Message) /\ <<s>> \in Seq(Step)
      /\ Len(<<ai>>) = 1 /\ Len(<<s>>) = 1 /\ <<ai>>[1] = ai /\ <<s>>[1] = s
  BY <1>5
<1>9. ms \in Seq(Message) /\ ss \in Seq(Step)
      /\ Len(ms) = Len(calls) + 1 /\ Len(ss) = Len(calls) + 1
  <2>1. <<ai>> \in Seq(Message) /\ ts \in Seq(Message)
        /\ <<s>> \in Seq(Step) /\ rs \in Seq(Step)
    BY <1>6, <1>8
  <2>2. ms \in Seq(Message) /\ ss \in Seq(Step)
        /\ Len(ms) = Len(<<ai>>) + Len(ts) /\ Len(ss) = Len(<<s>>) + Len(rs)
    BY <2>1, ConcatEntries
  <2>3. QED
    BY <2>2, <1>4, <1>6, <1>8
<1>10. /\ ms[1] = ai /\ ss[1] = s
       /\ \A j \in 1..Len(calls) : ms[1 + j] = ts[j] /\ ss[1 + j] = rs[j]
  <2>1. <<ai>> \in Seq(Message) /\ ts \in Seq(Message)
        /\ <<s>> \in Seq(Step) /\ rs \in Seq(Step)
    BY <1>6, <1>8
  <2>2. /\ \A k \in 1..Len(<<ai>>) : ms[k] = <<ai>>[k]
        /\ \A k \in 1..Len(ts) : ms[Len(<<ai>>) + k] = ts[k]
    BY <2>1, ConcatEntries
  <2>3. /\ \A k \in 1..Len(<<s>>) : ss[k] = <<s>>[k]
        /\ \A k \in 1..Len(rs) : ss[Len(<<s>>) + k] = rs[k]
    BY <2>1, ConcatEntries
  <2>4. QED
    BY <2>2, <2>3, <1>6, <1>8
<1> HIDE DEF ms, ss
<1>11. IsTurn(ms, calls)
  BY <1>5, <1>6, <1>9, <1>10 DEF IsTurn
<1>12. ASSUME NEW k \in 1..Len(ms)
       PROVE  Tells(ms[k], ss[k])
  <2>1. CASE k = 1
    BY <2>1, <1>5, <1>10
  <2>2. CASE k # 1
    <3>1. PICK j \in 1..Len(calls) : k = 1 + j
      <4>1. k - 1 \in 1..Len(calls) /\ k = 1 + (k - 1)
        BY <2>2, <1>4, <1>9
      <4>2. QED
        BY <4>1
    <3>2. ms[k] = ts[j] /\ ss[k] = rs[j]
      BY <3>1, <1>10
    <3>3. QED
      BY <3>2, <1>6
  <2>3. QED
    BY <2>1, <2>2
<1>13. /\ messages \in Seq(Message) /\ steps \in Seq(Step)
       /\ WellFormed(messages) /\ WellFormed(steps)
       /\ Follows(steps, messages, x.seed)
       /\ Cardinality(AiSteps(steps)) = Cardinality(AiSteps(x.steps)) + 1
       /\ AsksForTools(steps)
  BY <1>1, <1>4, <1>9, <1>11, <1>12, TurnGrows
<1>14. x.messages \in Seq(Message) /\ x.steps \in Seq(Step)
       /\ x.iterations \in Nat /\ x.max \in Nat
  BY <1>1 DEF Run
<1>15. Append(x.messages, ai) \o ts = messages /\ Append(x.steps, s) \o rs = steps
  <2>1. \A m, n \in Seq(Message), e \in Message : Append(m, e) \o n = m \o (<<e>> \o n)
    BY AppendThenConcat
  <2>2. \A m, n \in Seq(Step), e \in Step : Append(m, e) \o n = m \o (<<e>> \o n)
    BY AppendThenConcat
  <2>3. Append(x.messages, ai) \o ts = messages
    BY <2>1, <1>5, <1>6, <1>14 DEF ms
  <2>4. Append(x.steps, s) \o rs = steps
    BY <2>2, <1>5, <1>6, <1>14 DEF ss
  <2>5. QED
    BY <2>3, <2>4
<1>16. done \in BOOLEAN /\ (done <=> x.iterations >= x.max)
  BY DEF Exhausted
<1>17. final \in Bodies /\ iterations \in Nat /\ pc \in {"llm", "commit"}
  <2>1. LastText(steps) \in Bodies /\ x.final \in Bodies
    BY <1>1, <1>13, LastTextBody DEF Run
  <2>2. QED
    BY <2>1, <1>14
<1>18. run' = [run EXCEPT ![r] = y]
  BY <1>1, <1>3, <1>15 DEF ai, s, ts, rs
<1> HIDE DEF messages, steps, final, iterations
<1>19. /\ y \in Run /\ y.pc = pc /\ y.messages = messages /\ y.steps = steps
       /\ y.seed = x.seed /\ y.max = x.max /\ y.warnings = x.warnings
       /\ y.truncated = done /\ y.iterations = iterations
  <2> HIDE DEF done
  <2>1. QED
    BY <1>1, <1>13, <1>16, <1>17 DEF Run
<1> HIDE DEF y
<1>20. Counted(y)
  <2> DEFINE answers == Cardinality(AiSteps(x.steps))
  <2>1. answers \in Nat
    BY <1>14, AiStepsFinite
  <2>2. /\ x.iterations = answers + 1 /\ x.iterations <= x.max /\ x.max <= HardIterations
        /\ "llm_invoke_failed" \notin x.warnings
    BY <1>1 DEF RunOK, Counted
  <2> HIDE DEF answers, done
  <2>3. Cardinality(AiSteps(y.steps)) = answers + 1
    BY <1>13, <1>19 DEF answers
  <2>4. CASE done
    <3>1. y.pc = "commit" /\ y.truncated /\ AsksForTools(y.steps)
      BY <2>4, <1>13, <1>19
    <3>2. answers + 1 = y.max /\ y.max <= HardIterations
      BY <2>1, <2>2, <2>4, <1>14, <1>16, <1>19
    <3>3. QED
      BY <3>1, <3>2, <2>2, <2>3, <1>19 DEF Counted
  <2>5. CASE ~done
    <3>1. y.pc = "llm" /\ ~y.truncated
      BY <2>5, <1>19
    <3>2. y.iterations = answers + 2 /\ y.iterations <= y.max /\ y.max <= HardIterations
      BY <2>1, <2>2, <2>5, <1>14, <1>16, <1>19 DEF iterations
    <3>3. answers + 1 <= y.max /\ y.iterations = (answers + 1) + 1
      BY <3>2, <2>1, <1>14, <1>19
    <3>4. QED
      BY <3>1, <3>2, <3>3, <2>2, <2>3, <1>19 DEF Counted
  <2>6. QED
    BY <2>4, <2>5
<1>21. RunOK(y)
  BY <1>13, <1>19, <1>20 DEF RunOK
<1>22. QED
  BY <1>7, <1>18, <1>19, <1>21, RunChanges

LEMMA LlmFailsStep ==
    ASSUME ConversationInv, NEW r \in Runs, LlmFails(r),
           UNCHANGED <<live, index, history>>
    PROVE  ConversationInv'
<1> DEFINE x == run[r]
           warnings == x.warnings \cup {"llm_invoke_failed"}
           y == [x EXCEPT !.pc = "commit", !.warnings = warnings]
<1>1. x \in Run /\ RunOK(x) /\ x.pc = "llm" /\ run \in [Runs -> Run]
  BY DEF LlmFails, ConversationInv, ConversationTypeOK
<1>2. run' = [run EXCEPT ![r] = y]
  BY <1>1 DEF LlmFails
<1>3. /\ y \in Run /\ y.pc = "commit" /\ y.messages = x.messages
      /\ y.steps = x.steps /\ y.seed = x.seed /\ y.max = x.max
      /\ y.truncated = x.truncated /\ "llm_invoke_failed" \in y.warnings
  BY <1>1 DEF Run
<1> HIDE DEF y
<1>4. RunOK(y)
  BY <1>1, <1>3 DEF RunOK, Counted
<1>5. QED
  BY <1>2, <1>3, <1>4, RunChanges
     DEF LlmFails, ConversationInv, ConversationTypeOK

LEMMA CommitStep ==
    ASSUME ConversationInv, NEW r \in Runs, Commit(r),
           UNCHANGED <<live, index, history>>
    PROVE  ConversationInv'
<1> DEFINE x == run[r]
           steps == Serialised(x.steps)
           y == [x EXCEPT !.pc = "answered", !.steps = steps]
<1>1. x \in Run /\ RunOK(x) /\ x.pc = "commit" /\ run \in [Runs -> Run]
  BY DEF Commit, ConversationInv, ConversationTypeOK
<1>2. run' = [run EXCEPT ![r] = y]
  BY <1>1 DEF Commit
<1>3. x.steps \in Seq(Step) /\ x.messages \in Seq(Message) /\ x.seed \in Nat
  BY <1>1 DEF Run
<1>4. /\ steps \in Seq(Step) /\ Len(steps) = Len(x.steps) /\ Len(steps) \in Nat
      /\ \A k \in 1..Len(x.steps) : Tells(x.steps[k], steps[k])
  BY <1>3, SerialisedTells DEF ConversationInv, ConversationTypeOK
<1> HIDE DEF steps
<1>5. /\ y \in Run /\ y.pc = "answered" /\ y.messages = x.messages
      /\ y.steps = steps /\ y.seed = x.seed /\ y.max = x.max
      /\ y.truncated = x.truncated /\ y.warnings = x.warnings
  BY <1>1, <1>4 DEF Run
<1> HIDE DEF y
<1>6. WellFormed(y.messages) /\ WellFormed(y.steps)
  <2>1. x.steps \in Seq(Message) /\ steps \in Seq(Message)
    BY <1>3, <1>4, StepsAreMessages, SeqMonotonic
  <2>2. \A k \in 1..Len(x.steps) : SameShape(x.steps[k], steps[k])
    BY <1>4 DEF Tells
  <2>3. WellFormed(x.steps) /\ WellFormed(x.messages)
    BY <1>1 DEF RunOK
  <2>4. WellFormed(steps)
    BY <2>1, <2>2, <2>3, <1>4, ShapeDecides
  <2>5. QED
    BY <2>3, <2>4, <1>5
<1>7. Follows(y.steps, y.messages, y.seed)
  <2>1. Follows(x.steps, x.messages, x.seed)
    BY <1>1 DEF RunOK
  <2>2. QED
    BY <2>1, <1>4, <1>5 DEF Follows, Tells, SameShape
<1>8. /\ AiSteps(steps) = AiSteps(x.steps)
      /\ AsksForTools(steps) <=> AsksForTools(x.steps)
  <2>1. \A k \in 1..Len(x.steps) :
          steps[k].role = x.steps[k].role /\ steps[k].calls = x.steps[k].calls
    BY <1>4 DEF Tells, SameShape
  <2>2. AiSteps(steps) = AiSteps(x.steps)
    BY <2>1, <1>4 DEF AiSteps
  <2>3. \A k \in AiSteps(x.steps) : steps[k].calls = x.steps[k].calls
    BY <2>1 DEF AiSteps
  <2>4. QED
    BY <2>2, <2>3 DEF AsksForTools
<1>9. Counted(y)
  <2>1. Counted(x)
    BY <1>1 DEF RunOK
  <2>2. QED
    BY <2>1, <1>1, <1>5, <1>8 DEF Counted
<1>10. RunOK(y)
  BY <1>5, <1>6, <1>7, <1>9 DEF RunOK
<1>11. QED
  BY <1>2, <1>5, <1>10, RunChanges
     DEF Commit, ConversationInv, ConversationTypeOK

\* The steps that give a run up.
LEMMA RunEnds ==
    ASSUME ConversationInv, NEW r \in Runs, run' = [run EXCEPT ![r] = IdleRun],
           record' \in Values, UNCHANGED <<live, index, history>>
    PROVE  ConversationInv'
BY IdleOK, RunChanges

LEMMA ServerStepOK ==
    ASSUME ConversationInv, NEW r \in Runs, ServerStep(r)
    PROVE  ConversationInv'
<1>1. UNCHANGED <<live, index, history>>
  BY DEF ServerStep
<1>2. CASE TurnRaises(r) \/ CommitFails(r)
  BY <1>1, <1>2, RunEnds
     DEF TurnRaises, CommitFails, ConversationInv, ConversationTypeOK
<1>3. QED
  BY <1>1, <1>2, FinalAnswerStep, ToolTurnStep, LlmFailsStep, CommitStep
     DEF ServerStep

(* The page appends a turn: the prompt and the steps of the trace.         *)
LEMMA ReceiveStep ==
    ASSUME ConversationInv, NEW r \in Runs, Receive(r)
    PROVE  ConversationInv'
<1> DEFINE steps == run[r].steps
           turn == TurnEntries(steps)
           prompt == <<Plain("user", "prompt")>>
<1>1. run[r] \in Run /\ RunOK(run[r]) /\ run[r].pc = "answered"
      /\ history \in Seq(Step) /\ WellFormed(history)
  BY DEF Receive, ConversationInv, ConversationTypeOK
<1>2. steps \in Seq(Step) /\ WellFormed(steps)
  BY <1>1 DEF Run, RunOK
<1>3. prompt \in Seq(Step) /\ WellFormed(prompt)
  <2>1. Plain("user", "prompt") \in Message /\ WellFormed(prompt)
    BY PlainWellFormed DEF Bodies
  <2>2. Plain("user", "prompt") \in Step
    BY <2>1 DEF Step, Plain
  <2>3. QED
    BY <2>1, <2>2
<1> HIDE DEF steps, prompt
<1>4. turn \in Seq(Step) /\ WellFormed(turn)
  <2>1. turn = prompt \o steps
    BY DEF TurnEntries, prompt
  <2>2. prompt \in Seq(Message) /\ steps \in Seq(Message)
    BY <1>2, <1>3, StepsAreMessages, SeqMonotonic
  <2>3. WellFormed(prompt \o steps)
    BY <2>2, <1>2, <1>3, ConcatWellFormed
  <2>4. QED
    BY <2>1, <2>3, <1>2, <1>3, ConcatProperties
<1> HIDE DEF turn
<1>5. history' = history \o turn
  BY DEF Receive, turn, steps
<1>6. history' \in Seq(Step) /\ WellFormed(history')
  <2>1. history \in Seq(Message) /\ turn \in Seq(Message)
    BY <1>1, <1>4, StepsAreMessages, SeqMonotonic
  <2>2. WellFormed(history \o turn)
    BY <2>1, <1>1, <1>4, ConcatWellFormed
  <2>3. QED
    BY <2>2, <1>1, <1>4, <1>5, ConcatProperties
<1>7. run' \in [Runs -> Run] /\ \A q \in Runs : RunOK(run'[q])
  BY IdleOK DEF Receive, ConversationInv, ConversationTypeOK
<1>8. RegistryTypeOK' /\ record' \in Values
  BY DEF Receive, ConversationInv, ConversationTypeOK, RegistryTypeOK
<1>9. QED
  BY <1>6, <1>7, <1>8 DEF ConversationInv, ConversationTypeOK

LEMMA ConversationInit == Init => ConversationInv
<1> SUFFICES ASSUME Init PROVE ConversationInv
  OBVIOUS
<1>1. RegistryTypeOK
  <2>1. PICK S \in SUBSET Ids :
          /\ live = S
          /\ index = [k \in Keys |-> IF \E i \in S : KeyOf[i] = k
                                        THEN CHOOSE i \in S : KeyOf[i] = k
                                        ELSE None]
    BY DEF Init
  <2>2. QED
    BY <2>1 DEF RegistryTypeOK
<1>2. run \in [Runs -> Run] /\ \A r \in Runs : RunOK(run[r])
  BY IdleOK DEF Init
<1>3. history \in Seq(Step) /\ WellFormed(history)
  BY DEF Init, WellFormed
<1>4. QED
  BY <1>1, <1>2, <1>3 DEF Init, ConversationInv, ConversationTypeOK

LEMMA ConversationNext == ConversationInv /\ [Next]_vars => ConversationInv'
<1> SUFFICES ASSUME ConversationInv, [Next]_vars
             PROVE  ConversationInv'
  OBVIOUS
\* Steps that leave the runs and the history alone.
<1>1. ASSUME RegistryTypeOK', record' \in Values, UNCHANGED <<run, history>>
      PROVE  ConversationInv'
  BY <1>1 DEF ConversationInv, ConversationTypeOK
<1>2. ASSUME NEW r \in Runs, Lose(r)
      PROVE  ConversationInv'
  BY <1>2, RunEnds DEF Lose, ConversationInv, ConversationTypeOK
<1>3. CASE NewConversation
  <2>1. WellFormed(<<>>) /\ <<>> \in Seq(Step)
    BY DEF WellFormed
  <2>2. history' = <<>> /\ UNCHANGED <<live, index, run, record>>
    BY <1>3 DEF NewConversation
  <2>3. QED
    BY <2>1, <2>2 DEF ConversationInv, ConversationTypeOK, RegistryTypeOK
<1>4. CASE RegistryChanges
  <2>1. RegistryTypeOK'
    BY <1>4, RegistryAssumption DEF RegistryChanges, Register, Unregister,
       RegistryTypeOK, ConversationInv, ConversationTypeOK
  <2>2. QED
    BY <2>1, <1>1, <1>4 DEF RegistryChanges, ConversationInv, ConversationTypeOK
<1>5. CASE RecordChanges /\ UNCHANGED <<live, index, history>>
  BY <1>1, <1>5
     DEF RecordChanges, RegistryTypeOK, ConversationInv, ConversationTypeOK
<1>6. CASE Crash
  <2>1. run' \in [Runs -> Run] /\ \A r \in Runs : RunOK(run'[r])
    BY <1>6, IdleOK DEF Crash
  <2>2. RegistryTypeOK' /\ record' \in Values /\ UNCHANGED history
    BY <1>6 DEF Crash, RegistryTypeOK
  <2>3. QED
    BY <2>1, <2>2 DEF ConversationInv, ConversationTypeOK
<1>7. CASE UNCHANGED vars
  BY <1>1, <1>7 DEF vars, RegistryTypeOK, ConversationInv, ConversationTypeOK
<1>8. QED
  BY <1>2, <1>3, <1>4, <1>5, <1>6, <1>7, SendRunStep, ServerStepOK, ReceiveStep
     DEF Next

LEMMA ConversationInvariant == Spec => []ConversationInv
BY ConversationInit, ConversationNext, PTL DEF Spec

(* The LLM is never sent a conversation its API would reject, however many *)
(* turns are replayed, whatever failed in them, and whichever tools have   *)
(* come and gone: Seed, ToolTurn and the page's replay together.           *)
THEOREM ConversationPromptsWellFormed == Spec => []PromptsWellFormed
<1>1. ConversationInv => PromptsWellFormed
  BY DEF ConversationInv, PromptsWellFormed, RunOK
<1>2. QED
  BY <1>1, ConversationInvariant, PTL

(* The flag the page warns by, and the caps: Exhausted is tested once per  *)
(* turn, after the turn.                                                   *)
THEOREM ConversationTruncationTold == Spec => []TruncationTold
<1>1. ConversationInv => TruncationTold
  <2> SUFFICES ASSUME ConversationInv, NEW r \in Runs
               PROVE  LET x == run[r]
                          answers == Cardinality(AiSteps(x.steps))
                          failed == "llm_invoke_failed" \in x.warnings
                      IN  /\ answers <= x.max /\ x.max <= HardIterations
                          /\ x.pc \in {"commit", "answered"} =>
                               /\ x.truncated <=> AsksForTools(x.steps) /\ ~failed
                               /\ x.truncated => answers = x.max
    BY DEF TruncationTold
  <2>1. RunOK(run[r])
    BY DEF ConversationInv
  <2>2. CASE run[r].pc = "idle"
    <3>1. run[r] = IdleRun
      BY <2>1, <2>2 DEF RunOK
    <3>2. IdleRun.pc = "idle" /\ IdleRun.max = 0 /\ IdleRun.steps = <<>>
      BY DEF IdleRun
    <3>3. AiSteps(<<>>) = {}
      BY DEF AiSteps
    <3>4. Cardinality(AiSteps(run[r].steps)) = 0
      BY <3>1, <3>2, <3>3, FS_EmptySet
    <3>5. QED
      BY <3>1, <3>2, <3>4, RunnerAssumption
  <2>3. CASE run[r].pc # "idle"
    BY <2>1, <2>3 DEF RunOK, Counted
  <2>4. QED
    BY <2>2, <2>3
<1>2. QED
  BY <1>1, ConversationInvariant, PTL

(* Entries that tell the same are the same once blurred. *)
LEMMA BlurredSame ==
    ASSUME NEW m \in Message, NEW s \in Message, Tells(m, s)
    PROVE  [s EXCEPT !.body = Blur(@)] = [m EXCEPT !.body = Blur(@)]
<1> DEFINE b == Blur(m.body)
<1>1. Blur(s.body) = b /\ SameShape(m, s)
  BY DEF Tells
<1> HIDE DEF b
<1>2. [s EXCEPT !.body = b] = [m EXCEPT !.body = b]
  BY <1>1 DEF Message, SameShape
<1>3. QED
  BY <1>1, <1>2 DEF b

(* The turn the page appends to its history is, entry by entry, what the   *)
(* LLM was sent and answered from the prompt on: record_ai and record_tool *)
(* write the trace in the order of the messages, and skip none.            *)
THEOREM ConversationReplayMatches == Spec => []ReplayMatchesUpToKinds
<1>1. ConversationInv => ReplayMatchesUpToKinds
  <2> SUFFICES ASSUME ConversationInv, NEW r \in Runs, run[r].pc = "answered"
               PROVE  Blurred(TurnEntries(run[r].steps)) =
                        Blurred(SubSeq(run[r].messages, run[r].seed,
                                       Len(run[r].messages)))
    BY DEF ReplayMatchesUpToKinds
  <2> DEFINE steps == run[r].steps
             messages == run[r].messages
             seed == run[r].seed
             turn == TurnEntries(steps)
             sent == SubSeq(messages, seed, Len(messages))
             prompt == <<Plain("user", "prompt")>>
  <2>1. /\ steps \in Seq(Step) /\ messages \in Seq(Message) /\ seed \in Nat
        /\ Follows(steps, messages, seed)
    BY DEF ConversationInv, ConversationTypeOK, RunOK, Run
  <2>2. steps \in Seq(Message)
    BY <2>1, StepsAreMessages, SeqMonotonic
  <2>3. /\ prompt \in Seq(Message) /\ Plain("user", "prompt") \in Message
        /\ Len(prompt) = 1 /\ prompt[1] = Plain("user", "prompt")
    BY PlainWellFormed DEF Bodies
  <2> HIDE DEF steps, messages, seed, prompt
  <2>4. /\ Len(messages) \in Nat /\ Len(steps) \in Nat
        /\ seed \in 1..Len(messages) /\ Len(messages) = seed + Len(steps)
        /\ messages[seed] = Plain("user", "prompt")
        /\ \A k \in 1..Len(steps) : Tells(messages[seed + k], steps[k])
    BY <2>1 DEF Follows
  <2>5. /\ turn \in Seq(Message) /\ Len(turn) = Len(prompt) + Len(steps)
        /\ \A k \in 1..Len(prompt) : turn[k] = prompt[k]
        /\ \A k \in 1..Len(steps) : turn[Len(prompt) + k] = steps[k]
    <3>1. prompt \in Seq(Message)
      BY <2>3
    <3>2. turn = prompt \o steps
      BY DEF TurnEntries, prompt
    <3>3. QED
      BY <3>1, <3>2, <2>2, ConcatEntries
  <2>6. /\ sent \in Seq(Message) /\ Len(sent) = Len(steps) + 1
        /\ \A k \in 1..(Len(steps) + 1) : sent[k] = messages[seed + k - 1]
    <3>1. \A k \in seed..Len(messages) : messages[k] \in Message
      BY <2>1, <2>4, ElementOfSeq
    <3>2. /\ sent \in Seq(Message)
          /\ Len(sent) = IF seed <= Len(messages) THEN Len(messages) - seed + 1 ELSE 0
          /\ \A k \in 1..(Len(messages) - seed + 1) : sent[k] = messages[seed + k - 1]
      BY <3>1, <2>1, <2>4, SubSeqProperties
    <3>3. Len(messages) - seed + 1 = Len(steps) + 1 /\ seed <= Len(messages)
      BY <2>4
    <3>4. QED
      BY <3>2, <3>3
  <2> HIDE DEF turn, sent
  <2>7. ASSUME NEW k \in 1..(Len(steps) + 1)
        PROVE  Tells(sent[k], turn[k])
    <3>1. CASE k = 1
      <4>1. seed + k - 1 = seed
        BY <3>1, <2>4
      <4>2. sent[k] = turn[k]
        BY <4>1, <3>1, <2>3, <2>4, <2>5, <2>6
      <4>3. QED
        BY <4>2 DEF Tells, SameShape
    <3>2. CASE k # 1
      <4>1. PICK j \in 1..Len(steps) : k = 1 + j
        <5>1. k - 1 \in 1..Len(steps) /\ k = 1 + (k - 1)
          BY <3>2, <2>4
        <5>2. QED
          BY <5>1
      <4>2. seed + k - 1 = seed + j /\ Len(prompt) + j = k
        BY <4>1, <2>3, <2>4
      <4>3. turn[k] = steps[j] /\ sent[k] = messages[seed + j]
        BY <4>1, <4>2, <2>5, <2>6
      <4>4. QED
        BY <4>3, <2>4
    <3>3. QED
      BY <3>1, <3>2
  <2>8. Len(turn) = Len(steps) + 1
    BY <2>3, <2>4, <2>5
  <2>9. ASSUME NEW k \in 1..(Len(steps) + 1)
        PROVE  [turn[k] EXCEPT !.body = Blur(@)] = [sent[k] EXCEPT !.body = Blur(@)]
    <3>1. turn[k] \in Message /\ sent[k] \in Message
      BY <2>5, <2>6, <2>8, ElementOfSeq
    <3>2. QED
      BY <3>1, <2>7, BlurredSame
  <2>10. Blurred(turn) = Blurred(sent)
    BY <2>6, <2>8, <2>9 DEF Blurred
  <2>11. QED
    BY <2>10 DEF turn, sent, steps, messages, seed
<1>2. QED
  BY <1>1, ConversationInvariant, PTL

-----------------------------------------------------------------------------
(* The pool of handlers *)

\* InFlight, of the state of a call.
Live(r) == r.kind # "new" /\ ~r.done

Places ==
    /\ \A w \in Workers : running[w] # NoCall => Live(call[running[w]])
    /\ \A v, w \in Workers : running[v] = running[w] /\ running[v] # NoCall => v = w
    /\ \A i \in 1..Len(queue) :
         Live(call[queue[i]]) /\ \A w \in Workers : running[w] # queue[i]
    /\ \A i, j \in 1..Len(queue) : queue[i] = queue[j] => i = j

CallOK(c) ==
    /\ call[c].kind = "new" => call[c].answer = "none" /\ ~call[c].done /\ waiting # c
    /\ call[c].answer \in {"ok", "exception"} => call[c].done
    /\ waiting = c => call[c].answer = "none"
    /\ Live(call[c]) /\ waiting # c => call[c].answer = "timeout"
    /\ call[c].uid > 0 => Live(call[c]) /\ call[c].todo > 0 /\ call[c].kind # "endless"

\* Users are numbered from 1, and a number that was read is still the next.
Numbered ==
    /\ \E n \in Nat :
         /\ DOMAIN users = 1..n
         /\ \A c \in Calls : call[c].uid > 0 => call[c].uid = n + 1
    /\ \A c \in Calls : \A k \in call[c].created : k \in DOMAIN users /\ users[k] = c

NobodyTimedOut == \A c \in Calls : call[c].answer # "timeout"

PoolInv ==
    /\ PoolTypeOK
    /\ IsFiniteSet(DOMAIN users)
    /\ Places
    /\ \A c \in Calls : CallOK(c)
    /\ NobodyTimedOut => Numbered

-----------------------------------------------------------------------------
(* Call c becomes r.                                                       *)
LEMMA CallStep ==
    ASSUME call \in [Calls -> Call], NEW c \in Calls, NEW r \in Call,
           call' = [call EXCEPT ![c] = r]
    PROVE  /\ call' \in [Calls -> Call]
           /\ \A d \in Calls : call'[d] = IF d = c THEN r ELSE call[d]
OBVIOUS

LEMMA SubmitStep ==
    ASSUME PoolInv, NEW c \in Calls, Submit(c)
    PROVE  PoolInv'
<1>1. PICK k \in {"users", "raises", "endless"}, m \in 0..MaxMembers :
          call' = [call EXCEPT ![c].kind = k, ![c].todo = m]
  BY DEF Submit
<1> DEFINE r == [call[c] EXCEPT !.kind = k, !.todo = m]
<1>0. /\ PoolTypeOK /\ call[c] \in Call /\ call[c].kind = "new" /\ waiting = NoCall
      /\ c # NoCall /\ MaxMembers \in Nat
      /\ queue' = Append(queue, c) /\ waiting' = c /\ UNCHANGED <<running, users>>
  BY PoolAssumption DEF PoolInv, PoolTypeOK, Submit
<1>2. call[c].answer = "none" /\ ~call[c].done /\ call[c].uid = 0
  BY <1>0 DEF PoolInv, CallOK, Live, Call
<1>3. /\ r \in Call /\ r.kind = k /\ r.answer = "none" /\ ~r.done /\ r.uid = 0
      /\ r.created = call[c].created /\ call' = [call EXCEPT ![c] = r]
  BY <1>0, <1>1, <1>2 DEF Call
<1> HIDE DEF r
<1>4. /\ call' \in [Calls -> Call]
      /\ \A d \in Calls : call'[d] = IF d = c THEN r ELSE call[d]
      /\ Live(r) /\ ~Live(call[c])
  BY <1>0, <1>2, <1>3, CallStep DEF PoolTypeOK, Live
<1>5. PoolTypeOK'
  BY <1>0, <1>4 DEF PoolTypeOK
<1>6. Places'
  <2>1. /\ queue \in Seq(Calls) /\ Len(queue') = Len(queue) + 1
        /\ \A i \in 1..Len(queue) : queue'[i] = queue[i] /\ queue[i] \in Calls
        /\ queue'[Len(queue) + 1] = c /\ Len(queue) \in Nat
    BY <1>0 DEF PoolTypeOK
  <2>2. \A i \in 1..Len(queue') : i \in 1..Len(queue) \/ i = Len(queue) + 1
    BY <2>1
  <2>3. /\ \A i \in 1..Len(queue) : queue[i] # c
        /\ \A w \in Workers : running[w] # c
    BY <1>0, <1>4 DEF PoolInv, Places
  <2>4. \A w \in Workers : running'[w] # NoCall => Live(call'[running'[w]])
    BY <1>0, <1>4, <2>3 DEF PoolInv, Places, PoolTypeOK
  <2>5. \A i \in 1..Len(queue') :
          Live(call'[queue'[i]]) /\ \A w \in Workers : running'[w] # queue'[i]
    BY <1>0, <1>4, <2>1, <2>2, <2>3 DEF PoolInv, Places
  <2>6. \A i, j \in 1..Len(queue') : queue'[i] = queue'[j] => i = j
    BY <2>1, <2>2, <2>3 DEF PoolInv, Places
  <2>7. QED
    BY <1>0, <2>4, <2>5, <2>6 DEF PoolInv, Places
<1>7. \A d \in Calls : CallOK(d)'
  <2>1. ~(r.uid > 0)
    BY <1>3
  <2>2. CallOK(c)'
    BY <1>0, <1>3, <1>4, <2>1 DEF CallOK
  <2>3. ASSUME NEW d \in Calls, d # c
        PROVE  CallOK(d)'
    <3>1. call'[d] = call[d] /\ waiting # d /\ waiting' # d
      BY <1>0, <1>4, <2>3, PoolAssumption
    <3>2. QED
      BY <3>1 DEF PoolInv, CallOK
  <2>4. QED
    BY <2>2, <2>3
<1>8. NobodyTimedOut' => Numbered'
  BY <1>0, <1>2, <1>3, <1>4 DEF PoolInv, NobodyTimedOut, Numbered
<1>9. QED
  BY <1>0, <1>5, <1>6, <1>7, <1>8 DEF PoolInv

(* The wait ends; what the handler is up to stays as it is.                *)
LEMMA StopStep ==
    ASSUME PoolInv, NEW c \in Calls, Answer(c) \/ Timeout(c)
    PROVE  PoolInv'
<1> DEFINE a == call'[c].answer
           r == [call[c] EXCEPT !.answer = a]
<1>0. /\ PoolTypeOK /\ call[c] \in Call /\ waiting = c /\ waiting' = NoCall /\ c # NoCall
      /\ UNCHANGED <<queue, running, users>>
  BY PoolAssumption DEF PoolInv, PoolTypeOK, Answer, Timeout
<1>1. /\ call' = [call EXCEPT ![c].answer = a]
      /\ \/ a = "timeout" /\ ~call[c].done
         \/ a \in {"ok", "exception"} /\ call[c].done
  <2>1. CASE Answer(c)
    BY <1>0, <2>1 DEF Answer, PoolTypeOK, Call
  <2>2. CASE Timeout(c)
    BY <1>0, <2>2 DEF Timeout, PoolTypeOK, Call
  <2>3. QED
    BY <2>1, <2>2
<1> HIDE DEF a
<1>2. /\ r \in Call /\ r.answer = a /\ r.kind = call[c].kind /\ r.done = call[c].done
      /\ r.uid = call[c].uid /\ r.todo = call[c].todo /\ r.created = call[c].created
      /\ call' = [call EXCEPT ![c] = r]
  BY <1>0, <1>1 DEF Call
<1> HIDE DEF r
<1>3. /\ call' \in [Calls -> Call]
      /\ \A d \in Calls : call'[d] = IF d = c THEN r ELSE call[d]
      /\ Live(r) <=> Live(call[c])
      /\ Live(r) <=> call[c].kind # "new" /\ ~call[c].done
  BY <1>0, <1>2, CallStep DEF PoolTypeOK, Live
<1>4. PoolTypeOK'
  BY <1>0, <1>3 DEF PoolTypeOK
<1>5. Places'
  BY <1>0, <1>3 DEF PoolInv, Places, PoolTypeOK
<1>6. \A d \in Calls : CallOK(d)'
  <2>1. CallOK(c)'
    BY <1>0, <1>1, <1>2, <1>3 DEF PoolInv, CallOK
  <2>2. ASSUME NEW d \in Calls, d # c
        PROVE  CallOK(d)'
    <3>1. call'[d] = call[d] /\ waiting # d /\ waiting' # d
      BY <1>0, <1>3, <2>2, PoolAssumption
    <3>2. QED
      BY <3>1 DEF PoolInv, CallOK
  <2>3. QED
    BY <2>1, <2>2
<1>7. NobodyTimedOut' => Numbered'
  <2>1. call[c].answer # "timeout"
    BY <1>0 DEF PoolInv, CallOK
  <2>2. NobodyTimedOut' => NobodyTimedOut
    BY <1>3, <2>1 DEF NobodyTimedOut
  <2>3. QED
    BY <1>0, <1>2, <1>3, <2>2 DEF PoolInv, Numbered
<1>8. QED
  BY <1>0, <1>4, <1>5, <1>6, <1>7 DEF PoolInv

-----------------------------------------------------------------------------
(* The threads *)

LEMMA StartStep ==
    ASSUME PoolInv, NEW w \in Workers, Start(w)
    PROVE  PoolInv'
<1>0. /\ PoolTypeOK /\ queue \in Seq(Calls) /\ queue # <<>> /\ running[w] = NoCall
      /\ running' = [running EXCEPT ![w] = Head(queue)] /\ queue' = Tail(queue)
      /\ UNCHANGED <<waiting, call, users>>
  BY DEF PoolInv, PoolTypeOK, Start
<1>1. /\ Len(queue) \in Nat /\ 1 \in 1..Len(queue) /\ Head(queue) = queue[1]
      /\ queue[1] \in Calls /\ queue' \in Seq(Calls) /\ Len(queue') = Len(queue) - 1
      /\ \A i \in 1..Len(queue') : i + 1 \in 1..Len(queue) /\ queue'[i] = queue[i + 1]
  BY <1>0
<1>2. \A v \in Workers : running'[v] = IF v = w THEN queue[1] ELSE running[v]
  BY <1>0, <1>1 DEF PoolTypeOK
<1>3. PoolTypeOK'
  BY <1>0, <1>1 DEF PoolTypeOK
<1>4. Places'
  <2>1. \A d : Live(call'[d]) <=> Live(call[d])
    BY <1>0
  <2>2. \A v \in Workers : running'[v] # NoCall => Live(call'[running'[v]])
    BY <1>1, <1>2, <2>1 DEF PoolInv, Places
  <2>3. \A u, v \in Workers : running'[u] = running'[v] /\ running'[u] # NoCall => u = v
    BY <1>1, <1>2 DEF PoolInv, Places
  <2>4. ASSUME NEW i \in 1..Len(queue')
        PROVE  Live(call'[queue'[i]]) /\ \A v \in Workers : running'[v] # queue'[i]
    <3>1. i + 1 # 1 /\ queue'[i] = queue[i + 1] /\ i + 1 \in 1..Len(queue)
      BY <1>1
    <3>2. queue[i + 1] # queue[1]
      BY <1>1, <3>1 DEF PoolInv, Places
    <3>3. QED
      BY <1>2, <2>1, <3>1, <3>2 DEF PoolInv, Places
  <2>5. ASSUME NEW i \in 1..Len(queue'), NEW j \in 1..Len(queue'), queue'[i] = queue'[j]
        PROVE  i = j
    <3>1. i + 1 = j + 1
      BY <1>1, <2>5 DEF PoolInv, Places
    <3>2. QED
      BY <3>1
  <2>6. QED
    BY <2>2, <2>3, <2>4, <2>5 DEF Places
<1>5. \A d \in Calls : CallOK(d)'
  BY <1>0 DEF PoolInv, CallOK
<1>6. NobodyTimedOut' => Numbered'
  BY <1>0 DEF PoolInv, NobodyTimedOut, Numbered
<1>7. QED
  BY <1>0, <1>3, <1>4, <1>5, <1>6 DEF PoolInv

\* While nobody was given up on, a handler on a thread is the only one.
LEMMA Alone ==
    ASSUME PoolInv, NobodyTimedOut, NEW c \in Calls, Live(call[c]),
           NEW d \in Calls, Live(call[d])
    PROVE  d = c
BY DEF PoolInv, NobodyTimedOut, CallOK

(* The call on thread w becomes r: it has read a number, or stored a user. *)
LEMMA UserStep ==
    ASSUME PoolInv, NEW w \in Workers, running[w] # NoCall,
           NEW r \in Call, call' = [call EXCEPT ![running[w]] = r],
           r.kind = call[running[w]].kind, r.kind # "endless",
           r.done = call[running[w]].done, r.answer = call[running[w]].answer,
           r.uid > 0 => r.todo > 0,
           \/ /\ UNCHANGED users /\ r.created = call[running[w]].created
              /\ r.uid = Cardinality(DOMAIN users) + 1
           \/ /\ call[running[w]].uid > 0 /\ r.uid = 0
              /\ r.created = call[running[w]].created \cup {call[running[w]].uid}
              /\ users' = [j \in DOMAIN users \cup {call[running[w]].uid} |->
                             IF j = call[running[w]].uid THEN running[w] ELSE users[j]],
           UNCHANGED <<queue, running, waiting>>
    PROVE  PoolInv'
<1> DEFINE c == running[w]
<1>0. PoolTypeOK /\ c \in Calls /\ call[c] \in Call /\ Live(call[c])
  BY DEF PoolInv, PoolTypeOK, Places
<1>1. \/ /\ UNCHANGED users /\ r.created = call[c].created
         /\ r.uid = Cardinality(DOMAIN users) + 1
      \/ /\ call[c].uid > 0 /\ r.uid = 0
         /\ r.created = call[c].created \cup {call[c].uid}
         /\ users' = [j \in DOMAIN users \cup {call[c].uid} |->
                        IF j = call[c].uid THEN c ELSE users[j]]
  OBVIOUS
<1>2. /\ call' = [call EXCEPT ![c] = r] /\ r.kind = call[c].kind
      /\ r.done = call[c].done /\ r.answer = call[c].answer
  OBVIOUS
<1>3. Live(r)
  BY <1>0, <1>2 DEF Live
<1> HIDE DEF c
<1>4. /\ call' \in [Calls -> Call]
      /\ \A d \in Calls : call'[d] = IF d = c THEN r ELSE call[d]
  BY <1>0, <1>2, CallStep DEF PoolTypeOK
<1>5. PoolTypeOK' /\ IsFiniteSet(DOMAIN users')
  <2>1. CASE UNCHANGED users
    BY <1>0, <1>4, <2>1 DEF PoolInv, PoolTypeOK
  <2>2. CASE users' = [j \in DOMAIN users \cup {call[c].uid} |->
                         IF j = call[c].uid THEN c ELSE users[j]]
    <3>1. DOMAIN users' = DOMAIN users \cup {call[c].uid} /\ call[c].uid \in Nat
      BY <1>0, <2>2 DEF Call
    <3>2. IsFiniteSet(DOMAIN users')
      BY <3>1, FS_AddElement DEF PoolInv
    <3>3. QED
      BY <1>0, <1>4, <2>2, <3>1, <3>2 DEF PoolTypeOK
  <2>3. QED
    BY <1>1, <2>1, <2>2
<1>6. Places'
  <2>1. \A d \in Calls : Live(call'[d]) <=> Live(call[d])
    BY <1>0, <1>3, <1>4
  <2>2. QED
    BY <1>0, <2>1 DEF PoolInv, Places, PoolTypeOK
<1>7. ASSUME NEW d \in Calls
      PROVE  CallOK(d)'
  <2>0. CallOK(d)
    BY DEF PoolInv
  <2>1. CASE d = c
    <3>1. call'[d] = r /\ Live(call[d])
      BY <1>0, <1>4, <2>1
    <3>2. /\ r.kind = call[d].kind /\ r.done = call[d].done
          /\ r.answer = call[d].answer
      BY <1>2, <2>1
    <3>3. QED
      BY <1>3, <2>0, <3>1, <3>2 DEF CallOK
  <2>2. CASE d # c
    <3>1. call'[d] = call[d]
      BY <1>4, <2>2
    <3>2. QED
      BY <2>0, <3>1 DEF CallOK
  <2>3. QED
    BY <2>1, <2>2
<1>8. ASSUME NobodyTimedOut'
      PROVE  Numbered'
  <2>1. NobodyTimedOut /\ Numbered
    BY <1>4, <1>8 DEF NobodyTimedOut, PoolInv
  <2>2. \A d \in Calls : d # c => call'[d] = call[d] /\ ~(call[d].uid > 0)
    BY <1>0, <1>4, <2>1, Alone DEF PoolInv, CallOK
  <2>3. PICK n \in Nat : /\ DOMAIN users = 1..n
                         /\ \A d \in Calls : call[d].uid > 0 => call[d].uid = n + 1
    BY <2>1 DEF Numbered
  <2>4. Cardinality(DOMAIN users) = n
    BY <2>3, FS_Interval
  <2>5. CASE UNCHANGED users /\ r.created = call[c].created
             /\ r.uid = Cardinality(DOMAIN users) + 1
    BY <1>0, <1>4, <2>1, <2>2, <2>3, <2>4, <2>5 DEF Numbered
  <2>6. CASE /\ call[c].uid > 0 /\ r.uid = 0
             /\ r.created = call[c].created \cup {call[c].uid}
             /\ users' = [j \in DOMAIN users \cup {call[c].uid} |->
                            IF j = call[c].uid THEN c ELSE users[j]]
    <3>1. call[c].uid = n + 1
      BY <1>0, <2>3, <2>6
    <3>2. DOMAIN users' = 1..(n + 1)
      BY <2>3, <2>6, <3>1
    <3>3. users'[n + 1] = c /\ \A k \in DOMAIN users : users'[k] = users[k]
      BY <2>3, <2>6, <3>1
    <3>4. \A d \in Calls : ~(call'[d].uid > 0)
      BY <1>4, <2>2, <2>6
    <3>5. ASSUME NEW d \in Calls, NEW k \in call'[d].created
          PROVE  k \in DOMAIN users' /\ users'[k] = d
      <4>1. CASE k \in call[d].created
        BY <4>1, <2>1, <2>3, <3>2, <3>3 DEF Numbered
      <4>2. CASE d = c /\ k = n + 1
        BY <4>2, <3>2, <3>3
      <4>3. QED
        BY <1>0, <1>4, <2>6, <3>1, <3>5, <4>1, <4>2
    <3>6. n + 1 \in Nat
      OBVIOUS
    <3>7. \E m \in Nat : /\ DOMAIN users' = 1..m
                          /\ \A d \in Calls : call'[d].uid > 0 => call'[d].uid = m + 1
      BY <3>2, <3>4, <3>6
    <3>8. QED
      BY <3>5, <3>7 DEF Numbered
  <2>7. QED
    BY <1>1, <2>5, <2>6
<1>9. QED
  BY <1>5, <1>6, <1>7, <1>8 DEF PoolInv

LEMMA ReadStep ==
    ASSUME PoolInv, NEW w \in Workers, ReadLength(w)
    PROVE  PoolInv'
<1> DEFINE c == running[w]
           r == [call[c] EXCEPT !.uid = Cardinality(DOMAIN users) + 1]
<1>1. Cardinality(DOMAIN users) \in Nat
  BY FS_CardinalityType DEF PoolInv
<1>2. /\ c # NoCall /\ call[c] \in Call /\ call[c].kind # "endless" /\ call[c].todo > 0
      /\ call' = [call EXCEPT ![c] = r] /\ UNCHANGED <<queue, running, waiting, users>>
  BY DEF PoolInv, PoolTypeOK, ReadLength
<1>3. /\ r \in Call /\ r.kind = call[c].kind /\ r.done = call[c].done
      /\ r.answer = call[c].answer /\ r.todo = call[c].todo
      /\ r.created = call[c].created /\ r.uid = Cardinality(DOMAIN users) + 1
  BY <1>1, <1>2 DEF Call
<1> HIDE DEF r
<1>4. QED
  BY <1>2, <1>3, UserStep

LEMMA StoreStep ==
    ASSUME PoolInv, NEW w \in Workers, StoreUser(w)
    PROVE  PoolInv'
<1> DEFINE c == running[w]
           k == call[c].uid
           r == [call[c] EXCEPT !.uid = 0, !.todo = @ - 1, !.created = @ \cup {k}]
<1>1. /\ c # NoCall /\ c \in Calls /\ call[c] \in Call /\ call \in [Calls -> Call]
      /\ k > 0 /\ MaxMembers \in Nat
      /\ users' = [j \in DOMAIN users \cup {k} |-> IF j = k THEN c ELSE users[j]]
      /\ UNCHANGED <<queue, running, waiting>>
  BY PoolAssumption DEF PoolInv, PoolTypeOK, StoreUser
<1>2. call[c].kind # "endless" /\ call[c].todo > 0
  BY <1>1 DEF PoolInv, CallOK
<1>3. /\ r \in Call /\ r.kind = call[c].kind /\ r.done = call[c].done
      /\ r.answer = call[c].answer /\ r.uid = 0 /\ r.created = call[c].created \cup {k}
  <2>1. call[c].todo - 1 \in 0..MaxMembers
    BY <1>1, <1>2 DEF Call
  <2>2. call[c].created \cup {k} \in SUBSET Nat
    BY <1>1 DEF Call
  <2>3. QED
    BY <1>1, <2>1, <2>2 DEF Call
<1>4. call' = [call EXCEPT ![c] = r]
  BY <1>1 DEF StoreUser, Call
<1> HIDE DEF r
<1>5. r.uid > 0 => r.todo > 0
  BY <1>3
<1>6. QED
  BY <1>1, <1>2, <1>3, <1>4, <1>5, UserStep

LEMMA ReturnStep ==
    ASSUME PoolInv, NEW w \in Workers, Return(w)
    PROVE  PoolInv'
<1> DEFINE c == running[w]
           r == [call[c] EXCEPT !.done = TRUE]
<1>0. /\ PoolTypeOK /\ c \in Calls /\ call[c] \in Call /\ Live(call[c])
      /\ call[c].todo = 0 /\ UNCHANGED <<queue, waiting, users>>
      /\ running' = [running EXCEPT ![w] = NoCall]
      /\ call' = [call EXCEPT ![c].done = TRUE]
  BY DEF PoolInv, PoolTypeOK, Places, Return
<1>1. /\ r \in Call /\ r.kind = call[c].kind /\ r.done /\ r.uid = call[c].uid
      /\ r.answer = call[c].answer /\ r.created = call[c].created
      /\ r.todo = call[c].todo /\ call' = [call EXCEPT ![c] = r]
  BY <1>0 DEF Call
<1> HIDE DEF r
<1>2. /\ call' \in [Calls -> Call]
      /\ \A d \in Calls : call'[d] = IF d = c THEN r ELSE call[d]
      /\ ~Live(r)
  <2>1. ~Live(r)
    BY <1>1 DEF Live
  <2>2. QED
    BY <1>0, <1>1, <2>1, CallStep DEF PoolTypeOK
<1>3. /\ running' \in [Workers -> Calls \cup {NoCall}]
      /\ \A v \in Workers : running'[v] = IF v = w THEN NoCall ELSE running[v]
  BY <1>0 DEF PoolTypeOK
<1>4. PoolTypeOK'
  BY <1>0, <1>2, <1>3 DEF PoolTypeOK
<1>5. Places'
  <2>1. \A v \in Workers : running'[v] # NoCall => running'[v] # c
    BY <1>0, <1>3 DEF PoolInv, Places
  <2>2. \A i \in 1..Len(queue) : queue[i] # c /\ queue[i] # NoCall /\ queue[i] \in Calls
    BY <1>0, PoolAssumption DEF PoolInv, Places, PoolTypeOK
  <2>3. QED
    BY <1>0, <1>2, <1>3, <2>1, <2>2 DEF PoolInv, Places
<1>6. \A d \in Calls : CallOK(d)'
  BY <1>0, <1>1, <1>2 DEF PoolInv, CallOK
<1>7. NobodyTimedOut' => Numbered'
  BY <1>0, <1>1, <1>2 DEF PoolInv, NobodyTimedOut, Numbered
<1>8. QED
  BY <1>0, <1>4, <1>5, <1>6, <1>7 DEF PoolInv

-----------------------------------------------------------------------------

LEMMA PoolStarts == PoolInit => PoolInv
<1> SUFFICES ASSUME PoolInit PROVE PoolInv
  OBVIOUS
<1>1. /\ \A c \in Calls : call[c] = [kind |-> "new", todo |-> 0, uid |-> 0,
                                     created |-> {}, done |-> FALSE, answer |-> "none"]
      /\ queue = <<>> /\ waiting = NoCall /\ DOMAIN users = {}
      /\ \A w \in Workers : running[w] = NoCall
  BY DEF PoolInit
<1>2. PoolTypeOK
  BY <1>1, PoolAssumption DEF PoolInit, PoolTypeOK, Call
<1>3. Places /\ \A c \in Calls : CallOK(c)
  BY <1>1, PoolAssumption DEF Places, CallOK, Live
<1>4. Numbered
  <2>1. DOMAIN users = 1..0
    BY <1>1
  <2>2. QED
    BY <1>1, <2>1 DEF Numbered
<1>5. QED
  BY <1>1, <1>2, <1>3, <1>4, FS_EmptySet DEF PoolInv

LEMMA PoolSteps == PoolInv /\ [PoolNext]_poolVars => PoolInv'
<1> SUFFICES ASSUME PoolInv, [PoolNext]_poolVars PROVE PoolInv'
  OBVIOUS
<1>1. CASE UNCHANGED poolVars
  BY <1>1 DEF poolVars, PoolInv, PoolTypeOK, Places, CallOK,
              NobodyTimedOut, Numbered
<1>2. QED
  BY <1>1, SubmitStep, StopStep, StartStep, ReadStep, StoreStep, ReturnStep
     DEF PoolNext, StopWaiting, Work

LEMMA PoolInvariant == PoolSpec => []PoolInv
BY PoolStarts, PoolSteps, PTL DEF PoolSpec

(* Handlers overlap, and overwrite each other's users, only after one was  *)
(* given up on: fut.result blocks the event loop until then (sandbox.py,   *)
(* run_handler_with_timeout).                                              *)
THEOREM PoolApart == PoolSpec => []ApartUnlessTimedOut
<1>1. PoolInv => ApartUnlessTimedOut
  BY DEF PoolInv, CallOK, Live, InFlight, TimedOut, Serial, Numbered, NobodyTimedOut,
         UsersKept, ApartUnlessTimedOut
<1>2. QED
  BY <1>1, PoolInvariant, PTL

(* After "ok" or "exception" a handler has no effect any more.             *)
THEOREM PoolAnswersFinal == PoolSpec => NoEffectAfterAnswer
<1>1. ASSUME PoolInv, [PoolNext]_poolVars, NEW c \in Calls,
             call[c].answer \in {"ok", "exception"}
      PROVE  call'[c] = call[c]
  <2>0. /\ call \in [Calls -> Call] /\ call[c].done /\ call[c].kind # "new"
        /\ waiting # c /\ ~Live(call[c])
    BY <1>1 DEF PoolInv, PoolTypeOK, CallOK, Live
  <2>1. \A w \in Workers : running[w] # NoCall => running[w] # c /\ running[w] \in Calls
    BY <1>1, <2>0 DEF PoolInv, PoolTypeOK, Places
  <2>2. ASSUME NEW d \in Calls, Submit(d) \/ Answer(d) \/ Timeout(d)
        PROVE  call'[c] = call[c]
    BY <2>0, <2>2 DEF Submit, Answer, Timeout
  <2>3. ASSUME NEW w \in Workers, Work(w)
        PROVE  call'[c] = call[c]
    BY <2>0, <2>1, <2>3 DEF Work, Start, ReadLength, StoreUser, Return
  <2>4. QED
    BY <1>1, <2>2, <2>3 DEF PoolNext, StopWaiting, poolVars
<1>2. PoolInv /\ [PoolNext]_poolVars =>
        [\A c \in Calls : call[c].answer \in {"ok", "exception"} =>
             call'[c] = call[c]]_poolVars
  BY <1>1
<1>3. QED
  BY <1>2, PoolInvariant, PTL DEF PoolSpec, NoEffectAfterAnswer
=============================================================================
