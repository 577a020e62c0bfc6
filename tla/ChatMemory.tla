------------------------------ MODULE ChatMemory ------------------------------
(***************************************************************************)
(* The conversation memory of the chat: MemoryManager of                   *)
(* libs/core/memory.py with its two users, POST /chat (streaming) and      *)
(* POST /api/chat/sync of apps/api/api.py.                                 *)
(*                                                                         *)
(* A request fetches the history object of its thread, which trims it to   *)
(* the window, copies its messages into the prompt, awaits the LLM, and    *)
(* appends the question and the answer to the object.  The synchronous     *)
(* handler fetches and copies in one step; the streaming one copies when   *)
(* its generator is first resumed, after the handler returned.  Requests   *)
(* of one thread may overlap: two tabs never share a thread, but nothing   *)
(* stops a user from sending again before the answer is complete.          *)
(*                                                                         *)
(* A message is its role and the request it belongs to.  clear_thread is   *)
(* not called by the program.                                              *)
(***************************************************************************)
EXTENDS Naturals, Sequences, FiniteSets

CONSTANTS
    Threads,    \* thread ids
    Requests,   \* slots for requests served concurrently
    Window,     \* MEMORY_MAX_MESSAGES
    None

ASSUME MemoryAssumption ==
    /\ Window \in Nat
    /\ IsFiniteSet(Requests)
    /\ None \notin Threads

VARIABLES
    history,    \* the messages of each thread
    req         \* the request in each slot

vars == <<history, req>>

Message == [role : {"user", "assistant"}, of : Requests]

Question(q) == [role |-> "user", of |-> q]

Reply(q) == [role |-> "assistant", of |-> q]

\* prompt: the history part of the messages sent to the LLM.
Request ==
    [pc : {"idle", "fetched", "llm"},
     mode : {"none", "stream", "sync"},
     thread : Threads \cup {None},
     prompt : Seq(Message)]

Idle == [pc |-> "idle", mode |-> "none", thread |-> None, prompt |-> <<>>]

Init ==
    /\ history = [t \in Threads |-> <<>>]
    /\ req = [q \in Requests |-> Idle]

-----------------------------------------------------------------------------
(* MemoryManager.get_thread_history *)

\* messages[-n:]; for n = 0 that is messages[0:], the whole list.
Last(messages, n) ==
    IF n = 0 THEN messages ELSE SubSeq(messages, Len(messages) - n + 1, Len(messages))

\* Mutant: the window is never applied.
Untrimmed(messages) == messages

Trimmed(messages) ==
    IF Len(messages) > Window THEN Last(messages, Window) ELSE messages

-----------------------------------------------------------------------------
(* The handlers *)

\* /chat up to the return of the StreamingResponse.
StartStream(q, t) ==
    /\ req[q].pc = "idle"
    /\ history' = [history EXCEPT ![t] = Trimmed(@)]
    /\ req' = [req EXCEPT ![q] =
                 [Idle EXCEPT !.pc = "fetched", !.mode = "stream", !.thread = t]]

\* event_generator is resumed for the first time.
CopyHistory(q) ==
    /\ req[q].pc = "fetched"
    /\ req' = [req EXCEPT ![q].pc = "llm",
                          ![q].prompt = history[req[q].thread]]
    /\ UNCHANGED history

\* Mutant: the question is remembered before the LLM is asked.
StartSyncEarly(q, t) ==
    /\ req[q].pc = "idle"
    /\ history' = [history EXCEPT ![t] = Append(Trimmed(@), Question(q))]
    /\ req' = [req EXCEPT ![q] =
                 [pc |-> "llm", mode |-> "sync", thread |-> t,
                  prompt |-> Trimmed(history[t])]]

\* /api/chat/sync up to its first await.
StartSync(q, t) ==
    /\ req[q].pc = "idle"
    /\ history' = [history EXCEPT ![t] = Trimmed(@)]
    /\ req' = [req EXCEPT ![q] =
                 [pc |-> "llm", mode |-> "sync", thread |-> t,
                  prompt |-> Trimmed(history[t])]]

\* The answer is complete -- or, when streaming, the LLM failed part way:
\* what was received so far, be it nothing, is remembered as the answer.
Remember(q) ==
    /\ req[q].pc = "llm"
    /\ history' = [history EXCEPT ![req[q].thread] = @ \o <<Question(q), Reply(q)>>]
    /\ req' = [req EXCEPT ![q] = Idle]

\* The LLM fails (sync) or the client is gone (stream, be it before the
\* generator was first resumed): the handler ends before the appends.
Abandon(q) ==
    /\ req[q].pc # "idle"
    /\ req' = [req EXCEPT ![q] = Idle]
    /\ UNCHANGED history

-----------------------------------------------------------------------------

Next ==
    \E q \in Requests :
        \/ \E t \in Threads : StartStream(q, t) \/ StartSync(q, t)
        \/ CopyHistory(q) \/ Remember(q) \/ Abandon(q)

Spec == Init /\ [][Next]_vars

-----------------------------------------------------------------------------
(* Properties *)

MemoryTypeOK ==
    /\ history \in [Threads -> Seq(Message)]
    /\ req \in [Requests -> Request]
    /\ \A q \in Requests : req[q].pc = "idle" => req[q] = Idle

(* The LLM is shown questions and answers in turn, the last an answer, and *)
(* every answer follows its own question -- however requests overlap, and  *)
(* whenever the window cuts.  Only the first message can be an answer      *)
(* whose question is cut off, and only if the window is odd.               *)
Exchanges(messages) ==
    LET n == Len(messages)
    IN  /\ \A k \in 1..n :
             /\ messages[k].role = IF (n - k) % 2 = 0 THEN "assistant" ELSE "user"
             /\ (n - k) % 2 = 0 /\ k > 1 => messages[k].of = messages[k - 1].of
        /\ Window % 2 = 0 => n % 2 = 0

PromptsAreExchanges ==
    /\ \A q \in Requests : Exchanges(req[q].prompt)
    /\ \A t \in Threads : Exchanges(history[t])

(* The sliding window bounds the memory (README.md:13): a thread never     *)
(* holds more than the window and one exchange for each request that can   *)
(* be under way; and what is sent to the LLM keeps to the window, but for  *)
(* the exchanges that others complete between the fetch and the copy of a  *)
(* streaming request.  (A window of 0 bounds nothing.)                     *)
WindowKept ==
    Window > 0 =>
        /\ \A t \in Threads : Len(history[t]) <= Window + 2 * Cardinality(Requests)
        /\ \A q \in Requests :
             /\ req[q].mode = "sync" => Len(req[q].prompt) <= Window
             /\ Len(req[q].prompt) <= Window + 2 * (Cardinality(Requests) - 1)
=============================================================================
