------------------------------- MODULE ChatPage -------------------------------
(***************************************************************************)
(* The chat page (apps/api/static/js/chat.js) on top of the chat's memory: *)
(* what the user sees of a conversation, while its answers stream in.      *)
(*                                                                         *)
(* The input stays enabled while an answer streams, so several calls of    *)
(* sendMessage may be under way; they share currentAiMessage, to which     *)
(* every piece of every answer is appended.  A piece is an SSE event; when *)
(* a chunk ends within one, neither half is understood.                    *)
(*                                                                         *)
(* Of a text the model keeps which answer its pieces belong to.  Bounds:   *)
(* each request of Requests is one message, the page sends MaxMessages of  *)
(* them, AtOnce at a time, and an answer has MaxTokens pieces.             *)
(***************************************************************************)
EXTENDS ChatMemory

CONSTANTS
    Mine,      \* threadId
    MaxTokens,
    MaxMessages,
    AtOnce

ASSUME PageAssumption ==
    /\ Mine \in Threads /\ "error" \notin Requests
    /\ {MaxTokens, MaxMessages, AtOnce} \subseteq Nat

VARIABLES
    sent,      \* how far each call of sendMessage has come
    reply,     \* how far the server has come with each
    answer,    \* the length of full_response, in pieces
    wire,      \* the events under way to the page
    bubbles,   \* the messages on the page
    current,   \* the position of currentAiMessage, 0 for null
    mishap     \* history: what has happened that may spoil the page

pageVars == <<sent, reply, answer, wire, bubbles, current, mishap>>

chatVars == <<vars, pageVars>>

\* of: the question, or the one answered; None for the page's own error text.
Bubble == [role : {"user", "assistant"}, of : Requests \cup {None},
           text : Seq(Requests \cup {"error"})]

Mishaps == {"overlap", "torn", "broken", "refused"}

ChatTypeOK ==
    /\ MemoryTypeOK
    /\ sent \in [Requests -> {"no", "asked", "reading", "over"}]
    /\ reply \in [Requests -> {"none", "stream", "failed", "ended", "refused"}]
    /\ answer \in [Requests -> 0..MaxTokens]
    /\ wire \in [Requests -> Seq({"token", "error", "done"})]
    /\ \A q \in Requests : sent[q] \in {"no", "over"} => wire[q] = <<>>
    /\ bubbles \in Seq(Bubble)
    /\ current \in 0..Len(bubbles)
    /\ mishap \subseteq Mishaps

ChatInit ==
    /\ Init
    /\ sent = [q \in Requests |-> "no"]
    /\ reply = [q \in Requests |-> "none"]
    /\ answer = [q \in Requests |-> 0]
    /\ wire = [q \in Requests |-> <<>>]
    /\ bubbles = <<>>
    /\ current = 0
    /\ mishap = {}

Note(what, if) == mishap' = mishap \cup (IF if THEN {what} ELSE {})

AiBubble(q) == [role |-> "assistant", of |-> q, text |-> <<>>]

UnderWay(q) == sent[q] \in {"asked", "reading"}

\* Under way at the page or at the server.
Open == {q \in Requests : UnderWay(q) \/ req[q].pc # "idle"}

-----------------------------------------------------------------------------
(* The page asks *)

SendMessage(q) ==
    /\ sent[q] = "no" /\ Cardinality(Open) < AtOnce
    /\ Cardinality({p \in Requests : sent[p] # "no"}) < MaxMessages
    /\ bubbles' = Append(bubbles, [role |-> "user", of |-> q, text |-> <<>>])
    /\ sent' = [sent EXCEPT ![q] = "asked"]
    /\ Note("overlap", Open # {})
    /\ UNCHANGED <<vars, reply, answer, wire, current>>

\* A 401: an alert, and no bubble for an answer.
Unauthorised(q) ==
    /\ sent[q] = "asked" /\ reply[q] = "none"
    /\ sent' = [sent EXCEPT ![q] = "over"]
    /\ reply' = [reply EXCEPT ![q] = "refused"]
    /\ Note("refused", TRUE)
    /\ UNCHANGED <<vars, answer, wire, bubbles, current>>

\* Any other error status is read like a stream, which has no event.
Refuse(q) ==
    /\ sent[q] = "asked" /\ reply[q] = "none"
    /\ reply' = [reply EXCEPT ![q] = "refused"]
    /\ Note("refused", TRUE)
    /\ UNCHANGED <<vars, sent, answer, wire, bubbles, current>>

-----------------------------------------------------------------------------
(* The server streams *)

Serve(q) ==
    /\ sent[q] = "asked" /\ reply[q] = "none"
    /\ StartStream(q, Mine)
    /\ reply' = [reply EXCEPT ![q] = "stream"]
    /\ UNCHANGED <<sent, answer, wire, bubbles, current, mishap>>

BeginGenerator(q) ==
    /\ CopyHistory(q)
    /\ UNCHANGED pageVars

\* What is sent to a page that is gone is lost.
Emit(q, event) == wire' = IF sent[q] = "over" THEN wire
                          ELSE [wire EXCEPT ![q] = Append(@, event)]

EmitToken(q) ==
    /\ req[q].pc = "llm" /\ reply[q] = "stream"
    /\ answer[q] < MaxTokens
    /\ answer' = [answer EXCEPT ![q] = @ + 1]
    /\ Emit(q, "token")
    /\ UNCHANGED <<vars, sent, reply, bubbles, current, mishap>>

LlmFails(q) ==
    /\ req[q].pc = "llm" /\ reply[q] = "stream"
    /\ reply' = [reply EXCEPT ![q] = "failed"]
    /\ Emit(q, "error")
    /\ UNCHANGED <<vars, sent, answer, bubbles, current, mishap>>

\* The appends, [DONE], and the end of the body.
Finish(q) ==
    /\ Remember(q)
    /\ reply' = [reply EXCEPT ![q] = "ended"]
    /\ Emit(q, "done")
    /\ UNCHANGED <<sent, answer, bubbles, current, mishap>>

\* The generator is cancelled when the client is found to be gone.
Cancel(q) ==
    /\ sent[q] = "over"
    /\ Abandon(q)
    /\ reply' = [reply EXCEPT ![q] = "ended"]
    /\ UNCHANGED <<sent, answer, wire, bubbles, current, mishap>>

-----------------------------------------------------------------------------
(* The page reads *)

\* Mutant: a bubble that is there is used again.
HeadersArriveReusing(q) ==
    /\ sent[q] = "asked" /\ reply[q] # "none"
    /\ sent' = [sent EXCEPT ![q] = "reading"]
    /\ IF current = 0
       THEN bubbles' = Append(bubbles, AiBubble(q)) /\ current' = Len(bubbles) + 1
       ELSE UNCHANGED <<bubbles, current>>
    /\ UNCHANGED <<vars, reply, answer, wire, mishap>>

HeadersArrive(q) ==
    /\ sent[q] = "asked" /\ reply[q] # "none"
    /\ sent' = [sent EXCEPT ![q] = "reading"]
    /\ bubbles' = Append(bubbles, AiBubble(q))
    /\ current' = Len(bubbles) + 1
    /\ UNCHANGED <<vars, reply, answer, wire, mishap>>

\* updateAiMessage with the next event, be the bubble another's by now
Read(q) ==
    /\ sent[q] = "reading" /\ wire[q] # <<>>
    /\ bubbles' =
         CASE Head(wire[q]) = "token" -> [bubbles EXCEPT ![current].text = Append(@, q)]
           [] Head(wire[q]) = "error" -> [bubbles EXCEPT ![current].text = Append(@, "error")]
           [] Head(wire[q]) = "done"  -> bubbles
    /\ wire' = [wire EXCEPT ![q] = Tail(@)]
    /\ UNCHANGED <<vars, sent, reply, answer, current, mishap>>

\* A chunk ends within the event: it is dropped.
ReadTorn(q) ==
    /\ sent[q] = "reading" /\ wire[q] # <<>>
    /\ wire' = [wire EXCEPT ![q] = Tail(@)]
    /\ Note("torn", Head(wire[q]) # "done")
    /\ UNCHANGED <<vars, sent, reply, answer, bubbles, current>>

EndOfStream(q) ==
    /\ sent[q] = "reading" /\ wire[q] = <<>> /\ reply[q] \in {"ended", "refused"}
    /\ sent' = [sent EXCEPT ![q] = "over"]
    /\ UNCHANGED <<vars, reply, answer, wire, bubbles, current, mishap>>

\* fetch or read rejects: the page says so in a bubble of its own.
Break(q) ==
    /\ UnderWay(q)
    /\ sent' = [sent EXCEPT ![q] = "over"]
    /\ wire' = [wire EXCEPT ![q] = <<>>]
    /\ bubbles' = Append(bubbles, AiBubble(None))
    /\ Note("broken", TRUE)
    /\ UNCHANGED <<vars, reply, answer, current>>

-----------------------------------------------------------------------------

ChatNext ==
    \E q \in Requests :
        \/ SendMessage(q) \/ Unauthorised(q) \/ Refuse(q)
        \/ Serve(q) \/ BeginGenerator(q) \/ EmitToken(q) \/ LlmFails(q)
        \/ Finish(q) \/ Cancel(q)
        \/ HeadersArrive(q) \/ Read(q) \/ ReadTorn(q) \/ EndOfStream(q) \/ Break(q)

ChatSpec == ChatInit /\ [][ChatNext]_chatVars

-----------------------------------------------------------------------------
(* Properties *)

\* How many pieces of the answer to q are on the page.
Shown(q) ==
    Cardinality(UNION {{k} \X {j \in DOMAIN bubbles[k].text : bubbles[k].text[j] = q} :
                         k \in DOMAIN bubbles})

\* Its text when it is shown as it should be, with the error of a failed LLM.
TextOf(q) ==
    LET pieces == [j \in 1..answer[q] |-> q] IN {pieces, Append(pieces, "error")}

(* Between messages, the page shows what the LLM will be told: questions   *)
(* and whole answers alternate, each in its own bubble, and the memory of  *)
(* the thread is the end of what is shown, no shorter than the window --   *)
(* unless messages overlapped, an event was torn, the connection broke or  *)
(* a message was refused.  Overlapping messages mix the bubbles up, but    *)
(* every piece of an answer is still shown once.  All state has its type.  *)
PageMatchesMemory ==
    /\ ChatTypeOK
    /\ \A q \in Requests :
         sent[q] = "over" /\ mishap \subseteq {"overlap"} => Shown(q) = answer[q]
    /\ Open = {} /\ mishap = {} =>
         LET said == [k \in 1..Len(bubbles) |->
                        [role |-> bubbles[k].role, of |-> bubbles[k].of]]
         IN  /\ Exchanges(said) /\ Len(said) % 2 = 0
             /\ \A k \in 1..Len(bubbles) : bubbles[k].role = "assistant" =>
                  bubbles[k].text \in TextOf(bubbles[k].of)
             /\ \E k \in 1..Len(said) + 1 :
                  /\ history[Mine] = SubSeq(said, k, Len(said))
                  /\ k = 1 \/ Len(said) - k >= Window - 1
=============================================================================
