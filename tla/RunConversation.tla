--------------------------- MODULE RunConversation ---------------------------
(***************************************************************************)
(* A multi-turn Tool Lab conversation: the page                            *)
(* (apps/api/static/js/toollab.js), which keeps the history, and the       *)
(* server (ToolRunner), which does not.  The page sends the whole history  *)
(* with every run and rebuilds a turn from the trace in the response.      *)
(* Nothing disables the run button, so several runs may be under way, and  *)
(* a response may arrive after the conversation was reset.  Tools come and *)
(* go while a run waits for the LLM.                                       *)
(*                                                                         *)
(* Bounds: no run is sent with MaxTurns or more turns in its history.      *)
(***************************************************************************)
EXTENDS ToolRunner

CONSTANTS
    Me,         \* the user at the page
    MaxTurns,   \* bound: turns in the history of a new run, exclusively
    Asked       \* the iteration limits the user enters, 0 for none

ASSUME ConversationAssumption ==
    /\ Me \in Users
    /\ MaxTurns \in Nat
    /\ Asked \subseteq 0..16

VARIABLES
    history     \* toollabHistory

vars == <<live, index, run, record, history>>

Init ==
    /\ \E S \in SUBSET Ids :
           /\ \A i, j \in S : KeyOf[i] = KeyOf[j] => i = j
           /\ live = S
           /\ index = [k \in Keys |-> IF \E i \in S : KeyOf[i] = k
                                        THEN CHOOSE i \in S : KeyOf[i] = k
                                        ELSE None]
    /\ run = [r \in Runs |-> IdleRun]
    /\ record \in Values
    /\ history = <<>>

-----------------------------------------------------------------------------
(* The page *)

\* toollabRun: the history goes along as it is now, with whatever tools are
\* ticked; the list they were ticked in may be out of date.
SendRun(r) ==
    /\ Cardinality({k \in 1..Len(history) : history[k].role = "user"}) < MaxTurns
    /\ \E toolIds \in SUBSET Ids, asked \in Asked : Begin(r, Me, toolIds, asked, history)
    /\ UNCHANGED <<live, index, record, history>>

\* toollabPushTurnToHistory: the prompt, then the steps of the trace in order.
TurnEntries(steps) == <<Plain("user", "prompt")>> \o steps

\* The response arrives.
Receive(r) ==
    /\ run[r].pc = "answered"
    /\ history' = history \o TurnEntries(run[r].steps)
    /\ run' = [run EXCEPT ![r] = IdleRun]
    /\ UNCHANGED <<live, index, record>>

\* The connection breaks before it does: the page shows an error.
Lose(r) ==
    /\ run[r].pc = "answered"
    /\ run' = [run EXCEPT ![r] = IdleRun]
    /\ UNCHANGED <<live, index, record, history>>

\* toollabNewConversation
NewConversation ==
    /\ history' = <<>>
    /\ UNCHANGED <<live, index, run, record>>

-----------------------------------------------------------------------------

\* Registrations and removals by whatever handler: see ToolCatalog.
RegistryChanges ==
    /\ \E i \in Ids :
         \/ i \notin live /\ index[KeyOf[i]] = None /\ Register(i)
         \/ i \in live /\ Unregister(i)
    /\ UNCHANGED <<run, record, history>>

\* The process stops: the page sees its runs fail.  What bootstrap then
\* registers again are RegistryChanges.
Crash ==
    /\ live' = {}
    /\ index' = [k \in Keys |-> None]
    /\ run' = [r \in Runs |-> IdleRun]
    /\ record' \in Values
    /\ UNCHANGED history

ServerStep(r) ==
    /\ \/ FinalAnswer(r) \/ ToolTurn(r) \/ TurnRaises(r) \/ LlmFails(r)
       \/ Commit(r) \/ CommitFails(r)
    /\ UNCHANGED <<live, index, history>>

Next ==
    \/ \E r \in Runs : SendRun(r) \/ ServerStep(r) \/ Receive(r) \/ Lose(r)
    \/ NewConversation
    \/ RegistryChanges
    \/ RecordChanges /\ UNCHANGED <<live, index, history>>
    \/ Crash

Spec == Init /\ [][Next]_vars

-----------------------------------------------------------------------------
(* Properties *)

ConversationTypeOK ==
    /\ RegistryTypeOK
    /\ run \in [Runs -> Run] /\ record \in Values
    /\ history \in Seq(Step)

(* Every prompt sent to the LLM is one its API accepts: an assistant       *)
(* message with tool calls is followed by exactly one tool message for     *)
(* each of them, in order, and no other tool message occurs -- in the      *)
(* turns replayed from the page as well as in this run's own, whatever     *)
(* failed in them, and also when an earlier run was truncated.  All state  *)
(* has its type.                                                           *)
AnsweredAt(m, k) ==
    LET l == Len(m[k].calls)
    IN  /\ k + l <= Len(m)
        /\ \A j \in 1..l : m[k + j].role = "tool" /\ m[k + j].id = j

Solicited(m, k) ==
    \E j \in 1..(k - 1) :
        m[j].role = "assistant" /\ m[k].id = k - j /\ m[k].id \in 1..Len(m[j].calls)

WellFormed(m) ==
    \A k \in 1..Len(m) :
        /\ m[k].role = "assistant" => AnsweredAt(m, k)
        /\ m[k].role = "tool" => Solicited(m, k)

PromptsWellFormed ==
    /\ ConversationTypeOK
    /\ \A r \in Runs : run[r].pc = "llm" => WellFormed(run[r].messages)

(* What the page replays of a run is what the LLM saw ("Mirror ... so the  *)
(* replay matches", toollab.js:625), up to the kind of an error, the value *)
(* of a result that is a reference, and content that is not a string: same *)
(* messages, same order, same calls, failures as failures.                 *)
Blur(body) ==
    CASE body \in {"timeout", "exception", "return_schema_invalid",
                   "tool_not_found"} -> "error"
      [] body \in {"old", "new"} -> "record"
      [] body = "blocks" -> "none"
      [] OTHER -> body

Blurred(m) == [k \in 1..Len(m) |-> [m[k] EXCEPT !.body = Blur(@)]]

ReplayMatchesUpToKinds ==
    \A r \in Runs : run[r].pc = "answered" =>
        Blurred(TurnEntries(run[r].steps))
            = Blurred(SubSeq(run[r].messages, run[r].seed, Len(run[r].messages)))

(* truncated says that the cap of this run was met with the LLM still      *)
(* asking for tools; without it the run ended in an answer or a failure of *)
(* the LLM.  The number of LLM answers in the trace never exceeds the cap, *)
(* nor does the cap exceed the hard one.                                   *)
AiSteps(steps) == {k \in 1..Len(steps) : steps[k].role = "assistant"}

AsksForTools(steps) ==
    \E k \in AiSteps(steps) :
        steps[k].calls # <<>> /\ \A j \in AiSteps(steps) : j <= k

TruncationTold ==
    \A r \in Runs :
        LET answers == Cardinality(AiSteps(run[r].steps))
            failed == "llm_invoke_failed" \in run[r].warnings
        IN  /\ answers <= run[r].max /\ run[r].max <= HardIterations
            /\ run[r].pc \in {"commit", "answered"} =>
                 /\ run[r].truncated <=> AsksForTools(run[r].steps) /\ ~failed
                 /\ run[r].truncated => answers = run[r].max
=============================================================================
