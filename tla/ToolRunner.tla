------------------------------ MODULE ToolRunner ------------------------------
(***************************************************************************)
(* One Tool Lab run on the server: the LLM <-> tool loop of                *)
(* libs/toollab/runner.py, with the tools of the registry (ToolRegistry).  *)
(*                                                                         *)
(* The loop awaits the LLM, and the database once at the end; between two  *)
(* awaits it is not interrupted.  The tool calls of one LLM answer are     *)
(* executed synchronously, so a whole turn of the loop is one step.  Runs  *)
(* of several requests, and registrations, interleave at the awaits.       *)
(*                                                                         *)
(* A message has a role, the tool calls of an assistant message, the id of *)
(* the call a tool message answers, and a body: the kind of its text, or   *)
(* of the result or error a tool message carries.  RunStep and             *)
(* RunHistoryMessage, the trace and its replay, have the same shape.       *)
(*                                                                         *)
(* Handlers of the seed tools return entries of the process-wide _USERS,   *)
(* not copies.  A tool message is serialised at once, the trace keeps the  *)
(* reference until the response is.  `record` is such an entry, "old" or   *)
(* "new"; any handler may change it.                                       *)
(***************************************************************************)
EXTENDS ToolRegistry, Sequences

CONSTANTS
    Runs,               \* slots for runs served concurrently
    DefaultIterations,  \* TOOLLAB_MAX_TOOL_ITERATIONS
    HardIterations,     \* TOOLLAB_MAX_TOOL_ITERATIONS_HARD
    MaxCalls,           \* bound: tool calls the LLM puts into one answer
    Contents,           \* the kinds of text the LLM answers with
    HandlerResults,     \* what handlers return: a value, or the entry of _USERS
    HandlerErrors,      \* the error kinds handlers run into
    Values              \* the values an entry of _USERS can have

ASSUME RunnerAssumption ==
    /\ DefaultIterations \in Nat \ {0} /\ HardIterations \in Nat \ {0}
    /\ MaxCalls \in Nat
    /\ Contents # {} /\ Contents \subseteq {"text", "leak", "blocks"}
    /\ HandlerResults # {} /\ HandlerResults \subseteq {"ok", "record"}
    /\ HandlerErrors \subseteq {"timeout", "exception", "return_schema_invalid"}
    /\ Values # {} /\ Values \subseteq {"old", "new"}

VARIABLES
    run,       \* the run in each slot
    record     \* the value of the entry of _USERS that results refer to

\* "blocks" is a content that is not a string, "none" its absence.
Bodies == {"text", "leak", "blocks", "none", "prompt", "ok", "record",
           "old", "new", "error", "timeout", "exception",
           "return_schema_invalid", "tool_not_found"}

ToolCalls == UNION {[1..l -> Names] : l \in 0..MaxCalls}

Message ==
    [role : {"system", "user", "assistant", "tool"},
     calls : ToolCalls,
     id : 0..MaxCalls,
     body : Bodies]

\* RunStep.content is a string or absent; of an error it keeps the text only.
Step == {s \in Message : s.body \in {"text", "leak", "none", "prompt", "ok",
                                      "record", "old", "new", "error"}}

\* The id of a tool call is its position in its message.
Plain(role, body) == [role |-> role, calls |-> <<>>, id |-> 0, body |-> body]

Assistant(calls, body) ==
    [role |-> "assistant", calls |-> calls, id |-> 0, body |-> body]

ToolMessage(j, body) == [role |-> "tool", calls |-> <<>>, id |-> j, body |-> body]

Run ==
    [pc : {"idle", "llm", "commit", "answered"},
     user : Users \cup {None},
     offered : SUBSET Ids,
     max : Nat,
     iterations : Nat,
     messages : Seq(Message),
     seed : Nat,
     steps : Seq(Step),
     truncated : BOOLEAN,
     final : Bodies,
     warnings : SUBSET {"llm_invoke_failed", "tool_call_parser_likely_missing"}]

IdleRun ==
    [pc |-> "idle", user |-> None, offered |-> {}, max |-> 0, iterations |-> 0,
     messages |-> <<>>, seed |-> 0, steps |-> <<>>,
     truncated |-> FALSE, final |-> "none", warnings |-> {}]

-----------------------------------------------------------------------------

\* The seed of the conversation: system prompt, replayed history, prompt.
\* A body the history lacks is sent as an empty string.
Seed(history) == <<Plain("system", "prompt")>> \o history \o <<Plain("user", "prompt")>>

\* min(requested or default, hard cap); `asked` is 0 when not requested.
IterationCap(asked) ==
    LET wanted == IF asked = 0 THEN DefaultIterations ELSE asked
    IN  IF wanted <= HardIterations THEN wanted ELSE HardIterations

\* The run up to its first await: the catalog is read once, here.
Begin(r, u, toolIds, asked, history) ==
    /\ run[r].pc = "idle"
    /\ \E offered \in Offers(u, toolIds) :
           run' = [run EXCEPT ![r] =
               [IdleRun EXCEPT
                   !.pc = "llm", !.user = u, !.offered = offered,
                   !.max = IterationCap(asked), !.iterations = 1,
                   !.messages = Seed(history), !.seed = Len(history) + 2]]

\* What ToolRegistry.execute can return for a call of tool n.
Outcomes(u, n) ==
    UNION {IF i = None
             THEN {[tool |-> None, body |-> "tool_not_found"]}
             ELSE {[tool |-> i, body |-> b] :
                     b \in HandlerResults \cup HandlerErrors}
           : i \in Resolve(u, n)}

\* Whether `values` can be the record after each of the calls: without a
\* handler nothing changes it.
Changes(results, values) ==
    \A j \in 1..Len(results) :
        results[j].tool = None => values[j] = IF j = 1 THEN record ELSE values[j - 1]

\* Mutant: failed calls are not reported back to the LLM.
SuccessesOnly(results, values) ==
    [j \in 1..Len(SelectSeq(results, LAMBDA x : x.body = "ok")) |->
        ToolMessage(j, "ok")]

\* to_tool_message_content of each result, as the record is at that time.
ToolMessages(results, values) ==
    [j \in 1..Len(results) |->
        ToolMessage(j, IF results[j].body = "record" THEN values[j]
                                                   ELSE results[j].body)]

\* record_ai: only a string is kept as content.
AiStep(ai) == [ai EXCEPT !.body = IF @ = "blocks" THEN "none" ELSE @]

TraceBody(x) == IF x.body \in {"ok", "record"} THEN x.body ELSE "error"

\* Mutant: calls of unknown tools leave no step.
KnownToolSteps(results) ==
    LET known == SelectSeq(results, LAMBDA x : x.tool # None)
    IN  [j \in 1..Len(known) |-> ToolMessage(j, TraceBody(known[j]))]

\* record_tool: the step says whether the call failed, but not the kind.
ToolSteps(results) ==
    [j \in 1..Len(results) |-> ToolMessage(j, TraceBody(results[j]))]

LastText(steps) ==
    LET texts == {k \in 1..Len(steps) :
                    steps[k].role = "assistant" /\ steps[k].body # "none"}
    IN  IF texts = {} THEN "none"
        ELSE steps[CHOOSE k \in texts : \A j \in texts : j <= k].body

\* The LLM answers without a tool call: the run is over.
FinalAnswer(r) ==
    /\ run[r].pc = "llm"
    /\ \E b \in Contents :
         LET ai == Assistant(<<>>, b)
         IN  run' = [run EXCEPT
                 ![r].pc = "commit",
                 ![r].messages = Append(@, ai),
                 ![r].steps = Append(@, AiStep(ai)),
                 ![r].final = IF b = "blocks" THEN "none" ELSE b,
                 ![r].warnings = IF b = "leak"
                     THEN @ \cup {"tool_call_parser_likely_missing"} ELSE @]
    /\ UNCHANGED record

\* Mutant: the cap is met one turn late.
CapLate(x) == x.iterations > x.max

\* The test at the head of the loop, after x.iterations turns.
Exhausted(x) == x.iterations >= x.max

\* The LLM calls tools: they run one after the other, whatever becomes of
\* each, and the loop goes on unless the cap is reached.  The names need not
\* be those of offered tools.
ToolTurn(r) ==
    LET x == run[r]
    IN  /\ x.pc = "llm"
        /\ \E calls \in ToolCalls \ {<<>>}, b \in Contents :
           \E results \in [1..Len(calls) ->
                             UNION {Outcomes(x.user, n) : n \in Names}],
              values \in [1..Len(calls) -> Values] :
             LET ai == Assistant(calls, b)
                 steps == Append(x.steps, AiStep(ai)) \o ToolSteps(results)
             IN  /\ \A j \in 1..Len(calls) : results[j] \in Outcomes(x.user, calls[j])
                 /\ Changes(results, values)
                 /\ record' = values[Len(calls)]
                 /\ run' = [run EXCEPT
                      ![r].messages = Append(@, ai) \o ToolMessages(results, values),
                      ![r].steps = steps,
                      ![r].pc = IF Exhausted(x) THEN "commit" ELSE "llm",
                      ![r].iterations = IF Exhausted(x) THEN @ ELSE @ + 1,
                      ![r].truncated = Exhausted(x),
                      ![r].final = IF Exhausted(x) THEN LastText(steps) ELSE @]

\* A result satisfies its schema but cannot be serialised for the LLM: the
\* client gets a 500 and no trace is kept, though tools have run.
TurnRaises(r) ==
    /\ run[r].pc = "llm"
    /\ \E n \in Names : \E o \in Outcomes(run[r].user, n) : o.body \in HandlerResults
    /\ run' = [run EXCEPT ![r] = IdleRun]
    /\ record' \in Values

\* The invocation raises: the trace up to here is the result.
LlmFails(r) ==
    /\ run[r].pc = "llm"
    /\ run' = [run EXCEPT ![r].pc = "commit",
                          ![r].warnings = @ \cup {"llm_invoke_failed"}]
    /\ UNCHANGED record

\* The steps as they are serialised now.
Serialised(steps) ==
    [k \in 1..Len(steps) |->
        [steps[k] EXCEPT !.body = IF @ = "record" THEN record ELSE @]]

\* The tool_runs row is committed, then the result is serialised and sent.
Commit(r) ==
    /\ run[r].pc = "commit"
    /\ run' = [run EXCEPT ![r].pc = "answered", ![r].steps = Serialised(@)]
    /\ UNCHANGED record

\* The insert raises: the client gets a 500, the tools have run.
CommitFails(r) ==
    /\ run[r].pc = "commit"
    /\ run' = [run EXCEPT ![r] = IdleRun]
    /\ UNCHANGED record

\* A handler of another run, or one that was given up on, changes the entry.
RecordChanges ==
    /\ record' \in Values
    /\ UNCHANGED run
=============================================================================
