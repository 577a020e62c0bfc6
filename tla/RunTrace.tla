------------------------------- MODULE RunTrace -------------------------------
(***************************************************************************)
(* What the page of the tool runner shows of its runs                      *)
(* (apps/api/static/js/toollab.js, toollabRun and what it renders): for    *)
(* each turn a header with a "running" sign, and where the answer arrives, *)
(* its steps and final response, or an error.  The button stays enabled    *)
(* while a run is under way, and so does "new conversation".               *)
(*                                                                         *)
(* What a run does on the server, and the messages of the history, are     *)
(* modelled in RunConversation; here a turn is its name.  Bounds: each run *)
(* of Runs is one press of the button; MaxShown entries on the page.       *)
(***************************************************************************)
EXTENDS Naturals, Sequences, FiniteSets

CONSTANTS Runs, MaxShown, NoRun

ASSUME TraceAssumption == MaxShown \in Nat /\ NoRun \notin Runs

VARIABLES
    stands,     \* where each run stands
    told,       \* the turns that each run was sent as its history
    trace,      \* what the page shows
    history,    \* toollabHistory, as turns
    count,      \* toollabTurnCount
    muddled     \* history: a button was pressed while a run was under way

traceVars == <<stands, told, trace, history, count, muddled>>

\* An entry of the page; a header can bear the sign.
Entry == [kind : {"header", "result", "error"}, of : Runs \cup {NoRun}, sign : BOOLEAN]

TraceTypeOK ==
    /\ stands \in [Runs -> {"no", "running", "over"}]
    /\ told \in [Runs -> Seq(Runs)]
    /\ trace \in Seq(Entry) /\ history \in Seq(Runs)
    /\ count \in Nat /\ muddled \in BOOLEAN

TraceInit ==
    /\ stands = [r \in Runs |-> "no"]
    /\ told = [r \in Runs |-> <<>>]
    /\ trace = <<>> /\ history = <<>> /\ count = 0
    /\ muddled = FALSE

UnderWay == {r \in Runs : stands[r] = "running"}

\* The signs go, all of them.
Unsigned == [k \in DOMAIN trace |-> [trace[k] EXCEPT !.sign = FALSE]]

Run(r) ==
    /\ stands[r] = "no"
    /\ stands' = [stands EXCEPT ![r] = "running"]
    /\ told' = [told EXCEPT ![r] = history]
    /\ trace' = Append(trace, [kind |-> "header", of |-> r, sign |-> TRUE])
    /\ count' = count + 1
    /\ muddled' = (muddled \/ UnderWay # {})
    /\ UNCHANGED history

\* Result and history, in one go
Result(r) ==
    /\ stands[r] = "running"
    /\ stands' = [stands EXCEPT ![r] = "over"]
    /\ trace' = Append(Unsigned, [kind |-> "result", of |-> r, sign |-> FALSE])
    /\ history' = Append(history, r)
    /\ UNCHANGED <<told, count, muddled>>

\* Mutant: the sign of a run that failed stays.
ErrorSigned(r) ==
    /\ stands[r] = "running"
    /\ stands' = [stands EXCEPT ![r] = "over"]
    /\ trace' = Append(trace, [kind |-> "error", of |-> r, sign |-> FALSE])
    /\ UNCHANGED <<told, history, count, muddled>>

Error(r) ==
    /\ stands[r] = "running"
    /\ stands' = [stands EXCEPT ![r] = "over"]
    /\ trace' = Append(Unsigned, [kind |-> "error", of |-> r, sign |-> FALSE])
    /\ UNCHANGED <<told, history, count, muddled>>

\* Mutant: the history survives.
NewConversationKept ==
    /\ trace' = <<>> /\ count' = 0
    /\ muddled' = (muddled \/ UnderWay # {})
    /\ UNCHANGED <<stands, told, history>>

\* An empty prompt is an error, too: every sign goes.
AskNothing ==
    /\ Len(trace) < MaxShown
    /\ trace' = Append(Unsigned, [kind |-> "error", of |-> NoRun, sign |-> FALSE])
    /\ muddled' = (muddled \/ UnderWay # {})
    /\ UNCHANGED <<stands, told, history, count>>

NewConversation ==
    /\ trace' = <<>> /\ history' = <<>> /\ count' = 0
    /\ muddled' = (muddled \/ UnderWay # {})
    /\ UNCHANGED <<stands, told>>

TraceNext == NewConversation \/ AskNothing \/ \E r \in Runs : Run(r) \/ Result(r) \/ Error(r)

TraceSpec == TraceInit /\ [][TraceNext]_traceVars

-----------------------------------------------------------------------------
(* Properties *)

\* How many entries of a kind stand before the k-th.
Earlier(kind, k) == Cardinality({j \in DOMAIN trace : j < k /\ trace[j].kind = kind})

Shown(kind) == Earlier(kind, Len(trace) + 1)

(* What is replayed to the LLM is what the page shows: the history holds   *)
(* the turns whose results are shown, in that order.  If no run was        *)
(* started, no button pressed in vain and no conversation begun while one  *)
(* was under way, each turn is told all results before it, stands under    *)
(* its own header, is counted, and bears the sign exactly while it runs.   *)
(* All state has its type.                                                 *)
TraceTells ==
    /\ TraceTypeOK
    /\ Len(history) = Shown("result")
    /\ \A k \in DOMAIN trace :
         trace[k].kind = "result" => history[Earlier("result", k) + 1] = trace[k].of
    /\ ~muddled =>
         /\ count = Shown("header")
         /\ \A k \in DOMAIN trace : LET e == trace[k] IN
              IF e.kind = "header"
              THEN /\ e.sign = (stands[e.of] = "running")
                   /\ told[e.of] = SubSeq(history, 1, Earlier("result", k))
              ELSE e.of # NoRun => trace[k - 1] = [kind |-> "header", of |-> e.of, sign |-> FALSE]
=============================================================================
