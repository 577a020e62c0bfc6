----------------------------- MODULE HandlerPool -----------------------------
(***************************************************************************)
(* Execution of tool handlers: run_handler_with_timeout and the shared     *)
(* thread pool of libs/toollab/sandbox.py, with the handlers of the seed   *)
(* tools that write the process-wide dictionary _USERS (seed.py).          *)
(*                                                                         *)
(* ToolRegistry.execute runs on the event loop and blocks it in            *)
(* fut.result, so at most one caller waits at a time.  A handler that is   *)
(* given up on is not cancelled: it keeps its thread, or its place in the  *)
(* queue, and its effects still happen.  Threads switch between any two    *)
(* bytecodes; a handler that creates users is cut between reading          *)
(* len(_USERS) and storing the new entry.                                  *)
(*                                                                         *)
(* Bounds: the finite Calls, and MaxMembers users created by one call.     *)
(***************************************************************************)
EXTENDS Naturals, Sequences, FiniteSets

CONSTANTS
    Calls,       \* handler invocations
    Workers,     \* threads of the pool
    MaxMembers,  \* users one call creates at most
    NoCall

ASSUME PoolAssumption ==
    /\ Workers # {} /\ IsFiniteSet(Workers) /\ IsFiniteSet(Calls)
    /\ MaxMembers \in Nat
    /\ NoCall \notin Calls

VARIABLES
    queue,    \* submitted calls no thread has taken yet
    running,  \* the call each thread executes, or NoCall
    waiting,  \* the call whose future the event loop blocks on, or NoCall
    call,     \* the progress of each call
    users     \* _USERS: which call stored the entry under each user number

poolVars == <<queue, running, waiting, call, users>>

(* What the handler does ("users": create_user or onboard_new_team;        *)
(* "raises": the same, ending in an exception; "endless": a loop without   *)
(* exit), the users left to create, the number read and not stored yet (0: *)
(* none), the numbers handed out, whether the future is done, and what the *)
(* caller was told.  Handlers that only read are calls that create nobody. *)
Call ==
    [kind : {"new", "users", "raises", "endless"},
     todo : 0..MaxMembers,
     uid : Nat,
     created : SUBSET Nat,
     done : BOOLEAN,
     answer : {"none", "ok", "exception", "timeout"}]

PoolTypeOK ==
    /\ queue \in Seq(Calls)
    /\ running \in [Workers -> Calls \cup {NoCall}]
    /\ waiting \in Calls \cup {NoCall}
    /\ call \in [Calls -> Call]
    /\ DOMAIN users \subseteq Nat /\ \A k \in DOMAIN users : users[k] \in Calls

PoolInit ==
    /\ queue = <<>>
    /\ running = [w \in Workers |-> NoCall]
    /\ waiting = NoCall
    /\ call = [c \in Calls |->
                 [kind |-> "new", todo |-> 0, uid |-> 0, created |-> {},
                  done |-> FALSE, answer |-> "none"]]
    /\ users = [k \in {} |-> NoCall]

-----------------------------------------------------------------------------
(* The event loop *)

\* Mutant: the event loop is not blocked by an earlier call.
SubmitWithoutWaiting(c) ==
    /\ call[c].kind = "new"
    /\ \E k \in {"users", "raises", "endless"}, m \in 0..MaxMembers :
           call' = [call EXCEPT ![c].kind = k, ![c].todo = m]
    /\ queue' = Append(queue, c)
    /\ waiting' = c
    /\ UNCHANGED <<running, users>>

\* pool.submit, then fut.result blocks the loop.
Submit(c) ==
    /\ waiting = NoCall
    /\ call[c].kind = "new"
    /\ \E k \in {"users", "raises", "endless"}, m \in 0..MaxMembers :
           call' = [call EXCEPT ![c].kind = k, ![c].todo = m]
    /\ queue' = Append(queue, c)
    /\ waiting' = c
    /\ UNCHANGED <<running, users>>

\* Mutant: the wait ends without looking at the future.
AnswerAnyTime(c) ==
    /\ waiting = c
    /\ call' = [call EXCEPT ![c].answer =
                  IF call[c].kind = "raises" THEN "exception" ELSE "ok"]
    /\ waiting' = NoCall
    /\ UNCHANGED <<queue, running, users>>

\* fut.result returns the handler's value or raises its exception.
Answer(c) ==
    /\ waiting = c
    /\ call[c].done
    /\ call' = [call EXCEPT ![c].answer =
                  IF call[c].kind = "raises" THEN "exception" ELSE "ok"]
    /\ waiting' = NoCall
    /\ UNCHANGED <<queue, running, users>>

\* Mutant: the clock starts when a thread takes the call.
TimeoutOfRunning(c) ==
    /\ waiting = c
    /\ ~call[c].done /\ \E w \in Workers : running[w] = c
    /\ call' = [call EXCEPT ![c].answer = "timeout"]
    /\ waiting' = NoCall
    /\ UNCHANGED <<queue, running, users>>

\* The wait is over before the future is done; the handler lives on.
Timeout(c) ==
    /\ waiting = c
    /\ ~call[c].done
    /\ call' = [call EXCEPT ![c].answer = "timeout"]
    /\ waiting' = NoCall
    /\ UNCHANGED <<queue, running, users>>

-----------------------------------------------------------------------------
(* The threads *)

\* An idle thread takes the oldest submitted call.
Start(w) ==
    /\ running[w] = NoCall
    /\ queue # <<>>
    /\ running' = [running EXCEPT ![w] = Head(queue)]
    /\ queue' = Tail(queue)
    /\ UNCHANGED <<waiting, call, users>>

\* uid = 'u-' + str(len(_USERS) + 1).zfill(5)
ReadLength(w) ==
    LET c == running[w]
    IN  /\ c # NoCall
        /\ call[c].kind # "endless" /\ call[c].todo > 0 /\ call[c].uid = 0
        /\ call' = [call EXCEPT ![c].uid = Cardinality(DOMAIN users) + 1]
        /\ UNCHANGED <<queue, running, waiting, users>>

\* _USERS[uid] = user: an entry already under this uid is overwritten.
StoreUser(w) ==
    LET c == running[w]
        k == call[c].uid
    IN  /\ c # NoCall
        /\ k > 0
        /\ users' = [j \in DOMAIN users \cup {k} |-> IF j = k THEN c ELSE users[j]]
        /\ call' = [call EXCEPT ![c].uid = 0, ![c].todo = @ - 1,
                                ![c].created = @ \cup {k}]
        /\ UNCHANGED <<queue, running, waiting>>

\* Mutant: the thread is lost with the exception.
ReturnLosingThread(w) ==
    LET c == running[w]
    IN  /\ c # NoCall
        /\ ~call[c].done
        /\ call[c].kind # "endless" /\ call[c].todo = 0
        /\ call' = [call EXCEPT ![c].done = TRUE]
        /\ running' = IF call[c].kind = "raises" THEN running
                                                 ELSE [running EXCEPT ![w] = NoCall]
        /\ UNCHANGED <<queue, waiting, users>>

\* The handler returns or raises; either way the future is done and the
\* thread is free again.
Return(w) ==
    LET c == running[w]
    IN  /\ c # NoCall
        /\ call[c].kind # "endless" /\ call[c].todo = 0
        /\ call' = [call EXCEPT ![c].done = TRUE]
        /\ running' = [running EXCEPT ![w] = NoCall]
        /\ UNCHANGED <<queue, waiting, users>>

-----------------------------------------------------------------------------

Work(w) == Start(w) \/ ReadLength(w) \/ StoreUser(w) \/ Return(w)

StopWaiting == \E c \in Calls : Answer(c) \/ Timeout(c)

PoolNext ==
    \/ \E c \in Calls : Submit(c)
    \/ StopWaiting
    \/ \E w \in Workers : Work(w)

(* The clock runs, so the wait ends; the operating system and the GIL let  *)
(* every thread proceed.  Nothing makes clients send requests.             *)
Fairness == WF_poolVars(StopWaiting) /\ \A w \in Workers : WF_poolVars(Work(w))

PoolSpec == PoolInit /\ [][PoolNext]_poolVars /\ Fairness

-----------------------------------------------------------------------------
(* Properties *)

InFlight(c) == call[c].kind # "new" /\ ~call[c].done

TimedOut(c) == call[c].answer = "timeout"

\* Of the handlers that were not given up on, one runs at a time.
Serial ==
    \A c, d \in Calls :
        InFlight(c) /\ InFlight(d) /\ ~TimedOut(c) /\ ~TimedOut(d) => c = d

\* Every user a handler says it created is there under its id: the ids counted
\* from len(_USERS) do not collide, and no entry is overwritten.
UsersKept == \A c \in Calls : \A k \in call[c].created : users[k] = c

(* Handlers of different calls -- of whatever user -- only ever overlap,   *)
(* and overwrite each other's users, when one of them was given up on: the *)
(* blocking wait serialises them ("one in-flight per call",                *)
(* sandbox.py:283), a timeout ends that.  All state has its type.          *)
ApartUnlessTimedOut ==
    /\ PoolTypeOK
    /\ Serial
    /\ (\A c \in Calls : ~TimedOut(c)) => UsersKept

(* The caller hears what happened to the end: "ok" and "exception" are     *)
(* only ever said of a handler that did all it was going to do.  Only      *)
(* after "timeout" the effects may still come.                             *)
NoEffectAfterAnswer ==
    [][\A c \in Calls :
          call[c].answer \in {"ok", "exception"} => call'[c] = call[c]]_poolVars

Hung == {c \in Calls : call[c].kind = "endless"}

(* However many handlers hang, in threads or in the queue, the event loop  *)
(* is blocked by none of them for ever; and while fewer hang than there    *)
(* are threads, every other handler runs to its end, though perhaps long   *)
(* after its caller gave up.                                               *)
NothingElseHangs ==
    /\ \A c \in Calls : (waiting = c) ~> (waiting = NoCall)
    /\ [](Cardinality(Hung) < Cardinality(Workers)) =>
         \A c \in Calls :
             (call[c].kind \in {"users", "raises"}) ~> call[c].done
=============================================================================
