------------------------------ MODULE BulkUpload ------------------------------
(***************************************************************************)
(* Bulk upload of an Excel file: start_bulk_upload and                     *)
(* process_bulk_upload_task of apps/api/api.py, the progress endpoint, and *)
(* the page of apps/api/static/js/bulk.js that polls it until the task is  *)
(* done.  The tasks live in memory (global_bulk_tasks): a restart of the   *)
(* API loses them and the background work, and the page is not told.       *)
(*                                                                         *)
(* The page polls every half second and does not wait for the last answer: *)
(* several polls may be under way, and their answers arrive in any order.  *)
(* Its overlay keeps the user from a second upload until the close button  *)
(* is shown; polls of the earlier upload may still be answered then.       *)
(*                                                                         *)
(* Bounds: one page, Tasks uploads, MaxRows rows a file, one slot for each *)
(* poll under way.                                                         *)
(***************************************************************************)
EXTENDS Naturals

CONSTANTS
    Tasks,      \* task ids (uuid4), one for each upload
    Polls,      \* slots for the polls under way
    MaxRows,    \* rows of the largest file
    MayRestart, \* whether the API process may restart
    None

Rows == 0..MaxRows

Errors == 0..(MaxRows + 1)

Status == [total : Rows, success : Rows, error : Errors,
           done : BOOLEAN, errorFile : BOOLEAN]

ASSUME BulkAssumption ==
    /\ MaxRows \in Nat
    /\ MayRestart \in BOOLEAN
    /\ None \notin Tasks /\ None \notin Status

VARIABLES
    task,      \* global_bulk_tasks: the status of each task, None if unknown
    job,       \* where the background work of each task is
    file,      \* how many rows the error file of each task lists, None if unsaved
    timers,    \* tasks with a running interval on the page
    poll,      \* the polls under way: to the server, or on the way back
    page,      \* what the page shows
    mishap     \* history: what has happened so far that misleads the page

vars == <<task, job, file, timers, poll, page, mishap>>

\* An answer of None is a 404, or no answer at all.
Poll == [task : Tasks, back : BOOLEAN, answer : Status \cup {None}]

\* upload is the one whose POST is unanswered, current is currentTaskId;
\* over and offer: "completed" with the close button, the download button.
Page == [overlay : BOOLEAN, upload : Tasks \cup {None},
         current : Tasks \cup {None}, over : BOOLEAN, offer : BOOLEAN,
         total : Rows, success : Rows, error : Errors]

Mishaps == {"restart", "late", "failed"}

BulkTypeOK ==
    /\ task \in [Tasks -> Status \cup {None}]
    /\ job \in [Tasks -> {"none", "read", "rows", "save", "over", "lost"}]
    /\ file \in [Tasks -> (1..MaxRows) \cup {None}]
    /\ timers \subseteq Tasks
    /\ poll \in [Polls -> Poll \cup {None}]
    /\ page \in Page
    /\ mishap \subseteq Mishaps

NewStatus ==
    [total |-> 0, success |-> 0, error |-> 0, done |-> FALSE, errorFile |-> FALSE]

Cleared(current) ==
    [overlay |-> TRUE, upload |-> None, current |-> current, over |-> FALSE,
     offer |-> FALSE, total |-> 0, success |-> 0, error |-> 0]

Init ==
    /\ task = [t \in Tasks |-> None]
    /\ job = [t \in Tasks |-> "none"]
    /\ file = [t \in Tasks |-> None]
    /\ timers = {}
    /\ poll = [i \in Polls |-> None]
    /\ page = [Cleared(None) EXCEPT !.overlay = FALSE]
    /\ mishap = {}

Note(kind, happened) == mishap' = mishap \cup (IF happened THEN {kind} ELSE {})

-----------------------------------------------------------------------------
(* The page starts an upload *)

\* startUpload and start_bulk_upload: the task is registered and its work
\* scheduled.  currentTaskId names the last upload until the answer is here.
StartUpload(t) ==
    /\ ~page.overlay
    /\ job[t] = "none"
    /\ task' = [task EXCEPT ![t] = NewStatus]
    /\ job' = [job EXCEPT ![t] = "read"]
    /\ page' = [Cleared(page.current) EXCEPT !.upload = t]
    /\ Note("late", \E i \in Polls : poll[i] # None)
    /\ UNCHANGED <<file, timers, poll>>

\* The task id arrives and pollProgress sets its interval.
UploadAnswered ==
    /\ page.upload # None
    /\ page' = [page EXCEPT !.current = page.upload, !.upload = None]
    /\ timers' = timers \cup {page.upload}
    /\ UNCHANGED <<task, job, file, poll, mishap>>

\* The answer is lost: "Server error".  The work goes on unseen.
UploadLost ==
    /\ page.upload # None
    /\ page' = [page EXCEPT !.overlay = FALSE, !.upload = None]
    /\ UNCHANGED <<task, job, file, timers, poll, mishap>>

\* closeProgress; its button is hidden until the upload is over.
CloseProgress ==
    /\ page.overlay /\ page.over
    /\ page' = [page EXCEPT !.overlay = FALSE]
    /\ UNCHANGED <<task, job, file, timers, poll, mishap>>

-----------------------------------------------------------------------------
(* process_bulk_upload_task *)

\* The outer exception handler: one more error, done, no error file.
Fail(t) ==
    /\ task' = [task EXCEPT ![t].error = @ + 1, ![t].done = TRUE]
    /\ job' = [job EXCEPT ![t] = "over"]
    /\ Note("failed", TRUE)

\* Mutant: a file that cannot be read ends the work, but not the task.
ReadWithoutDone(t) ==
    /\ job[t] = "read"
    /\ \/ /\ \E n \in Rows : task' = [task EXCEPT ![t].total = n]
          /\ job' = [job EXCEPT ![t] = "rows"]
          /\ UNCHANGED mishap
       \/ /\ task' = [task EXCEPT ![t].error = @ + 1]
          /\ job' = [job EXCEPT ![t] = "over"]
          /\ Note("failed", TRUE)
    /\ UNCHANGED <<file, timers, poll, page>>

\* pd.read_excel and the total, up to the await of the collection.
ReadFile(t) ==
    /\ job[t] = "read"
    /\ \/ /\ \E n \in Rows : task' = [task EXCEPT ![t].total = n]
          /\ job' = [job EXCEPT ![t] = "rows"]
          /\ UNCHANGED mishap
       \/ Fail(t)
    /\ UNCHANGED <<file, timers, poll, page>>

\* Mutant: the task is done with its last row.
RowsDone(t) ==
    /\ job[t] = "rows"
    /\ \/ /\ \E s \in 0..task[t].total :
                 task' = [task EXCEPT ![t].success = s, ![t].done = TRUE,
                                      ![t].error = task[t].total - s]
          /\ job' = [job EXCEPT ![t] = "save"]
          /\ UNCHANGED mishap
       \/ Fail(t)
    /\ UNCHANGED <<file, timers, poll, page>>

\* The loop over the rows never yields to the event loop: a row is stored, or
\* counted as an error.  The load of the collection before it may fail.
UploadRows(t) ==
    /\ job[t] = "rows"
    /\ \/ /\ \E s \in 0..task[t].total :
                 task' = [task EXCEPT ![t].success = s,
                                      ![t].error = task[t].total - s]
          /\ job' = [job EXCEPT ![t] = "save"]
          /\ UNCHANGED mishap
       \/ Fail(t)
    /\ UNCHANGED <<file, timers, poll, page>>

\* Mutant: the error file is written but not registered with the task.
SaveUnregistered(t) ==
    /\ job[t] = "save"
    /\ task' = [task EXCEPT ![t].done = TRUE]
    /\ file' = IF task[t].error > 0 THEN [file EXCEPT ![t] = task[t].error] ELSE file
    /\ job' = [job EXCEPT ![t] = "over"]
    /\ UNCHANGED <<timers, poll, page, mishap>>

\* The session is closed, the failed rows are written to the error file; both
\* may fail.
SaveErrors(t) ==
    /\ job[t] = "save"
    /\ \/ /\ task' = [task EXCEPT ![t].done = TRUE,
                                  ![t].errorFile = task[t].error > 0]
          /\ file' = IF task[t].error > 0 THEN [file EXCEPT ![t] = task[t].error]
                                          ELSE file
          /\ job' = [job EXCEPT ![t] = "over"]
          /\ UNCHANGED mishap
       \/ Fail(t) /\ UNCHANGED file
    /\ UNCHANGED <<timers, poll, page>>

\* The process restarts: the tasks and the polls on their way to it are lost.
Restart ==
    /\ MayRestart
    /\ \E t \in Tasks : task[t] # None
    /\ task' = [t \in Tasks |-> None]
    /\ job' = [t \in Tasks |-> IF job[t] \in {"none", "over"} THEN job[t] ELSE "lost"]
    /\ poll' = [i \in Polls |->
                  IF poll[i] # None /\ ~poll[i].back THEN None ELSE poll[i]]
    /\ Note("restart", TRUE)
    /\ UNCHANGED <<file, timers, page>>

-----------------------------------------------------------------------------
(* pollProgress *)

\* The interval of t fires and sends a poll.
SendPoll(t) ==
    /\ t \in timers
    /\ \E i \in Polls :
           /\ poll[i] = None
           /\ poll' = [poll EXCEPT ![i] = [task |-> t, back |-> FALSE, answer |-> None]]
    /\ UNCHANGED <<task, job, file, timers, page, mishap>>

\* get_bulk_progress answers with the status as it is now, or a 404.
AnswerPoll(t) ==
    /\ \E i \in Polls :
           /\ poll[i] # None /\ poll[i].task = t /\ ~poll[i].back
           /\ poll' = [poll EXCEPT ![i].back = TRUE, ![i].answer = task[t]]
    /\ UNCHANGED <<task, job, file, timers, page, mishap>>

\* The request or its answer is lost.
LosePoll(i) ==
    /\ poll[i] # None /\ poll[i].answer = None
    /\ poll' = [poll EXCEPT ![i] = None]
    /\ UNCHANGED <<task, job, file, timers, page, mishap>>

\* Mutant: the page takes the counts for the end of the upload.
ReceiveAllCounted(i) ==
    LET status == poll[i].answer
        isLast == status.success + status.error >= status.total
    IN  /\ poll[i] # None /\ poll[i].answer # None
        /\ page' = [page EXCEPT !.total = status.total, !.success = status.success,
                                !.error = status.error,
                                !.over = @ \/ isLast,
                                !.offer = @ \/ (isLast /\ status.error > 0)]
        /\ timers' = IF isLast THEN timers \ {poll[i].task} ELSE timers
        /\ Note("late", poll[i].task \notin timers)
        /\ poll' = [poll EXCEPT ![i] = None]
        /\ UNCHANGED <<task, job, file>>

\* The answer is shown, whichever upload and however old it is.
ReceivePoll(i) ==
    LET status == poll[i].answer
    IN  /\ poll[i] # None /\ poll[i].answer # None
        /\ page' = [page EXCEPT !.total = status.total, !.success = status.success,
                                !.error = status.error,
                                !.over = @ \/ status.done,
                                !.offer = @ \/ (status.done /\ status.error > 0)]
        /\ timers' = IF status.done THEN timers \ {poll[i].task} ELSE timers
        /\ Note("late", poll[i].task \notin timers)
        /\ poll' = [poll EXCEPT ![i] = None]
        /\ UNCHANGED <<task, job, file>>

-----------------------------------------------------------------------------

Work(t) == ReadFile(t) \/ UploadRows(t) \/ SaveErrors(t)

Next ==
    \/ \E t \in Tasks : StartUpload(t) \/ Work(t) \/ SendPoll(t) \/ AnswerPoll(t)
    \/ UploadAnswered \/ UploadLost \/ CloseProgress
    \/ \E i \in Polls : LosePoll(i) \/ ReceivePoll(i)
    \/ Restart

\* The event loop runs a scheduled task to its end, the interval keeps firing,
\* and of the polls of an upload some are answered: not all of them are lost.
Fairness ==
    /\ \A t \in Tasks : WF_vars(Work(t)) /\ WF_vars(SendPoll(t))
    /\ \A t \in Tasks : SF_vars(AnswerPoll(t))
    /\ \A i \in Polls : WF_vars(ReceivePoll(i)) /\ WF_vars(LosePoll(i))
    /\ WF_vars(UploadAnswered \/ UploadLost)

Spec == Init /\ [][Next]_vars /\ Fairness

-----------------------------------------------------------------------------
(* Properties *)

(* The page says "completed" only of an upload whose work is over, the one *)
(* its download button asks for, and with its final counts, for as long as *)
(* the server knows them -- whatever was shown or lost before, unless a    *)
(* poll of an earlier upload was still under way at the start of this one, *)
(* or an older answer came later.  All state has its type.                 *)
CompletedIsFinal ==
    /\ BulkTypeOK
    /\ page.over /\ "late" \notin mishap =>
         /\ page.upload = None
         /\ page.current # None /\ job[page.current] = "over"
         /\ task[page.current] # None =>
              LET status == task[page.current]
              IN  /\ page.total = status.total
                  /\ page.success = status.success
                  /\ page.error = status.error

(* A download button that is offered has a file behind it, and the file    *)
(* lists every row that the page counts as an error.  It is offered for a  *)
(* file that cannot be read, too, or after a failure of the database or of *)
(* the file's own writing, and then answered with a 404.                   *)
NoDeadDownload ==
    page.offer /\ mishap = {} =>
        /\ task[page.current].errorFile
        /\ file[page.current] = page.error

(* The overlay goes away or can be closed at last, whatever rows or files  *)
(* fail and however many polls are lost; only a restart leaves the page    *)
(* polling a task nobody knows for ever.                                   *)
PageFreed ==
    page.overlay ~> (~page.overlay \/ page.over \/ "restart" \in mishap)
=============================================================================
