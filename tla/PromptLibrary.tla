---------------------------- MODULE PromptLibrary ----------------------------
(***************************************************************************)
(* The prompt library on the server: PromptService (libs/core/service.py)  *)
(* over the table prompts, behind the prompt endpoints of apps/api/api.py. *)
(* A prompt belongs to the user who created it for good; others may read   *)
(* it while it is public.                                                  *)
(*                                                                         *)
(* A read awaits the database once and is one step.  A change loads the    *)
(* row, decides, and commits: two steps, and any number of requests        *)
(* interleave.  The refresh after a commit changes nothing.                *)
(*                                                                         *)
(* Of title and content the model keeps which prompt they were written     *)
(* for, `text`.  Ids are serial and never used again.                      *)
(***************************************************************************)
EXTENDS Naturals, FiniteSets

CONSTANTS
    Users,     \* OIDC subjects
    Ids,       \* prompt ids
    Requests,  \* slots for changes served concurrently
    None

ASSUME LibraryAssumption == None \notin Users \cup Ids

VARIABLES
    row,       \* the row of each id, None if there is none
    spent,     \* ids drawn so far
    req        \* the change in each slot

libraryVars == <<row, spent, req>>

Row == [owner : Users, public : BOOLEAN, text : Ids]

\* dirty: is_public differs from the value that was loaded, so the UPDATE of
\* the ORM has the column.
Request ==
    [pc : {"idle", "loaded"},
     op : {"none", "update", "delete"},
     user : Users \cup {None},
     id : Ids \cup {None},
     text : Ids \cup {None},
     public : BOOLEAN,
     dirty : BOOLEAN]

Idle ==
    [pc |-> "idle", op |-> "none", user |-> None, id |-> None, text |-> None,
     public |-> FALSE, dirty |-> FALSE]

LibraryTypeOK ==
    /\ row \in [Ids -> Row \cup {None}]
    /\ spent \subseteq Ids
    /\ \A i \in Ids : row[i] # None => i \in spent
    /\ req \in [Requests -> Request]

LibraryInit ==
    /\ row = [i \in Ids |-> None]
    /\ spent = {}
    /\ req = [w \in Requests |-> Idle]

-----------------------------------------------------------------------------

\* get_prompt answers with the prompt, else 404 or 403.
MayRead(u, i) == row[i] # None /\ (row[i].owner = u \/ row[i].public)

\* search: the ids listed for u.
Listed(u, includeOthers) ==
    {i \in Ids : row[i] # None /\ (row[i].owner = u \/ (includeOthers /\ row[i].public))}

\* Mutant: whoever may read a prompt may change it.
MayChangeIfReadable(u, i) == row[i] # None /\ (row[i].owner = u \/ row[i].public)

\* The decision of update_prompt and delete_prompt, else 404 or 403.
MayChange(u, i) == row[i] # None /\ row[i].owner = u

CreatePrompt(u, i, public) ==
    /\ i \notin spent
    /\ row' = [row EXCEPT ![i] = [owner |-> u, public |-> public, text |-> i]]
    /\ spent' = spent \cup {i}
    /\ UNCHANGED req

\* update_prompt up to its commit, with text and visibility as sent.
UpdatePrompt(w, u, i, text, public) ==
    /\ req[w].pc = "idle"
    /\ MayChange(u, i)
    /\ req' = [req EXCEPT ![w] =
         [pc |-> "loaded", op |-> "update", user |-> u, id |-> i, text |-> text,
          public |-> public, dirty |-> public # row[i].public]]
    /\ UNCHANGED <<row, spent>>

\* delete_prompt up to its commit
DeletePrompt(w, u, i) ==
    /\ req[w].pc = "idle"
    /\ MayChange(u, i)
    /\ req' = [req EXCEPT ![w] =
         [Idle EXCEPT !.pc = "loaded", !.op = "delete", !.user = u, !.id = i]]
    /\ UNCHANGED <<row, spent>>

\* The UPDATE of a row that is gone raises; the DELETE of one does not.
CommitChange(w) ==
    LET r == req[w]
    IN  /\ r.pc = "loaded"
        /\ row' = IF r.op = "delete" THEN [row EXCEPT ![r.id] = None]
                  ELSE IF row[r.id] = None THEN row
                  ELSE [row EXCEPT ![r.id].text = r.text,
                                   ![r.id].public = IF r.dirty THEN r.public ELSE @]
        /\ req' = [req EXCEPT ![w] = Idle]
        /\ UNCHANGED spent

\* The database or the process fails before the commit.
ChangeFails(w) ==
    /\ req[w].pc = "loaded"
    /\ req' = [req EXCEPT ![w] = Idle]
    /\ UNCHANGED <<row, spent>>
=============================================================================
