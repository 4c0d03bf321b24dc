----------------------------- MODULE JobLifecycle -----------------------------
(***************************************************************************)
(* The state machine of a job record: backend/app/jobs/lifecycle.py.       *)
(*                                                                         *)
(* A mark_* method validates the transition against the status of the ORM  *)
(* object in the caller's memory, assigns to the object, and commits.  The *)
(* commit is an UPDATE of the assigned columns alone, whatever the row     *)
(* holds by then, so each method is modelled as two operators: whether it  *)
(* is accepted (CanMove on the status in memory) and what its UPDATE makes *)
(* of the row.                                                             *)
(***************************************************************************)
EXTENDS Naturals

Statuses == {"QUEUED", "RUNNING", "RETRY_SCHEDULED", "COMPLETED", "FAILED",
             "CANCELLED", "DEAD_LETTER"}

ALLOWED_TRANSITIONS ==
    [ QUEUED          |-> {"RUNNING", "CANCELLED"},
      RUNNING         |-> {"COMPLETED", "FAILED", "RETRY_SCHEDULED", "CANCELLED"},
      RETRY_SCHEDULED |-> {"QUEUED", "RUNNING", "CANCELLED"},
      FAILED          |-> {"DEAD_LETTER", "QUEUED"},
      DEAD_LETTER     |-> {"QUEUED"},
      COMPLETED       |-> {},
      CANCELLED       |-> {} ]

(* validate_transition does not raise; a status it does not list has no    *)
(* way out.                                                                *)
CanMove(from, to) ==
    /\ from \in DOMAIN ALLOWED_TRANSITIONS
    /\ to \in ALLOWED_TRANSITIONS[from]

(* mark_dead_letter first turns a RUNNING object into a FAILED one, in     *)
(* memory; the FAILED status itself is never committed.                    *)
CanBury(from) == CanMove(IF from = "RUNNING" THEN "FAILED" ELSE from, "DEAD_LETTER")

(* The row of a job that was never created.                                *)
NoRow == [status |-> "ABSENT", attempt |-> 0]
NewRow == [status |-> "QUEUED", attempt |-> 0]
Rows == {NoRow} \cup [status : Statuses, attempt : Nat]

(* mark_running writes the status and the incremented attempt of memory;   *)
(* every other mark leaves the attempt column alone, mark_queued included. *)
MarkRunning(row, attempt) == [row EXCEPT !.status = "RUNNING", !.attempt = attempt + 1]
MarkAs(row, status) == [row EXCEPT !.status = status]

Terminal == {"COMPLETED", "CANCELLED", "DEAD_LETTER"}
Active   == {"QUEUED", "RUNNING", "RETRY_SCHEDULED"}
===============================================================================
