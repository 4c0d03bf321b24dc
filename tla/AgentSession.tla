----------------------------- MODULE AgentSession -----------------------------
(***************************************************************************)
(* One agent session (backend/app/agents): executions started or resumed   *)
(* by requests and jobs, cancellations, and operators who decide approval  *)
(* requests, each in a database transaction of its own.  An UPDATE holds   *)
(* its row until the transaction commits; a read sees what is committed    *)
(* and the transaction's own writes; a loaded object is not read again     *)
(* (expire_on_commit=False).  A step stands for its plan position.         *)
(***************************************************************************)
EXTENDS Naturals, Sequences, FiniteSets

CONSTANTS Executions,   \* calls of execute_session, each in a transaction
          Cancellers,   \* calls of cancel_session
          PlanLength,   \* number of steps; steps are 1..PlanLength
          Gated,        \* steps behind the approval gate
          Idempotent,   \* steps whose tool is idempotent
          Committing    \* steps whose tool commits the session it is given

ASSUME AgentAssumption == PlanLength \in Nat /\ Gated \cup Idempotent \cup Committing \subseteq 1..PlanLength

VARIABLES row,          \* the committed session: status, and whether started_at is set
          stepRows,     \* the committed status of each step
          checkpoints,  \* steps with a committed checkpoint
          requests,     \* approval requests of each step, the newest last
          execution,    \* what each execution has loaded and flushed
          cancelling,   \* where each cancellation is
          approved      \* steps that were ever approved (history)

agentVars == <<row, stepRows, checkpoints, requests, execution, cancelling, approved>>

Terminal == {"completed", "cancelled", "failed", "budget_exceeded"}
CanExecute == {"planned", "awaiting_approval", "paused"}
Steps == 1..PlanLength
StepStatuses == {"pending", "running", "completed", "failed"}

AgentTypeOK ==
    /\ row \in [status : Terminal \cup CanExecute \cup {"executing"}, started : BOOLEAN]
    /\ stepRows \in [Steps -> StepStatuses]
    /\ checkpoints \in SUBSET Steps
    /\ \A s \in Steps : Len(requests[s]) <= Cardinality(Executions)
    /\ \A e \in Executions : LET x == execution[e] IN
          /\ x.at \in {"new", "resume", "begin", "memory", "load", "check", "gate", "ask", "await", "run", "lookup",
                       "execute", "done", "raised", "finish", "over"}
          /\ x.status \in Terminal \cup CanExecute \cup {"executing"}
          /\ x.step \in 1..(PlanLength + 1)
          /\ x.steps \in [Steps -> StepStatuses]
          /\ x.rows \cup x.saved \subseteq Steps
    /\ cancelling \in [Cancellers -> {"new", "loaded", "done"}]
    /\ approved \subseteq Gated

Idle == [at |-> "new", status |-> "planned", started |-> FALSE, step |-> 1,
         steps |-> [s \in Steps |-> "pending"], held |-> FALSE, asks |-> FALSE, rows |-> {}, saved |-> {},
         sets |-> FALSE]

(* create_session commits the session planned and every step pending.      *)
AgentInit ==
    /\ row = [status |-> "planned", started |-> FALSE]
    /\ stepRows = [s \in Steps |-> "pending"]
    /\ checkpoints = {}
    /\ requests = [s \in Steps |-> <<>>]
    /\ execution = [e \in Executions |-> Idle]
    /\ cancelling = [c \in Cancellers |-> "new"]
    /\ approved = {}
-----------------------------------------------------------------------------
Executes(e, x) == execution' = [execution EXCEPT ![e] = x]
At(e, place) == execution[e].at = place

(* Rows another transaction has updated must wait for its commit.          *)
SessionFree(e) == \A d \in Executions \ {e} : ~execution[d].held
StepFree(e, s) == \A d \in Executions \ {e} : s \notin execution[d].rows

(* A commit publishes what the transaction flushed and frees its rows; of  *)
(* the session, the status only if it was set.                             *)
Publishes(e, x) ==
    /\ row' = [status |-> IF x.sets THEN x.status ELSE row.status,
               started |-> row.started \/ (x.held /\ x.started)]
    /\ stepRows' = [s \in Steps |-> IF s \in x.rows THEN x.steps[s] ELSE stepRows[s]]
    /\ checkpoints' = checkpoints \cup x.saved
    /\ Executes(e, [x EXCEPT !.held = FALSE, !.sets = FALSE, !.rows = {}, !.saved = {}])

Database == <<row, stepRows, checkpoints>>
-----------------------------------------------------------------------------
(* start_session: the session is executing already or may be.              *)
Start(e) ==
    /\ At(e, "new") /\ row.status \in CanExecute \cup {"executing"}
    /\ Executes(e, [execution[e] EXCEPT !.at = "begin", !.status = row.status, !.started = row.started])
    /\ UNCHANGED <<Database, requests, cancelling, approved>>

(* resume_session loads a session that may execute ...                     *)
Resume(e) ==
    /\ At(e, "new") /\ row.status \in CanExecute
    /\ Executes(e, [execution[e] EXCEPT !.at = "resume", !.status = "executing", !.started = row.started])
    /\ UNCHANGED <<Database, requests, cancelling, approved>>

(* ... and commits it executing, whatever became of it meanwhile.          *)
ResumeCommits(e) ==
    /\ At(e, "resume") /\ SessionFree(e)
    /\ row' = [row EXCEPT !.status = "executing"]
    /\ Executes(e, [execution[e] EXCEPT !.at = "begin"])
    /\ UNCHANGED <<stepRows, checkpoints, requests, cancelling, approved>>

(* Only changed columns are written: a resumed session that was started    *)
(* before is not updated, and its row not held.                            *)
Begin(e) ==
    LET x == execution[e]
        changes == x.status # "executing" \/ ~x.started IN
    /\ x.at = "begin"
    /\ changes => SessionFree(e)
    /\ Executes(e, [x EXCEPT !.at = "memory", !.status = "executing", !.started = TRUE,
                             !.held = changes, !.sets = x.status # "executing"])
    /\ UNCHANGED <<Database, requests, cancelling, approved>>

(* search_memories commits the session it is given; if it raises, the      *)
(* error is dropped and nothing is committed.                              *)
SearchMemories(e) ==
    /\ At(e, "memory")
    /\ Publishes(e, [execution[e] EXCEPT !.at = "load"])
    /\ UNCHANGED <<requests, cancelling, approved>>

MemoryRaises(e) ==
    /\ At(e, "memory")
    /\ Executes(e, [execution[e] EXCEPT !.at = "load"])
    /\ UNCHANGED <<Database, requests, cancelling, approved>>

LoadSteps(e) ==
    /\ At(e, "load")
    /\ Executes(e, [execution[e] EXCEPT !.at = "check", !.steps = stepRows])
    /\ UNCHANGED <<Database, requests, cancelling, approved>>

(* check_cancelled reads the status that is committed, or set by the       *)
(* transaction itself; completed steps are passed over.                    *)
Check(e) ==
    LET x == execution[e]
        cancelled == ~x.sets /\ row.status = "cancelled" IN
    /\ x.at = "check"
    /\ Executes(e,
         IF x.step > PlanLength THEN [x EXCEPT !.at = "finish", !.status = "completed"]
         ELSE IF cancelled THEN [x EXCEPT !.at = "finish", !.status = "failed"]
         ELSE IF x.steps[x.step] = "completed" THEN [x EXCEPT !.step = @ + 1]
         ELSE [x EXCEPT !.at = IF x.step \in Gated THEN "gate" ELSE "run"])
    /\ UNCHANGED <<Database, requests, cancelling, approved>>

(* ensure_approved_or_raise looks at the newest request of the step.       *)
Newest(s) == IF requests[s] = <<>> THEN "pending" ELSE requests[s][Len(requests[s])]

(* Mutant: the gate stops a step only when its request was rejected.       *)
GateLetsPending(e) ==
    LET x == execution[e] IN
    /\ x.at = "gate"
    /\ Executes(e, IF Newest(x.step) = "rejected" THEN [x EXCEPT !.at = "finish", !.status = "failed"]
                   ELSE [x EXCEPT !.at = "run"])
    /\ UNCHANGED <<Database, requests, cancelling, approved>>

Gate(e) ==
    LET x == execution[e] IN
    /\ x.at = "gate"
    /\ Executes(e, CASE Newest(x.step) = "approved" -> [x EXCEPT !.at = "run"]
                     [] Newest(x.step) = "rejected" -> [x EXCEPT !.at = "finish", !.status = "failed"]
                     [] Newest(x.step) = "pending"  -> [x EXCEPT !.at = "ask"])
    /\ UNCHANGED <<Database, requests, cancelling, approved>>

(* None is decided: a request is made unless the list has one ...          *)
AskApproval(e) ==
    LET x == execution[e] IN
    /\ x.at = "ask"
    /\ Executes(e, [x EXCEPT !.at = "await", !.asks = requests[x.step] = <<>>])
    /\ UNCHANGED <<Database, requests, cancelling, approved>>

(* ... and the execution ends with the session awaiting approval.  A       *)
(* request is dated by the beginning of its transaction: requests of       *)
(* overlapping ones may stand in either order.                             *)
AwaitApproval(e) ==
    LET x == execution[e] IN
    /\ x.at = "await" /\ SessionFree(e)
    /\ \/ ~x.asks /\ UNCHANGED requests
       \/ x.asks /\ requests' = [requests EXCEPT ![x.step] = Append(@, "pending")]
       \/ x.asks /\ requests' = [requests EXCEPT ![x.step] = <<"pending">> \o @]
    /\ Publishes(e, [x EXCEPT !.at = "over", !.status = "awaiting_approval", !.held = TRUE, !.sets = TRUE,
                          !.asks = FALSE])
    /\ UNCHANGED <<cancelling, approved>>

(* The step is flushed as running, which takes its row.                    *)
RunStep(e) ==
    LET x == execution[e]
        changes == x.steps[x.step] # "running" IN
    /\ x.at = "run"
    /\ changes => StepFree(e, x.step)
    /\ Executes(e, [x EXCEPT !.at = "lookup", !.steps[x.step] = "running",
                             !.rows = IF changes THEN @ \cup {x.step} ELSE @])
    /\ UNCHANGED <<Database, requests, cancelling, approved>>

(* execute_step: the checkpoint of an idempotent tool replaces its run.    *)
LookUp(e) ==
    LET x == execution[e]
        cached == x.step \in Idempotent /\ x.step \in checkpoints \cup x.saved IN
    /\ At(e, "lookup")
    /\ Executes(e, [x EXCEPT !.at = IF cached THEN "done" ELSE "execute"])
    /\ UNCHANGED <<Database, requests, cancelling, approved>>

(* The services behind some tools commit what the execution has flushed.   *)
ToolCommits(e) ==
    /\ At(e, "execute") /\ execution[e].step \in Committing
    /\ Publishes(e, execution[e])
    /\ UNCHANGED <<requests, cancelling, approved>>

ToolReturns(e) ==
    /\ At(e, "execute")
    /\ Executes(e, [execution[e] EXCEPT !.at = "done"])
    /\ UNCHANGED <<Database, requests, cancelling, approved>>

(* A preflight check or the tool raises, or the budget is spent after it.  *)
StepRaises(e, status) ==
    /\ execution[e].at \in {"lookup", "execute"}
    /\ status \in {"failed", "budget_exceeded"}
    /\ Executes(e, [execution[e] EXCEPT !.at = "raised", !.status = status])
    /\ UNCHANGED <<Database, requests, cancelling, approved>>

(* The step, its checkpoint and current_step are flushed.                  *)
StepDone(e) ==
    LET x == execution[e] IN
    /\ x.at = "done" /\ StepFree(e, x.step) /\ SessionFree(e)
    /\ Executes(e, [x EXCEPT !.at = "check", !.step = @ + 1, !.steps[x.step] = "completed",
                             !.rows = @ \cup {x.step}, !.saved = @ \cup {x.step}, !.held = TRUE])
    /\ UNCHANGED <<Database, requests, cancelling, approved>>

StepFails(e) ==
    LET x == execution[e] IN
    /\ x.at = "raised" /\ StepFree(e, x.step)
    /\ Executes(e, [x EXCEPT !.at = "finish", !.steps[x.step] = "failed", !.rows = @ \cup {x.step}])
    /\ UNCHANGED <<Database, requests, cancelling, approved>>

(* The outcome is written over whatever the row holds by then.             *)
Finish(e) ==
    /\ At(e, "finish") /\ SessionFree(e)
    /\ Publishes(e, [execution[e] EXCEPT !.at = "over", !.held = TRUE, !.sets = TRUE])
    /\ UNCHANGED <<requests, cancelling, approved>>

(* The process dies, or the database aborts a transaction that waits in a  *)
(* circle: what was not committed is gone.                                 *)
ExecutionDies(e) ==
    /\ execution[e].at \notin {"new", "over"}
    /\ Executes(e, [Idle EXCEPT !.at = "over"])
    /\ UNCHANGED <<Database, requests, cancelling, approved>>

(* cancel_session checks the transition on what it loads ...               *)
LoadToCancel(c) ==
    /\ cancelling[c] = "new" /\ row.status \notin Terminal
    /\ cancelling' = [cancelling EXCEPT ![c] = "loaded"]
    /\ UNCHANGED <<Database, requests, execution, approved>>

(* ... and writes when the row is free.                                    *)
CancelCommits(c) ==
    /\ cancelling[c] = "loaded" /\ \A e \in Executions : ~execution[e].held
    /\ cancelling' = [cancelling EXCEPT ![c] = "done"]
    /\ row' = [row EXCEPT !.status = "cancelled"]
    /\ UNCHANGED <<stepRows, checkpoints, requests, execution, approved>>

(* An operator approves or rejects any request, decided or not.            *)
Decide(s, k, decision) ==
    /\ k \in DOMAIN requests[s] /\ decision \in {"approved", "rejected"}
    /\ requests' = [requests EXCEPT ![s][k] = decision]
    /\ approved' = IF decision = "approved" THEN approved \cup {s} ELSE approved
    /\ UNCHANGED <<Database, execution, cancelling>>

AgentNext ==
    \/ \E e \in Executions :
          \/ Start(e) \/ Resume(e) \/ ResumeCommits(e) \/ Begin(e) \/ SearchMemories(e) \/ MemoryRaises(e)
          \/ LoadSteps(e) \/ Check(e) \/ Gate(e) \/ AskApproval(e) \/ AwaitApproval(e) \/ RunStep(e) \/ LookUp(e)
          \/ ToolCommits(e) \/ ToolReturns(e) \/ StepDone(e) \/ StepFails(e) \/ Finish(e) \/ ExecutionDies(e)
          \/ \E status \in {"failed", "budget_exceeded"} : StepRaises(e, status)
    \/ \E c \in Cancellers : LoadToCancel(c) \/ CancelCommits(c)
    \/ \E s \in Gated, decision \in {"approved", "rejected"} :
          \E k \in 1..Len(requests[s]) : Decide(s, k, decision)

AgentSpec == AgentInit /\ [][AgentNext]_agentVars
-----------------------------------------------------------------------------
ToolRunning(e) == execution[e].at = "execute"

(* An idempotent tool is not run again once its result is committed,       *)
(* however many executions overlap: the row of the step, taken when it is  *)
(* flushed as running, orders them before they look for the checkpoint.    *)
(* Tools that commit in the middle give that row up and are excepted.  A   *)
(* gated tool runs only when an operator approved the step at some time,   *)
(* and a session that awaits approval has a request to decide.             *)
StepsRunAsApproved ==
    /\ \A e \in Executions : LET s == execution[e].step IN
          ToolRunning(e) => /\ s \in Idempotent \ Committing => s \notin checkpoints
                            /\ s \in Gated => s \in approved
    /\ row.status = "awaiting_approval" => \E s \in Gated : requests[s] # <<>>

(* The architecture document: a terminal session does not become active.   *)
TerminalIsFinal == [][row.status \in Terminal => row'.status \in Terminal]_agentVars
===============================================================================
