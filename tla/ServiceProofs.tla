----------------------------- MODULE ServiceProofs -----------------------------
(***************************************************************************)
(* Services that many requests share, for any number of them: the agent    *)
(* session that executions, cancellations and operators write at once, the *)
(* breakers of the gateway that concurrent calls report to, and the stream *)
(* of an answer that watchers join, follow and leave.                      *)
(***************************************************************************)
EXTENDS AgentSession, LlmGateway, AskStream, SequenceTheorems, FiniteSetTheorems, TLAPS
-----------------------------------------------------------------------------
(***************************************************************************)
(* An agent session.                                                       *)
(***************************************************************************)
Outside == {"new", "resume", "begin", "over"}
Loading == {"memory", "load"}
AtStep == {"gate", "ask", "await", "run", "lookup", "execute", "done", "raised"}
Running == {"lookup", "execute", "done", "raised"}
SessionStatus == Terminal \cup CanExecute \cup {"executing"}
Decisions == {"pending", "approved", "rejected"}
SessionRows == [status : SessionStatus, started : BOOLEAN]
ExecutionCalls ==
    [at : Outside \cup Loading \cup {"check", "finish"} \cup AtStep, status : SessionStatus, started : BOOLEAN,
     step : Nat \ {0}, steps : [Steps -> StepStatuses], held : BOOLEAN, asks : BOOLEAN,
     rows : SUBSET Steps, saved : SUBSET Steps, sets : BOOLEAN]

AgentTablesOK ==
    /\ row \in SessionRows /\ stepRows \in [Steps -> StepStatuses] /\ checkpoints \subseteq Steps
    /\ requests \in [Steps -> Seq(Decisions)]
    /\ execution \in [Executions -> ExecutionCalls]

(* What an execution holds where it is.  A row it takes is kept until it   *)
(* publishes; only a tool that commits publishes a step as running, so     *)
(* that whoever runs another step has flushed it and holds its row.        *)
Holds(x) ==
    /\ x.at \in Outside => ~x.held
    /\ x.at \in Outside \cup Loading => x.rows = {}
    /\ x.saved \subseteq x.rows
    /\ x.at \notin Outside => x.status # "awaiting_approval"
    /\ x.at \in AtStep => x.step \in Steps
    /\ x.at \in Running => x.steps[x.step] = "running"
    /\ \A s \in Steps \ Committing :
          x.steps[s] = "running" => x.at \in Running /\ s = x.step /\ s \in x.rows

(* What it relies on: the decision it has read, and the checkpoint it has  *)
(* not found.                                                              *)
Relies(x, petitions, kept, allowed) ==
    /\ x.at \in {"gate", "ask", "await"} => x.step \in Gated
    /\ x.at = "await" => x.asks \/ petitions[x.step] # <<>>
    /\ x.at \in {"run"} \cup Running /\ x.step \in Gated => x.step \in allowed
    /\ x.at = "execute" /\ x.step \in Idempotent \ Committing => x.step \notin kept

RowsAreApart ==
    \A e, d \in Executions : e # d => execution[e].rows \cap execution[d].rows = {}

OnlyToolsPublish(steps) == \A s \in Steps \ Committing : steps[s] # "running"
Recorded(petitions, allowed) ==
    \A s \in Steps : \A k \in DOMAIN petitions[s] : petitions[s][k] = "approved" => s \in allowed
Answerable(session, petitions) == session.status = "awaiting_approval" => \E s \in Gated : petitions[s] # <<>>

AgentInv ==
    /\ AgentTablesOK /\ RowsAreApart
    /\ \A e \in Executions : Holds(execution[e]) /\ Relies(execution[e], requests, checkpoints, approved)
    /\ OnlyToolsPublish(stepRows) /\ Recorded(requests, approved) /\ Answerable(row, requests)
-----------------------------------------------------------------------------
LEMMA AgentInitInv == AgentInit => AgentInv
  <1> SUFFICES ASSUME AgentInit  PROVE AgentInv
    OBVIOUS
  <1>1. Idle \in ExecutionCalls
    BY DEF Idle, ExecutionCalls, SessionStatus, CanExecute, Outside, StepStatuses
  <1>2. Idle.at = "new" /\ ~Idle.held /\ Idle.rows = {} /\ Idle.saved = {} /\ \A s \in Steps : Idle.steps[s] = "pending"
    BY DEF Idle
  <1>3. AgentTablesOK
    <2>1. row \in SessionRows /\ stepRows \in [Steps -> StepStatuses] /\ checkpoints \subseteq Steps
      BY DEF AgentInit, SessionRows, SessionStatus, CanExecute, StepStatuses
    <2>2. <<>> \in Seq(Decisions)
      BY EmptySeq
    <2> QED
      BY <1>1, <2>1, <2>2 DEF AgentTablesOK, AgentInit
  <1>4. RowsAreApart
    BY <1>2 DEF AgentInit, RowsAreApart
  <1>5. ASSUME NEW e \in Executions
        PROVE  Holds(execution[e]) /\ Relies(execution[e], requests, checkpoints, approved)
    <2>1. execution[e] = Idle
      BY DEF AgentInit
    <2> QED
      BY <2>1, <1>2 DEF Holds, Relies, Outside, Loading, AtStep, Running
  <1>6. OnlyToolsPublish(stepRows) /\ Recorded(requests, approved) /\ Answerable(row, requests)
    BY DEF AgentInit, OnlyToolsPublish, Recorded, Answerable
  <1> QED
    BY <1>3, <1>4, <1>5, <1>6 DEF AgentInv

LEMMA AgentFacts ==
  ASSUME AgentInv
  PROVE  /\ row \in SessionRows /\ stepRows \in [Steps -> StepStatuses] /\ checkpoints \subseteq Steps
         /\ requests \in [Steps -> Seq(Decisions)] /\ execution \in [Executions -> ExecutionCalls]
         /\ \A e \in Executions : Holds(execution[e])
            /\ Relies(execution[e], requests, checkpoints, approved)
         /\ \A e, d \in Executions : e # d => execution[e].rows \cap execution[d].rows = {}
         /\ OnlyToolsPublish(stepRows) /\ Recorded(requests, approved) /\ Answerable(row, requests)
  BY DEF AgentInv, AgentTablesOK, RowsAreApart

(* An execution goes on, and leaves to the others what they rely on.       *)
LEMMA ExecutionGoesOn ==
  ASSUME AgentInv, NEW e \in Executions, NEW x \in ExecutionCalls, execution' = [execution EXCEPT ![e] = x],
         row' \in SessionRows, stepRows' \in [Steps -> StepStatuses], checkpoints' \subseteq Steps,
         requests' \in [Steps -> Seq(Decisions)],
         Holds(x), Relies(x, requests', checkpoints', approved'),
         \A d \in Executions \ {e} : Relies(execution[d], requests', checkpoints', approved'),
         \A d \in Executions \ {e} : x.rows \cap execution[d].rows = {},
         OnlyToolsPublish(stepRows'), Recorded(requests', approved'), Answerable(row', requests')
  PROVE  AgentInv'
  <1>1. execution \in [Executions -> ExecutionCalls]
    BY AgentFacts
  <1>2. execution'[e] = x /\ \A d \in Executions \ {e} : execution'[d] = execution[d]
    BY <1>1
  <1>3. AgentTablesOK'
    BY <1>1 DEF AgentTablesOK
  <1>4. RowsAreApart'
    <2> SUFFICES ASSUME NEW i \in Executions, NEW j \in Executions, i # j
                 PROVE  execution'[i].rows \cap execution'[j].rows = {}
      BY DEF RowsAreApart
    <2>1. i # e /\ j # e => execution[i].rows \cap execution[j].rows = {}
      BY AgentFacts
    <2> QED
      BY <1>2, <2>1
  <1>5. ASSUME NEW d \in Executions
        PROVE  Holds(execution'[d]) /\ Relies(execution'[d], requests', checkpoints', approved')
    BY <1>2, AgentFacts
  <1>6. (\A d \in Executions : Holds(execution[d]) /\ Relies(execution[d], requests, checkpoints, approved))'
    BY <1>5
  <1> QED
    BY <1>3, <1>4, <1>6 DEF AgentInv

(* ... by a step that stays within its transaction.                        *)
LEMMA ExecutionWorks ==
  ASSUME AgentInv, NEW e \in Executions, NEW x \in ExecutionCalls, execution' = [execution EXCEPT ![e] = x],
         UNCHANGED <<Database, requests, approved>>,
         Holds(x), Relies(x, requests, checkpoints, approved),
         \A d \in Executions \ {e} : x.rows \cap execution[d].rows = {}
  PROVE  AgentInv'
  <1>1. UNCHANGED <<row, stepRows, checkpoints, requests, approved>>
    BY DEF Database
  <1>2. /\ row' \in SessionRows /\ stepRows' \in [Steps -> StepStatuses] /\ checkpoints' \subseteq Steps
        /\ requests' \in [Steps -> Seq(Decisions)]
    BY <1>1, AgentFacts
  <1>3. Relies(x, requests', checkpoints', approved')
    BY <1>1
  <1>4. \A d \in Executions \ {e} : Relies(execution[d], requests', checkpoints', approved')
    BY <1>1, AgentFacts
  <1>5. OnlyToolsPublish(stepRows') /\ Recorded(requests', approved') /\ Answerable(row', requests')
    BY <1>1, AgentFacts
  <1> QED
    BY <1>2, <1>3, <1>4, <1>5, ExecutionGoesOn
-----------------------------------------------------------------------------
(* The steps within a transaction.                                         *)
LEMMA StartInv ==
  ASSUME AgentInv, NEW e \in Executions, Start(e)
  PROVE  AgentInv'
  <1> DEFINE o == execution[e]
             x == [o EXCEPT !.at = "begin", !.status = row.status, !.started = row.started]
  <1>1. o \in ExecutionCalls /\ Holds(o) /\ Relies(o, requests, checkpoints, approved)
    BY AgentFacts
  <1>3. /\ x \in ExecutionCalls
        /\ o.at = "new" /\ x.at = "begin" /\ x.step = o.step /\ x.rows = o.rows /\ x.saved = o.saved
           /\ x.held = o.held /\ x.asks = o.asks /\ x.steps = o.steps
    BY <1>1, AgentFacts DEF ExecutionCalls, SessionRows, SessionStatus, Terminal, CanExecute,
       Outside, Loading, AtStep, StepStatuses, Start, At
  <1>4. execution' = [execution EXCEPT ![e] = x] /\ UNCHANGED <<Database, requests, approved>>
    BY DEF Start, Executes, At, Database
  <1> HIDE DEF x
  <1>5. Holds(x)
    BY <1>1, <1>3 DEF Holds, Outside, Loading, AtStep, Running
  <1>6. Relies(x, requests, checkpoints, approved)
    BY <1>1, <1>3 DEF Relies, Running
  <1>7. \A d \in Executions \ {e} : x.rows \cap execution[d].rows = {}
    BY <1>3, AgentFacts
  <1> QED
    BY <1>3, <1>4, <1>5, <1>6, <1>7, ExecutionWorks

LEMMA ResumeInv ==
  ASSUME AgentInv, NEW e \in Executions, Resume(e)
  PROVE  AgentInv'
  <1> DEFINE o == execution[e]
             x == [o EXCEPT !.at = "resume", !.status = "executing", !.started = row.started]
  <1>1. o \in ExecutionCalls /\ Holds(o) /\ Relies(o, requests, checkpoints, approved)
    BY AgentFacts
  <1>3. /\ x \in ExecutionCalls
        /\ o.at = "new" /\ x.at = "resume" /\ x.status = "executing" /\ x.step = o.step
           /\ x.rows = o.rows /\ x.saved = o.saved /\ x.held = o.held /\ x.asks = o.asks
           /\ x.steps = o.steps
    BY <1>1, AgentFacts DEF ExecutionCalls, SessionRows, SessionStatus, Terminal, CanExecute,
       Outside, Loading, AtStep, StepStatuses, Resume, At
  <1>4. execution' = [execution EXCEPT ![e] = x] /\ UNCHANGED <<Database, requests, approved>>
    BY DEF Resume, Executes, At, Database
  <1> HIDE DEF x
  <1>5. Holds(x)
    BY <1>1, <1>3 DEF Holds, Outside, Loading, AtStep, Running
  <1>6. Relies(x, requests, checkpoints, approved)
    BY <1>1, <1>3 DEF Relies, Running
  <1>7. \A d \in Executions \ {e} : x.rows \cap execution[d].rows = {}
    BY <1>3, AgentFacts
  <1> QED
    BY <1>3, <1>4, <1>5, <1>6, <1>7, ExecutionWorks

LEMMA BeginInv ==
  ASSUME AgentInv, NEW e \in Executions, Begin(e)
  PROVE  AgentInv'
  <1> DEFINE o == execution[e]
             changes == o.status # "executing" \/ ~o.started
             x == [o EXCEPT !.at = "memory", !.status = "executing", !.started = TRUE,
                            !.held = changes, !.sets = o.status # "executing"]
  <1>1. /\ changes \in BOOLEAN /\ o.at = "begin"
        /\ execution' = [execution EXCEPT ![e] = x] /\ UNCHANGED <<Database, requests, approved>>
    BY DEF Begin, Executes, At, Database
  <1> HIDE DEF changes
  <1>2. o \in ExecutionCalls /\ Holds(o) /\ Relies(o, requests, checkpoints, approved)
    BY AgentFacts
  <1>3. /\ x \in ExecutionCalls
        /\ o.at = "begin" /\ x.at = "memory" /\ x.status = "executing" /\ x.step = o.step
           /\ x.rows = o.rows /\ x.saved = o.saved /\ x.asks = o.asks /\ x.steps = o.steps
    BY <1>1, <1>2 DEF ExecutionCalls, SessionRows, SessionStatus, Terminal, CanExecute,
       Outside, Loading, AtStep, StepStatuses
  <1>4. execution' = [execution EXCEPT ![e] = x] /\ UNCHANGED <<Database, requests, approved>>
    BY <1>1
  <1> HIDE DEF x
  <1>5. Holds(x)
    BY <1>2, <1>3 DEF Holds, Outside, Loading, AtStep, Running
  <1>6. Relies(x, requests, checkpoints, approved)
    BY <1>2, <1>3 DEF Relies, Running
  <1>7. \A d \in Executions \ {e} : x.rows \cap execution[d].rows = {}
    BY <1>3, AgentFacts
  <1> QED
    BY <1>3, <1>4, <1>5, <1>6, <1>7, ExecutionWorks

LEMMA MemoryRaisesInv ==
  ASSUME AgentInv, NEW e \in Executions, MemoryRaises(e)
  PROVE  AgentInv'
  <1> DEFINE o == execution[e]
             x == [o EXCEPT !.at = "load"]
  <1>1. o \in ExecutionCalls /\ Holds(o) /\ Relies(o, requests, checkpoints, approved)
    BY AgentFacts
  <1>3. /\ x \in ExecutionCalls
        /\ o.at = "memory" /\ x.at = "load" /\ x.status = o.status /\ x.step = o.step
           /\ x.rows = o.rows /\ x.saved = o.saved /\ x.held = o.held /\ x.asks = o.asks
           /\ x.steps = o.steps
    BY <1>1, AgentFacts DEF ExecutionCalls, SessionRows, SessionStatus, Terminal, CanExecute,
       Outside, Loading, AtStep, StepStatuses, MemoryRaises, At
  <1>4. execution' = [execution EXCEPT ![e] = x] /\ UNCHANGED <<Database, requests, approved>>
    BY DEF MemoryRaises, Executes, At, Database
  <1> HIDE DEF x
  <1>5. Holds(x)
    BY <1>1, <1>3 DEF Holds, Outside, Loading, AtStep, Running
  <1>6. Relies(x, requests, checkpoints, approved)
    BY <1>1, <1>3 DEF Relies, Running
  <1>7. \A d \in Executions \ {e} : x.rows \cap execution[d].rows = {}
    BY <1>3, AgentFacts
  <1> QED
    BY <1>3, <1>4, <1>5, <1>6, <1>7, ExecutionWorks

LEMMA LoadStepsInv ==
  ASSUME AgentInv, NEW e \in Executions, LoadSteps(e)
  PROVE  AgentInv'
  <1> DEFINE o == execution[e]
             x == [o EXCEPT !.at = "check", !.steps = stepRows]
  <1>1. o \in ExecutionCalls /\ Holds(o) /\ Relies(o, requests, checkpoints, approved)
    BY AgentFacts
  <1>3. /\ x \in ExecutionCalls
        /\ o.at = "load" /\ x.at = "check" /\ x.status = o.status /\ x.step = o.step
           /\ x.rows = o.rows /\ x.saved = o.saved /\ x.held = o.held /\ x.asks = o.asks
           /\ x.steps = stepRows
    BY <1>1, AgentFacts DEF ExecutionCalls, SessionRows, SessionStatus, Terminal, CanExecute,
       Outside, Loading, AtStep, StepStatuses, LoadSteps, At
  <1>4. execution' = [execution EXCEPT ![e] = x] /\ UNCHANGED <<Database, requests, approved>>
    BY DEF LoadSteps, Executes, At, Database
  <1> HIDE DEF x
  <1>5. Holds(x)
    BY <1>1, <1>3, AgentFacts DEF Holds, OnlyToolsPublish, Outside, Loading, AtStep, Running
  <1>6. Relies(x, requests, checkpoints, approved)
    BY <1>1, <1>3 DEF Relies, Running
  <1>7. \A d \in Executions \ {e} : x.rows \cap execution[d].rows = {}
    BY <1>3, AgentFacts
  <1> QED
    BY <1>3, <1>4, <1>5, <1>6, <1>7, ExecutionWorks

LEMMA ToolReturnsInv ==
  ASSUME AgentInv, NEW e \in Executions, ToolReturns(e)
  PROVE  AgentInv'
  <1> DEFINE o == execution[e]
             x == [o EXCEPT !.at = "done"]
  <1>1. o \in ExecutionCalls /\ Holds(o) /\ Relies(o, requests, checkpoints, approved)
    BY AgentFacts
  <1>3. /\ x \in ExecutionCalls
        /\ o.at = "execute" /\ x.at = "done" /\ x.status = o.status /\ x.step = o.step
           /\ x.rows = o.rows /\ x.saved = o.saved /\ x.held = o.held /\ x.asks = o.asks
           /\ x.steps = o.steps
    BY <1>1, AgentFacts DEF ExecutionCalls, SessionRows, SessionStatus, Terminal, CanExecute,
       Outside, Loading, AtStep, StepStatuses, ToolReturns, At
  <1>4. execution' = [execution EXCEPT ![e] = x] /\ UNCHANGED <<Database, requests, approved>>
    BY DEF ToolReturns, Executes, At, Database
  <1> HIDE DEF x
  <1>5. Holds(x)
    BY <1>1, <1>3 DEF Holds, Outside, Loading, AtStep, Running
  <1>6. Relies(x, requests, checkpoints, approved)
    BY <1>1, <1>3 DEF Relies, Running
  <1>7. \A d \in Executions \ {e} : x.rows \cap execution[d].rows = {}
    BY <1>3, AgentFacts
  <1> QED
    BY <1>3, <1>4, <1>5, <1>6, <1>7, ExecutionWorks

LEMMA LookUpInv ==
  ASSUME AgentInv, NEW e \in Executions, LookUp(e)
  PROVE  AgentInv'
  <1> DEFINE o == execution[e]
             x == [o EXCEPT !.at = IF o.step \in Idempotent /\ o.step \in checkpoints \cup o.saved THEN "done" ELSE "execute"]
  <1>1. o \in ExecutionCalls /\ Holds(o) /\ Relies(o, requests, checkpoints, approved)
    BY AgentFacts
  <1>3. /\ x \in ExecutionCalls
        /\ o.at = "lookup" /\ x.at \in {"done", "execute"} /\ x.status = o.status /\ x.step = o.step
           /\ x.rows = o.rows /\ x.saved = o.saved /\ x.held = o.held /\ x.asks = o.asks
           /\ x.steps = o.steps
        /\ x.at = "execute" /\ o.step \in Idempotent => o.step \notin checkpoints
    BY <1>1, AgentFacts DEF ExecutionCalls, SessionRows, SessionStatus, Terminal, CanExecute,
       Outside, Loading, AtStep, StepStatuses, LookUp, At
  <1>4. execution' = [execution EXCEPT ![e] = x] /\ UNCHANGED <<Database, requests, approved>>
    BY DEF LookUp, Executes, At, Database
  <1> HIDE DEF x
  <1>5. Holds(x)
    BY <1>1, <1>3 DEF Holds, Outside, Loading, AtStep, Running
  <1>6. Relies(x, requests, checkpoints, approved)
    BY <1>1, <1>3 DEF Relies, Running
  <1>7. \A d \in Executions \ {e} : x.rows \cap execution[d].rows = {}
    BY <1>3, AgentFacts
  <1> QED
    BY <1>3, <1>4, <1>5, <1>6, <1>7, ExecutionWorks

LEMMA AskApprovalInv ==
  ASSUME AgentInv, NEW e \in Executions, AskApproval(e)
  PROVE  AgentInv'
  <1> DEFINE o == execution[e]
             first == requests[o.step] = <<>>
             x == [o EXCEPT !.at = "await", !.asks = first]
  <1>1. /\ first \in BOOLEAN /\ (first \/ requests[o.step] # <<>>) /\ o.at = "ask"
        /\ execution' = [execution EXCEPT ![e] = x] /\ UNCHANGED <<Database, requests, approved>>
    BY DEF AskApproval, Executes, At, Database
  <1> HIDE DEF first
  <1>2. o \in ExecutionCalls /\ Holds(o) /\ Relies(o, requests, checkpoints, approved)
    BY AgentFacts
  <1>3. /\ x \in ExecutionCalls
        /\ o.at = "ask" /\ x.at = "await" /\ x.status = o.status /\ x.step = o.step
           /\ x.rows = o.rows /\ x.saved = o.saved /\ x.held = o.held /\ x.steps = o.steps
        /\ x.asks \/ requests[x.step] # <<>>
    BY <1>1, <1>2 DEF ExecutionCalls, SessionRows, SessionStatus, Terminal, CanExecute,
       Outside, Loading, AtStep, StepStatuses
  <1>4. execution' = [execution EXCEPT ![e] = x] /\ UNCHANGED <<Database, requests, approved>>
    BY <1>1
  <1> HIDE DEF x
  <1>5. Holds(x)
    BY <1>2, <1>3 DEF Holds, Outside, Loading, AtStep, Running
  <1>6. Relies(x, requests, checkpoints, approved)
    BY <1>2, <1>3 DEF Relies, Running
  <1>7. \A d \in Executions \ {e} : x.rows \cap execution[d].rows = {}
    BY <1>3, AgentFacts
  <1> QED
    BY <1>3, <1>4, <1>5, <1>6, <1>7, ExecutionWorks

LEMMA StepRaisesInv ==
  ASSUME AgentInv, NEW e \in Executions, NEW status, StepRaises(e, status)
  PROVE  AgentInv'
  <1> DEFINE o == execution[e]
             x == [o EXCEPT !.at = "raised", !.status = status]
  <1>1. o \in ExecutionCalls /\ Holds(o) /\ Relies(o, requests, checkpoints, approved)
    BY AgentFacts
  <1>3. /\ x \in ExecutionCalls
        /\ o.at \in {"lookup", "execute"} /\ x.at = "raised"
           /\ x.status \in {"failed", "budget_exceeded"} /\ x.step = o.step /\ x.rows = o.rows
           /\ x.saved = o.saved /\ x.held = o.held /\ x.asks = o.asks /\ x.steps = o.steps
    BY <1>1, AgentFacts DEF ExecutionCalls, SessionRows, SessionStatus, Terminal, CanExecute,
       Outside, Loading, AtStep, StepStatuses, StepRaises, At
  <1>4. execution' = [execution EXCEPT ![e] = x] /\ UNCHANGED <<Database, requests, approved>>
    BY DEF StepRaises, Executes, At, Database
  <1> HIDE DEF x
  <1>5. Holds(x)
    BY <1>1, <1>3 DEF Holds, Outside, Loading, AtStep, Running
  <1>6. Relies(x, requests, checkpoints, approved)
    BY <1>1, <1>3 DEF Relies, Running
  <1>7. \A d \in Executions \ {e} : x.rows \cap execution[d].rows = {}
    BY <1>3, AgentFacts
  <1> QED
    BY <1>3, <1>4, <1>5, <1>6, <1>7, ExecutionWorks

LEMMA IdleIsACall ==
  /\ Idle \in ExecutionCalls /\ Idle.at = "new" /\ ~Idle.held /\ Idle.rows = {} /\ Idle.saved = {}
  /\ \A s \in Steps : Idle.steps[s] = "pending"
  <1>1. Idle \in ExecutionCalls
    BY DEF Idle, ExecutionCalls, SessionStatus, CanExecute, Outside, StepStatuses
  <1> QED
    BY <1>1 DEF Idle

LEMMA ExecutionDiesInv ==
  ASSUME AgentInv, NEW e \in Executions, ExecutionDies(e)
  PROVE  AgentInv'
  <1> DEFINE o == execution[e]
             x == [Idle EXCEPT !.at = "over"]
  <1>1. o \in ExecutionCalls /\ Holds(o) /\ Relies(o, requests, checkpoints, approved)
    BY AgentFacts
  <1>3. /\ x \in ExecutionCalls
        /\ x.at = "over" /\ x.rows = {} /\ x.saved = {} /\ ~x.held
           /\ \A s \in Steps : x.steps[s] = "pending"
    BY IdleIsACall DEF ExecutionCalls, Outside
  <1>4. execution' = [execution EXCEPT ![e] = x] /\ UNCHANGED <<Database, requests, approved>>
    BY DEF ExecutionDies, Executes, At, Database
  <1> HIDE DEF x
  <1>5. Holds(x)
    BY <1>1, <1>3 DEF Holds, Outside, Loading, AtStep, Running
  <1>6. Relies(x, requests, checkpoints, approved)
    BY <1>1, <1>3 DEF Relies, Running
  <1>7. \A d \in Executions \ {e} : x.rows \cap execution[d].rows = {}
    BY <1>3, AgentFacts
  <1> QED
    BY <1>3, <1>4, <1>5, <1>6, <1>7, ExecutionWorks

LEMMA CheckInv ==
  ASSUME AgentInv, NEW e \in Executions, Check(e)
  PROVE  AgentInv'
  <1> DEFINE o == execution[e]
             x == IF o.step > PlanLength THEN [o EXCEPT !.at = "finish", !.status = "completed"]
                  ELSE IF ~o.sets /\ row.status = "cancelled" THEN [o EXCEPT !.at = "finish", !.status = "failed"]
                  ELSE IF o.steps[o.step] = "completed" THEN [o EXCEPT !.step = @ + 1]
                  ELSE [o EXCEPT !.at = IF o.step \in Gated THEN "gate" ELSE "run"]
  <1>1. o \in ExecutionCalls /\ Holds(o) /\ Relies(o, requests, checkpoints, approved)
    BY AgentFacts
  <1>2. o.at = "check" /\ o.step \in Nat \ {0} /\ o.step + 1 \in Nat \ {0}
    BY <1>1 DEF Check, ExecutionCalls
  <1>3. /\ x \in ExecutionCalls
        /\ o.at = "check" /\ x.rows = o.rows /\ x.saved = o.saved /\ x.held = o.held
           /\ x.asks = o.asks /\ x.steps = o.steps
        /\ \/ x.at = "finish" /\ x.status \in {"completed", "failed"}
           \/ x.at = "check" /\ x.status = o.status
           \/ /\ x.at \in {"gate", "run"} /\ x.status = o.status /\ x.step = o.step /\ o.step \in Steps
              /\ x.at = "gate" <=> o.step \in Gated
    <2>1. CASE o.step > PlanLength
      BY <1>1, <1>2, <2>1 DEF ExecutionCalls, SessionStatus, Terminal, AtStep
    <2>2. CASE ~(o.step > PlanLength) /\ ~o.sets /\ row.status = "cancelled"
      BY <1>1, <1>2, <2>2 DEF ExecutionCalls, SessionStatus, Terminal, AtStep
    <2>3. CASE ~(o.step > PlanLength) /\ ~(~o.sets /\ row.status = "cancelled") /\ o.steps[o.step] = "completed"
      BY <1>1, <1>2, <2>3 DEF ExecutionCalls, SessionStatus, Terminal, AtStep
    <2>4. CASE ~(o.step > PlanLength) /\ ~(~o.sets /\ row.status = "cancelled") /\ o.steps[o.step] # "completed"
      <3>1. o.step \in Steps
        BY <1>2, <2>4, AgentAssumption DEF Steps
      <3>2. x = [o EXCEPT !.at = IF o.step \in Gated THEN "gate" ELSE "run"]
        BY <2>4
      <3> QED
        BY <1>1, <1>2, <3>1, <3>2 DEF ExecutionCalls, SessionStatus, Terminal, AtStep
    <2> QED
      BY <2>1, <2>2, <2>3, <2>4
  <1>4. execution' = [execution EXCEPT ![e] = x] /\ UNCHANGED <<Database, requests, approved>>
    BY DEF Check, Executes, At, Database
  <1> HIDE DEF x
  <1>5. Holds(x)
    BY <1>1, <1>3 DEF Holds, Outside, Loading, AtStep, Running
  <1>6. Relies(x, requests, checkpoints, approved)
    BY <1>1, <1>3 DEF Relies, Running
  <1>7. \A d \in Executions \ {e} : x.rows \cap execution[d].rows = {}
    BY <1>3, AgentFacts
  <1> QED
    BY <1>3, <1>4, <1>5, <1>6, <1>7, ExecutionWorks

LEMMA GateInv ==
  ASSUME AgentInv, NEW e \in Executions, Gate(e)
  PROVE  AgentInv'
  <1> DEFINE o == execution[e]
             x == CASE Newest(o.step) = "approved" -> [o EXCEPT !.at = "run"]
                    [] Newest(o.step) = "rejected" -> [o EXCEPT !.at = "finish", !.status = "failed"]
                    [] Newest(o.step) = "pending"  -> [o EXCEPT !.at = "ask"]
  <1>1. o \in ExecutionCalls /\ Holds(o) /\ Relies(o, requests, checkpoints, approved)
    BY AgentFacts
  <1>2. o.at = "gate" /\ Newest(o.step) \in Decisions /\ (Newest(o.step) = "approved" => o.step \in approved)
    <2>1. o.at = "gate"
      BY DEF Gate
    <2>2. o.step \in Steps /\ requests[o.step] \in Seq(Decisions)
      BY <1>1, <2>1, AgentFacts DEF Holds, AtStep
    <2>3. CASE requests[o.step] = <<>>
      BY <2>1, <2>3 DEF Newest, Decisions
    <2>4. CASE requests[o.step] # <<>>
      <3>1. Len(requests[o.step]) \in DOMAIN requests[o.step]
        BY <2>2, <2>4
      <3> QED
        BY <2>1, <2>2, <2>4, <3>1, AgentFacts DEF Newest, Recorded
    <2> QED
      BY <2>3, <2>4
  <1>3. /\ x \in ExecutionCalls
        /\ o.at = "gate" /\ x.step = o.step /\ x.rows = o.rows /\ x.saved = o.saved
           /\ x.held = o.held /\ x.asks = o.asks /\ x.steps = o.steps
        /\ x.at \in {"run", "ask", "finish"} /\ (x.status = "failed" \/ x.status = o.status)
        /\ x.at = "run" => o.step \in approved
    BY <1>1, <1>2 DEF Decisions, ExecutionCalls, SessionRows, SessionStatus, Terminal, CanExecute,
       Outside, Loading, AtStep, StepStatuses, Gate, At
  <1>4. execution' = [execution EXCEPT ![e] = x] /\ UNCHANGED <<Database, requests, approved>>
    BY DEF Gate, Executes, At, Database
  <1> HIDE DEF x
  <1>5. Holds(x)
    BY <1>1, <1>3 DEF Holds, Outside, Loading, AtStep, Running
  <1>6. Relies(x, requests, checkpoints, approved)
    BY <1>1, <1>3 DEF Relies, Running
  <1>7. \A d \in Executions \ {e} : x.rows \cap execution[d].rows = {}
    BY <1>3, AgentFacts
  <1> QED
    BY <1>3, <1>4, <1>5, <1>6, <1>7, ExecutionWorks

LEMMA RunStepInv ==
  ASSUME AgentInv, NEW e \in Executions, RunStep(e)
  PROVE  AgentInv'
  <1> DEFINE o == execution[e]
             x == [o EXCEPT !.at = "lookup", !.steps[o.step] = "running",
                            !.rows = IF o.steps[o.step] # "running" THEN @ \cup {o.step} ELSE @]
  <1>1. o \in ExecutionCalls /\ Holds(o) /\ Relies(o, requests, checkpoints, approved)
    BY AgentFacts
  <1>2. o.step \in Steps
    BY <1>1 DEF Holds, RunStep, AtStep
  <1>3. /\ x \in ExecutionCalls
        /\ o.at = "run" /\ x.at = "lookup" /\ x.status = o.status /\ x.step = o.step
        /\ x.saved = o.saved /\ x.held = o.held /\ x.asks = o.asks
        /\ x.steps[o.step] = "running" /\ \A s \in Steps \ {o.step} : x.steps[s] = o.steps[s]
        /\ \/ o.steps[o.step] = "running" /\ x.rows = o.rows
           \/ x.rows = o.rows \cup {o.step} /\ StepFree(e, o.step)
    BY <1>1, <1>2 DEF ExecutionCalls, SessionRows, SessionStatus, Terminal, CanExecute, Outside,
       Loading, AtStep, StepStatuses, RunStep, At
  <1>4. execution' = [execution EXCEPT ![e] = x] /\ UNCHANGED <<Database, requests, approved>>
    BY DEF RunStep, Executes, At, Database
  <1> HIDE DEF x
  <1>5. Holds(x)
    BY <1>1, <1>2, <1>3 DEF Holds, Outside, Loading, AtStep, Running
  <1>6. Relies(x, requests, checkpoints, approved)
    BY <1>1, <1>3 DEF Relies, Running
  <1>7. \A d \in Executions \ {e} : x.rows \cap execution[d].rows = {}
    BY <1>3, AgentFacts DEF StepFree
  <1> QED
    BY <1>3, <1>4, <1>5, <1>6, <1>7, ExecutionWorks

LEMMA StepDoneInv ==
  ASSUME AgentInv, NEW e \in Executions, StepDone(e)
  PROVE  AgentInv'
  <1> DEFINE o == execution[e]
             x == [o EXCEPT !.at = "check", !.step = @ + 1, !.steps[o.step] = "completed",
                            !.rows = @ \cup {o.step}, !.saved = @ \cup {o.step}, !.held = TRUE]
  <1>1. o \in ExecutionCalls /\ Holds(o) /\ Relies(o, requests, checkpoints, approved)
    BY AgentFacts
  <1>2. o.step \in Steps /\ o.step + 1 \in Nat \ {0}
    BY <1>1 DEF Holds, StepDone, AtStep, ExecutionCalls
  <1>3. /\ x \in ExecutionCalls
        /\ o.at = "done" /\ x.at = "check" /\ x.status = o.status
        /\ x.rows = o.rows \cup {o.step} /\ x.saved = o.saved \cup {o.step} /\ StepFree(e, o.step)
        /\ x.steps[o.step] = "completed" /\ \A s \in Steps \ {o.step} : x.steps[s] = o.steps[s]
    BY <1>1, <1>2 DEF ExecutionCalls, SessionRows, SessionStatus, Terminal, CanExecute, Outside,
       Loading, AtStep, StepStatuses, StepDone, At
  <1>4. execution' = [execution EXCEPT ![e] = x] /\ UNCHANGED <<Database, requests, approved>>
    BY DEF StepDone, Executes, At, Database
  <1> HIDE DEF x
  <1>5. Holds(x)
    BY <1>1, <1>2, <1>3 DEF Holds, Outside, Loading, AtStep, Running
  <1>6. Relies(x, requests, checkpoints, approved)
    BY <1>1, <1>3 DEF Relies, Running
  <1>7. \A d \in Executions \ {e} : x.rows \cap execution[d].rows = {}
    BY <1>3, AgentFacts DEF StepFree
  <1> QED
    BY <1>3, <1>4, <1>5, <1>6, <1>7, ExecutionWorks

LEMMA StepFailsInv ==
  ASSUME AgentInv, NEW e \in Executions, StepFails(e)
  PROVE  AgentInv'
  <1> DEFINE o == execution[e]
             x == [o EXCEPT !.at = "finish", !.steps[o.step] = "failed", !.rows = @ \cup {o.step}]
  <1>1. o \in ExecutionCalls /\ Holds(o) /\ Relies(o, requests, checkpoints, approved)
    BY AgentFacts
  <1>2. o.step \in Steps
    BY <1>1 DEF Holds, StepFails, AtStep
  <1>3. /\ x \in ExecutionCalls
        /\ o.at = "raised" /\ x.at = "finish" /\ x.status = o.status
        /\ x.rows = o.rows \cup {o.step} /\ x.saved = o.saved /\ StepFree(e, o.step)
        /\ x.steps[o.step] = "failed" /\ \A s \in Steps \ {o.step} : x.steps[s] = o.steps[s]
    BY <1>1, <1>2 DEF ExecutionCalls, SessionRows, SessionStatus, Terminal, CanExecute, Outside,
       Loading, AtStep, StepStatuses, StepFails, At
  <1>4. execution' = [execution EXCEPT ![e] = x] /\ UNCHANGED <<Database, requests, approved>>
    BY DEF StepFails, Executes, At, Database
  <1> HIDE DEF x
  <1>5. Holds(x)
    BY <1>1, <1>2, <1>3 DEF Holds, Outside, Loading, AtStep, Running
  <1>6. Relies(x, requests, checkpoints, approved)
    BY <1>1, <1>3 DEF Relies, Running
  <1>7. \A d \in Executions \ {e} : x.rows \cap execution[d].rows = {}
    BY <1>3, AgentFacts DEF StepFree
  <1> QED
    BY <1>3, <1>4, <1>5, <1>6, <1>7, ExecutionWorks
-----------------------------------------------------------------------------
(* A commit publishes the execution's own rows only: no checkpoint of a    *)
(* step that another one is running comes with it.                         *)
LEMMA PublishingGoesOn ==
  ASSUME AgentInv, NEW e \in Executions, NEW x \in ExecutionCalls, Publishes(e, x),
         NEW y \in ExecutionCalls, y = [x EXCEPT !.held = FALSE, !.sets = FALSE, !.rows = {}, !.saved = {}],
         x.saved \subseteq x.rows, x.rows = execution[e].rows,
         \A s \in x.rows \ Committing : x.steps[s] # "running",
         requests' \in [Steps -> Seq(Decisions)], approved' = approved, Recorded(requests', approved),
         \A s \in Steps : requests[s] # <<>> => requests'[s] # <<>>,
         x.sets /\ x.status = "awaiting_approval" => \E s \in Gated : requests'[s] # <<>>,
         Holds(y), Relies(y, requests', checkpoints', approved)
  PROVE  AgentInv'
  <1>1. /\ row' = [status |-> IF x.sets THEN x.status ELSE row.status,
                   started |-> row.started \/ (x.held /\ x.started)]
        /\ stepRows' = [s \in Steps |-> IF s \in x.rows THEN x.steps[s] ELSE stepRows[s]]
        /\ checkpoints' = checkpoints \cup x.saved
        /\ execution' = [execution EXCEPT ![e] = y]
    BY DEF Publishes, Executes
  <1>2. row' \in SessionRows /\ stepRows' \in [Steps -> StepStatuses] /\ checkpoints' \subseteq Steps
    BY <1>1, AgentFacts DEF ExecutionCalls, SessionRows
  <1>3. y.rows = {}
    BY DEF ExecutionCalls
  <1>4. ASSUME NEW d \in Executions \ {e}
        PROVE  Relies(execution[d], requests', checkpoints', approved')
    <2> DEFINE z == execution[d]
    <2>1. z \in ExecutionCalls /\ Holds(z) /\ Relies(z, requests, checkpoints, approved) /\ z.rows \cap x.rows = {}
      BY AgentFacts
    <2> HIDE DEF z
    <2>2. z.at = "execute" /\ z.step \in Idempotent \ Committing => z.step \in z.rows
      BY <2>1 DEF Holds, Running, AtStep
    <2>3. z.at = "await" => z.asks \/ requests'[z.step] # <<>>
      BY <2>1 DEF Holds, Relies, AtStep
    <2>4. Relies(z, requests', checkpoints', approved')
      BY <1>1, <2>1, <2>2, <2>3 DEF Relies
    <2> QED
      BY <2>4 DEF z
  <1>5. OnlyToolsPublish(stepRows')
    BY <1>1, AgentFacts DEF OnlyToolsPublish
  <1>6. Answerable(row', requests')
    <2>1. CASE x.sets
      BY <1>1, <2>1 DEF Answerable
    <2>2. CASE ~x.sets
      <3>1. \A s \in Gated : s \in Steps
        BY AgentAssumption DEF Steps
      <3> QED
        BY <1>1, <2>2, <3>1, AgentFacts DEF Answerable
    <2> QED
      BY <2>1, <2>2
  <1> QED
    BY <1>1, <1>2, <1>3, <1>4, <1>5, <1>6, ExecutionGoesOn

LEMMA SearchMemoriesInv ==
  ASSUME AgentInv, NEW e \in Executions, SearchMemories(e)
  PROVE  AgentInv'
  <1> DEFINE o == execution[e]
             x == [o EXCEPT !.at = "load"]
             y == [x EXCEPT !.held = FALSE, !.sets = FALSE, !.rows = {}, !.saved = {}]
  <1>1. o \in ExecutionCalls /\ Holds(o) /\ o.at = "memory"
    BY AgentFacts DEF SearchMemories, At
  <1>2. /\ x \in ExecutionCalls /\ y \in ExecutionCalls
        /\ x.rows = o.rows /\ x.saved = o.saved /\ x.status = o.status
        /\ y.at = "load" /\ y.status = o.status /\ y.steps = o.steps
        /\ ~y.held /\ y.rows = {} /\ y.saved = {}
    BY <1>1 DEF ExecutionCalls, Loading
  <1>3. Publishes(e, x) /\ requests' = requests /\ approved' = approved
    BY DEF SearchMemories
  <1>4. y = [x EXCEPT !.held = FALSE, !.sets = FALSE, !.rows = {}, !.saved = {}]
    OBVIOUS
  <1> HIDE DEF x, y
  <1>5. Holds(y)
    BY <1>1, <1>2 DEF Holds, Outside, Loading, AtStep, Running
  <1>6. Relies(y, requests', checkpoints', approved)
    BY <1>2 DEF Relies, Running
  <1>7. x.rows = {} /\ x.saved = {} /\ x.status # "awaiting_approval"
    BY <1>1, <1>2 DEF Holds, Loading, Outside
  <1>8. requests' \in [Steps -> Seq(Decisions)] /\ Recorded(requests', approved)
    BY <1>3, AgentFacts
  <1> QED
    BY <1>2, <1>3, <1>4, <1>5, <1>6, <1>7, <1>8, PublishingGoesOn

LEMMA ToolCommitsInv ==
  ASSUME AgentInv, NEW e \in Executions, ToolCommits(e)
  PROVE  AgentInv'
  <1> DEFINE o == execution[e]
             y == [o EXCEPT !.held = FALSE, !.sets = FALSE, !.rows = {}, !.saved = {}]
  <1>1. /\ o \in ExecutionCalls /\ Holds(o) /\ Relies(o, requests, checkpoints, approved)
        /\ o.at = "execute" /\ o.step \in Committing
    BY AgentFacts DEF ToolCommits, At
  <1>2. /\ y \in ExecutionCalls /\ y.at = "execute" /\ y.status = o.status /\ y.step = o.step
           /\ y.steps = o.steps
        /\ ~y.held /\ y.rows = {} /\ y.saved = {}
    BY <1>1 DEF ExecutionCalls
  <1>3. Publishes(e, o) /\ requests' = requests /\ approved' = approved
    BY DEF ToolCommits
  <1>4. y = [o EXCEPT !.held = FALSE, !.sets = FALSE, !.rows = {}, !.saved = {}]
    OBVIOUS
  <1> HIDE DEF y
  <1>5. Holds(y)
    BY <1>1, <1>2 DEF Holds, Outside, Loading, AtStep, Running
  <1>6. Relies(y, requests', checkpoints', approved)
    BY <1>1, <1>2 DEF Relies, Running
  <1>7. /\ o.saved \subseteq o.rows /\ o.status # "awaiting_approval"
        /\ \A s \in o.rows \ Committing : o.steps[s] # "running"
    BY <1>1 DEF Holds, Outside, ExecutionCalls
  <1>8. requests' \in [Steps -> Seq(Decisions)] /\ Recorded(requests', approved)
    BY <1>3, AgentFacts
  <1> QED
    BY <1>1, <1>2, <1>3, <1>4, <1>5, <1>6, <1>7, <1>8, PublishingGoesOn

LEMMA FinishInv ==
  ASSUME AgentInv, NEW e \in Executions, Finish(e)
  PROVE  AgentInv'
  <1> DEFINE o == execution[e]
             x == [o EXCEPT !.at = "over", !.held = TRUE, !.sets = TRUE]
             y == [x EXCEPT !.held = FALSE, !.sets = FALSE, !.rows = {}, !.saved = {}]
  <1>1. o \in ExecutionCalls /\ Holds(o) /\ o.at = "finish"
    BY AgentFacts DEF Finish, At
  <1>2. /\ x \in ExecutionCalls /\ y \in ExecutionCalls
        /\ x.rows = o.rows /\ x.saved = o.saved /\ x.status = o.status /\ x.steps = o.steps
        /\ y.at = "over" /\ y.steps = o.steps /\ ~y.held /\ y.rows = {} /\ y.saved = {}
    BY <1>1 DEF ExecutionCalls, Outside
  <1>3. Publishes(e, x) /\ requests' = requests /\ approved' = approved
    BY DEF Finish
  <1>4. y = [x EXCEPT !.held = FALSE, !.sets = FALSE, !.rows = {}, !.saved = {}]
    OBVIOUS
  <1> HIDE DEF x, y
  <1>5. Holds(y)
    BY <1>1, <1>2 DEF Holds, Outside, Loading, AtStep, Running
  <1>6. Relies(y, requests', checkpoints', approved)
    BY <1>2 DEF Relies, Running
  <1>7. /\ x.saved \subseteq x.rows /\ x.status # "awaiting_approval"
        /\ \A s \in x.rows \ Committing : x.steps[s] # "running"
    BY <1>1, <1>2 DEF Holds, Outside, Running, ExecutionCalls
  <1>8. requests' \in [Steps -> Seq(Decisions)] /\ Recorded(requests', approved)
    BY <1>3, AgentFacts
  <1> QED
    BY <1>2, <1>3, <1>4, <1>5, <1>6, <1>7, <1>8, PublishingGoesOn

(* A request is pending when it is made: no decision is recorded with it.  *)
LEMMA RequestsAreAdded ==
  ASSUME AgentInv, NEW s \in Steps, NEW r, r = Append(requests[s], "pending") \/ r = <<"pending">> \o requests[s]
  PROVE  /\ [requests EXCEPT ![s] = r] \in [Steps -> Seq(Decisions)] /\ r # <<>>
         /\ Recorded([requests EXCEPT ![s] = r], approved)
  <1> DEFINE old == requests[s]
  <1>1. requests \in [Steps -> Seq(Decisions)] /\ old \in Seq(Decisions) /\ Recorded(requests, approved)
    BY AgentFacts
  <1>2. \A k \in DOMAIN old : old[k] = "approved" => s \in approved
    BY <1>1 DEF Recorded
  <1>3. "pending" \in Decisions /\ <<"pending">> \in Seq(Decisions) /\ Len(<<"pending">>) = 1
    BY DEF Decisions
  <1> HIDE DEF old
  <1>4. r \in Seq(Decisions) /\ r # <<>> /\ \A k \in DOMAIN r : r[k] = "approved" => s \in approved
    <2>1. CASE r = Append(old, "pending")
      BY <1>1, <1>2, <1>3, <2>1, AppendProperties
    <2>2. CASE r = <<"pending">> \o old
      <3>1. /\ r \in Seq(Decisions) /\ Len(r) = 1 + Len(old)
            /\ \A k \in 1..(1 + Len(old)) : r[k] = IF k <= 1 THEN <<"pending">>[k] ELSE old[k - 1]
        BY <1>1, <1>3, <2>2, ConcatProperties
      <3>2. <<"pending">>[1] = "pending"
        OBVIOUS
      <3>3. ASSUME NEW k \in DOMAIN r, r[k] = "approved"
            PROVE  s \in approved
        <4>1. k \in 1..(1 + Len(old)) /\ Len(old) \in Nat
          BY <1>1, <3>1, <3>3
        <4>2. CASE k = 1
          BY <3>1, <3>2, <3>3, <4>1, <4>2
        <4>3. CASE k # 1
          <5>1. k - 1 \in DOMAIN old /\ r[k] = old[k - 1]
            BY <1>1, <3>1, <4>1, <4>3
          <5> QED
            BY <1>2, <3>3, <5>1
        <4> QED
          BY <4>2, <4>3
      <3> QED
        BY <1>1, <3>1, <3>3
    <2> QED
      BY <2>1, <2>2 DEF old
  <1> QED
    BY <1>1, <1>4 DEF Recorded

LEMMA AwaitApprovalInv ==
  ASSUME AgentInv, NEW e \in Executions, AwaitApproval(e)
  PROVE  AgentInv'
  <1> DEFINE o == execution[e]
             x == [o EXCEPT !.at = "over", !.status = "awaiting_approval", !.held = TRUE, !.sets = TRUE,
                            !.asks = FALSE]
             y == [x EXCEPT !.held = FALSE, !.sets = FALSE, !.rows = {}, !.saved = {}]
  <1>1. o \in ExecutionCalls /\ Holds(o) /\ Relies(o, requests, checkpoints, approved) /\ o.at = "await"
    BY AgentFacts DEF AwaitApproval, At
  <1>2. /\ x \in ExecutionCalls /\ y \in ExecutionCalls
        /\ x.rows = o.rows /\ x.saved = o.saved /\ x.steps = o.steps
        /\ y.at = "over" /\ y.steps = o.steps /\ ~y.held /\ y.rows = {} /\ y.saved = {}
    BY <1>1 DEF ExecutionCalls, Outside, SessionStatus, CanExecute
  <1>3. Publishes(e, x) /\ approved' = approved
    BY DEF AwaitApproval
  <1>4. o.step \in Steps /\ o.step \in Gated /\ (o.asks \/ requests[o.step] # <<>>)
    BY <1>1 DEF Holds, Relies, AtStep
  <1> DEFINE AskedOnce == /\ requests' \in [Steps -> Seq(Decisions)] /\ Recorded(requests', approved)
                          /\ requests'[o.step] # <<>>
                             /\ \A s \in Steps : requests[s] # <<>> => requests'[s] # <<>>
  <1>5. AskedOnce
    <2>1. CASE requests' = requests /\ ~o.asks
      BY <1>4, <2>1, AgentFacts
    <2>2. ASSUME NEW r, r = Append(requests[o.step], "pending") \/ r = <<"pending">> \o requests[o.step]
          PROVE  requests' = [requests EXCEPT ![o.step] = r] => AskedOnce
      <3>1. /\ [requests EXCEPT ![o.step] = r] \in [Steps -> Seq(Decisions)] /\ r # <<>>
            /\ Recorded([requests EXCEPT ![o.step] = r], approved)
        BY <1>4, <2>2, RequestsAreAdded
      <3> QED
        BY <1>4, <2>2, <3>1, AgentFacts
    <2>3. CASE requests' = [requests EXCEPT ![o.step] = Append(requests[o.step], "pending")]
      BY <2>2, <2>3
    <2>4. CASE requests' = [requests EXCEPT ![o.step] = <<"pending">> \o requests[o.step]]
      BY <2>2, <2>4
    <2> QED
      BY <2>1, <2>3, <2>4 DEF AwaitApproval
  <1>6. y = [x EXCEPT !.held = FALSE, !.sets = FALSE, !.rows = {}, !.saved = {}]
    OBVIOUS
  <1> HIDE DEF x, y
  <1>7. Holds(y)
    BY <1>1, <1>2 DEF Holds, Outside, Loading, AtStep, Running
  <1>8. Relies(y, requests', checkpoints', approved)
    BY <1>2 DEF Relies, Running
  <1>9. x.saved \subseteq x.rows /\ \A s \in x.rows \ Committing : x.steps[s] # "running"
    BY <1>1, <1>2 DEF Holds, Outside, Running, ExecutionCalls
  <1>10. \E s \in Gated : requests'[s] # <<>>
    BY <1>4, <1>5
  <1> QED
    BY <1>2, <1>3, <1>5, <1>6, <1>7, <1>8, <1>9, <1>10, PublishingGoesOn

LEMMA ResumeCommitsInv ==
  ASSUME AgentInv, NEW e \in Executions, ResumeCommits(e)
  PROVE  AgentInv'
  <1> DEFINE o == execution[e]
             x == [o EXCEPT !.at = "begin"]
  <1>1. o \in ExecutionCalls /\ Holds(o) /\ o.at = "resume"
    BY AgentFacts DEF ResumeCommits, At
  <1>2. /\ x \in ExecutionCalls /\ x.at = "begin" /\ x.steps = o.steps
        /\ x.held = o.held /\ x.rows = o.rows /\ x.saved = o.saved
    BY <1>1 DEF ExecutionCalls, Outside
  <1>3. /\ execution' = [execution EXCEPT ![e] = x] /\ row' = [row EXCEPT !.status = "executing"]
        /\ UNCHANGED <<stepRows, checkpoints, requests, approved>>
    BY DEF ResumeCommits, Executes
  <1> HIDE DEF x
  <1>4. row' \in SessionRows /\ row'.status = "executing"
    BY <1>3, AgentFacts DEF SessionRows, SessionStatus
  <1>5. Holds(x)
    BY <1>1, <1>2 DEF Holds, Outside, Loading, AtStep, Running
  <1>6. Relies(x, requests', checkpoints', approved')
    BY <1>2 DEF Relies, Running
  <1>7. \A d \in Executions \ {e} : x.rows \cap execution[d].rows = {}
    BY <1>2, AgentFacts
  <1>8. /\ stepRows' \in [Steps -> StepStatuses] /\ checkpoints' \subseteq Steps
        /\ requests' \in [Steps -> Seq(Decisions)]
        /\ OnlyToolsPublish(stepRows') /\ Recorded(requests', approved')
        /\ \A d \in Executions : Relies(execution[d], requests', checkpoints', approved')
    BY <1>3, AgentFacts
  <1>9. Answerable(row', requests')
    BY <1>4 DEF Answerable
  <1> QED
    BY <1>2, <1>3, <1>4, <1>5, <1>6, <1>7, <1>8, <1>9, ExecutionGoesOn

(* Cancellations write the status of the row; operators decide requests.   *)
LEMMA OthersInv ==
  ASSUME AgentInv, UNCHANGED <<stepRows, checkpoints, execution>>,
         row' \in SessionRows, requests' \in [Steps -> Seq(Decisions)], approved \subseteq approved',
         \A s \in Steps : requests[s] # <<>> => requests'[s] # <<>>,
         row'.status = "awaiting_approval" => row' = row,
         Recorded(requests', approved')
  PROVE  AgentInv'
  <1>1. AgentTablesOK' /\ RowsAreApart' /\ OnlyToolsPublish(stepRows')
    BY AgentFacts DEF AgentTablesOK, RowsAreApart
  <1>2. ASSUME NEW d \in Executions
        PROVE  Holds(execution'[d]) /\ Relies(execution'[d], requests', checkpoints', approved')
    <2> DEFINE z == execution[d]
    <2>1. Holds(z) /\ Relies(z, requests, checkpoints, approved)
      BY AgentFacts
    <2> HIDE DEF z
    <2>2. Relies(z, requests', checkpoints, approved')
      BY <2>1 DEF Holds, Relies, AtStep
    <2> QED
      BY <2>1, <2>2 DEF z
  <1>3. Answerable(row', requests')
    <2>1. \A s \in Gated : s \in Steps
      BY AgentAssumption DEF Steps
    <2> QED
      BY <2>1, AgentFacts DEF Answerable
  <1>4. (\A d \in Executions : Holds(execution[d]) /\ Relies(execution[d], requests, checkpoints, approved))'
    BY <1>2
  <1> QED
    BY <1>1, <1>3, <1>4 DEF AgentInv

LEMMA DecideInv ==
  ASSUME AgentInv, NEW s \in Gated, NEW decision \in {"approved", "rejected"}, NEW k \in 1..Len(requests[s]),
         Decide(s, k, decision)
  PROVE  AgentInv'
  <1> DEFINE old == requests[s]
             r == [old EXCEPT ![k] = decision]
  <1>1. s \in Steps /\ requests \in [Steps -> Seq(Decisions)] /\ old \in Seq(Decisions) /\ k \in DOMAIN old
    <2>1. s \in Steps
      BY AgentAssumption DEF Steps
    <2> QED
      BY <2>1, AgentFacts DEF Decide
  <1>2. requests' = [requests EXCEPT ![s] = r] /\ UNCHANGED <<row, stepRows, checkpoints, execution>>
    BY DEF Decide, Database
  <1>3. approved \subseteq approved' /\ (decision = "approved" => s \in approved')
    BY DEF Decide
  <1>4. r \in Seq(Decisions) /\ r # <<>> /\ DOMAIN r = DOMAIN old /\ \A j \in DOMAIN old : r[j] = IF j = k THEN decision ELSE old[j]
    <2>1. decision \in Decisions
      BY DEF Decisions
    <2>2. r \in Seq(Decisions) /\ Len(r) = Len(old) /\ \A j \in 1..Len(old) : r[j] = IF j = k THEN decision ELSE old[j]
      BY <1>1, <2>1, ExceptSeq
    <2> QED
      BY <1>1, <2>2
  <1> HIDE DEF r, old
  <1>5. Recorded(requests', approved')
    <2>1. \A j \in DOMAIN old : old[j] = "approved" => s \in approved
      BY <1>1, AgentFacts DEF Recorded, old
    <2>2. \A j \in DOMAIN r : r[j] = "approved" => s \in approved'
      BY <1>3, <1>4, <2>1
    <2> QED
      BY <1>1, <1>2, <1>3, <2>2, AgentFacts DEF Recorded
  <1>6. requests' \in [Steps -> Seq(Decisions)] /\ \A j \in Steps : requests[j] # <<>> => requests'[j] # <<>>
    BY <1>1, <1>2, <1>4
  <1> QED
    BY <1>2, <1>3, <1>5, <1>6, OthersInv, AgentFacts

LEMMA CancelInv ==
  ASSUME AgentInv, NEW c \in Cancellers, LoadToCancel(c) \/ CancelCommits(c)
  PROVE  AgentInv'
  <1>1. UNCHANGED <<stepRows, checkpoints, execution, requests, approved>>
    BY DEF LoadToCancel, CancelCommits, Database
  <1>2. row' \in SessionRows /\ (row' = row \/ row'.status = "cancelled")
    BY AgentFacts DEF LoadToCancel, CancelCommits, Database, SessionRows, SessionStatus, Terminal
  <1>3. Recorded(requests', approved')
    BY <1>1, AgentFacts
  <1> QED
    BY <1>1, <1>2, <1>3, OthersInv, AgentFacts

LEMMA AgentStepInv == AgentInv /\ [AgentNext]_agentVars => AgentInv'
  <1> SUFFICES ASSUME AgentInv, [AgentNext]_agentVars  PROVE AgentInv'
    OBVIOUS
  <1>1. ASSUME NEW e \in Executions, Start(e) \/ Resume(e) \/ ResumeCommits(e) \/ Begin(e) \/ SearchMemories(e)
        PROVE  AgentInv'
    BY <1>1, StartInv, ResumeInv, ResumeCommitsInv, BeginInv, SearchMemoriesInv
  <1>2. ASSUME NEW e \in Executions, MemoryRaises(e) \/ LoadSteps(e) \/ Check(e) \/ Gate(e) \/ AskApproval(e)
        PROVE  AgentInv'
    BY <1>2, MemoryRaisesInv, LoadStepsInv, CheckInv, GateInv, AskApprovalInv
  <1>3. ASSUME NEW e \in Executions, AwaitApproval(e) \/ RunStep(e) \/ LookUp(e) \/ ToolCommits(e) \/ ToolReturns(e)
        PROVE  AgentInv'
    BY <1>3, AwaitApprovalInv, RunStepInv, LookUpInv, ToolCommitsInv, ToolReturnsInv
  <1>4. ASSUME NEW e \in Executions, StepDone(e) \/ StepFails(e) \/ Finish(e) \/ ExecutionDies(e)
        PROVE  AgentInv'
    BY <1>4, StepDoneInv, StepFailsInv, FinishInv, ExecutionDiesInv
  <1>5. ASSUME NEW e \in Executions, NEW status \in {"failed", "budget_exceeded"}, StepRaises(e, status)
        PROVE  AgentInv'
    BY <1>5, StepRaisesInv
  <1>6. ASSUME NEW c \in Cancellers, LoadToCancel(c) \/ CancelCommits(c)
        PROVE  AgentInv'
    BY <1>6, CancelInv
  <1>7. ASSUME NEW s \in Gated, NEW decision \in {"approved", "rejected"}, NEW k \in 1..Len(requests[s]), Decide(s, k, decision)
        PROVE  AgentInv'
    BY <1>7, DecideInv
  <1>8. CASE UNCHANGED agentVars
    BY <1>8 DEF agentVars, AgentInv, AgentTablesOK, RowsAreApart, Answerable
  <1> QED
    BY <1>1, <1>2, <1>3, <1>4, <1>5, <1>6, <1>7, <1>8 DEF AgentNext

(* However executions, cancellations and operators overlap, and however    *)
(* many there are, the tool of an idempotent step is not run once its      *)
(* result is committed, that of a gated step only after an operator        *)
(* approved it, and a session that awaits approval has a request to decide *)
(* (execute_session, execute_step and ensure_approved_or_raise).           *)
THEOREM ToolsRunAsApproved == AgentSpec => []StepsRunAsApproved
  <1>1. AgentInv => StepsRunAsApproved
    <2> SUFFICES ASSUME AgentInv  PROVE StepsRunAsApproved
      OBVIOUS
    <2>1. ASSUME NEW e \in Executions, ToolRunning(e)
          PROVE  LET s == execution[e].step IN
                 (s \in Idempotent \ Committing => s \notin checkpoints) /\ (s \in Gated => s \in approved)
      <3>1. Relies(execution[e], requests, checkpoints, approved) /\ execution[e].at = "execute"
        BY <2>1, AgentFacts DEF ToolRunning
      <3> QED
        BY <3>1 DEF Relies, Running
    <2>2. row.status = "awaiting_approval" => \E s \in Gated : requests[s] # <<>>
      BY AgentFacts DEF Answerable
    <2> QED
      BY <2>1, <2>2 DEF StepsRunAsApproved
  <1> QED
    BY <1>1, AgentInitInv, AgentStepInv, PTL DEF AgentSpec
-----------------------------------------------------------------------------
(***************************************************************************)
(* The breakers of the LLM gateway.                                        *)
(***************************************************************************)
Breakers == [state : {"CLOSED", "OPEN", "HALF_OPEN"}, cooled : BOOLEAN, failures : 0..FailureThreshold]
AskPlaces == {"new", "lookup", "calling", "backoff", "storing"} \cup Ended
GatewayCalls == [at : AskPlaces, structured : BOOLEAN, cacheable : BOOLEAN, plan : Seq(Providers),
                 k : Nat, attempt : 0..1, answer : Answers]

Counts(b) == b.state = "CLOSED" <=> b.failures < FailureThreshold

(* What the requests may see of the breakers, wherever they stand.         *)
BreakersAreSound(breakers) ==
    /\ breakers \in [Providers -> Breakers]
    /\ \A p \in Providers : Counts(breakers[p])
    /\ breakers[Local].state = "CLOSED"

(* A request that calls has a candidate of its plan.                       *)
HasCallee(x) == x.at \in {"calling", "backoff"} => x.k \in DOMAIN x.plan

GatewayInv ==
    /\ BreakersAreSound(breaker)
    /\ asked \in [GatewayRequests -> GatewayCalls]
    /\ \A q \in GatewayRequests : HasCallee(asked[q])
-----------------------------------------------------------------------------
LEMMA UnaskedIsACall ==
  /\ \A outcome \in Ended : [Unasked EXCEPT !.at = outcome] \in GatewayCalls
  /\ Unasked \in GatewayCalls /\ Unasked.at = "new"
  <1>1. <<>> \in Seq(Providers)
    BY EmptySeq
  <1>2. Unasked \in GatewayCalls
    BY <1>1 DEF Unasked, GatewayCalls, AskPlaces, Answers
  <1>3. ASSUME NEW outcome \in Ended
        PROVE  [Unasked EXCEPT !.at = outcome] \in GatewayCalls
    BY <1>2 DEF GatewayCalls, AskPlaces
  <1>4. Unasked.at = "new"
    BY DEF Unasked
  <1> QED
    BY <1>2, <1>3, <1>4

LEMMA GatewayInitInv == GatewayInit => GatewayInv
  <1> SUFFICES ASSUME GatewayInit  PROVE GatewayInv
    OBVIOUS
  <1>1. FailureThreshold \in Nat \ {0} /\ Local \in Providers
    BY GatewayAssumption DEF Providers
  <1>2. BreakersAreSound(breaker)
    BY <1>1 DEF GatewayInit, BreakersAreSound, Breakers, Counts
  <1>3. asked \in [GatewayRequests -> GatewayCalls] /\ \A q \in GatewayRequests : HasCallee(asked[q])
    BY UnaskedIsACall DEF GatewayInit, HasCallee
  <1> QED
    BY <1>2, <1>3 DEF GatewayInv

(* What a look, a success and a failure make of one breaker.               *)
LEMMA LookingIsSound ==
  ASSUME NEW breakers, BreakersAreSound(breakers), NEW looked
  PROVE  BreakersAreSound(LookAt(breakers, looked))
  <1>1. Local \in Providers /\ FailureThreshold \in Nat \ {0}
    BY GatewayAssumption DEF Providers
  <1>2. ASSUME NEW p \in Providers
        PROVE  /\ LookAt(breakers, looked)[p] \in Breakers /\ Counts(LookAt(breakers, looked)[p])
               /\ p = Local => LookAt(breakers, looked)[p].state = "CLOSED"
    <2> DEFINE b == breakers[p]
               c == [b EXCEPT !.state = "HALF_OPEN", !.cooled = FALSE]
    <2>1. b \in Breakers /\ Counts(b) /\ (p = Local => b.state = "CLOSED")
      BY DEF BreakersAreSound
    <2>2. c \in Breakers /\ c.state = "HALF_OPEN" /\ c.failures = b.failures
      BY <2>1 DEF Breakers
    <2>3. LookAt(breakers, looked)[p] = IF p \in looked /\ Ajar(b) THEN c ELSE b
      BY DEF LookAt
    <2> HIDE DEF b, c
    <2> QED
      BY <2>1, <2>2, <2>3 DEF Counts, Ajar
  <1>3. LookAt(breakers, looked) \in [Providers -> Breakers]
    <2>1. \A p \in Providers : LookAt(breakers, looked)[p] \in Breakers
      BY <1>2
    <2> QED
      BY <2>1 DEF LookAt
  <1> QED
    BY <1>1, <1>2, <1>3 DEF BreakersAreSound

LEMMA OutcomesAreSound ==
  ASSUME NEW breakers, BreakersAreSound(breakers), NEW p \in Providers
  PROVE  /\ BreakersAreSound([breakers EXCEPT ![p] = RecordSuccess(breakers[p])])
         /\ p # Local => BreakersAreSound([breakers EXCEPT ![p] = RecordFailure(breakers[p])])
  <1> DEFINE b == breakers[p]
             c == RecordSuccess(b)
             d == RecordFailure(b)
  <1>1. b \in Breakers /\ Counts(b) /\ FailureThreshold \in Nat \ {0}
    BY GatewayAssumption DEF BreakersAreSound
  <1>2. c \in Breakers /\ Counts(c) /\ c.state = "CLOSED"
    <2>1. 0 \in 0..FailureThreshold /\ 0 < FailureThreshold
      BY <1>1
    <2> QED
      BY <1>1, <2>1 DEF RecordSuccess, Breakers, Counts
  <1>3. d \in Breakers /\ Counts(d)
    <2> DEFINE more == b.failures + 1
               n == IF more > FailureThreshold THEN b.failures ELSE more
               s == IF more >= FailureThreshold THEN "OPEN" ELSE b.state
    <2>1. b.failures \in 0..FailureThreshold /\ b.state \in {"CLOSED", "OPEN", "HALF_OPEN"}
      BY <1>1 DEF Breakers
    <2>2. n \in 0..FailureThreshold /\ s \in {"CLOSED", "OPEN", "HALF_OPEN"}
      BY <1>1, <2>1
    <2>3. s = "CLOSED" <=> n < FailureThreshold
      BY <1>1, <2>1 DEF Counts
    <2>4. d = [b EXCEPT !.failures = n, !.cooled = FALSE, !.state = s]
      BY DEF RecordFailure
    <2> HIDE DEF n, s, d, b
    <2>5. d \in Breakers /\ d.failures = n /\ d.state = s
      BY <1>1, <2>2, <2>4 DEF Breakers
    <2> QED
      BY <2>3, <2>5 DEF Counts
  <1> HIDE DEF b, c, d
  <1>4. BreakersAreSound([breakers EXCEPT ![p] = c])
    BY <1>2 DEF BreakersAreSound
  <1>5. p # Local => BreakersAreSound([breakers EXCEPT ![p] = d])
    BY <1>3 DEF BreakersAreSound
  <1> QED
    BY <1>4, <1>5 DEF b, c, d

LEMMA RequestGoesOn ==
  ASSUME GatewayInv, NEW q \in GatewayRequests, NEW x \in GatewayCalls, HasCallee(x),
         Asks(q, x), BreakersAreSound(breaker')
  PROVE  GatewayInv'
  <1>1. asked' \in [GatewayRequests -> GatewayCalls] /\ asked'[q] = x
    BY DEF GatewayInv, Asks
  <1>2. \A r \in GatewayRequests : HasCallee(asked'[r])
    BY <1>1 DEF GatewayInv, Asks
  <1>3. (\A r \in GatewayRequests : HasCallee(asked[r]))'
    BY <1>2
  <1>4. BreakersAreSound(breaker)'
    OBVIOUS
  <1> QED
    BY <1>1, <1>3, <1>4 DEF GatewayInv

LEMMA RequestEnds ==
  ASSUME GatewayInv, NEW q \in GatewayRequests, NEW outcome \in Ended, Ends(q, outcome),
         BreakersAreSound(breaker')
  PROVE  GatewayInv'
  <1> DEFINE x == [Unasked EXCEPT !.at = outcome]
  <1>1. x \in GatewayCalls /\ x.at \in Ended
    BY UnaskedIsACall DEF Unasked
  <1>2. Asks(q, x)
    BY DEF Ends
  <1> HIDE DEF x
  <1>3. HasCallee(x)
    BY <1>1 DEF HasCallee, Ended
  <1> QED
    BY <1>1, <1>2, <1>3, RequestGoesOn

(* The next candidate is looked for among those of the plan.               *)
LEMMA SeekInv ==
  ASSUME GatewayInv, NEW q \in GatewayRequests, NEW x \in GatewayCalls, NEW breakers,
         BreakersAreSound(breakers), Seek(q, x, breakers)
  PROVE  GatewayInv'
  <1> DEFINE open == {i \in (x.k + 1)..Len(x.plan) : Available(breakers[x.plan[i]])}
  <1>1. CASE /\ breaker' = LookAt(breakers, {x.plan[i] : i \in open})
             /\ Ends(q, IF x.at = "calling" THEN "failed" ELSE "no_provider")
    <2>1. (IF x.at = "calling" THEN "failed" ELSE "no_provider") \in Ended
      BY DEF Ended
    <2>2. BreakersAreSound(breaker')
      BY <1>1, LookingIsSound
    <2> QED
      BY <1>1, <2>1, <2>2, RequestEnds
  <1>2. ASSUME NEW next \in open,
               breaker' = LookAt(breakers, {x.plan[i] : i \in {j \in open : j <= next}}),
               Asks(q, [x EXCEPT !.at = "calling", !.k = next, !.attempt = 0])
        PROVE  GatewayInv'
    <2> DEFINE y == [x EXCEPT !.at = "calling", !.k = next, !.attempt = 0]
    <2>1. x.plan \in Seq(Providers) /\ x.k \in Nat
      BY DEF GatewayCalls
    <2>2. next \in Nat /\ next \in DOMAIN x.plan
      BY <2>1
    <2>3. y \in GatewayCalls /\ y.k = next /\ y.plan = x.plan
      <3>1. next \in Nat /\ 0 \in 0..1 /\ "calling" \in AskPlaces
        BY <2>2 DEF AskPlaces
      <3> HIDE DEF open
      <3> QED
        BY <3>1 DEF GatewayCalls
    <2> HIDE DEF y
    <2>4. HasCallee(y)
      BY <2>2, <2>3 DEF HasCallee
    <2>5. BreakersAreSound(breaker')
      BY <1>2, LookingIsSound
    <2> QED
      BY <1>2, <2>3, <2>4, <2>5, RequestGoesOn DEF y
  <1> QED
    BY <1>1, <1>2 DEF Seek

LEMMA PlansAreSequences ==
  ASSUME NEW breakers, NEW plan \in Plans(breakers)
  PROVE  plan \in Seq(Providers)
  <1> DEFINE closed == {p \in Providers : Available(breakers[p])}
  <1>1. Local \in Providers
    BY DEF Providers
  <1>2. Cardinality(closed) \in Nat
    <2>1. IsFiniteSet(Remote \cup {Local})
      BY GatewayAssumption, FS_Singleton, FS_Union
    <2>2. IsFiniteSet(closed)
      BY <2>1, FS_Subset DEF Providers
    <2> QED
      BY <2>2, FS_CardinalityType
  <1> HIDE DEF closed
  <1>3. ASSUME NEW f \in Orders(closed) \cup {<<p>> : p \in Providers}
        PROVE  f \in Seq(Providers)
    <2>1. CASE f \in Orders(closed)
      <3>1. f \in [1..Cardinality(closed) -> Providers]
        BY <2>1 DEF Orders, closed
      <3> QED
        BY <1>2, <3>1, SeqDef
    <2>2. CASE f \in {<<p>> : p \in Providers}
      <3>1. PICK p \in Providers : f = <<p>>
        BY <2>2
      <3> QED
        BY <3>1
    <2> QED
      BY <1>3, <2>1, <2>2
  <1>4. PICK f \in Orders(closed) \cup {<<p>> : p \in Providers} : plan = EndsLocally(f)
    BY DEF Plans, closed
  <1>5. f \in Seq(Providers)
    BY <1>3
  <1> QED
    BY <1>1, <1>4, <1>5, AppendProperties DEF EndsLocally

LEMMA PlanInv ==
  ASSUME GatewayInv, NEW q \in GatewayRequests, Plan(q)
  PROVE  GatewayInv'
  <1>1. BreakersAreSound(LookAt(breaker, Providers))
    BY LookingIsSound DEF GatewayInv
  <1>2. PICK plan \in Plans(breaker) : Seek(q, [asked[q] EXCEPT !.plan = plan], LookAt(breaker, Providers))
    BY DEF Plan
  <1>3. plan \in Seq(Providers)
    BY PlansAreSequences
  <1>4. [asked[q] EXCEPT !.plan = plan] \in GatewayCalls
    BY <1>3 DEF GatewayInv, GatewayCalls
  <1> QED
    BY <1>1, <1>2, <1>4, SeekInv

LEMMA AnswerInv ==
  ASSUME GatewayInv, NEW q \in GatewayRequests, NEW answer \in Answers, Answer(q, answer)
  PROVE  GatewayInv'
  <1> DEFINE o == asked[q]
             x == [o EXCEPT !.at = "storing", !.answer = answer]
  <1>1. o \in GatewayCalls /\ HasCallee(o) /\ o.at = "calling"
    BY DEF GatewayInv, Answer
  <1>2. Callee(q) \in Providers
    BY <1>1 DEF HasCallee, Callee, GatewayCalls
  <1>3. BreakersAreSound(breaker')
    <2>1. breaker' = [breaker EXCEPT ![Callee(q)] = RecordSuccess(breaker[Callee(q)])]
      BY DEF Answer
    <2> QED
      BY <1>2, <2>1, OutcomesAreSound DEF GatewayInv
  <1>4. CASE Asks(q, x)
    <2>1. x \in GatewayCalls /\ x.at = "storing"
      BY <1>1 DEF GatewayCalls, AskPlaces
    <2> HIDE DEF x
    <2>2. HasCallee(x)
      BY <2>1 DEF HasCallee
    <2> QED
      BY <1>3, <1>4, <2>1, <2>2, RequestGoesOn
  <1>5. CASE \E outcome \in {"invalid", "answered"} : Ends(q, outcome)
    BY <1>3, <1>5, RequestEnds DEF Ended
  <1> QED
    BY <1>4, <1>5 DEF Answer

LEMMA FallBackInv ==
  ASSUME GatewayInv, NEW q \in GatewayRequests, FallBack(q)
  PROVE  GatewayInv'
  <1>1. asked[q] \in GatewayCalls /\ HasCallee(asked[q]) /\ asked[q].at = "calling" /\ Callee(q) # Local
    BY DEF GatewayInv, FallBack
  <1>2. Callee(q) \in Providers
    BY <1>1 DEF HasCallee, Callee, GatewayCalls
  <1>3. BreakersAreSound([breaker EXCEPT ![Callee(q)] = RecordFailure(breaker[Callee(q)])])
    BY <1>1, <1>2, OutcomesAreSound DEF GatewayInv
  <1>4. Seek(q, asked[q], [breaker EXCEPT ![Callee(q)] = RecordFailure(breaker[Callee(q)])])
    BY DEF FallBack
  <1> QED
    BY <1>1, <1>3, <1>4, SeekInv

(* The steps that end a request or keep it where it is looked for.         *)
LEMMA EndingsInv ==
  ASSUME GatewayInv, NEW q \in GatewayRequests,
         AnswerFromCache(q) \/ ExceedBudget(q) \/ Store(q) \/ Refuse(q)
  PROVE  GatewayInv'
  <1>1. PICK outcome \in {"answered", "invalid", "over_budget", "refused"} : Ends(q, outcome)
    BY DEF AnswerFromCache, ExceedBudget, Store, Refuse
  <1>2. outcome \in Ended
    BY DEF Ended
  <1>3. BreakersAreSound(breaker')
    <2>1. breaker' = breaker \/ breaker' = LookAt(breaker, Providers)
      BY DEF AnswerFromCache, ExceedBudget, Store, Refuse
    <2> QED
      BY <2>1, LookingIsSound DEF GatewayInv
  <1> QED
    BY <1>1, <1>2, <1>3, RequestEnds

LEMMA WaitingInv ==
  ASSUME GatewayInv, NEW q \in GatewayRequests,
         \/ \E structured, cacheable \in BOOLEAN : Ask(q, structured, cacheable)
         \/ BackOff(q) \/ Retry(q)
  PROVE  GatewayInv'
  <1> DEFINE o == asked[q]
  <1>1. o \in GatewayCalls /\ HasCallee(o) /\ BreakersAreSound(breaker')
    BY DEF GatewayInv, Ask, BackOff, Retry
  <1>2. ASSUME NEW structured \in BOOLEAN, NEW cacheable \in BOOLEAN, Ask(q, structured, cacheable)
        PROVE  GatewayInv'
    <2> DEFINE x == [Unasked EXCEPT !.at = "lookup", !.structured = structured, !.cacheable = cacheable]
    <2>1. x \in GatewayCalls /\ x.at = "lookup"
      BY UnaskedIsACall DEF GatewayCalls, AskPlaces
    <2>2. Asks(q, x)
      BY <1>2 DEF Ask
    <2> HIDE DEF x
    <2>3. HasCallee(x)
      BY <2>1 DEF HasCallee
    <2> QED
      BY <1>1, <2>1, <2>2, <2>3, RequestGoesOn
  <1>3. CASE BackOff(q)
    <2> DEFINE x == [o EXCEPT !.at = "backoff", !.attempt = 1]
    <2>1. o.at = "calling" /\ 1 \in 0..1
      BY <1>3 DEF BackOff
    <2>2. x \in GatewayCalls /\ x.k = o.k /\ x.plan = o.plan
      BY <1>1, <2>1 DEF GatewayCalls, AskPlaces
    <2>3. Asks(q, x)
      BY <1>3 DEF BackOff
    <2> HIDE DEF x
    <2>4. HasCallee(x)
      BY <1>1, <2>1, <2>2 DEF HasCallee
    <2> QED
      BY <1>1, <2>2, <2>3, <2>4, RequestGoesOn
  <1>4. CASE Retry(q)
    <2> DEFINE x == [o EXCEPT !.at = "calling"]
    <2>1. o.at = "backoff"
      BY <1>4 DEF Retry
    <2>2. x \in GatewayCalls /\ x.k = o.k /\ x.plan = o.plan
      BY <1>1 DEF GatewayCalls, AskPlaces
    <2>3. Asks(q, x)
      BY <1>4 DEF Retry
    <2> HIDE DEF x
    <2>4. HasCallee(x)
      BY <1>1, <2>1, <2>2 DEF HasCallee
    <2> QED
      BY <1>1, <2>2, <2>3, <2>4, RequestGoesOn
  <1> QED
    BY <1>2, <1>3, <1>4

LEMMA CoolDownInv ==
  ASSUME GatewayInv, NEW p \in Providers, CoolDown(p)
  PROVE  GatewayInv'
  <1> DEFINE b == [breaker[p] EXCEPT !.cooled = TRUE]
  <1>1. breaker \in [Providers -> Breakers] /\ Counts(breaker[p]) /\ breaker[Local].state = "CLOSED" /\ p # Local
    BY DEF GatewayInv, BreakersAreSound, CoolDown
  <1>2. b \in Breakers /\ b.state = breaker[p].state /\ b.failures = breaker[p].failures
    BY <1>1 DEF Breakers
  <1>3. breaker' = [breaker EXCEPT ![p] = b] /\ asked' = asked
    BY DEF CoolDown
  <1> HIDE DEF b
  <1>4. BreakersAreSound(breaker')
    BY <1>1, <1>2, <1>3 DEF GatewayInv, BreakersAreSound, Counts
  <1>5. BreakersAreSound(breaker)'
    BY <1>4
  <1> QED
    BY <1>3, <1>5 DEF GatewayInv

LEMMA GatewayStepInv == GatewayInv /\ [GatewayNext]_gatewayVars => GatewayInv'
  <1> SUFFICES ASSUME GatewayInv, [GatewayNext]_gatewayVars  PROVE GatewayInv'
    OBVIOUS
  <1>1. ASSUME NEW q \in GatewayRequests, NEW structured \in BOOLEAN, NEW cacheable \in BOOLEAN, Ask(q, structured, cacheable)
        PROVE  GatewayInv'
    BY <1>1, WaitingInv
  <1>2. ASSUME NEW q \in GatewayRequests, GatewayStep(q)
        PROVE  GatewayInv'
    BY <1>2, PlanInv, AnswerInv, FallBackInv, EndingsInv, WaitingInv DEF GatewayStep
  <1>3. ASSUME NEW p \in Providers, CoolDown(p)
        PROVE  GatewayInv'
    BY <1>3, CoolDownInv
  <1>4. CASE CacheExpires \/ UNCHANGED gatewayVars
    BY <1>4 DEF CacheExpires, gatewayVars, GatewayInv, BreakersAreSound
  <1> QED
    BY <1>1, <1>2, <1>3, <1>4 DEF GatewayNext

(* However the outcomes of overlapping calls arrive, and however many      *)
(* providers and requests there are, a breaker is closed exactly while     *)
(* fewer failures than the threshold followed the last success, and that   *)
(* of the local provider always is (record_success, record_failure and     *)
(* get_state of the circuit breaker, execute_with_fallback).               *)
THEOREM BreakersCount == GatewaySpec => []BreakerCountsFailures
  <1>1. GatewayInv => BreakerCountsFailures
    BY DEF GatewayInv, BreakersAreSound, Counts, BreakerCountsFailures
  <1> QED
    BY <1>1, GatewayInitInv, GatewayStepInv, PTL DEF GatewaySpec
-----------------------------------------------------------------------------
(***************************************************************************)
(* The stream of an execution.                                             *)
(***************************************************************************)
Watches == [at : {"away", "on", "ended", "refused", "cut"}, queue : Seq(Nat), dropped : BOOLEAN,
            choked : BOOLEAN, delivered : Seq(Nat \ {0})]
Cancels == [at : {"new", "signal", "flushing", "record", "done", "error"}, number : Nat \ {0}, broken : BOOLEAN]

Coordinators == [here : BOOLEAN, last : Nat, cancelled : BOOLEAN, terminal : BOOLEAN]
Pipelines == [at : {"ready", "flushing", "commit", "over"}, next : Nat, number : Nat \ {0}, flushed : SUBSET Nat,
              failing : BOOLEAN, broken : BOOLEAN]

AskTablesOK ==
    /\ coordinator \in Coordinators /\ pipeline \in Pipelines
    /\ cancel \in [CancelRequests -> Cancels] /\ watcher \in [Watchers -> Watches]

CancelledBy(n, cs) == \E c \in CancelRequests : cs[c].number \in 2..n
Follows(m, n, cs) == m < n /\ (n # m + 1 => CancelledBy(n, cs))
Open(queue) == \A k \in DOMAIN queue : queue[k] # Sentinel

(* Up to the first sentinel, what a watcher has been shown and what waits  *)
(* in its queue is one stream in order.                                    *)
InOrder(x, cs) ==
    LET d == x.delivered q == x.queue IN
    /\ \A k \in 2..Len(d) : Follows(d[k - 1], d[k], cs)
    /\ \A k \in 2..Len(q) : (\A j \in 1..k : q[j] # Sentinel) => Follows(q[k - 1], q[k], cs)
    /\ d # <<>> /\ q # <<>> /\ q[1] # Sentinel => Follows(d[Len(d)], q[1], cs)

Shown(x) == x.queue # <<>> \/ x.delivered # <<>>
Latest(x) == IF x.queue # <<>> THEN x.queue[Len(x.queue)] ELSE x.delivered[Len(x.delivered)]

(* Whatever number reaches it next, from the pipeline, from a cancel       *)
(* request in flight or from one not made yet, follows the latest one.     *)
Awaits(m, co, pi, cs) ==
    /\ m \in 1..co.last
    /\ pi.at = "flushing" => Follows(m, pi.number, cs)
    /\ pi.at \in {"ready", "commit"} => m = co.last \/ CancelledBy(co.last, cs)
    /\ \A c \in CancelRequests : cs[c].at = "flushing" => m < cs[c].number

Waits(x) == ~x.choked /\ x.at = "on" /\ Open(x.queue) /\ Shown(x)

Watched(x, co, pi, cs) ==
    /\ x.at \in {"away", "refused"} => ~Shown(x)
    /\ x.dropped => x.choked
    /\ ~x.choked => InOrder(x, cs)
    /\ Waits(x) => Awaits(Latest(x), co, pi, cs)
    /\ ~co.here => x.at # "on"

(* What the emitters have numbered; nobody is left when the process died.  *)
EmittersAgree(co, pi, cs) ==
    /\ pi.at = "flushing" /\ ~co.terminal => pi.number = co.last
    /\ ~co.here => pi.at = "over"
    /\ \A c \in CancelRequests :
          /\ cs[c].at \in {"new", "signal"} => cs[c].number = 1
          /\ cs[c].at = "flushing" => co.here /\ co.terminal

AskInv ==
    /\ AskTablesOK
    /\ EmittersAgree(coordinator, pipeline, cancel)
    /\ \A w \in Watchers : Watched(watcher[w], coordinator, pipeline, cancel)
-----------------------------------------------------------------------------
LEMMA AskInitInv == AskInit => AskInv
  <1> SUFFICES ASSUME AskInit  PROVE AskInv
    OBVIOUS
  <1> DEFINE x == [at |-> "away", queue |-> <<>>, dropped |-> FALSE, choked |-> FALSE, delivered |-> <<>>]
  <1>1. AskTablesOK
    <2>1. coordinator \in Coordinators /\ pipeline \in Pipelines
      BY DEF AskInit, Coordinators, Pipelines
    <2>2. cancel \in [CancelRequests -> Cancels]
      BY DEF AskInit, Cancels
    <2>3. <<>> \in Seq(Nat) /\ <<>> \in Seq(Nat \ {0})
      BY EmptySeq
    <2>4. x \in Watches
      BY <2>3 DEF Watches
    <2> QED
      BY <2>1, <2>2, <2>4 DEF AskTablesOK, AskInit
  <1>2. EmittersAgree(coordinator, pipeline, cancel)
    BY DEF AskInit, EmittersAgree
  <1>3. coordinator.here /\ \A w \in Watchers : watcher[w] = x
    BY DEF AskInit
  <1>4. x.at = "away" /\ ~Shown(x) /\ ~x.dropped /\ InOrder(x, cancel)
    BY DEF Shown, InOrder
  <1> HIDE DEF x
  <1>5. Watched(x, coordinator, pipeline, cancel)
    BY <1>3, <1>4 DEF Watched, Waits
  <1> QED
    BY <1>1, <1>2, <1>3, <1>5 DEF AskInv

LEMMA AskFacts ==
  ASSUME AskInv
  PROVE  /\ coordinator \in Coordinators /\ pipeline \in Pipelines
         /\ cancel \in [CancelRequests -> Cancels] /\ watcher \in [Watchers -> Watches]
         /\ EmittersAgree(coordinator, pipeline, cancel)
         /\ \A w \in Watchers : Watched(watcher[w], coordinator, pipeline, cancel)
  BY DEF AskInv, AskTablesOK

(* Numbers of cancellations, once given, are not taken back.               *)
LEMMA OrderStays ==
  ASSUME NEW cs \in [CancelRequests -> Cancels], NEW ds \in [CancelRequests -> Cancels],
         \A c \in CancelRequests : cs[c].number = 1 \/ ds[c].number = cs[c].number
  PROVE  /\ \A n \in Nat : CancelledBy(n, cs) => CancelledBy(n, ds)
         /\ \A m, n \in Nat : Follows(m, n, cs) => Follows(m, n, ds)
         /\ \A x \in Watches : InOrder(x, cs) => InOrder(x, ds)
  <1>1. \A n \in Nat : CancelledBy(n, cs) => CancelledBy(n, ds)
    BY DEF CancelledBy, Cancels
  <1>2. \A m, n \in Nat : Follows(m, n, cs) => Follows(m, n, ds)
    BY <1>1 DEF Follows
  <1>3. ASSUME NEW x \in Watches, InOrder(x, cs)
        PROVE  InOrder(x, ds)
    <2> DEFINE d == x.delivered
               q == x.queue
    <2>1. d \in Seq(Nat \ {0}) /\ q \in Seq(Nat)
      BY DEF Watches
    <2>2. /\ \A k \in 2..Len(d) : Follows(d[k - 1], d[k], cs)
          /\ \A k \in 2..Len(q) : (\A j \in 1..k : q[j] # Sentinel) => Follows(q[k - 1], q[k], cs)
          /\ d # <<>> /\ q # <<>> /\ q[1] # Sentinel => Follows(d[Len(d)], q[1], cs)
      BY <1>3 DEF InOrder
    <2> HIDE DEF d, q
    <2>3. \A k \in 2..Len(d) : d[k - 1] \in Nat /\ d[k] \in Nat
      BY <2>1
    <2>4. \A k \in 2..Len(q) : q[k - 1] \in Nat /\ q[k] \in Nat
      BY <2>1
    <2>5. d # <<>> /\ q # <<>> => d[Len(d)] \in Nat /\ q[1] \in Nat
      BY <2>1
    <2>6. /\ \A k \in 2..Len(d) : Follows(d[k - 1], d[k], ds)
          /\ \A k \in 2..Len(q) : (\A j \in 1..k : q[j] # Sentinel) => Follows(q[k - 1], q[k], ds)
          /\ d # <<>> /\ q # <<>> /\ q[1] # Sentinel => Follows(d[Len(d)], q[1], ds)
      BY <1>2, <2>2, <2>3, <2>4, <2>5
    <2> QED
      BY <2>6 DEF InOrder, d, q
  <1> QED
    BY <1>1, <1>2, <1>3

LEMMA LatestIsANumber ==
  ASSUME NEW x \in Watches, Open(x.queue), Shown(x)
  PROVE  Latest(x) \in Nat \ {0}
  <1>1. x.delivered \in Seq(Nat \ {0}) /\ x.queue \in Seq(Nat)
    BY DEF Watches
  <1>2. CASE x.queue # <<>>
    <2>1. Len(x.queue) \in DOMAIN x.queue
      BY <1>1, <1>2
    <2> QED
      BY <1>1, <1>2, <2>1 DEF Latest, Open, Sentinel
  <1>3. CASE x.queue = <<>>
    <2>1. x.delivered # <<>>
      BY <1>3 DEF Shown
    <2> QED
      BY <1>1, <1>3, <2>1 DEF Latest
  <1> QED
    BY <1>2, <1>3

(* A step of the emitters that reaches no watcher.                         *)
LEMMA EmittersGoOn ==
  ASSUME AskInv, watcher' = watcher,
         coordinator' \in Coordinators, pipeline' \in Pipelines, cancel' \in [CancelRequests -> Cancels],
         coordinator'.here = coordinator.here,
         EmittersAgree(coordinator', pipeline', cancel'),
         \A c \in CancelRequests : cancel[c].number = 1 \/ cancel'[c].number = cancel[c].number,
         \A m \in Nat \ {0} : Awaits(m, coordinator, pipeline, cancel) => Awaits(m, coordinator', pipeline', cancel')
  PROVE  AskInv'
  <1>1. ASSUME NEW w \in Watchers
        PROVE  Watched(watcher[w], coordinator', pipeline', cancel')
    <2> DEFINE x == watcher[w]
    <2>1. x \in Watches /\ Watched(x, coordinator, pipeline, cancel)
      BY AskFacts
    <2> HIDE DEF x
    <2>2. InOrder(x, cancel) => InOrder(x, cancel')
      BY <2>1, AskFacts, OrderStays
    <2>3. Waits(x) => Latest(x) \in Nat \ {0}
      BY <2>1, LatestIsANumber DEF Waits
    <2>4. Watched(x, coordinator', pipeline', cancel')
      BY <2>1, <2>2, <2>3 DEF Watched
    <2> QED
      BY <2>4 DEF x
  <1>2. AskTablesOK' /\ EmittersAgree(coordinator, pipeline, cancel)'
    BY AskFacts DEF AskTablesOK
  <1>3. (\A w \in Watchers : Watched(watcher[w], coordinator, pipeline, cancel))'
    BY <1>1
  <1> QED
    BY <1>2, <1>3 DEF AskInv

(* A step of a watcher.                                                    *)
LEMMA WatcherGoesOn ==
  ASSUME AskInv, NEW w \in Watchers, NEW x \in Watches, watcher' = [watcher EXCEPT ![w] = x],
         UNCHANGED <<coordinator, pipeline, cancel>>, Watched(x, coordinator, pipeline, cancel)
  PROVE  AskInv'
  <1>1. AskTablesOK' /\ EmittersAgree(coordinator, pipeline, cancel)'
    BY AskFacts DEF AskTablesOK
  <1>2. \A v \in Watchers : watcher'[v] = IF v = w THEN x ELSE watcher[v]
    BY AskFacts
  <1>3. \A v \in Watchers : Watched(watcher'[v], coordinator, pipeline, cancel)
    BY <1>2, AskFacts
  <1>4. (\A v \in Watchers : Watched(watcher[v], coordinator, pipeline, cancel))'
    BY <1>3
  <1> QED
    BY <1>1, <1>4 DEF AskInv
-----------------------------------------------------------------------------
(* Whoever takes the next number takes one above what anyone has seen.     *)
LEMMA NumberingInv ==
  ASSUME AskInv, NEW pi \in Pipelines, NEW terminal \in BOOLEAN, pipeline.at \in {"ready", "commit"},
         NumberNext(terminal), pi.at = "flushing", pi.number = coordinator.last + 1, pipeline' = pi,
         UNCHANGED <<cancel, watcher>>
  PROVE  AskInv'
  <1> DEFINE co == coordinator
             new == [co EXCEPT !.last = @ + 1, !.terminal = @ \/ terminal]
  <1>1. co \in Coordinators /\ EmittersAgree(co, pipeline, cancel)
    BY AskFacts
  <1>2. co.last \in Nat /\ co.last + 1 \in Nat /\ co.terminal \in BOOLEAN
    BY <1>1 DEF Coordinators
  <1>3. new \in Coordinators /\ new.last = co.last + 1 /\ new.here = co.here /\ (co.terminal => new.terminal)
    BY <1>1, <1>2 DEF Coordinators
  <1>4. coordinator' = new
    BY DEF NumberNext
  <1> HIDE DEF new
  <1>5. EmittersAgree(new, pi, cancel)
    BY <1>1, <1>3 DEF EmittersAgree
  <1>6. ASSUME NEW m \in Nat \ {0}, Awaits(m, co, pipeline, cancel)
        PROVE  Awaits(m, new, pi, cancel)
    <2>1. m \in 1..co.last /\ (m = co.last \/ CancelledBy(co.last, cancel))
      BY <1>6 DEF Awaits
    <2>2. CancelledBy(co.last, cancel) => CancelledBy(co.last + 1, cancel)
      BY <1>2 DEF CancelledBy
    <2>3. Follows(m, pi.number, cancel)
      BY <1>2, <2>1, <2>2 DEF Follows
    <2>4. m \in 1..new.last
      BY <1>2, <1>3, <2>1
    <2> QED
      BY <1>6, <2>3, <2>4 DEF Awaits
  <1>7. cancel \in [CancelRequests -> Cancels]
    BY AskFacts
  <1> QED
    BY <1>3, <1>4, <1>5, <1>6, <1>7, EmittersGoOn

LEMMA PipelineStopsInv ==
  ASSUME AskInv, NEW pi \in Pipelines, pi.at = "over", pipeline' = pi, UNCHANGED <<coordinator, cancel, watcher>>
  PROVE  AskInv'
  <1>1. EmittersAgree(coordinator, pi, cancel)
    BY AskFacts DEF EmittersAgree
  <1>2. \A m \in Nat \ {0} : Awaits(m, coordinator, pipeline, cancel) => Awaits(m, coordinator, pi, cancel)
    BY DEF Awaits
  <1>3. coordinator \in Coordinators /\ cancel \in [CancelRequests -> Cancels]
    BY AskFacts
  <1> QED
    BY <1>1, <1>2, <1>3, EmittersGoOn

LEMMA PipelineEmitsInv ==
  ASSUME AskInv, PipelineEmits
  PROVE  AskInv'
  <1>1. pipeline \in Pipelines /\ pipeline.at = "ready" /\ coordinator.last \in Nat
    BY AskFacts DEF PipelineEmits, Coordinators
  <1>2. CASE /\ pipeline' = [pipeline EXCEPT !.at = "over", !.flushed = {}]
             /\ UNCHANGED coordinator
    <2>1. pipeline' \in Pipelines /\ pipeline'.at = "over"
      BY <1>1, <1>2 DEF Pipelines
    <2> QED
      BY <1>2, <2>1, PipelineStopsInv DEF PipelineEmits
  <1>3. CASE /\ NumberNext(pipeline.next = Events)
             /\ pipeline' = [pipeline EXCEPT !.at = "flushing", !.number = coordinator.last + 1]
    <2>1. coordinator.last + 1 \in Nat \ {0}
      BY <1>1
    <2>2. /\ pipeline' \in Pipelines /\ pipeline'.at = "flushing"
          /\ pipeline'.number = coordinator.last + 1
      BY <1>1, <1>3, <2>1 DEF Pipelines
    <2>3. (pipeline.next = Events) \in BOOLEAN /\ UNCHANGED <<cancel, watcher>>
      BY DEF PipelineEmits
    <2> QED
      BY <1>1, <1>3, <2>2, <2>3, NumberingInv
  <1> QED
    BY <1>2, <1>3 DEF PipelineEmits

LEMMA PipelineRaisesInv ==
  ASSUME AskInv, PipelineRaises
  PROVE  AskInv'
  <1>1. pipeline \in Pipelines /\ coordinator.last \in Nat
    BY AskFacts DEF Coordinators
  <1>2. coordinator.last + 1 \in Nat \ {0}
    BY <1>1
  <1>3. pipeline' = [pipeline EXCEPT !.at = "flushing", !.number = coordinator.last + 1, !.failing = TRUE]
    BY DEF PipelineRaises
  <1>4. pipeline' \in Pipelines /\ pipeline'.at = "flushing" /\ pipeline'.number = coordinator.last + 1
    BY <1>1, <1>2, <1>3 DEF Pipelines
  <1>5. NumberNext(TRUE) /\ UNCHANGED <<cancel, watcher>> /\ pipeline.at \in {"ready", "commit"}
    BY DEF PipelineRaises
  <1> QED
    BY <1>4, <1>5, NumberingInv

(* What the SQL branch commits or rolls back is nothing that emitters      *)
(* number or watchers see.                                                 *)
LEMMA BranchSettlesInv ==
  ASSUME AskInv, BranchSettles
  PROVE  AskInv'
  <1>1. /\ pipeline' \in Pipelines /\ pipeline'.at = pipeline.at /\ pipeline'.number = pipeline.number
        /\ UNCHANGED <<coordinator, cancel, watcher>>
    BY AskFacts DEF BranchSettles, Pipelines
  <1>2. EmittersAgree(coordinator, pipeline', cancel)
    BY <1>1, AskFacts DEF EmittersAgree
  <1>3. \A m \in Nat \ {0} : Awaits(m, coordinator, pipeline, cancel) => Awaits(m, coordinator, pipeline', cancel)
    BY <1>1 DEF Awaits
  <1>4. coordinator \in Coordinators /\ cancel \in [CancelRequests -> Cancels]
    BY AskFacts
  <1> QED
    BY <1>1, <1>2, <1>3, <1>4, EmittersGoOn

LEMMA PipelineCommitsInv ==
  ASSUME AskInv, PipelineCommits
  PROVE  AskInv'
  <1>1. pipeline' \in Pipelines /\ pipeline'.at = "over"
    BY AskFacts DEF PipelineCommits, Pipelines
  <1> QED
    BY <1>1, PipelineStopsInv DEF PipelineCommits

(* A cancel request that gives no number.                                  *)
LEMMA CancelWorksInv ==
  ASSUME AskInv, NEW c \in CancelRequests, NEW x \in Cancels, CancelGoes(c, x),
         x.at # "flushing", x.number = cancel[c].number, x.at \in {"new", "signal"} => x.number = 1,
         UNCHANGED <<coordinator, pipeline, watcher>>
  PROVE  AskInv'
  <1>1. /\ coordinator \in Coordinators /\ pipeline \in Pipelines /\ cancel \in [CancelRequests -> Cancels]
        /\ EmittersAgree(coordinator, pipeline, cancel)
    BY AskFacts
  <1>2. /\ cancel' \in [CancelRequests -> Cancels]
        /\ \A d \in CancelRequests : cancel'[d] = IF d = c THEN x ELSE cancel[d]
    BY <1>1 DEF CancelGoes
  <1>3. EmittersAgree(coordinator, pipeline, cancel')
    BY <1>1, <1>2 DEF EmittersAgree
  <1>4. \A d \in CancelRequests : cancel'[d].number = cancel[d].number
    BY <1>2
  <1>5. \A m \in Nat \ {0} : Awaits(m, coordinator, pipeline, cancel) => Awaits(m, coordinator, pipeline, cancel')
    <2>1. \A n : CancelledBy(n, cancel) => CancelledBy(n, cancel')
      BY <1>4 DEF CancelledBy
    <2> QED
      BY <1>2, <2>1 DEF Awaits, Follows
  <1> QED
    BY <1>1, <1>2, <1>3, <1>4, <1>5, EmittersGoOn

LEMMA SignalCancelInv ==
  ASSUME AskInv, NEW c \in CancelRequests, SignalCancel(c)
  PROVE  AskInv'
  <1> DEFINE co == coordinator
             o == cancel[c]
  <1>1. /\ co \in Coordinators /\ pipeline \in Pipelines /\ cancel \in [CancelRequests -> Cancels]
        /\ EmittersAgree(co, pipeline, cancel) /\ o \in Cancels /\ o.at = "signal" /\ o.number = 1
    <2>1. /\ co \in Coordinators /\ pipeline \in Pipelines /\ cancel \in [CancelRequests -> Cancels]
          /\ EmittersAgree(co, pipeline, cancel) /\ o \in Cancels /\ o.at = "signal"
      BY AskFacts DEF SignalCancel
    <2> QED
      BY <2>1 DEF EmittersAgree
  <1>2. UNCHANGED <<pipeline, watcher>>
    BY DEF SignalCancel
  <1>3. CASE CancelGoes(c, [o EXCEPT !.at = "record"]) /\ UNCHANGED coordinator
    <2> DEFINE x == [o EXCEPT !.at = "record"]
    <2>1. x \in Cancels /\ x.at = "record" /\ x.number = o.number
      BY <1>1 DEF Cancels
    <2> HIDE DEF x
    <2>2. CancelGoes(c, x)
      BY <1>3 DEF x
    <2> QED
      BY <1>2, <1>3, <2>1, <2>2, CancelWorksInv
  <1>4. CASE /\ co.here /\ coordinator' = [co EXCEPT !.last = @ + 1, !.cancelled = TRUE, !.terminal = TRUE]
             /\ CancelGoes(c, [o EXCEPT !.at = "flushing", !.number = co.last + 1])
    <2> DEFINE new == [co EXCEPT !.last = @ + 1, !.cancelled = TRUE, !.terminal = TRUE]
               x == [o EXCEPT !.at = "flushing", !.number = co.last + 1]
    <2>1. co.last \in Nat /\ co.last + 1 \in Nat \ {0}
      BY <1>1 DEF Coordinators
    <2>2. new \in Coordinators /\ new.last = co.last + 1 /\ new.here = co.here /\ new.terminal
      BY <1>1, <2>1 DEF Coordinators
    <2>3. x \in Cancels /\ x.at = "flushing" /\ x.number = co.last + 1
      BY <1>1, <2>1 DEF Cancels
    <2> HIDE DEF new, x
    <2>4. /\ coordinator' = new /\ cancel' \in [CancelRequests -> Cancels]
          /\ \A d \in CancelRequests : cancel'[d] = IF d = c THEN x ELSE cancel[d]
      BY <1>1, <1>4, <2>3 DEF new, x, CancelGoes
    <2>5. EmittersAgree(new, pipeline, cancel')
      BY <1>1, <1>4, <2>2, <2>3, <2>4 DEF EmittersAgree
    <2>6. \A d \in CancelRequests : cancel[d].number = 1 \/ cancel'[d].number = cancel[d].number
      BY <1>1, <2>4
    <2>7. ASSUME NEW m \in Nat \ {0}, Awaits(m, co, pipeline, cancel)
          PROVE  Awaits(m, new, pipeline, cancel')
      <3>1. m \in 1..co.last /\ m \in 1..new.last /\ m < co.last + 1 /\ co.last + 1 \in 2..(co.last + 1)
        BY <2>1, <2>2, <2>7 DEF Awaits
      <3>2. CancelledBy(new.last, cancel')
        BY <2>2, <2>3, <2>4, <3>1 DEF CancelledBy
      <3>3. pipeline.at = "flushing" => Follows(m, pipeline.number, cancel')
        <4>1. pipeline.number \in Nat
          BY <1>1 DEF Pipelines
        <4> QED
          BY <1>1, <2>4, <2>6, <2>7, <4>1, OrderStays DEF Awaits
      <3>4. \A d \in CancelRequests : cancel'[d].at = "flushing" => m < cancel'[d].number
        BY <2>3, <2>4, <2>7, <3>1 DEF Awaits
      <3> QED
        BY <3>1, <3>2, <3>3, <3>4 DEF Awaits
    <2> QED
      BY <1>1, <1>2, <2>2, <2>4, <2>5, <2>6, <2>7, EmittersGoOn
  <1> QED
    BY <1>3, <1>4 DEF SignalCancel

LEMMA CancelStepsInv ==
  ASSUME AskInv, NEW c \in CancelRequests, LoadExecution(c) \/ RecordCancelled(c)
  PROVE  AskInv'
  <1> DEFINE o == cancel[c]
  <1>1. o \in Cancels /\ (o.at = "new" => o.number = 1)
    BY AskFacts DEF EmittersAgree
  <1>2. PICK place \in {"signal", "done", "error"} :
           /\ CancelGoes(c, [o EXCEPT !.at = place]) /\ (place = "signal" => o.at = "new")
           /\ UNCHANGED <<coordinator, pipeline, watcher>>
    BY DEF LoadExecution, RecordCancelled
  <1> DEFINE x == [o EXCEPT !.at = place]
  <1>3. x \in Cancels /\ x.at = place /\ x.number = o.number
    BY <1>1 DEF Cancels
  <1> HIDE DEF x
  <1>4. CancelGoes(c, x)
    BY <1>2 DEF x
  <1> QED
    BY <1>1, <1>2, <1>3, <1>4, CancelWorksInv
-----------------------------------------------------------------------------
(* What put_nowait makes of a queue.                                       *)
LEMMA PutKeeps ==
  ASSUME NEW x \in Watches, NEW n \in Nat, x.dropped => x.choked
  PROVE  /\ Put(x, n) \in Watches /\ Put(x, n).at = x.at /\ Put(x, n).delivered = x.delivered
         /\ Put(x, n).dropped => Put(x, n).choked
         /\ ~Put(x, n).choked => ~x.choked /\ Put(x, n).queue = Append(x.queue, n)
  <1>1. CASE Len(x.queue) < QueueSize
    <2> DEFINE y == [x EXCEPT !.queue = Append(x.queue, n)]
    <2>1. Append(x.queue, n) \in Seq(Nat)
      BY DEF Watches
    <2>2. /\ y \in Watches /\ y.at = x.at /\ y.delivered = x.delivered /\ y.queue = Append(x.queue, n)
          /\ y.dropped = x.dropped /\ y.choked = x.choked
      BY <2>1 DEF Watches
    <2>3. Put(x, n) = y
      BY <1>1 DEF Put
    <2> QED
      BY <2>2, <2>3
  <1>2. CASE ~(Len(x.queue) < QueueSize)
    <2> DEFINE y == [x EXCEPT !.choked = TRUE, !.dropped = (x.dropped \/ n # Sentinel)]
    <2>1. y \in Watches /\ y.at = x.at /\ y.delivered = x.delivered /\ y.choked
      BY DEF Watches
    <2>2. Put(x, n) = y
      BY <1>2 DEF Put
    <2> QED
      BY <2>1, <2>2
  <1> QED
    BY <1>1, <1>2

LEMMA QueuedInOrder ==
  ASSUME NEW x \in Watches, NEW y \in Watches, NEW n \in Nat, NEW cs, InOrder(x, cs),
         y.delivered = x.delivered, y.queue = Append(x.queue, n),
         n = Sentinel \/ (Open(x.queue) /\ Shown(x) => Follows(Latest(x), n, cs))
  PROVE  InOrder(y, cs)
  <1> DEFINE d == x.delivered
             q == x.queue
             r == y.queue
  <1>1. q \in Seq(Nat) /\ d \in Seq(Nat \ {0})
    BY DEF Watches
  <1>2. /\ \A k \in 2..Len(d) : Follows(d[k - 1], d[k], cs)
        /\ \A k \in 2..Len(q) : (\A j \in 1..k : q[j] # Sentinel) => Follows(q[k - 1], q[k], cs)
        /\ d # <<>> /\ q # <<>> /\ q[1] # Sentinel => Follows(d[Len(d)], q[1], cs)
    BY DEF InOrder
  <1>3. Len(r) = Len(q) + 1 /\ r[Len(q) + 1] = n /\ \A k \in 1..Len(q) : r[k] = q[k]
    BY <1>1, AppendProperties
  <1>4. n = Sentinel \/ (Open(q) /\ Shown(x) => Follows(Latest(x), n, cs))
    OBVIOUS
  <1>5. q # <<>> => Shown(x) /\ Latest(x) = q[Len(q)]
    BY DEF Shown, Latest
  <1>6. q = <<>> /\ d # <<>> => Open(q) /\ Shown(x) /\ Latest(x) = d[Len(d)]
    BY DEF Shown, Latest, Open
  <1> HIDE DEF d, q, r
  <1>7. ASSUME NEW k \in 2..Len(r), \A j \in 1..k : r[j] # Sentinel
        PROVE  Follows(r[k - 1], r[k], cs)
    <2>1. CASE k \in 2..Len(q)
      <3>1. k \in 1..Len(q) /\ k - 1 \in 1..Len(q) /\ \A j \in 1..k : j \in 1..Len(q)
        BY <1>1, <2>1
      <3>2. r[k] = q[k] /\ r[k - 1] = q[k - 1] /\ \A j \in 1..k : q[j] # Sentinel
        BY <1>3, <1>7, <3>1
      <3> QED
        BY <1>2, <2>1, <3>2
    <2>2. CASE k = Len(q) + 1
      <3>1. Len(q) \in Nat /\ Len(q) >= 1 /\ r[k] = n /\ r[k - 1] = q[Len(q)] /\ n # Sentinel /\ q # <<>>
        BY <1>1, <1>3, <1>7, <2>2
      <3>2. \A j \in DOMAIN q : j \in 1..Len(q) /\ j \in 1..k
        BY <1>1, <2>2
      <3>3. Open(q)
        BY <1>3, <1>7, <3>2 DEF Open
      <3> QED
        BY <1>4, <1>5, <3>1, <3>3
    <2> QED
      BY <1>1, <1>3, <2>1, <2>2
  <1>8. ASSUME d # <<>>, r[1] # Sentinel
        PROVE  Follows(d[Len(d)], r[1], cs)
    <2>1. CASE q # <<>>
      <3>1. r[1] = q[1]
        BY <1>1, <1>3, <2>1
      <3> QED
        BY <1>2, <1>8, <2>1, <3>1
    <2>2. CASE q = <<>>
      <3>1. r[1] = n
        BY <1>1, <1>3, <2>2
      <3> QED
        BY <1>4, <1>6, <1>8, <2>2, <3>1
    <2> QED
      BY <2>1, <2>2
  <1> QED
    BY <1>2, <1>7, <1>8 DEF InOrder, d, r

(* A number reaches every queue, and the sentinel after it if the          *)
(* execution is terminal.                                                  *)
LEMMA BroadcastInv ==
  ASSUME AskInv, NEW number \in Nat \ {0}, Broadcast(number), coordinator' = coordinator,
         NEW pi \in Pipelines, pipeline' = pi, NEW cs \in [CancelRequests -> Cancels], cancel' = cs,
         EmittersAgree(coordinator, pi, cs), \A c \in CancelRequests : cs[c].number = cancel[c].number,
         \A m \in Nat \ {0} : Awaits(m, coordinator, pipeline, cancel) => Follows(m, number, cancel),
         ~coordinator.terminal => Awaits(number, coordinator, pi, cs)
  PROVE  AskInv'
  <1>1. /\ coordinator \in Coordinators /\ cancel \in [CancelRequests -> Cancels]
        /\ watcher \in [Watchers -> Watches] /\ DOMAIN watcher' = Watchers
    BY AskFacts DEF Broadcast
  <1>2. ASSUME NEW w \in Watchers
        PROVE  watcher'[w] \in Watches /\ Watched(watcher'[w], coordinator, pi, cs)
    <2> DEFINE x == watcher[w]
               y == Put(x, number)
               z == Put(y, Sentinel)
    <2>1. x \in Watches /\ Watched(x, coordinator, pipeline, cancel)
      BY AskFacts
    <2>2. CASE w \notin Subscribed
      <3>1. watcher'[w] = x
        BY <2>2 DEF Broadcast
      <3>2. x.at # "on" \/ x.choked
        BY <2>1, <2>2 DEF Subscribed, Watched
      <3> HIDE DEF x
      <3>3. InOrder(x, cancel) => InOrder(x, cs)
        BY <1>1, <2>1, OrderStays
      <3> QED
        BY <2>1, <3>1, <3>2, <3>3 DEF Watched, Waits
    <2>3. CASE w \in Subscribed
      <3>1. watcher'[w] = IF coordinator.terminal /\ ~y.dropped THEN z ELSE y
        BY <2>3 DEF Broadcast
      <3>2. x.at = "on" /\ (x.dropped => x.choked) /\ coordinator.here
        BY <2>1, <2>3 DEF Subscribed, Watched
      <3>3. /\ y \in Watches /\ y.at = "on" /\ y.delivered = x.delivered
            /\ y.dropped => y.choked
            /\ ~y.choked => ~x.choked /\ y.queue = Append(x.queue, number)
        <4> HIDE DEF x
        <4> QED
          BY <2>1, <3>2, PutKeeps
      <3>4. ~y.choked => InOrder(y, cs)
        <4>1. ~x.choked => InOrder(x, cancel)
          BY <2>1 DEF Watched
        <4>2. ~x.choked /\ Open(x.queue) /\ Shown(x) => Follows(Latest(x), number, cancel)
          <5> HIDE DEF x
          <5> QED
            BY <2>1, <3>2, LatestIsANumber DEF Watched, Waits
        <4> HIDE DEF x, y
        <4>3. ~y.choked => InOrder(y, cancel)
          BY <2>1, <3>3, <4>1, <4>2, QueuedInOrder
        <4> QED
          BY <1>1, <3>3, <4>3, OrderStays
      <3>5. CASE coordinator.terminal /\ ~y.dropped
        <4>1. Sentinel \in Nat
          BY DEF Sentinel
        <4>2. /\ z \in Watches /\ z.at = "on" /\ z.delivered = y.delivered
              /\ z.dropped => z.choked
              /\ ~z.choked => ~y.choked /\ z.queue = Append(y.queue, Sentinel)
          <5> HIDE DEF y
          <5> QED
            BY <3>3, <4>1, PutKeeps
        <4> HIDE DEF x, y, z
        <4>3. ~z.choked => InOrder(z, cs)
          BY <3>3, <3>4, <4>1, <4>2, QueuedInOrder
        <4>4. ~z.choked => ~Open(z.queue)
          <5>1. y.queue \in Seq(Nat)
            BY <3>3 DEF Watches
          <5> QED
            BY <4>1, <4>2, <5>1, AppendProperties DEF Open
        <4> QED
          BY <3>1, <3>2, <3>5, <4>2, <4>3, <4>4 DEF Watched, Waits
      <3>6. CASE ~(coordinator.terminal /\ ~y.dropped)
        <4>1. Waits(y) => Latest(y) = number
          <5>1. x.queue \in Seq(Nat)
            BY <2>1 DEF Watches
          <5> HIDE DEF x, y
          <5> QED
            BY <3>3, <5>1, AppendProperties DEF Waits, Latest
        <4>2. y.dropped => ~Waits(y)
          BY <3>3 DEF Waits
        <4> HIDE DEF x, y, z
        <4> QED
          BY <3>1, <3>2, <3>3, <3>4, <3>6, <4>1, <4>2 DEF Watched
      <3> QED
        BY <3>5, <3>6
    <2> QED
      BY <2>2, <2>3
  <1>3. watcher' \in [Watchers -> Watches]
    BY <1>1, <1>2 DEF Broadcast
  <1>4. AskTablesOK' /\ EmittersAgree(coordinator, pipeline, cancel)'
    BY <1>1, <1>3 DEF AskTablesOK
  <1>5. (\A w \in Watchers : Watched(watcher[w], coordinator, pipeline, cancel))'
    BY <1>2
  <1> QED
    BY <1>4, <1>5 DEF AskInv

LEMMA PipelineFlushedInv ==
  ASSUME AskInv, PipelineFlushed
  PROVE  AskInv'
  <1> DEFINE n == pipeline.number
  <1>1. /\ pipeline \in Pipelines /\ coordinator \in Coordinators /\ cancel \in [CancelRequests -> Cancels]
        /\ EmittersAgree(coordinator, pipeline, cancel) /\ pipeline.at = "flushing"
        /\ coordinator' = coordinator /\ cancel' = cancel /\ Broadcast(n)
    BY AskFacts DEF PipelineFlushed
  <1>2. n \in Nat \ {0}
    BY <1>1 DEF Pipelines
  <1>3. PICK fails \in BOOLEAN :
           pipeline' = IF pipeline.failing THEN [pipeline EXCEPT !.at = "over", !.flushed = {}]
                       ELSE [pipeline EXCEPT !.at = IF pipeline.next = Events THEN "commit" ELSE "ready",
                                             !.next = @ + 1, !.broken = fails,
                                             !.flushed = IF fails THEN {} ELSE @ \cup {n}]
    BY DEF PipelineFlushed
  <1>4. pipeline' \in Pipelines /\ pipeline'.at # "flushing"
    <2>1. CASE pipeline.failing
      BY <1>1, <1>3, <2>1 DEF Pipelines
    <2>2. CASE ~pipeline.failing
      <3> DEFINE place == IF pipeline.next = Events THEN "commit" ELSE "ready"
                 rows == IF fails THEN {} ELSE pipeline.flushed \cup {n}
                 next == pipeline.next + 1
      <3>1. place \in {"commit", "ready"} /\ rows \in SUBSET Nat /\ next \in Nat
        BY <1>1, <1>2 DEF Pipelines
      <3>2. pipeline' = [pipeline EXCEPT !.at = place, !.next = next, !.broken = fails, !.flushed = rows]
        BY <1>3, <2>2
      <3> HIDE DEF place, rows, next
      <3> QED
        BY <1>1, <3>1, <3>2 DEF Pipelines
    <2> QED
      BY <2>1, <2>2
  <1> DEFINE pi == pipeline'
  <1>5. EmittersAgree(coordinator, pi, cancel)
    BY <1>1, <1>4 DEF EmittersAgree
  <1>6. \A m \in Nat \ {0} : Awaits(m, coordinator, pipeline, cancel) => Follows(m, n, cancel)
    BY <1>1 DEF Awaits
  <1>7. ~coordinator.terminal => Awaits(n, coordinator, pi, cancel)
    <2>1. coordinator.last \in Nat
      BY <1>1 DEF Coordinators
    <2>2. ~coordinator.terminal => n = coordinator.last /\ \A c \in CancelRequests : cancel[c].at # "flushing"
      BY <1>1 DEF EmittersAgree
    <2>3. pi.at # "flushing"
      BY <1>4
    <2> HIDE DEF n, pi
    <2> QED
      BY <1>2, <2>1, <2>2, <2>3 DEF Awaits
  <1> QED
    BY <1>1, <1>2, <1>4, <1>5, <1>6, <1>7, BroadcastInv

LEMMA CancelFlushedInv ==
  ASSUME AskInv, NEW c \in CancelRequests, CancelFlushed(c)
  PROVE  AskInv'
  <1> DEFINE o == cancel[c]
             taken == o.number \in eventRows
             x == [o EXCEPT !.at = "record", !.broken = taken]
  <1>1. /\ pipeline \in Pipelines /\ cancel \in [CancelRequests -> Cancels] /\ o \in Cancels
        /\ EmittersAgree(coordinator, pipeline, cancel) /\ o.at = "flushing" /\ coordinator.terminal
    <2>1. /\ pipeline \in Pipelines /\ cancel \in [CancelRequests -> Cancels] /\ o \in Cancels
          /\ EmittersAgree(coordinator, pipeline, cancel) /\ o.at = "flushing"
      BY AskFacts DEF CancelFlushed
    <2> QED
      BY <2>1 DEF EmittersAgree
  <1>2. Broadcast(o.number) /\ coordinator' = coordinator /\ pipeline' = pipeline /\ cancel' = [cancel EXCEPT ![c] = x]
    BY DEF CancelFlushed, CancelGoes
  <1>3. x \in Cancels /\ x.at = "record" /\ x.number = o.number /\ o.number \in Nat \ {0}
    <2>1. taken \in BOOLEAN
      OBVIOUS
    <2> HIDE DEF taken
    <2> QED
      BY <1>1, <2>1 DEF Cancels
  <1> HIDE DEF x
  <1> DEFINE cs == [cancel EXCEPT ![c] = x]
  <1>4. cs \in [CancelRequests -> Cancels] /\ \A d \in CancelRequests : cs[d] = IF d = c THEN x ELSE cancel[d]
    BY <1>1, <1>3
  <1>5. EmittersAgree(coordinator, pipeline, cs) /\ \A d \in CancelRequests : cs[d].number = cancel[d].number
    BY <1>1, <1>3, <1>4 DEF EmittersAgree
  <1>6. ASSUME NEW m \in Nat \ {0}, Awaits(m, coordinator, pipeline, cancel)
        PROVE  Follows(m, o.number, cancel)
    <2>1. m < o.number
      BY <1>1, <1>6 DEF Awaits
    <2>2. CancelledBy(o.number, cancel)
      BY <1>3, <2>1 DEF CancelledBy
    <2> QED
      BY <2>1, <2>2 DEF Follows
  <1>7. cancel' = cs
    BY <1>2
  <1> HIDE DEF cs
  <1> QED
    BY <1>1, <1>2, <1>3, <1>4, <1>5, <1>6, <1>7, BroadcastInv
-----------------------------------------------------------------------------
LEMMA TakeKeepsOrder ==
  ASSUME NEW x \in Watches, NEW y \in Watches, NEW cs, InOrder(x, cs), x.queue # <<>>, Head(x.queue) # Sentinel,
         y.queue = Tail(x.queue), y.delivered = Append(x.delivered, Head(x.queue))
  PROVE  InOrder(y, cs) /\ Latest(y) = Latest(x) /\ Shown(x) /\ (Open(y.queue) => Open(x.queue))
  <1> DEFINE d == x.delivered
             q == x.queue
             e == y.delivered
             r == y.queue
  <1>1. q \in Seq(Nat) /\ q # <<>> /\ d \in Seq(Nat \ {0}) /\ q[1] # Sentinel
    BY HeadTailProperties DEF Watches
  <1>2. /\ \A k \in 2..Len(d) : Follows(d[k - 1], d[k], cs)
        /\ \A k \in 2..Len(q) : (\A j \in 1..k : q[j] # Sentinel) => Follows(q[k - 1], q[k], cs)
        /\ d # <<>> => Follows(d[Len(d)], q[1], cs)
    BY <1>1 DEF InOrder
  <1>3. Len(e) = Len(d) + 1 /\ e[Len(d) + 1] = q[1] /\ \A k \in 1..Len(d) : e[k] = d[k]
    <2>1. Head(q) = q[1]
      BY <1>1
    <2>2. e = Append(d, q[1])
      BY <2>1
    <2> QED
      BY <1>1, <2>2, AppendProperties
  <1>4. r \in Seq(Nat) /\ Len(r) = Len(q) - 1 /\ \A k \in 1..Len(r) : r[k] = q[k + 1]
    BY <1>1, HeadTailProperties
  <1>5. e \in Seq(Nat \ {0})
    BY DEF Watches
  <1>6. /\ Shown(x) /\ Latest(x) = q[Len(q)]
        /\ Latest(y) = IF r # <<>> THEN r[Len(r)] ELSE e[Len(e)]
    BY <1>1 DEF Shown, Latest
  <1> HIDE DEF d, q, e, r
  <1>7. ASSUME NEW k \in 2..Len(e)
        PROVE  Follows(e[k - 1], e[k], cs)
    <2>1. CASE k \in 2..Len(d)
      <3>1. k \in 1..Len(d) /\ k - 1 \in 1..Len(d)
        BY <1>1, <2>1
      <3> QED
        BY <1>2, <1>3, <2>1, <3>1
    <2>2. CASE k = Len(d) + 1
      <3>1. Len(d) \in 1..Len(d) /\ k - 1 = Len(d) /\ d # <<>>
        BY <1>1, <2>2
      <3>2. e[k - 1] = d[Len(d)] /\ e[k] = q[1]
        BY <1>3, <2>2, <3>1
      <3> QED
        BY <1>2, <3>1, <3>2
    <2>3. k \in 2..Len(d) \/ k = Len(d) + 1
      BY <1>1, <1>3
    <2> QED
      BY <2>1, <2>2, <2>3
  <1>8. ASSUME NEW k \in 1..Len(r), \A j \in 1..k : r[j] # Sentinel
        PROVE  Follows(q[k], r[k], cs) /\ r[k] = q[k + 1]
    <2>1. k + 1 \in 2..Len(q) /\ (k + 1) - 1 = k
      BY <1>1, <1>4
    <2>2. ASSUME NEW j \in 1..(k + 1)  PROVE q[j] # Sentinel
      <3>1. CASE j = 1
        BY <1>1, <3>1
      <3>2. CASE j # 1
        <4>1. j - 1 \in 1..k /\ j - 1 \in 1..Len(r) /\ (j - 1) + 1 = j
          BY <1>4, <3>2
        <4> QED
          BY <1>4, <1>8, <4>1
      <3> QED
        BY <3>1, <3>2
    <2>3. Follows(q[(k + 1) - 1], q[k + 1], cs)
      BY <1>2, <2>1, <2>2
    <2> QED
      BY <1>4, <2>1, <2>3
  <1>9. ASSUME NEW k \in 2..Len(r), \A j \in 1..k : r[j] # Sentinel
        PROVE  Follows(r[k - 1], r[k], cs)
    <2>1. k \in 1..Len(r) /\ k - 1 \in 1..Len(r) /\ (k - 1) + 1 = k
      BY <1>4
    <2> QED
      BY <1>4, <1>8, <1>9, <2>1
  <1>10. ASSUME r # <<>>, r[1] # Sentinel
         PROVE  Follows(e[Len(e)], r[1], cs)
    <2>1. 1 \in 1..Len(r) /\ \A j \in 1..1 : j = 1
      BY <1>4, <1>10
    <2> QED
      BY <1>3, <1>8, <1>10, <2>1
  <1>11. Latest(y) = Latest(x)
    <2>1. CASE r # <<>>
      <3>1. Len(r) \in 1..Len(r) /\ Len(r) + 1 = Len(q)
        BY <1>1, <1>4, <2>1
      <3> QED
        BY <1>4, <1>6, <2>1, <3>1
    <2>2. CASE r = <<>>
      <3>1. Len(q) = 1
        BY <1>1, <1>4, <2>2
      <3> QED
        BY <1>3, <1>6, <2>2, <3>1
    <2> QED
      BY <2>1, <2>2
  <1>12. Open(r) => Open(q)
    <2>1. \A k \in 1..Len(q) : k = 1 \/ (k - 1 \in 1..Len(r) /\ (k - 1) + 1 = k)
      BY <1>1, <1>4
    <2>2. DOMAIN q = 1..Len(q) /\ DOMAIN r = 1..Len(r)
      BY <1>1, <1>4
    <2>3. ASSUME NEW k \in DOMAIN q, Open(r)
          PROVE  q[k] # Sentinel
      <3>1. CASE k = 1
        BY <1>1, <3>1
      <3>2. CASE k # 1
        <4>1. k - 1 \in 1..Len(r) /\ r[k - 1] = q[(k - 1) + 1] /\ (k - 1) + 1 = k
          BY <1>4, <2>1, <2>2, <3>2
        <4> QED
          BY <2>2, <2>3, <4>1 DEF Open
      <3> QED
        BY <3>1, <3>2
    <2> QED
      BY <2>3 DEF Open
  <1> QED
    BY <1>6, <1>7, <1>9, <1>10, <1>11, <1>12 DEF InOrder, d, q, e, r

LEMMA TakeInv ==
  ASSUME AskInv, NEW w \in Watchers, Take(w)
  PROVE  AskInv'
  <1> DEFINE o == watcher[w]
  <1>1. o \in Watches /\ Watched(o, coordinator, pipeline, cancel) /\ o.at = "on" /\ o.queue # <<>>
    BY AskFacts DEF Take
  <1>2. UNCHANGED <<coordinator, pipeline, cancel>>
    BY DEF Take
  <1>3. CASE Head(o.queue) = Sentinel
    <2> DEFINE x == [o EXCEPT !.at = "ended", !.queue = <<>>]
    <2>1. <<>> \in Seq(Nat)
      BY EmptySeq
    <2>2. /\ x \in Watches /\ x.at = "ended" /\ x.queue = <<>> /\ x.delivered = o.delivered
          /\ x.dropped = o.dropped /\ x.choked = o.choked
      BY <1>1, <2>1 DEF Watches
    <2>3. watcher' = [watcher EXCEPT ![w] = x]
      BY <1>3 DEF Take
    <2> HIDE DEF x
    <2>4. InOrder(o, cancel) => InOrder(x, cancel)
      BY <2>2 DEF InOrder
    <2>5. Watched(x, coordinator, pipeline, cancel)
      BY <1>1, <2>2, <2>4 DEF Watched, Waits
    <2> QED
      BY <1>2, <2>2, <2>3, <2>5, WatcherGoesOn
  <1>4. CASE Head(o.queue) # Sentinel
    <2> DEFINE x == [o EXCEPT !.queue = Tail(o.queue), !.delivered = Append(o.delivered, Head(o.queue))]
    <2>1. Tail(o.queue) \in Seq(Nat) /\ Append(o.delivered, Head(o.queue)) \in Seq(Nat \ {0})
      BY <1>1, <1>4, HeadTailProperties DEF Watches, Sentinel
    <2>2. /\ x \in Watches /\ x.at = "on" /\ x.queue = Tail(o.queue)
          /\ x.delivered = Append(o.delivered, Head(o.queue)) /\ x.dropped = o.dropped
             /\ x.choked = o.choked
      BY <1>1, <2>1 DEF Watches
    <2>3. watcher' = [watcher EXCEPT ![w] = x]
      BY <1>4 DEF Take
    <2> HIDE DEF x, o
    <2>4. InOrder(o, cancel) =>
             InOrder(x, cancel) /\ Latest(x) = Latest(o) /\ Shown(o) /\ (Open(x.queue) => Open(o.queue))
      BY <1>1, <1>4, <2>2, TakeKeepsOrder
    <2>5. Watched(x, coordinator, pipeline, cancel)
      BY <1>1, <2>2, <2>4 DEF Watched, Waits
    <2> QED
      BY <1>2, <2>2, <2>3, <2>5, WatcherGoesOn
  <1> QED
    BY <1>3, <1>4

LEMMA LeavingInv ==
  ASSUME AskInv, NEW w \in Watchers, EndAtHeartbeat(w) \/ Disconnect(w)
  PROVE  AskInv'
  <1> DEFINE o == watcher[w]
             x == [o EXCEPT !.at = "ended"]
             y == [o EXCEPT !.at = "cut", !.queue = <<>>]
  <1>1. o \in Watches /\ Watched(o, coordinator, pipeline, cancel) /\ o.at = "on"
    BY AskFacts DEF EndAtHeartbeat, Disconnect
  <1>2. UNCHANGED <<coordinator, pipeline, cancel>>
    BY DEF EndAtHeartbeat, Disconnect
  <1>3. \A z \in {x, y} : /\ z \in Watches /\ z.at \in {"ended", "cut"} /\ z.queue \in {o.queue, <<>>}
                          /\ z.delivered = o.delivered /\ z.dropped = o.dropped /\ z.choked = o.choked
    <2>1. <<>> \in Seq(Nat)
      BY EmptySeq
    <2> QED
      BY <1>1, <2>1 DEF Watches
  <1>4. watcher' = [watcher EXCEPT ![w] = x] \/ watcher' = [watcher EXCEPT ![w] = y]
    BY <1>1 DEF EndAtHeartbeat, Disconnect, Watches
  <1> HIDE DEF x, y
  <1>5. ASSUME NEW z \in {x, y}
        PROVE  z \in Watches /\ Watched(z, coordinator, pipeline, cancel)
    <2>1. InOrder(o, cancel) => InOrder(z, cancel)
      <3>1. CASE z.queue = o.queue
        BY <1>3, <3>1 DEF InOrder
      <3>2. CASE z.queue = <<>>
        BY <1>3, <3>2 DEF InOrder
      <3> QED
        BY <1>3, <3>1, <3>2
    <2> QED
      BY <1>1, <1>3, <2>1 DEF Watched, Waits
  <1> QED
    BY <1>2, <1>4, <1>5, WatcherGoesOn

LEMMA SubscribeInv ==
  ASSUME AskInv, NEW w \in Watchers, Subscribe(w)
  PROVE  AskInv'
  <1> DEFINE place == IF Cardinality(Subscribed) < MaxSubscribers THEN "on" ELSE "refused"
             o == watcher[w]
             x == [o EXCEPT !.at = place]
             new == [here |-> TRUE, last |-> 0, cancelled |-> FALSE, terminal |-> FALSE]
  <1>1. /\ o \in Watches /\ Watched(o, coordinator, pipeline, cancel) /\ o.at = "away"
        /\ EmittersAgree(coordinator, pipeline, cancel) /\ coordinator \in Coordinators
        /\ watcher \in [Watchers -> Watches]
    BY AskFacts DEF Subscribe
  <1>2. place \in {"on", "refused"}
    OBVIOUS
  <1>3. watcher' = [watcher EXCEPT ![w] = x] /\ UNCHANGED <<pipeline, cancel>>
    BY <1>1 DEF Subscribe, Watches
  <1> HIDE DEF place
  <1>4. /\ x \in Watches /\ x.at = place /\ x.queue = o.queue /\ x.delivered = o.delivered
        /\ x.dropped = o.dropped /\ x.choked = o.choked
    BY <1>1, <1>2 DEF Watches
  <1> HIDE DEF x
  <1>5. /\ coordinator' \in Coordinators /\ coordinator'.here
        /\ coordinator.here => coordinator' = coordinator
    BY <1>1 DEF Subscribe, Coordinators
  <1>6. EmittersAgree(coordinator', pipeline, cancel)
    BY <1>1, <1>5 DEF EmittersAgree
  <1>7. Watched(x, coordinator', pipeline, cancel)
    <2>1. ~Shown(o) /\ ~Shown(x)
      BY <1>1, <1>4 DEF Watched, Shown
    <2>2. InOrder(o, cancel) => InOrder(x, cancel)
      BY <1>4 DEF InOrder
    <2> QED
      BY <1>1, <1>4, <1>5, <2>1, <2>2 DEF Watched, Waits
  <1>8. ASSUME NEW v \in Watchers
        PROVE  Watched(watcher'[v], coordinator', pipeline, cancel)
    <2>1. CASE v = w
      BY <1>1, <1>3, <1>7, <2>1
    <2>2. CASE v # w
      <3>1. watcher'[v] = watcher[v] /\ Watched(watcher[v], coordinator, pipeline, cancel)
        BY <1>3, <2>2, AskFacts
      <3> QED
        BY <1>5, <3>1 DEF Watched, Waits
    <2> QED
      BY <2>1, <2>2
  <1>9. AskTablesOK' /\ EmittersAgree(coordinator, pipeline, cancel)'
    BY <1>1, <1>3, <1>4, <1>5, <1>6, AskFacts DEF AskTablesOK
  <1>10. (\A v \in Watchers : Watched(watcher[v], coordinator, pipeline, cancel))'
    BY <1>3, <1>8
  <1> QED
    BY <1>9, <1>10 DEF AskInv

LEMMA RestartInv ==
  ASSUME AskInv, Restart
  PROVE  AskInv'
  <1>1. /\ coordinator' = [here |-> FALSE, last |-> 0, cancelled |-> FALSE, terminal |-> FALSE]
        /\ pipeline' = [pipeline EXCEPT !.at = "over", !.flushed = {}]
        /\ cancel' = [c \in CancelRequests |->
                        IF cancel[c].at \in {"new", "done"} THEN cancel[c] ELSE [cancel[c] EXCEPT !.at = "error"]]
        /\ watcher' = [w \in Watchers |->
                         IF watcher[w].at = "on" THEN [watcher[w] EXCEPT !.at = "cut", !.queue = <<>>] ELSE watcher[w]]
    BY DEF Restart
  <1>2. coordinator' \in Coordinators /\ ~coordinator'.here /\ pipeline' \in Pipelines /\ pipeline'.at = "over"
    BY <1>1, AskFacts DEF Coordinators, Pipelines
  <1>3. ASSUME NEW c \in CancelRequests
        PROVE  /\ cancel'[c] \in Cancels /\ cancel'[c].number = cancel[c].number
               /\ cancel'[c].at \in {"new", "done", "error"}
                  /\ (cancel'[c].at = "new" => cancel'[c].number = 1)
    <2> DEFINE o == cancel[c]
               x == [o EXCEPT !.at = "error"]
    <2>1. o \in Cancels /\ (o.at = "new" => o.number = 1)
      BY AskFacts DEF EmittersAgree
    <2>2. x \in Cancels /\ x.at = "error" /\ x.number = o.number
      BY <2>1 DEF Cancels
    <2>3. cancel'[c] = IF o.at \in {"new", "done"} THEN o ELSE x
      BY <1>1
    <2> HIDE DEF o, x
    <2>4. /\ cancel'[c] \in Cancels /\ cancel'[c].number = o.number
          /\ cancel'[c].at \in {"new", "done", "error"} /\ (cancel'[c].at = "new" => cancel'[c].number = 1)
      BY <2>1, <2>2, <2>3
    <2> QED
      BY <2>4 DEF o
  <1>4. cancel' \in [CancelRequests -> Cancels] /\ EmittersAgree(coordinator', pipeline', cancel')
    <2>1. cancel' \in [CancelRequests -> Cancels]
      BY <1>1, <1>3
    <2> QED
      BY <1>2, <1>3, <2>1 DEF EmittersAgree
  <1>5. ASSUME NEW w \in Watchers
        PROVE  watcher'[w] \in Watches /\ Watched(watcher'[w], coordinator', pipeline', cancel')
    <2> DEFINE o == watcher[w]
               x == [o EXCEPT !.at = "cut", !.queue = <<>>]
               y == watcher'[w]
    <2>1. o \in Watches /\ Watched(o, coordinator, pipeline, cancel) /\ cancel \in [CancelRequests -> Cancels]
      BY AskFacts
    <2>2. <<>> \in Seq(Nat)
      BY EmptySeq
    <2>3. /\ x \in Watches /\ x.at = "cut" /\ x.queue = <<>> /\ x.delivered = o.delivered
          /\ x.dropped = o.dropped /\ x.choked = o.choked
      BY <2>1, <2>2 DEF Watches
    <2>4. y = IF o.at = "on" THEN x ELSE o
      BY <1>1
    <2> HIDE DEF o, x
    <2>5. InOrder(o, cancel) => InOrder(o, cancel') /\ InOrder(x, cancel')
      <3>1. InOrder(o, cancel) => InOrder(o, cancel')
        BY <1>3, <1>4, <2>1, OrderStays
      <3>2. InOrder(o, cancel') => InOrder(x, cancel')
        BY <2>3 DEF InOrder
      <3> QED
        BY <3>1, <3>2
    <2> HIDE DEF y
    <2>6. y \in Watches /\ y.at # "on" /\ Watched(y, coordinator', pipeline', cancel')
      BY <2>1, <2>3, <2>4, <2>5 DEF Watched, Waits
    <2> QED
      BY <2>6 DEF y
  <1>6. AskTablesOK' /\ EmittersAgree(coordinator, pipeline, cancel)'
    <2>1. watcher' \in [Watchers -> Watches]
      BY <1>1, <1>5
    <2> QED
      BY <1>2, <1>4, <2>1 DEF AskTablesOK
  <1>7. (\A w \in Watchers : Watched(watcher[w], coordinator, pipeline, cancel))'
    BY <1>5
  <1> QED
    BY <1>6, <1>7 DEF AskInv

LEMMA AskStepInv == AskInv /\ [AskNext]_askVars => AskInv'
  <1> SUFFICES ASSUME AskInv, [AskNext]_askVars  PROVE AskInv'
    OBVIOUS
  <1>1. CASE PipelineEmits \/ PipelineFlushed \/ BranchSettles \/ PipelineCommits \/ PipelineRaises
    BY <1>1, PipelineEmitsInv, PipelineFlushedInv, BranchSettlesInv, PipelineCommitsInv, PipelineRaisesInv
  <1>2. ASSUME NEW c \in CancelRequests, Cancelling(c)
        PROVE  AskInv'
    BY <1>2, CancelStepsInv, SignalCancelInv, CancelFlushedInv DEF Cancelling
  <1>3. ASSUME NEW w \in Watchers, Subscribe(w) \/ Take(w) \/ EndAtHeartbeat(w) \/ Disconnect(w)
        PROVE  AskInv'
    BY <1>3, SubscribeInv, TakeInv, LeavingInv
  <1>4. CASE Restart
    BY <1>4, RestartInv
  <1>5. CASE UNCHANGED askVars
    BY <1>5 DEF askVars, AskInv, AskTablesOK
  <1> QED
    BY <1>1, <1>2, <1>3, <1>4, <1>5 DEF AskNext

(* Whatever the pipeline and any number of cancel requests emit, one ahead *)
(* of the other, and whenever watchers come, take and go, a watcher whose    *)
(* queue did not fill up is shown the events in order, and none is left out *)
(* that was numbered before a cancellation (emit_event, subscribe and the   *)
(* event stream of the coordinator).                                        *)
THEOREM StreamsStayInOrder == AskSpec => []StreamInOrder
  <1>1. AskInv => StreamInOrder
    <2> SUFFICES ASSUME AskInv, NEW w \in Watchers, ~watcher[w].choked, NEW k \in 2..Len(watcher[w].delivered)
                 PROVE  LET d == watcher[w].delivered IN
                        /\ d[k - 1] < d[k]
                        /\ d[k] # d[k - 1] + 1 => \E c \in CancelRequests : cancel[c].number \in 2..d[k]
      BY DEF StreamInOrder
    <2>1. Follows(watcher[w].delivered[k - 1], watcher[w].delivered[k], cancel)
      BY AskFacts DEF Watched, InOrder
    <2> QED
      BY <2>1 DEF Follows, CancelledBy
  <1> QED
    BY <1>1, AskInitInv, AskStepInv, PTL DEF AskSpec
===============================================================================
