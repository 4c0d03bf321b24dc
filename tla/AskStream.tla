------------------------------- MODULE AskStream -------------------------------
(***************************************************************************)
(* One streamed execution of the ask endpoint                              *)
(* (backend/app/api/v1/platform/coordinator.py, routes/ask.py,             *)
(* routes/streaming.py): a background pipeline and cancel requests emit    *)
(* events through a coordinator that lives in memory; watchers read them   *)
(* from bounded queues; rows of events and of the execution are committed  *)
(* by whoever emitted.  An emission numbers and buffers its event, awaits  *)
(* the flush of its row, and then reaches the queues, so two emitters may  *)
(* overtake one another in between.                                        *)
(***************************************************************************)
EXTENDS Naturals, Sequences, FiniteSets

CONSTANTS Watchers,        \* requests for the stream
          CancelRequests,  \* requests to cancel
          Events,          \* number of events the pipeline emits; the last is terminal
          Checks,          \* the events before which it looks at the cancellation token
          QueueSize,       \* max_queue_size
          MaxSubscribers,  \* max_subscribers
          MaxRestarts      \* bound: restarts of the process

ASSUME AskAssumption ==
    /\ Events \in Nat \ {0} /\ Checks \subseteq 1..Events
    /\ {QueueSize, MaxSubscribers} \subseteq Nat \ {0} /\ MaxRestarts \in Nat

VARIABLES coordinator,  \* the coordinator in the registry: last number, flags; absent after a restart
          pipeline,     \* the background task: place, next event, number in flight, numbers flushed
          cancel,       \* each cancel request: place, number in flight, whether its session failed
          watcher,      \* each watcher: place, queue, numbers delivered
          eventRows,    \* numbers of the committed execution_events rows
          executionRow, \* status of the committed execution row
          restarts      \* restarts so far

askVars == <<coordinator, pipeline, cancel, watcher, eventRows, executionRow, restarts>>

Sentinel == 0
MaxNumber == Events + 2 + Cardinality(CancelRequests)
Numbers == 1..MaxNumber
Subscribed == {w \in Watchers : watcher[w].at = "on" /\ ~watcher[w].dropped}

AskTypeOK ==
    /\ coordinator \in [here : BOOLEAN, last : 0..MaxNumber, cancelled : BOOLEAN, terminal : BOOLEAN]
    /\ pipeline.at \in {"ready", "flushing", "commit", "over"} /\ pipeline.next \in 1..(Events + 1)
    /\ pipeline.flushed \subseteq Numbers /\ {pipeline.failing, pipeline.broken} \subseteq BOOLEAN
    /\ \A c \in CancelRequests : cancel[c].at \in {"new", "signal", "flushing", "record", "done", "error"}
    /\ \A w \in Watchers :
          /\ watcher[w].at \in {"away", "on", "ended", "refused", "cut"}
          /\ Len(watcher[w].queue) <= QueueSize
          /\ \A k \in DOMAIN watcher[w].queue : watcher[w].queue[k] \in Numbers \cup {Sentinel}
    /\ Cardinality(Subscribed) <= MaxSubscribers
    /\ eventRows \subseteq Numbers /\ executionRow \in {"RUNNING", "CANCELLED"} /\ restarts \in 0..MaxRestarts

(* ask_endpoint has committed the execution and its first event, before    *)
(* the client learns the id and the background task begins.                *)
AskInit ==
    /\ coordinator = [here |-> TRUE, last |-> 1, cancelled |-> FALSE, terminal |-> FALSE]
    /\ pipeline = [at |-> "ready", next |-> 1, number |-> 1, flushed |-> {}, failing |-> FALSE, broken |-> FALSE]
    /\ cancel = [c \in CancelRequests |-> [at |-> "new", number |-> 1, broken |-> FALSE]]
    /\ watcher = [w \in Watchers |->
                     [at |-> "away", queue |-> <<>>, dropped |-> FALSE, choked |-> FALSE, delivered |-> <<>>]]
    /\ eventRows = {1} /\ executionRow = "RUNNING" /\ restarts = 0
-----------------------------------------------------------------------------
(* emit_event up to its flush: the next number; some kinds are terminal.   *)
NumberNext(terminal) ==
    coordinator' = [coordinator EXCEPT !.last = @ + 1, !.terminal = @ \/ terminal]

(* Mutant: the queue of a subscriber has no limit.                         *)
PutUnbounded(x, item) == [x EXCEPT !.queue = Append(@, item)]

(* Mutant: a full queue gives up its oldest event for the new one.         *)
PutOverOldest(x, item) ==
    [x EXCEPT !.queue = IF Len(@) < QueueSize THEN Append(@, item) ELSE Append(Tail(@), item)]

(* put_nowait: a subscriber whose queue is full is dropped, or, for the    *)
(* sentinel, passed over.                                                  *)
Put(x, item) ==
    IF Len(x.queue) < QueueSize THEN [x EXCEPT !.queue = Append(@, item)]
    ELSE [x EXCEPT !.choked = TRUE, !.dropped = @ \/ item # Sentinel]

(* emit_event after its flush: every subscriber gets the event, and the    *)
(* sentinel after it once the execution is terminal, by whichever event.   *)
Broadcast(number) ==
    watcher' = [w \in Watchers |->
        IF w \notin Subscribed THEN watcher[w]
        ELSE LET x == Put(watcher[w], number) IN
             IF coordinator.terminal /\ ~x.dropped THEN Put(x, Sentinel) ELSE x]
-----------------------------------------------------------------------------
(* The pipeline emits its next event, or returns at a check that finds the *)
(* token set: what it had flushed is rolled back with its session.         *)
PipelineEmits ==
    /\ pipeline.at = "ready" /\ pipeline.next <= Events
    /\ IF pipeline.next \in Checks /\ coordinator.cancelled
       THEN /\ pipeline' = [pipeline EXCEPT !.at = "over", !.flushed = {}]
            /\ UNCHANGED coordinator
       ELSE /\ NumberNext(pipeline.next = Events)
            /\ pipeline' = [pipeline EXCEPT !.at = "flushing", !.number = coordinator.last + 1]
    /\ UNCHANGED <<cancel, watcher, eventRows, executionRow, restarts>>

(* The flush returns or raises, which is only logged; a failed session     *)
(* fails every later flush and the commit.                                 *)
PipelineFlushed ==
    /\ pipeline.at = "flushing"
    /\ Broadcast(pipeline.number)
    /\ \E fails \in IF pipeline.broken THEN {TRUE} ELSE BOOLEAN :
          pipeline' =
             IF pipeline.failing THEN [pipeline EXCEPT !.at = "over", !.flushed = {}]
             ELSE [pipeline EXCEPT !.at = IF pipeline.next = Events THEN "commit" ELSE "ready",
                                   !.next = @ + 1, !.broken = fails,
                                   !.flushed = IF fails THEN {} ELSE @ \cup {pipeline.number}]
    /\ UNCHANGED <<coordinator, cancel, eventRows, executionRow, restarts>>

(* Past its checks the pipeline asks the service, whose SQL branch commits *)
(* the session it is given, or rolls it back: the events flushed so far    *)
(* with it.  A session that failed can be used again after the rollback.   *)
BranchSettles ==
    /\ pipeline.at = "ready" /\ \A k \in Checks : k < pipeline.next
    /\ \E commits \in IF pipeline.broken THEN {FALSE} ELSE BOOLEAN :
          eventRows' = IF commits THEN eventRows \cup pipeline.flushed ELSE eventRows
    /\ pipeline' = [pipeline EXCEPT !.flushed = {}, !.broken = FALSE]
    /\ UNCHANGED <<coordinator, cancel, watcher, executionRow, restarts>>

PipelineCommits ==
    /\ pipeline.at = "commit" /\ ~pipeline.broken
    /\ eventRows' = eventRows \cup pipeline.flushed
    /\ pipeline' = [pipeline EXCEPT !.at = "over", !.flushed = {}]
    /\ UNCHANGED <<coordinator, cancel, watcher, executionRow, restarts>>

(* A service or the commit raises: execution.failed is emitted and the     *)
(* session rolled back.                                                    *)
PipelineRaises ==
    /\ pipeline.at \in {"ready", "commit"}
    /\ NumberNext(TRUE)
    /\ pipeline' = [pipeline EXCEPT !.at = "flushing", !.number = coordinator.last + 1, !.failing = TRUE]
    /\ UNCHANGED <<cancel, watcher, eventRows, executionRow, restarts>>
-----------------------------------------------------------------------------
CancelGoes(c, x) == cancel' = [cancel EXCEPT ![c] = x]

(* cancel_execution: a row already cancelled is answered as it is.         *)
LoadExecution(c) ==
    /\ cancel[c].at = "new"
    /\ CancelGoes(c, [cancel[c] EXCEPT !.at = IF executionRow = "RUNNING" THEN "signal" ELSE "done"])
    /\ UNCHANGED <<coordinator, pipeline, watcher, eventRows, executionRow, restarts>>

(* The coordinator, if any, is cancelled once: flags first, then the event.*)
SignalCancel(c) ==
    /\ cancel[c].at = "signal"
    /\ IF coordinator.here /\ ~coordinator.cancelled /\ ~coordinator.terminal
       THEN /\ coordinator' = [coordinator EXCEPT !.last = @ + 1, !.cancelled = TRUE, !.terminal = TRUE]
            /\ CancelGoes(c, [cancel[c] EXCEPT !.at = "flushing", !.number = coordinator.last + 1])
       ELSE /\ CancelGoes(c, [cancel[c] EXCEPT !.at = "record"])
            /\ UNCHANGED coordinator
    /\ UNCHANGED <<pipeline, watcher, eventRows, executionRow, restarts>>

(* (execution_id, sequence) is unique: a number taken fails the flush.     *)
CancelFlushed(c) ==
    /\ cancel[c].at = "flushing"
    /\ Broadcast(cancel[c].number)
    /\ CancelGoes(c, [cancel[c] EXCEPT !.at = "record", !.broken = cancel[c].number \in eventRows])
    /\ UNCHANGED <<coordinator, pipeline, eventRows, executionRow, restarts>>

RecordCancelled(c) ==
    /\ cancel[c].at = "record"
    /\ IF cancel[c].broken
       THEN CancelGoes(c, [cancel[c] EXCEPT !.at = "error"]) /\ UNCHANGED <<eventRows, executionRow>>
       ELSE /\ CancelGoes(c, [cancel[c] EXCEPT !.at = "done"])
            /\ executionRow' = "CANCELLED"
            /\ eventRows' = eventRows \cup ({cancel[c].number} \ {1})
    /\ UNCHANGED <<coordinator, pipeline, watcher, restarts>>
-----------------------------------------------------------------------------
(* A watcher finds the coordinator, or makes a new one, and subscribes.    *)
Subscribe(w) ==
    /\ watcher[w].at = "away"
    /\ coordinator' = IF coordinator.here THEN coordinator
                      ELSE [here |-> TRUE, last |-> 0, cancelled |-> FALSE, terminal |-> FALSE]
    /\ watcher' = [watcher EXCEPT ![w].at =
                      IF Cardinality(Subscribed) < MaxSubscribers THEN "on" ELSE "refused"]
    /\ UNCHANGED <<pipeline, cancel, eventRows, executionRow, restarts>>

Take(w) ==
    LET x == watcher[w] IN
    /\ x.at = "on" /\ x.queue # <<>>
    /\ watcher' = [watcher EXCEPT ![w] =
          IF Head(x.queue) = Sentinel THEN [x EXCEPT !.at = "ended", !.queue = <<>>]
          ELSE [x EXCEPT !.queue = Tail(@), !.delivered = Append(@, Head(x.queue))]]
    /\ UNCHANGED <<coordinator, pipeline, cancel, eventRows, executionRow, restarts>>

(* Mutant: the heartbeat looks at the cancellation token only.             *)
EndIfCancelled(w) ==
    /\ watcher[w].at = "on" /\ watcher[w].queue = <<>> /\ coordinator.cancelled
    /\ watcher' = [watcher EXCEPT ![w].at = "ended"]
    /\ UNCHANGED <<coordinator, pipeline, cancel, eventRows, executionRow, restarts>>

(* A heartbeat finds the execution terminal and the queue empty.           *)
EndAtHeartbeat(w) ==
    /\ watcher[w].at = "on" /\ watcher[w].queue = <<>> /\ coordinator.terminal
    /\ watcher' = [watcher EXCEPT ![w].at = "ended"]
    /\ UNCHANGED <<coordinator, pipeline, cancel, eventRows, executionRow, restarts>>

Disconnect(w) ==
    /\ watcher[w].at = "on"
    /\ watcher' = [watcher EXCEPT ![w].at = "cut", ![w].queue = <<>>]
    /\ UNCHANGED <<coordinator, pipeline, cancel, eventRows, executionRow, restarts>>

(* What was in memory is gone; nothing starts the pipeline again.          *)
Restart ==
    /\ restarts < MaxRestarts
    /\ restarts' = restarts + 1
    /\ coordinator' = [here |-> FALSE, last |-> 0, cancelled |-> FALSE, terminal |-> FALSE]
    /\ pipeline' = [pipeline EXCEPT !.at = "over", !.flushed = {}]
    /\ cancel' = [c \in CancelRequests |->
                     IF cancel[c].at \in {"new", "done"} THEN cancel[c] ELSE [cancel[c] EXCEPT !.at = "error"]]
    /\ watcher' = [w \in Watchers |->
                     IF watcher[w].at = "on" THEN [watcher[w] EXCEPT !.at = "cut", !.queue = <<>>] ELSE watcher[w]]
    /\ UNCHANGED <<eventRows, executionRow>>
-----------------------------------------------------------------------------
Emitting == PipelineEmits \/ PipelineFlushed \/ PipelineCommits \/ (pipeline.broken /\ PipelineRaises)
Cancelling(c) == LoadExecution(c) \/ SignalCancel(c) \/ CancelFlushed(c) \/ RecordCancelled(c)

AskNext ==
    \/ PipelineEmits \/ PipelineFlushed \/ BranchSettles \/ PipelineCommits \/ PipelineRaises
    \/ \E c \in CancelRequests : Cancelling(c)
    \/ \E w \in Watchers : Subscribe(w) \/ Take(w) \/ EndAtHeartbeat(w) \/ Disconnect(w)
    \/ Restart

(* The event loop runs every task that is ready; a heartbeat always comes. *)
AskFairness == WF_askVars(Emitting) /\ \A w \in Watchers : WF_askVars(Take(w) \/ EndAtHeartbeat(w))
AskSpec == AskInit /\ [][AskNext]_askVars /\ AskFairness
-----------------------------------------------------------------------------
(* Overtaking emitters, slow watchers and late subscriptions never show a  *)
(* watcher whose queue did not fill up an event out of order, and none is  *)
(* left out that was numbered before a cancellation.                       *)
StreamInOrder ==
    \A w \in Watchers : ~watcher[w].choked =>
       \A k \in 2..Len(watcher[w].delivered) : LET d == watcher[w].delivered IN
          /\ d[k - 1] < d[k]
          /\ d[k] # d[k - 1] + 1 => \E c \in CancelRequests : cancel[c].number \in 2..d[k]

(* No watcher waits for ever, dropped ones, late ones and those whose      *)
(* sentinel found the queue full included, unless the pipeline died with   *)
(* an earlier process.                                                     *)
Orphaned == restarts > 0 /\ ~coordinator.terminal
WatchersEnd == \A w \in Watchers : watcher[w].at = "on" ~> watcher[w].at # "on" \/ Orphaned

================================================================================
