# Formal verification of the Enterprise AI Analyst backend

TLA+ models of `src/backend/app`, checked with TLC and, for most of the safety
properties, proved with TLAPS. The models are translated from the code; documents
are only quoted where a run tests what they say. At the centre is the background job
system; around it stand the components that carry the program's own logic, from
the ingestion of a dataset to the answer to a question.

## 1. The system

A FastAPI backend, PostgreSQL behind SQLAlchemy sessions, Redis as job broker and
cache, Qdrant for vectors, LLM providers, worker processes, and a web frontend.
Everything is asyncio: within a process code interleaves at `await` only, between
processes at every SQL statement, commit and Redis command. Sessions read
committed data, ORM objects keep the values they were loaded with until they are
refreshed, an `UPDATE` writes the columns that changed and holds its row until the
transaction ends, and apart from one `SELECT ... FOR UPDATE` (refresh tokens)
nothing locks or versions a row. A request commits when its handler returns
(`db/postgres.py`, `get_db_session`), most services flush before.

| Component | State | Operations | What is hard | What makes it correct |
|---|---|---|---|---|
| Job queue, `jobs/queue.py` | three ready lists, in-flight and delayed sets with their priorities, in memory or in Redis | enqueue, dequeue (promote, reclaim, pop, reserve), ack, nack, requeue | several Redis round trips per operation, leases that lapse, crashed holders and pollers | one entry per job, nothing lost, priority kept, delivered again after a crash |
| Job life cycle and execution, `jobs/worker.py`, `lifecycle.py`, `service.py` | the `jobs` table, the ORM object of each execution and request, the cancellation registry | take, load, start, run, complete, retry, bury, cancel, settle | stale objects, redelivery, a crash between a commit and an ack, shutdown | one executor, bounded attempts, legal transitions, every job settled |
| Worker loop, `jobs/worker.py` | semaphore permits, running tasks, shutdown flag | acquire, dequeue, spawn, release, shutdown | every way out of the loop body has to account for the permit | limits kept, polls until shutdown, then ends |
| Job dispatch, `jobs/dispatcher.py` | `jobs` rows by idempotency key, queue depth | check depth, look up, insert, enqueue | check-then-act across awaits; commit and enqueue are two steps | one job per key, answers that match, bounded depth |
| Dataset ingestion, `ingestion/` | dataset, versions, columns | prepare, promote, fail, delete | overlapping ingestions; one flush that inserts before it deletes | a READY version served at every moment |
| Document upload, `services/document.py` | rows, stored objects | look up, save, insert, undo, delete | two stores, one unique index | no row without its object, no orphan |
| Document pipeline, `services/`, `documents/router.py` | document row, chunks, embeddings, Qdrant points | parse, chunk, embed, index, delete | stages that overlap, partial batches | the status says what the stores hold |
| Chunking, `chunking/` | a computation | extract, merge, deduplicate, build families, validate | limits against what cannot be cut; text put together again from tokens; ragged tables | order, limits, nothing lost but what section 6 names |
| Embeddings, `embeddings/` | shared vector cache, batches in flight | look up, send, retry, validate | batches that end in any order, short answers | every text its own vector or an error |
| Knowledge graph, `knowledge_graph/` | nodes, edges, aliases, version counter | synchronise; traverse, find paths and cycles | overlapping walks; limits inside loops | rows hang together; searches are exact within limits |
| Data sources, `connectors/` | row, cached schema, sync runs | update, delete, test, discover, sync | cache invalidated before the commit, merged configurations | the cached schema is that of the row |
| Memory, `memory/` | rows, vector index | create, supersede, update, delete, search | two stores | deletion is final |
| Retrieval and reranking, `retrieval/`, `query/multi_retrieval.py`, `reranking/` | lists of two indices per variant, batches, a semaphore | search, fuse, rerank, fall back | partial failure, timeouts, batches in any order | ranked by the lists and the scores, degraded told |
| Question answering, `analyst/`, `sql_agent/`, `rag/` | the run and its steps, evidence, the session | branch, record, merge, cite, validate | two branches on one session | cited evidence is returned; recorded whole or not at all |
| Streamed answers, `api/v1/platform/` | event log, watchers' queues, the execution | emit, watch, replay, cancel, restart | full queues, order across awaits | events in order, every watcher ends |
| LLM gateway, `llm_gateway/` | circuit breaker per provider, response cache | look up, route, try, fall back | outcomes in another order than calls | breaker counts failures in a row, every request ends |
| Agent runtime, `agents/` | session, steps, approvals, checkpoints | plan, execute, pause, resume, cancel | stale session objects; resume against a running execution | no gated step unapproved, no checkpointed step twice |
| Governance, `governance/` | approval request, votes, decisions, expiry | vote, revoke, cancel, expire | votes counted in separate transactions | approved only by a quorum of others than the requester |
| Authentication, `auth/` | refresh-token families | login, refresh, logout, revoke | rotation, reuse, revocation during a rotation | a family is a chain, revocation is complete |
| Rate limits, `security/rate_limit.py` | sorted sets in Redis | count in, check, take out | clocks read before calls; calls that fail | the limit is kept and not used up by denials |
| SRE, `sre/` | alerts of a fingerprint, incidents | report, acknowledge, resolve, suppress, update | deduplication in two steps, stale objects | every report counted once, by one active alert |
| Response orchestration, `response_orchestration/` | plan, branches, evidence, the execution and its steps | plan, branch, collect, write, verify, decide | two branches on one session, citations of a model | a decision no stronger than its evidence |
| Evaluation, `evaluation/`, `continuous_evaluation/` | runs and results, scorecards, gates, release | run a benchmark, compare, detect, judge, release | questions commit or roll back the results held | counts and results tell of the same cases, gates are kept |
| FinOps, reliability, compliance, reports, observability, platform shell, frontend, migrations | derived or written once | | arithmetic, routing, text | |

How they meet: an API request (`jobs/router.py`) calls the dispatcher, which
writes a row and calls the queue; the worker loop takes ids from the queue, reads
the row and runs a registered handler (ingestion, the stages of a document,
evaluation, reports, sync of a data source); cancellation and manual retry write
the same row from the API process. A question passes the rate limits, is answered
by the SQL and the document branch, whose searches use the indices that the
document pipeline fills, and is streamed to its watchers; every LLM call goes through the
gateway. Agent sessions call tools, ask approvals and use memory. What the jobs do
inside is modelled in the component they work on: to the job system a handler
returns, raises, or is cancelled.

`PROJECT.json` lists every component with its status, every hazard at its line,
and the source lines of every definition; the map covers about 13,500 of the 105,911
lines of the implementation (section 5 says what the others are).

## 2. Modules

    JobLifecycle                the transition graph and the columns of a row
    LeaseQueue                  what a broker promises (abstract)
      <- InMemoryJobQueue       implements it, with clock, lists, priorities
      <- RedisJobQueue          implements it, one Redis command at a time
         <- JobQueues           both side by side, and what they promise
      <- JobSystem              EXTENDS LeaseQueue and JobLifecycle: requests,
                                workers, rows, misfortunes; its projection on
                                the broker is again a LeaseQueue behaviour
    JobDispatch, WorkerLoop     the creation path; the polling loop
      <- JobLimits              both side by side, and their limits
    LeaseQueueProofs            theorems about the broker, lemmas about lists
      <- JobSystemProofs        about exclusive, leased execution; about rows,
                                attempts, burials and losses
      <- RedisProofs            about RedisJobQueue
         <- QueueProofs         about InMemoryJobQueue and JobQueues

    DatasetVersions  MemoryIndex  AgentSession  GovernanceApproval
    RefreshTokens  DataSources  GraphSync  AlertIncidents
    EvaluationRuns  QualityGates                               rows of PostgreSQL
      <- Quality                both side by side, and what they promise
    DocumentUpload  DocumentPipeline  Chunker  GraphSearch
    AnalystAnswer  AnswerOrchestration
    EmbeddingBatches  RateWindows                              documents and questions
    LlmGateway  AskStream  HybridSearch                        state of one process

    CountingProofs              GovernanceApproval, JobLimits,
                                AlertIncidents, Quality, AnalystAnswer,
                                HybridSearch
    RecordProofs                DatasetVersions, DataSources, MemoryIndex,
                                RefreshTokens, GraphSync, GraphSearch
    DocumentProofs              DocumentUpload, DocumentPipeline,
                                EmbeddingBatches, RateWindows,
                                AnswerOrchestration
    ServiceProofs               AgentSession, LlmGateway, AskStream

    MCJobParts, MCJobSystem, MCWorkerLoop, MCRecords, MCDocuments,
    MCServices, MCAnalyst                                      the runs

Components that share no state are checked together: `MCJobParts`, `MCRecords`,
`MCDocuments` and `MCServices` compose several modules with a variable `subject`,
chosen in the initial state and never changed, and only the component it names
takes steps. The state space is the sum of those of the components, not their product, and
what is checked of each is what a run of its own would check.

**LeaseQueue.** For each job: how many copies are ready, the state of its lease
(`none`, `live`, `lapsed`), the state of its delayed entry (`none`, `waiting`,
`due`). The operations are those of the `JobQueue` interface. `QueueSpec` is the
broker with *dutiful* clients: a job is enqueued only while unknown to the broker
and settled only under a live lease. Its `Ack(j)` names a job, as the code's
does, so it would also drop a lease that belongs to someone else; that this never
happens is a property of the clients (`DutifulClients`).

**InMemoryJobQueue.** Lists, dictionaries and a discrete clock; each method is one
step, since one asyncio lock surrounds it. `reclaim_expired_inflight` reads the
clock *before* it takes the lock, hence `Reclaim(t)` for any past `t`. The order
in which a dictionary is walked is left open. `Nack` and `Requeue` look up the
priority in the reservation and fall back to the code's defaults.

**RedisJobQueue.** Each poller walks through `_promote_delayed`,
`reclaim_expired_inflight`, three `LPOP`s and the reservation transaction, one
command per step; tasks (the executions) do `HGET` and then a transaction. Scores
are kept as "still in the future" or "past". A popped id that is not yet reserved
lives in the poller only.

**JobLifecycle, JobSystem.** `rows` is the committed table. Each worker slot and
each request has its own ORM object (`status`, `attempt` of `worker[w]`,
`client[c]`), and transitions are validated against that object and committed to
the row, as in `lifecycle.py`. A step is one `SELECT`, one `COMMIT` or one broker
call. `worker[w].pc` is the line of `_execute_job`: `load`, `drop`, `start`,
`refresh`, `run`, `complete`, `reload`, `done`, `cancel`, `schedule`, `bury`,
`ack`, `nack`. The error paths are explicit: a rejected transition inside the
`try` goes to the error path, a rejected one in an `except` clause leaves
`_execute_job` through its `finally` without settling. The environment's
misfortunes are actions with a budget each (`MaxCrashes`, `MaxOverruns`,
`MaxFaults`, `MaxDeaths`, `MaxCancels`, `MaxRetries`): a bound of 0 is the
assumption that it does not happen, and each theorem and run says which are 0.
`SharedRegistry` tells whether API and worker share the cancellation registry
(they do in the tests, and not as separate processes). There are no priorities and
no backoff durations: every order in which the broker could serve jobs is allowed.

**JobDispatch.** A request's way through depth check, idempotency lookup, insert
and enqueue, with other requests in between. **WorkerLoop.** Permits, tasks by type
before and after the semaphore of their type, the shutdown flag, and dequeues that raise.

**DatasetVersions.** The committed rows of versions, columns and the dataset, and
each ingestion's place and ORM objects. A flush emits the INSERTs of a table before
its DELETEs (`Conflicts`), which is where re-ingestion fails. **DocumentUpload.** An
upload names its object and its row; each request is lookup, save, insert or undo.
**DocumentPipeline.** One document; a stage is `Begins` (status check), `LockRow` (the
transient status takes the row), work, commit; embeddings are rows of the chunks
they were computed from, and points in Qdrant are pairs of content and part.
**Chunker.** A text is a sequence of pieces, words with lengths and underscores, each glued to
the one before it or after a blank, so that limits, cuts and loss can be told and letters cannot.
What `split_into_tokens` makes of it is modelled (`SplitIntoTokens`, `JoinTokens`): words that are
glued are one token and an underscore is none. A table has rows of as many cells as the parser found.
A step is a phase of `chunk_document`.
**EmbeddingBatches.** Callers share a cache; the vector of a text is written as the
text, and a provider may answer short, malformed or not at all.
**GraphSearch.** The loops of `AdjacencyEngine`, one iteration a step, against
reachability, simple paths and cycles defined outright. **GraphSync.** Walks of the
catalog in overlapping transactions, of which the version row serialises what comes after its first
write. **DataSources.** One row with its cached schema; a configuration is a value
per parameter, numbered by the update that set it.
**MemoryIndex.** Rows and points, with an index that takes part in no transaction.
**AgentSession.** Row, loaded objects, steps, checkpoints and approval requests of
one session, several executions at once; a transaction writes the columns it has set, and reads the
row again where it has not. **GovernanceApproval.** Votes, tally and
decision of one request, in one transaction per vote. **RefreshTokens.** Tokens as a
forest of rotations; row locks as the code takes them. **RateWindows.** A request
reads the clock, counts itself in, and takes itself out if it is over the limit,
in calls that may be overtaken or fail. **AlertIncidents.** The alert rows of one
fingerprint with their counts, and one incident; requests hold loaded rows.
**LlmGateway.** Requests over ordered candidates, two attempts each, against one
breaker per provider; what runs between two awaits is one action, and a lookup of a provider that fails
passes on to the next. **AskStream.** Event
log, watchers with bounded queues, cancellation, restart; the SQL branch commits or rolls back the
events flushed so far. **HybridSearch.** Lists per
variant and index, two fusions, validation and batches of a cross-encoder; scores are scaled to
integers. **AnalystAnswer.** One question, two branches, one session whose flush, commit
and rollback are steps. **AnswerOrchestration.** One question to the orchestration: its
strategy, the branches that share its session, evidence as tags with a trust, a text as
sentences with the tags they cite, the arithmetic of confidence in ten-thousandths, the
decision; the execution and its three steps as rows committed or not yet. What the
branches and the model deliver is chosen.
**EvaluationRuns.** Runs of one dataset, case by case; of a result its verdict, and whether
the session holds it, the database has it, or a later question has undone it; a comparison
that reads one run, then the other. **QualityGates.** Scorecards of a baseline and a
candidate, regressions with the direction as the detector reads it from the name of a
metric, rules with limits, drops and weight, results of gates, the policy.

Each definition's source lines are in the `map` of `PROJECT.json`. Operators whose
comment says "Mutant" are deliberate bugs: substituted for the operator that
follows them, they make a property fail, which shows what the property is worth.

## 3. Runs

| Run | Subjects and bounds | Checks |
|---|---|---|
| `JobParts` | *queue*: three jobs, two of one priority, a lease of 3 ticks, clock to 8: two rounds of lease, expiry and retry. *redis*: two jobs at the ends of the priority order, one poller, two crashed executions, one crashed poller. *dispatch*: five requests, two in flight, limit 2, one failing enqueue; three share a key, one of them with another payload. *loop*: four permits, a type limit of 2, three failing dequeues | `JobsKeepTheirPlace`, `LimitsHold`, the refinements `ImplementsLeaseQueue` and `RedisImplementsQueue`, `PartsGoOn` |
| `JobSystemSafety` | two jobs, two workers, two requests, two attempts, one each of crash, failing ack, dying request, cancellation: two jobs show what crosses over, two attempts the boundary | `JobTypeOK`, `SingleExecutor`, `HoldersAreLeased`, `ExecutionsBounded`, `LegalTransitions`, `DutifulClients` |
| `JobSystemCalm` | two jobs, no crash, no fault, one cancellation | `NoJobLost`, `DeadLetterJustified`, `EntriesDrain` |
| `JobSystemLive` | one job, two workers; crash, fault and cancellation, or overrun and manual retry (`OneAdversity`) | `EventuallySettles` |
| `Records` | *versions*: three ingestions, two schemas, a crash. *memories*: two memories, two requests, an index fault. *agent*: three executions, a canceller, a plan of two steps, one gated. *governance*: three reviewers, quorum two. *tokens*: three requests, three tokens, two families. *source*: two requests, two parameters, two updates, a cache fault. *graph*: three walks of a catalog with every kind of visit. *alerts*, *incident*: two requests, two alert rows, three reports. *benchmark*: two runs, two cases, added at any time. *release*: three metrics, of which one has a misleading name, baselines of 0 and 100, candidates around the thresholds, three gates, up to two results. 572,543 states | `RecordsTypeOK`, `SequentialIngestionsAgree`, `ZeroDowntime`, `DeletionIsFinal`, `StepsRunAsApproved`, `ApprovalIsBacked`, `FamiliesHold`, `SourcesStayInStep`, `CatalogIsWalked`, `ReportsAreCounted`, `EvaluationsAreHonest` |
| `Documents` | *upload*: three uploads, a death, a fault. *stages*: two workers, two contents, two parts. *chunks*: limits scaled down (target 6, maximum 9 tokens), about 6,000 documents of the layouts that the parsers write, with underscores within and around words, rows shorter and longer than their header, and tables without one. *graph*: every subset of seven edges over four nodes, with small and generous limits. *analyst*: up to four retrieved chunks of two documents. *embedding*: two callers, three texts, batches of two. *limits*: three requests of two users, limits of 1, a window of 2 in a clock to 6. *orchestration*: an SQL number that agrees with one of the document branch, differs from it a bit or by much; no or two paths; at most four items; texts of up to two sentences with any citation. 687,488 states | `DocumentsTypeOK`, `ObjectsFollowRows`, `StoresAreTrue`, `ChunksAreSound`, `SearchesAreExact`, `AnswersAreGrounded`, `DecisionsAreBacked`, `VectorsAreTheirOwn`, `RatesAreKept` |
| `Services` | *gateway*: two requests, one remote provider and the local one, threshold 2. *stream*: two watchers, one subscriber slot, queue of 2, three events, a restart. *search*: three chunks, lists of three, or two variants with lists of one; batches of 2 under one permit. 431,672 states | `ServicesTypeOK`, `BreakerCountsFailures`, `StreamInOrder`, `RankingsAreTrue`, `NobodyWaits` |
| `JobSystemCrashBuried`, `WorkerLoopFaults`, `DatasetReingest`, `AgentCancelled`, `AnalystUnrecorded` | small | one property each, violated: section 6 |

Each takes at most about three and a half minutes with two workers.

**What bounds exclude.** `WholeBatchesOverlap` (Documents) follows partial batches only
while stages do not overlap; `TwoUpdatesByThemselves` (Records) follows a second update
of a data source only where nothing but updates, discoveries and deletions has
happened; `OneAdversity` (JobSystemLive) separates two kinds of misfortune, which
together do leave a job unsettled (section 6). All three cut combinations,
not the cases themselves. Symmetry is taken over the actors: the permuted sets (`Actors`,
`MCTasks`) stand in one role in each component, the components share nothing but
`subject`, and no permuted set occurs in a liveness property's run.

**What the job runs show.** As long as leases outlast executions and nobody
retries by hand: a job is in the hands of one worker (`SingleExecutor`), who has
its live lease from dequeue to settlement (`HoldersAreLeased`); the handler runs
at most `max_attempts` times, crashed executions included, and each run is counted
(`ExecutionsBounded`); the committed rows follow `ALLOWED_TRANSITIONS` without exception until
somebody cancels, and after that but for two races: the request that cancels loaded the job while it was active
and it has ended since, or a worker was past its load when the cancellation was committed, and goes along the graph
from the status it knows; a cancellation committed before any worker got that far is
final (`LegalTransitions`); and the system is a dutiful client of the broker
(`DutifulClients`), which therefore keeps one entry per job and
forgets a job only on an ack under its lease.

**What the others show**, in a sentence each. A dataset that has a READY version
always has one, and sequential ingestions leave rows, columns and status in
agreement. A deleted memory is shown by no later search. A gated step runs only when
approved, a checkpointed one not again. An approval has its quorum of committed votes.
A token family is a chain, and a revocation leaves none of it live but for a rotation
under way. A cached schema belongs to the committed configuration, except where the
code's own order lets a discovery slip in (`strayed` marks it). Overlapping syncs
duplicate at most one thing per pair of requests. Every alert report is counted once unless two
overlap. Benchmark runs count what they asked and store it unless a later question rolled it
back; a release keeps the limits of the gates that judged it. An orchestrated answer is
decided no more strongly than its branches, conflicts and citations allow. Objects and rows belong together; statuses tell the truth about the stores;
chunking keeps order and text, but for cells beyond the header of their table and the underscores of a sentence or parent over its limit (`TextIsKept` says which); graph searches match their definitions; answers cite
what they return; vectors are not mixed up; limits are kept. A breaker is open
exactly after as many failures in a row as its threshold, watchers see events in
order, rankings follow lists and scores, and everyone who waits gets an end.

Several properties carry a history variable (`overlapped`, `overlap`, `strayed`, `rivals`,
`raced`, `syncOverlap`): it marks the schedules under which the code does *not* keep
the promise, as narrowly as it was possible to say, and is part of what the check
shows: everything outside those schedules holds.

**Deadlock** checking is off in every run: each of these models has a legitimate
end (all jobs settled, clock at its bound, question answered). What must go on is stated
as liveness.

**Fairness.** `JobSystem!Fairness`: requests and handlers run to their end
(`WF` of `ClientStep`, `WorkerStep`: event-loop callbacks are served, handlers
return), time passes (`WF` of `Time`), and a queued entry is taken in the end even
while others keep coming back (`SF` of `Take`: the code pops the head and appends
at the tail of a list, so jobs of one priority cannot pass each other for ever;
across priorities the code gives no such guarantee, and jobs of the model have
one priority). Nothing forces a cancellation, a retry or a misfortune.
`MCJobParts`: pollers keep polling, tasks settle, time passes, the loop and its tasks
proceed, all weakly fair; shutdown is never forced. That Redis delivers again and again
is claimed of the highest priority only, because strict priority order can starve the others.
`MCServices`: requests of the gateway, the pipeline and the watchers of a stream, and
a search proceed, weakly fair: each is a coroutine the event loop resumes, and
each external call ends by answer, error or the timeout the code sets. No client is
made to ask, cancel or come back. Each condition is conjoined with
its subject, so that it asks nothing of the components that stay where they start.

## 4. Proofs

What follows holds for every value of the constants: any sets of jobs, workers,
requests, rows, any limits and budgets of misfortunes. Assumptions beyond the
`ASSUME`s of the modules are named with each theorem. An invariant that TLC checks is
seldom inductive; what each proof adds to it is the reason why the code keeps it.
Every theorem below has the form *initially, in every step, hence always*: one lemma per
part of the invariant, one step per action.

**The broker** (`LeaseQueueProofs`).
- `BrokerKeepsOneEntry`: `QueueSpec => []OneEntry`, inductive with its types.
- `BrokerDropsOnlyByAck`: `QueueSpec => DropOnlyByAck`.

**The two queues** (`QueueProofs`, `RedisProofs`). What `LeaseQueue` calls the copies of a
job is, in an implementation, the number of places where it stands in three lists. The
lemmas of `LeaseQueueProofs` say how that number changes when a list is appended to,
prepended to or popped (`Changed`, `ListAppended`, `ListPrepended`, `ListPopped`).
- `PrioritiesAreKept` (`PriorityKept`) and `MemoryImplementsQueue` (`ImplementsLeaseQueue`), for a finite
  set of jobs. `PriorityKept` is inductive as it stands. A sweep appends the due or lapsed jobs in an
  order left open; `AppendAllAppends` says that each of them then stands in the lists once more,
  and nothing else does.
- `RedisPrioritiesAreKept`, `RedisLosesNothing`, `RedisImplementsBroker`, under `OnePoller` (one process
  at a time is inside `dequeue`; with two, section 6 says what happens), with any number of crashed
  tasks and pollers. The invariant `RedisInv` is an equation for each job: the places
  where it stands in the lists, the poller's hand, `dropped`, the in-flight set and the delayed set
  add up to 1 while it is owed and to 0 otherwise (`InOnePlace`). Besides, a task has a live lease
  (`TasksHold`), and what the poller has scanned, some round trips ago, is due or lapsed still (`ScansHold`):
  that is why the pushes of `_promote_delayed` and reclaim, which look at nothing, push nothing twice.
- `JobsStandInPlace` (`JobsKeepTheirPlace`) and `RedisImplementsInterface` (`RedisImplementsQueue`) say this
  of the two queues of `JobQueues`, whose instance of `RedisJobQueue` is that of `RedisProofs` definition
  by definition (`SameInit`, `SameNext`, `SameSafety`, `SameInterface`).

**The job system** (`JobSystemProofs`), under `Calm == MaxOverruns = 0 /\ MaxRetries = 0`
(leases outlast executions, nobody retries by hand; without it two executions of one job
overlap, section 6), with any number of crashes, faults, dying requests and cancellations:
- `JobSystemTypes`, `ExclusiveExecution`, `ExecutionsAreLeased`:
  `JobTypeOK`, `SingleExecutor`, `HoldersAreLeased`.
- `JobSystemIsDutiful`: `Calm /\ Spec => QueueSpec`, a refinement, so both
  theorems about the broker hold of the job system.

`SingleExecutor` is not inductive: a second worker could take a job if the broker
had a second entry for it, or if the first one's lease were gone. The invariant
`JobInv` adds exactly that: `QueueInv` (one entry per job), `HoldersAreLeased` (a
holder has *the* entry, in the form of a live lease) and `Unqueued` (a job without
a row, or whose request has yet to enqueue it, is unknown to the broker, and one
request has it). Then `Take` finds an entry only of a job nobody holds
(`TakenIsFree`), `Push` only a job the broker does not know (`OnlyPushQueues`),
and every settling call has its live lease (`StepIsDutiful`).

**What becomes of a job** (`JobSystemProofs`), under `Calm`:
- `AttemptsBoundExecutions` and `RowsFollowTheGraph`: `ExecutionsBounded`, `LegalTransitions`; and with
  `MaxCancels = 0`, `UncancelledRowsKeepToTheGraph`: `RowsKeepToTheGraph`, every change is an edge of the graph
  (one cancellation is enough to violate it, section 6).
  `OutcomeInv` adds `RowsSound` (the attempts of a row against its status and the
  executions there were) and `ObjectsAgree`: the object a worker loaded is its row, but for
  a cancellation committed since. This is why validating a transition against a stale
  object does no harm while one worker holds a job and nobody cancels. `GraphInv` adds that whoever cancels has
  been counted (`CancelsAreCounted`), so that the races need a cancellation.
- `DeadLettersHaveReason`, with `MaxCrashes = 0` (section 6 says why): `DeadLetterJustified`. `BurialInv` adds
  that a RUNNING row is attended by a worker past its start, so that no start is refused
  but for a cancellation, and that who buries has its reason at hand.
- `JobsAreNotLost`, with `MaxDeaths = 0` (a request that dies between its commit and its
  enqueue loses the job by design): `NoJobLost`. `LossInv` adds that a worker drops only what is
  settled or about to be recorded as cancelled, and that a cancellation flag stands for a
  recorded cancellation or one that the execution under way will clear.

**Counts** (`CountingProofs`). A quorum, a depth, a permit and an alert's count are
cardinalities or sums over actors.
- `ApprovalsAreBacked` (`ApprovalIsBacked`), `GovernanceTypes`. The invariant says that a vote is cast once
  (`VotersMayVote`) and that an approval about to be written was counted from committed votes
  and the voter's own (`TalliesAreCounted`); committed votes never change.
- `DispatchStaysInLimits` (`DispatchKeepsPromises`), for infinitely many requests too.
  `ClaimsAreFew`: those who missed the lookup of a key were all in flight when the first of
  them inserted; `RoomIsLeft`: what has been pushed and may yet be is below the limit plus the
  requests in flight.
- `PermitsAreAccountedFor` (`ConcurrencyBounded`), for a finite set of job types
  (the keys of `MAX_CONCURRENT_PER_TYPE`): the permits are conserved as a sum over types.
- `LimitsAreKept` (`LimitsHold`): both, of dispatcher and loop side by side.
- `EveryReportIsCounted` (`ReportsAreCounted`). The invariant gives every alert a share in the reports
  (`Shares`): the shares add up to the reports, nobody has read a count above the
  share of the alert, and all have read the whole of it unless reports overlapped. With it
  `OneIsActive` and `ClosedWasResolved`.
- `QualityIsHonest` (`EvaluationsAreHonest`), of benchmark runs and gates together. The rows of a run are as many
  as the verdicts it has counted (`KeepsCount`), each stored with its verdict but for what a
  later question undid (`StoredAsScored`), and a comparison holds only what it read (`ComparedAsScored`);
  a release is judged on scorecards that no longer change, and passed or failed by results given for all rules (`Judged`).
- `AnswersStayGrounded` (`AnswersAreGrounded`, with the types). What the limits on evidence select is written as sets of
  indices with ranks that count predecessors, so that what is chosen is unique, is numbered without a
  gap and reaches the limit if there is as much. `RowsAreEarly` says which rows of the run may be committed before
  its synthesis, whatever the shared session rolls back.
- `RankingsStayTrue` (`RankingsAreTrue`), for any chunks, weights, limits, batch sizes and scores, any number of
  variants, and lists of up to three chunks (`SearchAssumption`: beyond, shares would have to be scaled by more).
  A list is what `Sorted` chooses, so it has to be shown that there is one: an irreflexive and transitive relation
  on a finite set has a least element (`OrderHasFirst`), hence a list along it (`ListExists`) that has everything
  once (`ListHasAll`). The order of fusion is one although it is written by cases (`InTurn`). Who is ahead in a list
  has a larger share (`AheadSharesMore`), so who beats another in all lists has the larger sum, of the two shares and then of
  the weighted ones (`BeatenInVariant`, `WeightsMore`). The batches part the candidates (`EndsAre`, `SlicesAre`), so that the
  scores, gathered in the order of the batches whichever ended first, are those of the candidates in
  their order (`FlattenIs`, `ScoresAreGathered`). The invariant `HybridHolds` says what fusion may rely on while lists
  come, fail or time out (`RetrievalHolds`), and what the reranker may (`BatchesHold`).

**Rows under concurrent requests** (`RecordProofs`).
- `FamiliesStayInHand` (`FamiliesHold`), `AuthTypes`. Row locks exclude each other
  (`LocksAreExclusive`); a token is rotated once, into a successor of its family with the next number
  (`Lineage`, `Numbered`); a revocation has locked all that it saw (`SweepsAreComplete`).
- `DeletedMemoriesStayGone` (`DeletionIsFinal`). A row is held by one transaction (`RowsAreHeldOnce`), and who
  read before a deletion cannot show what it read after it (`CallIsSound`).
- `DatasetsStayReadable` (`ZeroDowntime`) and `OneIngestionAtATimeAgrees` (`SequentialIngestionsAgree`), for
  a finite set of ingestions. A version number has one owner (`NumbersAreOwned`), what a call
  holds is its own (`CallOwns`), and the tables agree while calls are alone (`TablesAgree`).
- `SourcesAgree` (`SourcesStayInStep`). What a call has read is what is committed unless another update
  committed since (`CallReads`), and the cache is cleared by whoever makes it stale (`CacheIsCleared`).
- `CatalogStaysWalked` (`CatalogIsWalked`, with the types). A walk has made, or found, what the catalog names up to
  its place (`Made`, `FirstRow`), in rows that hang together as its own transaction sees them (`Hung`). Two requests that
  double something both looked before either committed (`PairHolds`); a request that overlapped none keeps
  `Unique`, and `Counted`: the version is the number of rows (`AloneHolds`).

**Searches of the graph** (`RecordProofs`).
- `SearchesStayExact` (`SearchesAreExact`), for any finite graph and any order of the adjacency lists. What
  is compared is a run of the loops with walks in the graph, so the invariant says how far the search has come.
  A traversal holds nodes at their least distance and has each node within its depth, or one on the way to it,
  in its queue, as long as nothing was left out for the limit (`TraverseComplete` while `Roomy`); a search for paths
  holds simple walks in order of length, and every simple path not yet found has a prefix among them
  (`PathsHold`, `Starts`); of the nodes that the search for cycles is done with, edges lead only to such nodes, and not
  in a circle (`CyclesHold`, `Finished`). Finite sequences of distinct nodes are no longer than the number of nodes
  and a cycle is a set of nodes each of which has a successor in it: this closes the argument at the end of each loop.

**Documents and what is asked of them** (`DocumentProofs`).
- `UploadsKeepStoresTogether` (`ObjectsFollowRows`). Each object is of a row or of an upload that will
  make one or undo it (`ObjectsAreKept`).
- `StoresStayTrue` (`StoresAreTrue`). Whatever overlaps, an indexing stage that still has the rows it read
  has those of the chunks that are there (`StageReads`). What a stage may rely on while it is alone
  (`StageAlone`) says what it has read of the row, what has reached Qdrant, and what a deletion has
  removed so far; vectors are nowhere that the row does not name, but while they are being written.
- `VectorsStayTheirOwn` (`VectorsAreTheirOwn`). The batches of a call part the indices asked for
  (`BatchesPart`, from bounds of quotients), so that an item has neither vector nor error exactly
  as long as its one batch is out (`ItemsSettled`), whatever the order in which batches end.
- `RatesStayKept` (`RatesAreKept`). A clock reading is not older than what the window has dropped
  (`ReadingsAreNew`), and each entry of the window has its reason (`WindowIsKept`).
- `DecisionsStayBacked` (`DecisionsAreBacked`, with the types). A decision is `Backed` by the branches, conflicts, citations and
  confidence as they stand when it is taken, none of which changes later; rows of the execution follow its
  phase, committed or not (`RowsFollow`).

**State of one process** (`ServiceProofs`).
- `ToolsRunAsApproved` (`StepsRunAsApproved`). A row is flushed by one transaction (`RowsAreApart`), only the
  execution of a tool that commits publishes a step (`OnlyToolsPublish`), a checkpoint is never
  taken back (`Recorded`), and a paused session has its request (`Answerable`).
- `BreakersCount` (`BreakerCountsFailures`), for a finite set of remote providers.
- `StreamsStayInOrder` (`StreamInOrder`). Emitters agree with the log up to the events they have numbered and
  not yet published (`EmittersAgree`), and a watcher has what it was shown, its queue and what it awaits
  in order, without a gap (`InOrder`, `Awaits`).

**Sums.** A fold of the community modules is a recursive function, and no induction
theorem of the library can be applied by these provers. `CountingProofs` gets along without:
a set of numbers has a least element (`NatHasLeast`, from the well-foundedness of `<`), so a statement
about finite sets that fails, fails for a smallest set (`SumsAgree`; so does the one about the loop of a
sweep in `QueueProofs`, for a shortest run of it, the existence of sorted lists, for a smallest set, and in
`RecordProofs` what is said of walks of any length). On this rest the lemmas
about `SumOver`, and `TotalIsSum` and `CountedIsSum`, by which the folds of the models are such sums.

**Only model-checked.**
- Liveness: fairness and `ENABLED` are beyond the prover.
- `ChunksAreSound`: it compares what is computed by folds over pieces, tokens and rows with a definition of the whole.
- The type invariants of the composed runs, except where a theorem names them or an
  inductive invariant contains them.

## 5. Not modelled

- Jobs: progress reports, metrics, heartbeats and logging, which no decision reads;
  payload validation and the retry classification of an exception (an open choice of
  the model); that `get_depth` of Redis reads three lists one after the other; the
  in-process timeout of `Worker.shutdown`, beyond "some executions vanish".
- Text and vectors: parsing of files, hashing, Unicode normalisation (texts are in NFKC before they are cut),
  the bars and the rule of a rendered table, where a sentence ends, prompts, classification and
  rewriting of questions, generated SQL and its validation, similarity, scoring by models.
  They are choices of the models over outcomes, or lengths.
- Floats: `QualityGates` subtracts and compares integers, so that a drop exactly at a threshold, where
  `regression_service.py:122-127` and the rounding at `:142` may differ by an ulp, is not claimed.
- A cross-encoder that returns another number of scores than it was given, which its protocol forbids
  (`reranking/providers/base.py:38`); `reranking/service.py:154` would fall back to the order of fusion without saying so.
- Single rows written once by one request, and read-only derivations: FinOps (costs, budgets
  and quotas are sums; nothing in the program calls the preflight check before a model
  is called), SRE objectives and error budgets, evaluation scorers, calibration, significance
  and monitoring samples, snapshots of evaluation datasets, compliance assessments, reports, semantic definitions, tenancy and RBAC catalogues. A check of such a
  function against a copy of itself would say nothing.
- Reliability experiments: the executor holds one lock from injection to recovery in a
  `try/finally`, and most assertions are constants of the source.
- Idempotency keys (`security/replay.py`): as section 6 says, nothing is ever stored under one.
- Adapters, schemas, routing, configuration, instrumentation, migrations, tests and the frontend:
  no state that several actors change. They are most of the lines of the repository.

## 6. Disagreements between code and documents

Kept as runs that must find the violation (details in `findings`):
- `WorkerLoopFaults`: a dequeue that raises keeps its permit (`worker.py:127`);
  after `WORKER_CONCURRENCY` of them the loop waits for ever.
- `JobSystemCrashBuried`: a job whose worker crashed is dead-lettered on
  redelivery, on its first attempt (`worker.py:176`), against
  `task_23_jobs.md:188` and `190`.
- `DatasetReingest`: a promotion that fails on a column name cannot mark its version
  FAILED (`materialization_service.py:136`), against `task_27_dataset_ingestion.md:50`.
- `AgentCancelled`: a cancelled session becomes active again (`agents/runtime.py:76`),
  against `task_24_agent_runtime.md:80`.
- `AnalystUnrecorded`: both branches of a hybrid question insert step 1 of one run
  (`rag/service.py:282`), so that the run stays `running`, against `task_18_unified_analyst.md:103`.

Others can be had from the same modules by changing bounds:
- Jobs. With two pollers `RedisJobQueue` pushes a job twice: the promotion and reclaim
  transactions push whether or not their `ZREM` removed anything. A process that dies between
  `LPOP` and the reservation loses the job (`queue.py:218`, against `task_23_jobs.md:188`).
  Two racing requests with one key create two jobs (`dispatcher.py:67`, against
  `task_23_jobs.md:134`). `JobSystemSafety` with `MaxOverruns = 1` violates
  `HoldersAreLeased`, `SingleExecutor` and later `ExecutionsBounded`, with `MaxRetries = 1`
  (a forced retry of a `RETRY_SCHEDULED` job, whose delayed entry remains) `SingleExecutor`:
  acks name jobs, not reservations, so overlapping executions settle each other's leases.
  `JobSystemLive` without `OneAdversity` violates `EventuallySettles`: one execution settles
  the broker's entry, the other's stale object puts the row back into an unsettled
  status. With `MaxCancels = 1`, one worker and one job,
  `RowsKeepToTheGraph` is violated: a worker that loaded its job before a cancellation was committed makes the
  CANCELLED row RUNNING (`lifecycle.py:54`) and completes or buries it, and a cancellation overwrites `COMPLETED` or
  `DEAD_LETTER`, though `lifecycle.py:40-41` calls these terminal. A job whose enqueue
  failed stays `QUEUED`; no manual retry can enqueue it (`service.py:165`), and the reconciler of
  `task_23_jobs.md:189` is not in the code.
- Governance. A vote loaded before a rejection committed changes the rejected
  request (`approval_service.py:276`); a unit test says "Terminal states have no outbound transitions".
- Memory. An update that loaded a memory before its deletion indexes its point again; a
  supersession that races a deletion overwrites its status (`memory/service.py:125`); an
  update of the summary alone indexes the old content.
- Documents. The status `failed` is flushed and then rolled back, against
  `task_11_qdrant_vector_store.md:217`. The merging of short chunks crosses sections, against its
  docstring (`chunking/service.py:242`); a word above about 3,400 characters is cut into pieces
  that the validator refuses, and the document with them (`strategies.py:322`), as are
  oversized headings, items and rows; a table of a PDF is chunked up to three times. A row with more cells than the
  header loses the rest (`strategies.py:67-71`; `csv.py:97-98` and the tables of a PDF keep them). A sentence over the
  limits is put together again from tokens, of which an underscore is none (`strategies.py:503`), so that
  `snake_case` becomes `snakecase`, against "raw token fragments preserving spaces and punctuation"
  (`tokenizer.py:89`); a truncated parent loses its underscores in the same way (`tokenizer.py:100-117`).
  `TextIsKept` without its `WithoutUnderscores`, or with the cells beyond the header, is violated by `Documents`.
- Embeddings. `embed_query` returns a cached vector unvalidated, `embed_texts` validates
  it; the reported number of retries is always 0.
- Data sources. A finished sync does not invalidate the cache, against
  `task_26_connectors.md:109`; an update invalidates before it commits, so a discovery in
  between leaves a stale schema for up to an hour; overlapping updates lose parameters;
  a cut sync leaves its run `running`; a connection test overwrites `disabled`; the agents'
  schema tool has a cache of its own that never expires (`agents/tools/datasource.py:146`).
- Knowledge graph. The version can go back under overlapping syncs, against "Monotonically
  increasing graph version counter" (`models/knowledge_graph.py:237`), and doubles make later
  syncs add edges; a traversal that meets its node limit can return edges to nodes it
  has not visited (`adjacency.py:80-87`); `KnowledgeGraphCache` is invalidated and never used.
- Streams. Sequence numbers restart with the process (`coordinator.py`, guarantee 1); a
  streamed execution is never marked COMPLETED (`ask.py:511`); the frontend's client expects
  event names that the server does not send.
- Search. Failures of variants are swallowed and never degraded
  (`multi_retrieval.py:84-88`, against `task_14_reranking.md:178`), and the mode says "reranked" even when
  reranking failed; a model's thread outlives its permit (`reranking/service.py:111`, against
  `task_14_reranking.md:112`); fewer rerank candidates than `top_k` return fewer results.
- Questions. A timeout after the SQL branch committed, or a failed statement, leaves the run
  unrecorded; `[E#]` tags beyond E1 are stripped; the total timeout of 25 s cannot fire under the
  default timeouts of the branches; `SET LOCAL default_transaction_read_only` has no effect on the
  transaction that runs; a cached query plan ignores the enabling flags (`query/service.py`).
- Orchestration. The evidence of documents is looked for in the answer, where `RAGService` does
  not keep it (`evidence_service.py:127`), so that a question answered from documents alone
  ends as INSUFFICIENT_EVIDENCE (`AnswerOrchestration` with `DocumentNumbers = {<<>>}`); the execution
  row stays RECEIVED; the "timeout protection" (`orchestration_service.py:339`) has no timeout;
  a flush of the messages that fails is passed over and the request then fails in its commit
  (`:492`); a text without claims counts as fully supported.
- Evaluation. A run that breaks off stays `running`; a scorecard is made of the results stored,
  the summary of those counted, and they differ where a question rolled back. The direction of
  a metric is read from its name (`regression_service.py:117`), so that `supported_claims_ratio` ("ms")
  is taken as better when it falls, against `metric_registry.py:34`; the API gives a gate no
  regressions, so that rules about drops never fire (`routes.py:373`); enforcement lets PENDING
  pass (`release_service.py:66`), whose reason says "release cannot proceed".
- Alerts. Acknowledging an alert that has ended while a newer one fires leaves two active rows, and
  every later report raises (`sre/repository.py:192`); overlapping reports lose a count or
  make two rows; a suppressed alert is never deduplicated; overlapping updates reopen a resolved or
  closed incident, against "Terminal or backward transitions are forbidden by SRE policy"
  (`sre/incidents.py:42`).
- Rate limits. The limiter is made anew for each request (`dependencies.py:55`), so the "In-memory
  sliding window fallback" (`rate_limit.py:5`) starts empty: without Redis there is no limit.

Met while reading, outside the models:
- `security/replay.py`: `ReplayViolationError` is raised inside a `try ... except Exception` and
  swallowed; recording a response raises on its UUID and is caught, so no response is ever stored and a
  repeated key runs again.
- `compliance/audit_integrity.py`: no writer stores a `chain_hash`, so that every ledger that is not empty verifies as VALID.
- `sre/gates.py`: the release gate sees the 50 newest incidents only, and the budget comparison
  is `<=` where its docstring says `<`.
- `reports/`: the service expects a step type that is never recorded; publishing does not look at the status.

## 7. Plan

1. A proof of `ChunksAreSound`.
2. Compositions: agent sessions over the job system (a resume is a job); the document stages as
   handlers of jobs, redelivered.
3. What remains of the partly modelled components (`PROJECT.json` says what that is).
