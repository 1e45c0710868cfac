# A verification of the orchestration core of AI-Agents-SWD

AI-Agents-SWD runs software-delivery work through agents that talk over Redis
streams, under the control of an operator API.  This directory holds TLA+
modules of the parts of it where steps of several actors interleave (the
workflow and its approval gate, clarifications and their outbox, resume and
replay, plan delegation, reasoning calls and their budget, the event bus, the
audit trail and its hash chain), the TLC configurations that check them on
small instances, and proofs of the most important properties for instances of
every size.

    tlc -config Outbox.cfg MCOutboxRelay      # any run of the table below
    tlapm OutboxRelay_proofs.tla              # all proofs of a module

`PROJECT.json` lists the runs, a faulty variant of the code for every property,
the source lines of every definition, and the hazards the properties are for.

## 1. Inventory

### What is modelled

| Component | State it keeps | Operations | Modules |
|---|---|---|---|
| Lifecycle outbox and relay (`shared/sdk/tasks/lifecycle_outbox.py`, `outbox_relay.py`) | table `clarification_lifecycle_outbox`: status, attempts, available_at | insert, claim, publish, record the outcome, replay of a dead row | `OutboxRelay`, `OutboxContract` |
| Tasks and clarifications (`apps/orchestrator/src/task_api.py`, `workroom_api.py`, `shared/sdk/tasks/store.py`, `workroom_store.py`) | `operator_tasks`, `operator_clarification_requests` | create, submit, ask, answer | `ClarificationLifecycle` |
| Lifecycle poller (`lifecycle_poller.py`) | nothing of its own but the skip list of a cycle | remind, expire | `ClarificationLifecycle` |
| Resume requests (`resume_service.py`, `resume_request_repository.py`) | `resume_requests`, the markers on the clarification row, the command in the outbox | request, authorize, reject, cancel, execute, confirm, expire | `ResumeRequests` |
| Authorizations (`authorization_*.py`) | `resume_replay_authorizations` | approve, reject, cancel, consume, revoke, expire | `ResumeRequests`, `ReplayRequests`, `SingleUseGrant` |
| Production approvals (`production_approval_*.py`) | `production_action_approvals` | grant, revoke, resolve and consume | `ResumeRequests` |
| Replay requests (`replay_service.py`, `replay_request_repository.py`) | `replay_requests` | request under rate limits, authorize, reject, cancel, execute, expire | `ReplayRequests` |
| Redis event bus (`shared/sdk/event_bus/redis_streams.py`) | streams, consumer groups, pending lists | publish, create a group, read, acknowledge | `RedisStreams` |
| Stream agents (`shared/sdk/base_agent/stream_agent.py`) | the batch in hand | process, retry, dead-letter | `RetryPipeline` |
| Retry scheduler (`apps/retry-scheduler/src/scheduler.py`) | the batch in hand, sleeping tasks | requeue, mark terminal, manual replay | `RetryPipeline` |
| Audit worker (`apps/audit-worker/src/worker.py`, `shared/sdk/audit/store.py`) | `audit_logs`, a cache, failure counts | persist, skip, dead-letter; the integrity record of a row | `AuditIngest`, `AuditChain` |
| Audit chain (`shared/sdk/audit_integrity/*`, `apps/audit-service`, `scripts/*audit*`) | `audit_logs`, `audit_integrity_records`, the advisory lock | append, backfill, verify, simulate tampering, repair, restore | `AuditChain` |
| Workflow engine (`apps/orchestrator/src/{workflow,resume_engine,dispatch,workflow_events,main}.py`, `shared/sdk/workflow_store`) | `workflow_states`, the graph's state in memory | run the graph, listen for approvals, scan at start, resume, resume after a clarification, cancel, abort, follow the agents' events | `WorkflowEngine` |
| A task's questions (`agents/requirement-agent`, `apps/discord-gateway`: `answer_clarification`) | the work item, `clarification_requests` | analyse, ask, answer | `WorkflowEngine` |
| Policy and approval engines (`apps/policy-engine`, `apps/approval-engine`) | `approval_requests` | require an approval, create a request, decide it | `WorkflowEngine` |
| Agent reasoning (`shared/sdk/agent_reasoning/*`) | `reasoning_invocations` with lease, token and attempt | claim, take over, retry, exhaust, complete | `ReasoningInvocations`, `CanonicalResult` |
| LLM budget (`shared/sdk/llm_budget/*`) | `llm_budget_events` | reserve, settle, release, check the caps | `BudgetLedger` |
| Plan delegation (`shared/sdk/plan_delegation/*`, with the revisions of `agent_planning`) | `plan_execution_units`, `plan_execution_dispatches`, the accepted tip of the plan | materialize, schedule, assign, dispatch, publish, record a result | `PlanDelegation`, `DataflowContract` |

### How they interact

    operator --> task/workroom API --> tasks, clarifications <-- lifecycle poller
                                             |  (same transaction)
    operator --> resume service ----------> outbox --> relay --> stream.audit --> audit worker --> audit_logs
    operator --> replay service ----------> outbox (a dead row becomes pending)
    producer --> stream --> agent --> stream.deadletter --> retry scheduler --> stream
    task --> workflow graph --> policy engine, approval engine --(approval events)--> listener
                 |                                                                     |
                 +---> workflow_states <---------- operator, startup scan, agents' events,
                 |                                 retry scheduler
                 +---> stream.tasks --> requirement-agent --> questions --> answers
                            ^                                                  |
                            +------------- resume after a clarification <------+
    accepted plan --> execution graph --> dispatches --> stream --> results --> execution graph
    planner --> reasoning invocation --> budget ledger, provider
    audit-service, audit-worker, backfill --> audit_logs + integrity records <-- verify, repair, restore

The components share PostgreSQL rows and Redis streams; the calls between services are
single HTTP requests whose failure the caller handles.  What protects them is row locks, `SKIP LOCKED`, conditional updates,
partial unique indexes, CHECK constraints and, on the Redis side, consumer
groups.  The modules therefore take one step per database statement where a
handler autocommits, one step per transaction where it holds the locks on all
it decides on, and several steps per transaction where something outside the
transaction (an XADD) or an unlocked row comes between.

### What is hard

* Competing replicas: relays, pollers, requests (`AnswerIsExclusive`, `LimitsHold`,
  `SlotsAgree`).
* A publication or a paid call that is not part of the transaction that records it: timeouts
  after the fact, crashes between the two (`DuplicatesAccounted`, `CallsAreCharged`,
  `OwedIsSent`).
* Writes that must stand or fall together (`CommandsArePaidFor`, `ReplaysArePaidFor`).
* Decisions on a state that has changed since it was read or approved (`NoStaleDispatch`,
  `NoStaleReplay`, `NewWorkIsAuthorized`, `ToolsHeal`).
* A row without a version that six writers overwrite from snapshots, and an endpoint that
  sends a task without a look at it (`GateHolds`, `SentAgainOnlyIfAsked`).
* Leases that run out under a call that goes on (`OneArtifactEver`,
  `ImplementsCanonicalResult`).
* Two counters with different comparison operators on the two sides of a stream
  (`OneCopyInFlight`, `EveryJobEnds`).
* A bus that gives an entry to a group once and never again
  (`NothingIsAcknowledgedUnstored`, `ApprovalsAreHonoured`).
* A check and its use in two statements (`OvershootIsBounded`, `BlockedMeansWaiting`,
  `PassedMissesOnlyWhatCameMeanwhile`).
* Maintenance statements over many rows under CHECK constraints.

### What is not modelled

Planned (section 7): work items and task execution, the notification worker.  Not planned:
what agents and language models produce, the project, design and package endpoints of the
orchestrator (most of `operations.py`), the gateways but for `answer_clarification`, the GitHub client,
workspaces and code generation, backups, metrics, the admin console, identity and secret
configuration, infrastructure, and the several hundred verification scripts under `scripts/`.
They are content, calls of external services, or rows that one request writes alone, and they are
the bulk of the repository: the modelled parts are a small share of its lines.
`PROJECT.json` gives the reason for each.

## 2. Modules

### `OutboxRelay`, with its abstract specification `OutboxContract`

`publish_one` holds one database transaction around an XADD that is not part of
it.  The model has a step for the claim (`Claim`), for each outcome of the
publication (`PublishOk`, `PublishFailed`, `PublishTimeout`: applied by Redis but
reported as a failure), and for the commit (`MarkPublished`, `RecordFailure`);
`Rollback` is the death of the relay anywhere between.  `plan_retry_state` and
`plan_replay_state` are the pure functions of the source.  The claim's WHERE
clause is `Claimable`, its ORDER BY `Before`; SKIP LOCKED is `~Locked(e)`.  Time is
kept as `available_at - now` and `now - created_at`, saturating at `AgeCap`, so no
clock needs a bound.  `landed` counts the copies in the stream: it is the only
variable the program does not have.

`OutboxContract` says what writers may rely on: a recorded event stays queued
until it is delivered or parked, is settled only after delivery, is requeued only
from the parked state, and does not stay queued for ever.

### `ClarificationLifecycle`

Request handlers autocommit, so `create_clarification` and `answer_clarification`
are a chain of steps through `handler[h].pc`, each unconditional or conditional as
its SQL is: `claim_clarification_answer` is the compare-and-swap with the deadline
in its WHERE clause, `set_clarification_state` overwrites the task whatever it is.
`RequestDies` stops a request between two of them.  A poller takes the row lock on a
clarification (`ClaimExpiry`), and then, in a second step, locks the task, decides and
commits (`CommitExpiry`) or rolls back and remembers the row for this cycle
(`SkipExpiry`).  A reminder needs no second row and is one step.  A cycle is an expiry
phase and a reminder phase of at most `BatchSize` rows each.

`CloseTask` is external: the code is written for tasks in terminal statuses
(the poller and the resume service check for them), and no code in the repository
sets one yet.

### `ResumeRequests`

Each operation of the resume service locks the rows it decides on, in one
transaction, so it is one action; a denied operation rolls back and is an action
that is not enabled.  Where a denial is possible after a write (the approval has
been consumed, the authorization cannot be), the code raises, and that is why
`prepare_execution` is all or nothing.  `resource[c].version` stands for
`resource_state_version`, and `ResourceChanges` may bring an earlier value back.
`marker` is the pair of columns `resume_requested_at`, `resume_authorized_at`.
`ActiveAuth`, `Undecided` and `Consumable` are the predicates of the partial index and
of the conditional updates.  `expire_due_requests` is one UPDATE over all due rows,
with the CHECK that makes it fail as a whole.  `BecomeEligible` is external: no code
sets `resume_eligible_at` yet.

`SingleUseGrant` is what an authorization promises, whoever asks for it: a matter has one
authorization that can still be used, it pays for one deed, and the deed and the end of the
authorization are one step.  `ImplementsGrant`, in this module and in `ReplayRequests`, maps
the rows to it.  The matter of a resume is its clarification and the deed is the command; the
matter of a replay is the dead episode and the deed is the requeue.

### `ReplayRequests`

`request_replay` counts, then inserts.  It is two steps, and between them it holds the
advisory lock of the actor and the lock of the outbox row (`ActorLocked`, `RowLocked`);
`RollBack` ends it when an index is violated.  An episode number stands for
`dead_at:attempts`, which is new each time a row dies.  The relay acts beside the
requests, with its own unscoped `replay_dead`.  Approvals are left to `ResumeRequests`.

### `RedisStreams`, `RetryPipeline`, `AuditIngest`

`RedisStreams` has the four Redis commands as the bus uses them: a group is created at
`$`, read with `>`, and an entry once delivered is never delivered again, acknowledged or
not.  `missed` remembers how many entries were there before the group.

`RetryPipeline` is an agent's loop (`AgentRead`, `process`, `_handle_failure`, `AgentAcknowledge`) and
the scheduler's (`ReadDeadLetters`, `SpawnTask`, then `MarkTerminal` or `Requeue` after the
delay).  The scheduler acknowledges a dead letter when it creates its task; an error of a
publication is swallowed on both sides.  `PublishTo` may raise after it may have taken
effect; `Mishap` counts such events, and process deaths.

`AuditIngest` is the audit worker's loop.  `AfterFailure` has the two ways a failed INSERT
is answered.  The cache and the failure counts are lost when the worker stops; the row an
INSERT left although it raised, is not.

### `ReasoningInvocations`, with `BudgetLedger` and the abstract `CanonicalResult`

`ReasoningService.invoke` is a chain of autocommitted statements, and each is an action:
the insert that claims the correlation id (`TryBegin`), the takeover of an expired lease
(`TakeOver`), the second look (`ReRead`) that may end an exhausted row (`FailExhausted`), and
for the owner of an attempt the cap check, the reservation, the request, the settlement, the
retry with a new token (`Advance`) and the compare-and-set that ends the row (`Complete`).
`LeaseExpires` may happen at any time and stops nobody: a worker that has lost its lease goes
on as a zombie.  A token is a fresh uuid, so the attempt it was drawn for stands for it; an
artifact is named by the attempt that produced it.  What a body reports has no relation to what
was reserved for it (`Actuals`), and `SettleCharge` writes it as it comes.  A store call may raise before or after
its commit (`Crash`, `CompleteRaises`, the second case of `ReserveCharge`).  `wire` and `handed`
are history: the requests that left, and the outcomes callers were given.

`BudgetLedger` has one operator per SQL statement of the ledger.  All rows lie in one accounting
period, and one cap is modelled; the token caps and the other period are the same test.

`CanonicalResult` is what callers may rely on: a correlation id is claimed once and decided
once.  `ImplementsCanonicalResult` maps the row to it.

### `WorkflowEngine`

One workflow: the graph of `workflow.py` with an action per node, which runs the node and
persists what it returns (`Persist`, best effort); two nodes have a second step because
somebody outside can act between the effect and the persist (`approval_persist`,
`dispatch_persist`).  The other writers of `workflow_states` (approval listener, startup scan,
operator, consumer of the agents' events, the retry-scheduler's `_mark_workflow_failed`) read the
row, work, and overwrite it with what they
read: `job[a].new` is that snapshot, and `Update` has no condition but the task id, as in
`update_workflow_state`.  `Decide` is the approval engine, which lets a request be decided
again.  `Restart` loses the run, the handlers, and the stream entries they had read, and starts
with the scan, which the process awaits before it serves anything (`Serving`).  "aborted" and
"canceled" are one stage here, and the QA stages (`qa_auto_fix`, `blocked_for_human_review`) are
`in_progress`: nothing in the modelled code tells them apart.

A task that was sent is analysed by the requirement-agent (`Analyze`), which may open a question
about it (`Ask`); an operator answers (`Answer`).  `questions` is what the work item and its
clarification requests come to.  `ResumeAfterClarification` is the endpoint that the answer calls,
and that anybody can call: it needs a work item and no open question, looks neither at the
workflow's stage nor at its approval, and `PublishClarified` sends the task again.  `sent` counts
what the run and the approvals sent, `resent` remembers that this endpoint sent the task before
anybody approved it.  The status of the work item is left out, because no guard reads it.

### `PlanDelegation`

One revision of a plan.  Every command is a READ COMMITTED transaction and is modelled row lock
by row lock: a step takes one lock and waits for it by not being enabled (`Waits`), and what a
transaction writes becomes visible with its last step.  A scheduling pass reads its units once
(`StartPass`) and then decides by what it finds under the lock (`LockUnit`).  Publication and
its stamp come after the commit.  `record_result` locks its unit, then the blocked dependents
one by one in the order of their ids, and promotes those with nothing outstanding.  The foreign
keys take a share lock on the project row; that closes a cycle with the planner's transactions,
which PostgreSQL breaks (`BreakDeadlock`).  Router and agents are choices.

`DataflowContract` is what executing a plan promises, without transactions or locks: a step is
issued at most once, not before everything it depends on is done, and ends once, done or
failed.  `ImplementsDataflow` maps a unit to it: dispatched is issued.

### `AuditChain`

The writers of the chain (`Post` of the audit-service with row and record in one transaction,
`Persist` of the audit-worker with the row committed first, `Backfill`), the advisory lock, the
tail read and the insert; the verifier's three statements, each with its own snapshot;
the tamper simulation and its death; repair (plan, recompute under the lock, verify, commit) and
restore (precheck, apply with its own audit record).  A hash is collision free and is modelled by
what it is computed from, the sequence of `<<number, row, payload>>` up to its record, so a
link is wrong in the model exactly when it is wrong in the table.  Left out: the
classification of canonicalization drift (it takes three failing records), key rotation, the
drift and strict modes, rows of production actions.  Which row a backfill takes next is a choice,
and the repair's own audit event is one more `Post`.

## 3. Runs

| Run | Module / cfg | Checks |
|---|---|---|
| `outbox` | `MCOutboxRelay`, `Outbox.cfg` | type invariant, `DuplicatesAccounted`, `NoPrematureDeath`; refinement `ImplementsContract` with its liveness |
| `lifecycle_safety` | `MCClarificationLifecycle`, `LifecycleSafety.cfg` | type invariant, `AnswerIsExclusive` |
| `lifecycle_liveness` | `MCClarificationLifecycle`, `LifecycleLiveness.cfg` | `OverdueIsResolved` |
| `resume_safety` | `MCResumeRequests`, `ResumeSafety.cfg` | type invariant, `SlotsAgree`, `CommandsArePaidFor`, `AtMostOneResume`, `NoStaleDispatch` |
| `replay_safety` | `MCReplayRequests`, `ReplaySafety.cfg` | type invariant, `LimitsHold`, `ReplaysArePaidFor`, `NoStaleReplay` |
| `retry` | `MCRetryPipeline`, `Retry.cfg` | type invariant, `OneCopyInFlight`, `EveryJobEnds` |
| `ingest` | `MCAuditIngest`, `Ingest.cfg` | type invariant, `NothingIsAcknowledgedUnstored`, `ArrivalsArePersisted` |
| `reasoning` | `MCReasoningInvocations`, `Reasoning.cfg` | type invariant, `OneArtifactEver`, `CallsAreCharged`, `OvershootIsBounded`; refinement `ImplementsCanonicalResult`; `EveryInvocationEnds` |
| `workflow` | `MCWorkflowEngine`, `Workflow.cfg` | type invariant, `GateHolds`, `SentAgainOnlyIfAsked`, `ApprovalsAreHonoured` |
| `delegation` | `MCPlanDelegation`, `Delegation.cfg` | type invariant, `BlockedMeansWaiting`, `NewWorkIsAuthorized`, `OwedIsSent` |
| `audit_chain` | `MCAuditChain`, `AuditChain.cfg` | type invariant, `ChainIsLinked`, `ToolsHeal`, `PassedMissesOnlyWhatCameMeanwhile` |
| `audit_chain_repair` | `MCAuditChain`, `AuditChainRepair.cfg` | `RepairedChainVerifies`: an expected violation, section 6 |

Distinct states: outbox 391 355, lifecycle_safety 567 722, lifecycle_liveness 48 159, resume_safety
2 389 632, replay_safety 477 517, retry 77 680, ingest 157 410, reasoning 173 753, workflow 400 526,
delegation 126 381, audit_chain 266 679.

What the passing runs show:

* **Outbox.** Whatever two relays, timeouts, a crash and an operator's replay do, every
  extra copy is explained by a recorded failure or a crash, no row dies before its backoff
  schedule has elapsed, and every recorded event is eventually delivered or parked.  A
  replayed row keeps its attempts, so it dies again at its first failure; that is as the
  source says.
* **Lifecycle.** The compare-and-swap with the deadline and the poller's row lock exclude
  each other: an answered clarification never expires and the reverse, although requests
  read the status earlier.
* **Resume.** The marker, the index on requests and the index on authorizations, three
  notions of "active", never disagree; command, consumed authorization and consumed
  approval come together; a clarification never has two live or successful commands.
* **Replay.** The advisory lock closes the count-then-insert gap, and the episode in the
  state version closes the gap that the relay's own `replay_dead` opens.
* **Retry and ingest.** Without faults and with groups in place nothing is lost; no fault
  multiplies a job.
* **Reasoning.** The token keeps zombies from deciding a row they have lost, no two callers are
  handed different artifacts, no call that left disappears from the ledger, and a row whose
  callers die is ended as long as somebody asks.  The cap is no bound on what is spent: two attempts
  pass the check together, and each can cost more than it reserved.  What is spent beyond it is
  bounded all the same, by one charge for each caller less the estimate of the last (`OvershootIsBounded`;
  TLC reaches equality: a spending of 7 under a cap of 3).
* **Workflow.** The gate holds on what the graph itself remembers, so no stale overwrite of the
  row, no engine that is down and no clarification opens it; and the startup scan finds every
  approval that the listener missed.  A task that needs no approval is sent again by
  `resume_after_clarification` and by nobody else, at every call.
* **Delegation.** The locks on the dependents make fan-in exact; the locked revision and work
  item keep new work under the accepted plan; a committed dispatch is published by a later
  pass if its own failed.
* **Audit chain.** The advisory lock and the unique indexes keep the chain linked; the
  check at the end of a repair catches rows that changed since; a "passed" of the verifier overlooks
  no more rows than were recorded while it ran.

## 4. Bounds and assumptions of the runs

* `outbox`: two audit rows, so the ORDER BY matters; two relays, so claims compete; a schedule
  of two different backoffs, so the first, the middle and the last attempt differ; one death of a
  relay and one replay, so that a row dies twice.  Command rows only wait for a consumer the
  repository does not have yet and double the state space: the run leaves them out, and that no
  relay ever holds one is part of the proved invariant (`RelayCoherent`).
* `lifecycle_safety`: two clarifications of one task, so that they share the parent; two requests, so
  that two answers compete; two pollers; deadlines after two model hours and reminders after
  one, so that before, at and after the deadline are distinct; one death of a request or a cycle.
  Requests and pollers are interchangeable: symmetry is used, only where no liveness is checked.
* `lifecycle_liveness`: a task for each clarification, one of which may be closed and one of which
  has production effect, so that the older row must be skipped for the younger one to be reached.  A batch of two: a poller
  whose whole batch is stuck rows does starve the others, which is a limit of the code
  (rows are ordered by due_at and stuck ones stay first).
* `resume_safety`: two requests (one after or beside the other), two clarifications, two
  versions of which one needs an approval, one approval, a grant that lives one unit.
* `replay_safety`: three requests with an actor limit of two and an event limit of one, so
  that both are reached; two episodes.  Everything happens in one rate-limit window and
  the gates are open; the approver is not the requester.
* `retry`: one job, whose manual replays make up to three copies, so that batches of two
  occur; two retries; two faults, so that a fault may follow a fault.  The groups exist
  before the first job or not, in all four combinations
  (`scripts/init_redis_streams.sh` creates them; nothing enforces that it runs first).
* `ingest`: an event and an echo of the audit service, three copies of each, two faults.
  `MAX_FAILURES_BEFORE_DEADLETTER` is 1 in this run and not 3 as in the code: since no
  entry is delivered twice, a count above one is never reached, and with 3 the
  dead-letter branch would not be checked at all.
* `reasoning`: one correlation id (they share only the ledger), two callers, so that a zombie
  and its successor overlap; three attempts, so that a takeover and a retry both happen and the
  limit is met from below; an estimate of 2, bodies that report 0, 1 or 3 and a cap of 3, so that one
  call fits, two calls pass it together, one that settles for less makes room again, and one that
  settles for more takes it; one death.  `settle` (`llm_budget/policy.py:279`) writes the cost of the token
  counts in the body, which nothing checks and nothing clamps at the reservation (`store.py:422`).  The
  estimate is four characters to a token (`estimator.py:63`) at the price of a table, which by its comment
  was off by a factor of ten before (`estimator.py:50`); the maximum cost of a call
  (`anthropic_provider.py:504`) is compared with the estimate only.  So the model relates
  `Actuals` to nothing: a report may be above the estimate and above the cap, and in the proof below 0
  too, for a token count is any integer.
  `Dearest` only gives the dearest report a name, so that a bound can be stated.
* `workflow`: one task (tasks share nothing), one decision, one fault of any kind and any number of
  restarts; operators call one at a time; `sent` counts to `Many`.  The consumer of the agents' events and
  the retry-scheduler take turns too, so that the one does not overwrite the other's snapshot;
  against all other writers both are free.  Agents may report as soon as the task has been analysed,
  anything and any number of times.  `POST /intake/mock` of the communication-gateway, in its
  stream mode, puts a task on `stream.tasks` without a workflow
  (`apps/communication-gateway/src/main.py:127`); it is supposed not to be given the id of a task that has one.
* `delegation`: two connections, so that every pair of commands overlaps; three steps of which
  the last waits for two, the smallest fan-in; one fault; any number of passes.
* `audit_chain`: three rows and two writers, so that a record has a neighbour on both sides and an
  append meets an append, a repair and a restore; writers with and without a key; rows and
  writers are interchangeable (symmetry; no liveness is checked there).

**Deadlock** is checked in the runs of the outbox, the lifecycle, the resume requests, the
reasoning calls and the workflow.  It is not in the others: a replay history with every request used
up, streams that have been read to their end, a plan that is finished or superseded, and an audit log
whose rows are used up are ordinary final states of the bounded model.  A deadlock of the *database* in
`delegation` is a state in which every transaction waits, and `BreakDeadlock` leaves it.

**Fairness.** Relays, pollers, agents, the scheduler and the audit worker each run a loop
that only a stop ends (`run` in each), every database and Redis call in the relay has a timeout,
and the service manager restarts them: weak fairness on each one's steps.  A request that has started
runs on to its next statement or dies.  The clock of PostgreSQL advances.  A relay's
weak fairness does not exclude that each publication fails: the outbox ends such a row as
parked, which the contract allows.  In `reasoning` a call that runs goes on (its provider attempt
has a wall-clock timeout), leases run out, and callers that were told `in_progress` come back: that
last one is strong fairness on the client, because nothing in the service polls.  In `workflow` the
loops read, handlers finish, and the process is started again some day, which is when the scan
runs.  In `delegation` lock queues are served in order, so a step that waits again and again gets its
turn (strong fairness), and `schedule_ready_work` is called again and again; this too is a client's
doing, for nothing in the repository repeats it.  `EveryJobEnds` and `ArrivalsArePersisted` promise nothing once a fault has
happened, because the code does not: section 6 has the faults that lose work.

## 5. Proofs

TLAPS proves the following for every value of the constants that satisfies the named assumption of
the module: `OutboxAssumption`, `ResumeAssumption`, `ReplayAssumption`, `ReasoningAssumption`,
`WorkflowAssumption`, `DelegationAssumption`, `IngestAssumption`, `ChainAssumption`,
`LifecycleAssumption`, `PipelineAssumption`. `OvershootAlwaysBounded` supposes besides that workers
and correlation ids are finitely many and that there is a worker.

| Module | Theorem | Property |
|---|---|---|
| `OutboxRelay_proofs` | `OutboxTyped`, `ExclusiveClaims`, `NoPhantomPublication`, `DuplicatesAreBounded`, `DeathTakesTheWholeSchedule` | `TypeOK`, `ClaimIsExclusive`, `PublishedWasDelivered`, `DuplicatesAccounted`, `NoPrematureDeath` |
| | `RelayKeepsContract` | the safety part of `ImplementsContract` |
| &nbsp; of `ClarificationLifecycle` | `LifecycleTyped`, `OneAnswerAtATime`, `RowsAnnounced`, `SettledStaySettled` | `LifecycleTypeOK`, `AnswerIsExclusive`, `EventsMatchRows`, `SettledIsFinal` |
| &nbsp; of both | `NoticesAreTrue` | `ToldTrulyAndInFull` |
| `ResumeRequests_proofs` | `ResumeTyped`, `SlotsAlwaysAgree`, `CommandsAlwaysPaidFor`, `NeverResumedTwice`, `NothingStaleIsDispatched`, `EndsStayFinal` | `TypeOK`, `SlotsAgree`, `CommandsArePaidFor`, `AtMostOneResume`, `NoStaleDispatch`, `EndsAreFinal` |
| | `ResumeKeepsGrant` | `ImplementsGrant` |
| `ReplayRequests_proofs` | `ReplayTyped`, `LimitsAlwaysHold`, `ReplaysAlwaysPaid`, `NeverReplaysStale` | `TypeOK`, `LimitsHold`, `ReplaysArePaidFor`, `NoStaleReplay` |
| | `ReplayKeepsGrant` | `ImplementsGrant` |
| `AuditIngest_proofs` | `IngestTyped`, `AcknowledgedIsStored`, `EntriesAreStoredOnce` | `TypeOK`, `NothingIsAcknowledgedUnstored`, `StoredInOrder` |
| &nbsp; of `RetryPipeline` | `PipelineTyped`, `JobsAreNeverMultiplied`, `RetriesEnd`, `JobsAreOnlyLostToFaults`, `WorkEnds` | `PipelineTypeOK`, `OneCopyInFlight`, `RetriesAreBounded`, `OnlyFaultsLose`, `WorkIsBounded` |
| `ReasoningInvocations_proofs` | `InvocationsTyped`, `EveryCallCharged`, `OneArtifact`, `RowsImplementCanonicalResult`, `OvershootAlwaysBounded` | `TypeOK`, `CallsAreCharged`, `OneArtifactEver`, `ImplementsCanonicalResult`, `OvershootIsBounded` |
| `WorkflowEngine_proofs` | `WorkflowTyped`, `GateAlwaysHolds`, `SentAgainAlwaysOnRequest` | `TypeOK`, `GateHolds`, `SentAgainOnlyIfAsked` |
| `PlanDelegation_proofs` | `DelegationTyped`, `FanInNeverForgets`, `UnitsHaveOneHolder`, `WorkOnlyWhenAuthorized` | `TypeOK`, `BlockedMeansWaiting`, one holder of a unit, `NewWorkIsAuthorized` |
| | `GraphIsDataflow`, `CommandsAlwaysEarned` | `ImplementsDataflow`, `CommandsAreEarned` |
| `AuditChain_proofs` | `ChainTyped`, `ChainAlwaysLinked`, `ToolsAlwaysHeal`, `PassedIsAccountedFor`, `RecordsStay` | `TypeOK`, `ChainIsLinked`, `ToolsHeal`, `PassedMissesOnlyWhatCameMeanwhile`, `RecordsAreForEver` |

`ClaimIsExclusive`, `PublishedWasDelivered`, `EventsMatchRows`, `SettledIsFinal`, `EndsAreFinal`,
`RetriesAreBounded`, the one holder of a unit, `ToldTrulyAndInFull`, `ImplementsGrant`,
`OnlyFaultsLose`, `WorkIsBounded`, `StoredInOrder`, `ImplementsDataflow`, `CommandsAreEarned` and
`RecordsAreForEver` have a proof and no run: the proof says more. The `IInv` of every module, each invariant named below and each statement of the table was checked with
TLC on the run's instance before it was proved (`ToldTrulyAndInFull`, which spans two modules, on an
instance with one clarification, request, poller and relay).

**Outbox.** None of the properties is inductive. `IInv` adds that a relay holds a row exactly while
it is in a transaction (`RelayCoherent`), that a relay which believes its publication worked has a
copy in the stream (`OkWasDelivered`), and two accounts: `CopiesAccounted` says that a row that is
neither published nor waiting for an uncommitted outcome has at most as many copies as recorded
attempts and crashes, which leaves room for the one copy a transaction can add; `ScheduleRespected`
says that the time a row has lived plus the time it still has to wait covers the backoffs of its
attempts, a quantity that time leaves unchanged and a failure increases on both sides. The lemmas
are about how the schedule moves; the invariant's proof has a step per action. The refinement goes
over `RowMoves`: every step changes at most one row, by one of the moves of the contract or by a
step that the contract does not see, and a row becomes `settled` only if it was delivered, which is
`OkWasDelivered`.

**Clarifications** (second part of `OutboxRelay_proofs`; the relay delivers their events).
Its invariant `LInv` adds that a request in progress knows its clarification (`HandlersHaveClar`) and that a row
a poller holds is open and held by no other (`HeldIsOpen`, the row lock), so that an expiry cannot
overtake an answer; with both `AnswerIsExclusive` is inductive, by the compare-and-set of the claim.
That a row that was settled stays so, and that the outbox announces exactly what the rows say, are
an action property and an invariant over it: a case for each move of a row.

**Clarifications and outbox.** The two modules share no variable; what ties them together is that
`insert_lifecycle_outbox_event` runs in the poller's transaction, so that there is an outbox row exactly
for what is recorded. `NoticesAreTrue` takes this as its hypothesis (`OneTransaction`, which says nothing
of publication, relays or requests) and concludes `ToldTrulyAndInFull`: a notice in the stream is true of
its clarification, and an expiry or a reminder that happened is in the stream, or in the outbox as pending
or dead. It joins `EventsMatchRows` and the invariant of the relay: a published row has landed, and
what is not in the outbox has not.

**Resume.** `IInv` adds `InStep`, how state of a request, decision and mark of its authorization and
its command move together; `HoldsSlot`, the key step: a request *occupies* its clarification while
it is active, while its authorization could still be used, **or for ever once a command was
created**, and an occupied clarification has its marker set and one occupant; and `Paid`,
`SpentWell`, the account of approvals. The last case of `Occupies` is what makes `AtMostOneResume`
inductive; it holds because neither confirmation releases the markers. The same behaviour is listed
in section 6: a repair that releases the markers after a failure must let `Occupies` end with it,
and this proof says what else then has to hold. The two action properties follow from the invariant
and one case per action. So does `ResumeKeepsGrant`: `HoldsSlot` is what lets `Ask` see nobody else's live
authorization and no deed, and a revocation or an expiry, which may hit several at once, is `Void`.

**Replay.** Counting and inserting are two steps of a transaction, and so are counting and
executing. `ActorsCounted` says that the actor's lock lets one request at a time be between the two,
and that there is room for it; `EventsCounted` that an event has one active request, and room for
its execution as long as it has one: that is why the limit on an event can be checked when a request
is made and hold when it is executed. `RowsCohere` ties a request to its authorization;
`ExecutedAreOver` says that an episode that was replayed is behind the event or no longer dead, from
which `PaidOnce` and `NoStaleReplay` follow. The counts are cardinalities of sets that are finite,
which is part of the invariant, although events and requests may be infinitely many.
`ReplayKeepsGrant` needs one thing more: a request is inserted a step after the dead episode was read, and
the episode must not have been replayed in between. That is `OpeningIsFresh`: the row's lock keeps the episode
what it was, also against the relay.

**Audit ingest.** `UnreadIsInterval`, `EnsureGroupProperties` and `XReadGroupProperties` say what
the operators of `RedisStreams` return: what a group has not read is the interval behind its last
entry, a read delivers the next ones in order, and a group that is created at the end has missed
what was there before. `IInv` adds that the group lies within the stream (`GroupWithinLog`), that
the cache knows only of rows (`CacheHasRows`: the cache is written after the row, and lost with the
process), and that `handle` says "acknowledge" only of an entry that is stored (`AckMeansStored`),
which is what the step after it relies on.

`StoredInOrder` says that the rows of `audit_logs` follow the order of the stream, so that no entry
has two, although an INSERT that raises may have left its row and a restarted worker knows of none.
`OrderInv` adds that a batch is in order (`BatchInOrder`) and that the rows are of entries before
it, but for the first one once `handle` has dealt with it (`RowsBehindBatch`). The argument does
not need the dedup cache: it is the group, which never delivers an entry again, that keeps the rows
apart. Two rows of one event come from two entries, which have two ids.

**Retry pipeline** (second part of `AuditIngest_proofs`; the same streams). `Coherent` says that the batches of agent and scheduler are
entries their group was given and has not acknowledged, each once, and that dead letters belong to
jobs that were submitted. A *copy in flight* is an entry that is unread or held, in either stream;
the sets of them are finite, and each action takes one away, moves one from one stream to the other,
or adds one that a manual replay pays for; a submission adds the first. No fault pays for a copy.
`RetriesAreBounded` is inductive over `Coherent`. `OnlyFaultsLose` is the other direction, that copies do not
disappear: as long as nothing has been killed and no call has raised, a submitted job has been worked off
or marked terminal, was in the stream before the group existed, or is under way. The agent acknowledges only
what it has worked off, published again or dead-lettered, and the scheduler what it holds in a task,
so the copy moves on. With a fault the statement is false, as section 6 says.

`WorkIsBounded` holds with faults: the handler does the work of a job at most `max_retries + 1`
times, and once more per manual replay. `OneCopyInFlight` and `RetriesAreBounded` together do not give it: they bound
the copies at a time and the count that each carries, not the work of one copy after another.
`WorkIsPaid` is
an account: what has been done, one for each copy that is at its last try, in the stream or
dead-lettered (`LastIn`, `LastDead`), and what the one copy that can still be retried may do
(`Left`) stay within `max_retries + 1` and the replays. Doing the work moves one from the copy to
the count, a publication moves what is left to the next copy, and a fault only takes away. The bound
is tight: TLC refutes it without the one.

**Reasoning.** `IInv` adds `AttemptsAreApart`: a worker inside an attempt drew it from its row, and
no two workers are in the same attempt, which is why a token identifies an artifact;
`RowsKeepToken`: a row carries at most the artifact of its last attempt; `ChargedBeforeSent`:
attempts to come have neither charge nor request, and an attempt sends only once it is charged;
`HandedIsLast`: an artifact that was handed out is that of the last attempt of an ended row.
`OneArtifactEver` follows from the last. The refinement maps a row to claimed and decided; its step
lemma has a case per action, and only the claim and the three ways a row ends do not stutter.

The bound on the budget is about a sum over the ledger, which the model writes as a fold.
`FoldInduction` is induction over the sets a fold goes through, stated for a set instead of a
predicate and proved from well-foundedness; with it `UsageProperties` shows that the fold exists, is
an integer, is zero where nothing counts, and changes by what one entry changes. The invariant is
`ChargesFit`: what is used, plus the dearest charge for each attempt that is past the check of the
cap and has not reserved yet, plus what the settlement of each reserved charge may add, is within the
bound. It needs `ReservedIsEstimate`: a charge that was not settled is the estimate. Each step
moves an attempt from one term to the next: the check takes the place of a worker, a reservation
takes the estimate out of the dearest charge, a settlement what was left of it.

**Workflow.** The row in the database is no help, for every handler overwrites it whole.
`RunRemembers` says that a run past the policy engine asks for approval if the action is restricted
and never believes that it was granted; `ApprovedMeansGranted` that wherever "approved" is written
(the row, a stale copy a handler holds, an event) a human granted it; `UnapprovedIsSentOnce` that
without a grant the run sends once and needed none, and no approval sends; `ClarifiedWasSent` that questions
and what comes of them belong to a task that was sent before, and that what `resume_after_clarification` sent
without a grant needed none. They are inductive only together.

**Delegation.** The argument is about row locks. `Backed` says that what a transaction has locked is
still as it read it (revision dispatchable, unit in the state it has in hand, dependents blocked),
and `Exclusive` that no unit is locked by two; `Sensible` and `AllOrNothing` say what a pass may
have in hand and that the graph appears whole. `BlockedMeansWaiting` is preserved because whoever
unblocks a dependent holds it and has seen every dependency complete. That units and dependents are
taken in order means that a set of steps has a smallest one, which is well-foundedness
(`MinIsMember`).

The refinement rests on `UnitsMoveSo`: whatever the locks, a step that changes units
builds the graph, takes one unit on to its next state, or completes one and makes dependents ready. A unit
that is dispatched was past `blocked`, and `PastBlockedHasDeps`, a consequence of `BlockedMeansWaiting`, says that its dependencies
are completed. Publication is outside the transactions, and `CommandsAreEarned` needs `Delivery` for
it: a pass that is going to publish found or wrote the dispatch row, and rows stay.

**Audit chain.** `ChainIsLinked` is not inductive because a writer inserts after a tail it has read
before and the repair commits a chain it has computed before. `IInv` adds that whoever has read the
tail or computed a chain holds the advisory lock (`LockIsHeld`), that such a tail is still the tail
(`TailIsHeld`), that such a chain is one of the same rows (`RepairKeepsRows`), and that records
belong to rows that are there (`RecordsHaveRows`). `ToolsHeal` needs to know what the simulation of
tampering leaves behind (`Marks`): one row is marked at a time (`MarkIsOne`), writers do not see the
marker (`WritersSeeNoMark`), a simulation that runs has its mark (`SimulationHasMark`), and a record
that was hashed over a marker that is gone excludes a further mark (`SpoiledMeansUnmarked`).
`PassedMissesOnlyWhatCameMeanwhile` needs `Counts`: the rows are finitely many and records are only
added. `RecordsAreForEver` says so of each record: writers append, and the chain a repair commits
is the one it read, with the rows (`RepairKeepsRows`) and the signatures (`RepairKeepsSignatures`) it found.

**Only model-checked.** Every invariant and every action property that a passing run checks is proved. What
is not is liveness: the fairness part of `ImplementsContract`, `OverdueIsResolved`, `EveryJobEnds`,
`ArrivalsArePersisted`, `EveryInvocationEnds`, `ApprovalsAreHonoured`, `OwedIsSent`. They rest on
fairness, and so on ENABLED, which is out of the prover's reach. The library's induction theorems
are so too, for they take a predicate as a parameter; induction over a *set* is not, and is used
where data need it (the fold, the choice of the first unit). No module uses recursive operators.

## 6. Disagreements between the code and its documents

The run `audit_chain_repair` ends in a violation.  A repair writes a new payload hash, row hash
and link into every record from the first failing one on (`repair.py:366`) and leaves
`hmac_signature` as it was, and the check at its end looks at no signature.  After the repair of a
signed record `verify_chain` fails with `hmac_signature_invalid`, although
`docs/operations/audit-chain-repair-policy.md:73` says that a completed repair must leave the chain
verifying cleanly.  The restore tool refuses signed records (`log_restore.py:224`).

The models contain the following behaviours as well; no run is spent on them.

*Clarifications*

* `answer_clarification` sets the task to `intake_review` whatever its `production_effect`
  (`workroom_api.py:347`); the comment at `task_api.py:199` says that such a task never advances
  there.
* A clarification whose task has moved on (a second one for the same task, after the first
  was answered) is rolled back by every cycle and stays open, although
  `api-and-event-contract.md:97` says there is no stuck transition.  A batch full of such rows starves
  the younger ones.
* `create_clarification` inserts the row and then updates the task.  An answer between the
  two statements is overwritten: the clarification is answered and the task waits for it.
* `submit_task` reads the status and updates unconditionally: a task that was closed or asked about
  in between is put back to `intake_review`.

*Resume and replay*

* `release_clarification_resume_markers` is said to serve "cancel/reject/expire/fail"
  (`resume_request_repository.py:109`); it is called for cancel and reject only.  After an expiry or
  a failure the clarification can never be requested again.
* `expire_due_requests` is said to expire authorized requests too (`resume_request_repository.py:387`).
  Their `authorized_at` violates `chk_rr_authorized_coherent` (`033_be3_resume_requests.sql:63`), and the
  statement fails for all rows.
* A replay request whose authorization is revoked stays `authorized`: it cannot be executed,
  withdrawn or expired, and `uq_rpr_active_per_event` refuses another one
  (compare `032_be3_resume_replay_authorization.sql:114`).

*Event bus*

* A dead letter is "requeued after retry_after_seconds" (`scheduler.py:33`) or marked terminal.  It is
  acknowledged before the delay (`scheduler.py:341`), so a shutdown or a failed publication leaves it
  neither.
* "A failed INSERT is left un-ACKed so the next XREADGROUP picks the message up again"
  (`worker.py:18` of the audit worker).  The bus reads with `>` only (`redis_streams.py:161`), which
  does not.
* The agent dead-letters a message at `retry_count = max_retries`, the scheduler calls it
  terminal only above that, so an exhausted message is tried once more
  (compare `stream_agent.py:274`).
* The audit worker recognises an entry by its stream id, not by its `idempotency_key`: an
  event that the relay publishes twice has two rows (compare `api-and-event-contract.md:237`).

*Audit chain*

* `verify_chain` counts rows and records in two statements without a transaction.  A record committed
  between them makes up for one that is missing, and the status is passed
  (compare `docs/operations/tamper-evident-audit.md:140`).
* The repair script does not take the file lock that is said to serialize every script that
  mutates the chain.  A repair during a simulation binds the marked content; the `finally` of the
  simulation then changes the row under its new record.

*Workflow*

* A terminated workflow can come back: an approval event or a resume does not look at the stage
  (`resume_engine.py:117`), and the graph overwrites "canceled" with its next node.  A later
  approval dispatches a canceled or completed workflow again.
* An approval handled while the graph is still running is overwritten with `waiting_approval`; the
  startup scan finds it and dispatches a second time.
* A dispatch that could not be published is recorded as dispatched and not tried again.
* An approved workflow is dispatched without the `team_context` that the graph would have passed.
* `resume_after_clarification` is "safe to call repeatedly" (`apps/orchestrator/src/main.py:355`,
  `docs/operations/flexible-task-execution-loop.md:93`).  Safe it is of the gate, but every call sends
  the task to the agents again: open clarifications block it, answered ones do not, and nothing
  records that a call was made.  It sends a task that was never approved (and needed no approval),
  a canceled or completed one as well, and one about which a question was opened after the check.
* `approval_status` survives in a row that `create_workflow_state` takes over (ON CONFLICT).

*Reasoning and budget*

* `fail_exhausted_invocation` ends the row and leaves its token.  The last attempt, still under way, then
  fails to write but finds its own token on the row it reads back, so its caller is told "fresh"
  and given an artifact while the row is failed (`service.py:750`).
* A body of status 2xx without usage settles its reservation at 0 (compare
  `anthropic_provider.py:33`).
* A settlement can be above its reservation, so a single call that fitted passes the cap when it is
  settled; the next check finds the cap breached, but nothing takes the charge back.

*Delegation*

* `plan_delegation/store.py:24` states one lock order for every command.  An assignment and a
  dispatch hold the revision when their foreign key takes the project row; materialization and the planner
  take them the other way round.  PostgreSQL breaks the deadlock.
* A pass stops at the first unit whose revision is stale, so a later dispatch that was committed and not
  published is not published by it; a dispatch of a cancelled plan can still be published.
* A crash between stamp and audit leaves a publication without its audit event; the schema
  allows `cancelled` units that no code writes.

## 7. Plan

Done: the outbox (first, because every other part of the lifecycle reports through it), the
lifecycle, resume and replay, the two consumers of the event bus, the workflow engine with its
approval gate, reasoning with its budget, plan delegation, the audit chain; proofs of every
invariant and action property that a passing run checks; five refinements of abstract
specifications (`OutboxContract`, `CanonicalResult`, `SingleUseGrant` twice, `DataflowContract`).

Next, in this order:

1. A composition of `OutboxRelay`, `AuditIngest` and `AuditChain`: from a committed transaction to a
   recorded row of `audit_logs`.
2. `WorkItems`: claim and hand-over in `task_execution` and `work_items`.
3. `Notifications`: the third consumer of the event bus.

Proofs: the composition, which can start from `NoticesAreTrue`, the part of it before the stream, and
from `AcknowledgedIsStored` and `ChainAlwaysLinked`; the invariants that stand beside a finding of
section 6, for the code as repaired.
