--------------------------- MODULE RetryPipeline ---------------------------
(***************************************************************************)
(* A stream agent, its retries, the dead-letter stream and the retry       *)
(* scheduler (shared/sdk/base_agent/stream_agent.py and                    *)
(* apps/retry-scheduler/src/scheduler.py).                                 *)
(*                                                                         *)
(* A job is one message that some producer publishes once; the entries     *)
(* made of it carry its retry_count.  A handler may succeed or fail at     *)
(* every attempt.  Faults are bounded: a process that stops, a Redis call  *)
(* that raises (its effect on the server may have happened or not).  No    *)
(* name here is one of AuditIngest: a module of proofs extends both.       *)
(***************************************************************************)
EXTENDS RedisStreams

CONSTANTS
    Jobs,
    MaxRetries,     \* max_retries
    ReadCount,      \* count of consume_events
    Deployments,    \* which consumer groups may exist before the first job:
                    \* a set of pairs <<the agent's, the scheduler's>>
    MaxMishaps,     \* bound: faults
    MaxReplays      \* bound: manual replays of dead letters of one job

ASSUME PipelineAssumption ==
    /\ MaxRetries \in Nat \ {0} /\ ReadCount \in Nat \ {0}
    /\ Deployments \subseteq BOOLEAN \X BOOLEAN
    /\ MaxMishaps \in Nat /\ MaxReplays \in Nat

VARIABLES
    input,      \* the agent's input stream
    dead,       \* stream.deadletter
    terminal,   \* dead letters marked as terminal failures
    agent,      \* entries of the batch still to be finished, stage of the first
    sched,      \* dead letters of the scheduler's batch, and its sleeping tasks
    done,       \* job -> times its handler has done the work
    replays,    \* job -> manual replays
    mishaps

pipelineVars == <<input, dead, terminal, agent, sched, done, replays, mishaps>>

Entry == [job : Jobs, retries : Nat]

PipelineTypeOK ==
    /\ input \in Streams(Entry) /\ dead \in Streams(Entry)
    /\ terminal \subseteq DOMAIN dead.log
    /\ agent \in [batch : Seq(Nat), stage : {"handle", "failed", "ack"}]
    /\ sched \in [batch : Seq(Nat), tasks : SUBSET Nat]
    /\ done \in [Jobs -> Nat] /\ replays \in [Jobs -> 0..MaxReplays]
    /\ mishaps \in 0..MaxMishaps

Waiting == [batch |-> <<>>, stage |-> "handle"]
NoWork == [batch |-> <<>>, tasks |-> {}]

PipelineInit ==
    /\ \E d \in Deployments : input = EmptyStream(d[1]) /\ dead = EmptyStream(d[2])
    /\ terminal = {}
    /\ agent = Waiting /\ sched = NoWork
    /\ done = [j \in Jobs |-> 0] /\ replays = [j \in Jobs |-> 0]
    /\ mishaps = 0

Mishap == mishaps < MaxMishaps /\ mishaps' = mishaps + 1
NoMishap == UNCHANGED mishaps

\* A publish that works, or one that raises after it may have reached the server.
PublishTo(s, entry, published) ==
    \/ published = XAdd(s, entry) /\ NoMishap
    \/ published \in {s, XAdd(s, entry)} /\ Mishap

-----------------------------------------------------------------------------
Submit(j) ==
    /\ \A i \in DOMAIN input.log : input.log[i].job # j
    /\ input' = XAdd(input, [job |-> j, retries |-> 0])
    /\ UNCHANGED <<dead, terminal, agent, sched, done, replays, mishaps>>

-----------------------------------------------------------------------------
\* The agent: run_consumer, process and _handle_failure

CurrentEntry == Head(agent.batch)

AgentRead ==
    /\ agent.batch = <<>>
    /\ ~input.group \/ Unread(input) # {}
    /\ LET s == EnsureGroup(input)
       IN  /\ input' = XReadGroup(s, ReadCount)
           /\ agent' = [batch |-> Delivered(s, ReadCount), stage |-> "handle"]
    /\ UNCHANGED <<dead, terminal, sched, done, replays, mishaps>>

\* handle() fails, without having done its work; or it does it, and the
\* publication of the audit event or of the notification after it may raise.
process ==
    /\ agent.batch # <<>> /\ agent.stage = "handle"
    /\ \/ /\ agent' = [agent EXCEPT !.stage = "failed"]
          /\ UNCHANGED done /\ NoMishap
       \/ /\ done' = [done EXCEPT ![input.log[CurrentEntry].job] = @ + 1]
          /\ \/ agent' = [agent EXCEPT !.stage = "ack"] /\ NoMishap
             \/ agent' = [agent EXCEPT !.stage = "failed"] /\ Mishap
    /\ UNCHANGED <<input, dead, terminal, sched, replays>>

with_incremented_retry(entry) == [entry EXCEPT !.retries = @ + 1]
is_retry_exhausted(entry) == entry.retries >= MaxRetries

\* Faulty: the last retry is neither published nor dead-lettered.
_handle_failure_OffByOne ==
    /\ agent.batch # <<>> /\ agent.stage = "failed"
    /\ LET attempted == with_incremented_retry(input.log[CurrentEntry])
       IN  IF attempted.retries > MaxRetries
           THEN PublishTo(dead, attempted, dead') /\ UNCHANGED input
           ELSE IF attempted.retries < MaxRetries
           THEN PublishTo(input, attempted, input') /\ UNCHANGED dead
           ELSE NoMishap /\ UNCHANGED <<input, dead>>
    /\ agent' = [agent EXCEPT !.stage = "ack"]
    /\ UNCHANGED <<terminal, sched, done, replays>>

\* Faulty: a message that is dead-lettered is retried as well.
_handle_failure_Both ==
    /\ agent.batch # <<>> /\ agent.stage = "failed"
    /\ LET attempted == with_incremented_retry(input.log[CurrentEntry])
       IN  /\ input' = XAdd(input, attempted)
           /\ IF is_retry_exhausted(attempted)
              THEN PublishTo(dead, attempted, dead') ELSE NoMishap /\ UNCHANGED dead
    /\ agent' = [agent EXCEPT !.stage = "ack"]
    /\ UNCHANGED <<terminal, sched, done, replays>>

\* An error of the publication is swallowed, and the message acknowledged.
_handle_failure ==
    /\ agent.batch # <<>> /\ agent.stage = "failed"
    /\ LET attempted == with_incremented_retry(input.log[CurrentEntry])
       IN  \/ is_retry_exhausted(attempted) /\ PublishTo(dead, attempted, dead') /\ UNCHANGED input
           \/ ~is_retry_exhausted(attempted) /\ PublishTo(input, attempted, input') /\ UNCHANGED dead
    /\ agent' = [agent EXCEPT !.stage = "ack"]
    /\ UNCHANGED <<terminal, sched, done, replays>>

\* An XACK that raises makes the loop forget the rest of the batch.
AgentAcknowledge ==
    /\ agent.batch # <<>> /\ agent.stage = "ack"
    /\ \/ /\ input' = XAck(input, CurrentEntry)
          /\ agent' = [batch |-> Tail(agent.batch), stage |-> "handle"]
          /\ NoMishap
       \/ /\ input' \in {input, XAck(input, CurrentEntry)}
          /\ agent' = Waiting
          /\ Mishap
    /\ UNCHANGED <<dead, terminal, sched, done, replays>>

AgentStops ==
    /\ agent.batch # <<>>
    /\ agent' = Waiting
    /\ Mishap
    /\ UNCHANGED <<input, dead, terminal, sched, done, replays>>

-----------------------------------------------------------------------------
\* The retry scheduler: run, handle, replay

ReadDeadLetters ==
    /\ sched.batch = <<>>
    /\ ~dead.group \/ Unread(dead) # {}
    /\ LET s == EnsureGroup(dead)
       IN  /\ dead' = XReadGroup(s, ReadCount)
           /\ sched' = [sched EXCEPT !.batch = Delivered(s, ReadCount)]
    /\ UNCHANGED <<input, terminal, agent, done, replays, mishaps>>

\* A task is created for the entry and the entry is acknowledged at once.
SpawnTask ==
    /\ sched.batch # <<>>
    /\ LET i == Head(sched.batch)
       IN  \/ /\ dead' = XAck(dead, i)
              /\ sched' = [batch |-> Tail(sched.batch), tasks |-> sched.tasks \cup {i}]
              /\ NoMishap
           \/ /\ dead' \in {dead, XAck(dead, i)}
              /\ sched' = [batch |-> <<>>, tasks |-> sched.tasks \cup {i}]
              /\ Mishap
    /\ UNCHANGED <<input, terminal, agent, done, replays>>

_is_terminal(entry) == entry.retries > MaxRetries

\* An error of the publication is swallowed.
MarkTerminal(i) ==
    /\ i \in sched.tasks /\ _is_terminal(dead.log[i])
    /\ \/ terminal' = terminal \cup {i} /\ NoMishap
       \/ terminal' \in {terminal, terminal \cup {i}} /\ Mishap
    /\ sched' = [sched EXCEPT !.tasks = @ \ {i}]
    /\ UNCHANGED <<input, dead, agent, done, replays>>

\* Faulty: the event loses its retry_count.
_build_requeue_event_NoCount(entry) == [job |-> entry.job]

\* _build_requeue_event keeps the retry_count.
_build_requeue_event(entry) == entry

\* After the delay; _safe_handle swallows the error of a publication.
Requeue(i) ==
    /\ i \in sched.tasks /\ ~_is_terminal(dead.log[i])
    /\ PublishTo(input, _build_requeue_event(dead.log[i]), input')
    /\ sched' = [sched EXCEPT !.tasks = @ \ {i}]
    /\ UNCHANGED <<dead, terminal, agent, done, replays>>

\* A crash, or an ordinary shutdown, which cancels the tasks.
SchedulerStops ==
    /\ sched # NoWork
    /\ sched' = NoWork
    /\ Mishap
    /\ UNCHANGED <<input, dead, terminal, agent, done, replays>>

\* POST /deadletter/replay: any entry of the stream, whatever became of it.
replay(i) ==
    /\ i \in DOMAIN dead.log
    /\ replays[dead.log[i].job] < MaxReplays
    /\ replays' = [replays EXCEPT ![dead.log[i].job] = @ + 1]
    /\ input' = XAdd(input, _build_requeue_event(dead.log[i]))
    /\ UNCHANGED <<dead, terminal, agent, sched, done, mishaps>>

-----------------------------------------------------------------------------
AgentStep == AgentRead \/ process \/ _handle_failure \/ AgentAcknowledge

SchedulerStep ==
    \/ ReadDeadLetters \/ SpawnTask
    \/ \E i \in sched.tasks : MarkTerminal(i) \/ Requeue(i)

PipelineNext ==
    \/ \E j \in Jobs : Submit(j)
    \/ AgentStep \/ AgentStops
    \/ SchedulerStep \/ SchedulerStops
    \/ \E i \in DOMAIN dead.log : replay(i)

PipelineSpec == PipelineInit /\ [][PipelineNext]_pipelineVars

\* Both loops run for ever, and a sleep ends.
FairPipelineSpec == PipelineSpec /\ WF_pipelineVars(AgentStep) /\ WF_pipelineVars(SchedulerStep)

-----------------------------------------------------------------------------
\* Properties

Submitted(j) == \E i \in DOMAIN input.log : input.log[i].job = j

Of(s, I, j) == {i \in I : s.log[i].job = j}

\* The entries of a job that the agent or the scheduler still has to deal with.
InFlight(j) ==
    LET held == {agent.batch[k] : k \in DOMAIN agent.batch}
                   \ (IF agent.stage = "ack" THEN {CurrentEntry} ELSE {})
        owed == {sched.batch[k] : k \in DOMAIN sched.batch} \cup sched.tasks
    IN  Cardinality(Of(input, Unread(input) \cup held, j))
          + Cardinality(Of(dead, Unread(dead) \cup owed, j))

\* No fault multiplies a job: apart from manual replays, at most one copy of it
\* is ever under way, be it in either stream, a batch or a sleeping task.
OneCopyInFlight ==
    \A j \in Jobs : InFlight(j) <= 1 + replays[j]

\* Its handler has done the work, or the scheduler has marked it as a terminal failure.
Ended(j) == done[j] > 0 \/ Of(dead, terminal, j) # {}

\* A consumer group that was created after the entry does not deliver it.
Missed(j) ==
    Of(input, 1..input.missed, j) # {} \/ Of(dead, 1..dead.missed, j) # {}

\* Every job comes to an end, where no process stops and no call raises.
EveryJobEnds ==
    \A j \in Jobs : Submitted(j) ~> Ended(j) \/ Missed(j) \/ mishaps > 0
=============================================================================
