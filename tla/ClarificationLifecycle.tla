----------------------- MODULE ClarificationLifecycle -----------------------
(***************************************************************************)
(* Tasks, their clarification requests, the API handlers that create and   *)
(* answer them, and the pollers that remind and expire                     *)
(* (apps/orchestrator/src/task_api.py and workroom_api.py,                 *)
(* shared/sdk/tasks/{store,workroom_store,lifecycle_poller}.py).           *)
(*                                                                         *)
(* The handlers run several autocommitted statements, one step each here,  *)
(* and may die between two of them.  A poller transaction claims a         *)
(* clarification row FOR UPDATE SKIP LOCKED, then locks and updates the    *)
(* parent task and records the outbox event: a claim step and a commit     *)
(* step, with other actors in between.                                     *)
(*                                                                         *)
(* PostgreSQL time is the time left until due_at, from DueHours to 0.      *)
(* due_at and reminder_at are constant offsets of the creation time, so    *)
(* ORDER BY due_at and ORDER BY reminder_at are the order of creation.     *)
(*                                                                         *)
(* No name here is one of OutboxRelay, which delivers the events recorded  *)
(* here: a module of proofs extends both.                                  *)
(***************************************************************************)
EXTENDS Integers, Sequences, FiniteSets

CONSTANTS
    Tasks, Clarifications,
    TaskOf,            \* the task of each clarification
    ProductionTasks,   \* tasks with production_effect = true
    ClosableTasks,     \* tasks that something outside this code may close
    Handlers,          \* API requests that may be in flight at once
    Pollers,           \* lifecycle poller replicas
    DueHours,          \* CLARIFICATION_DUE_HOURS, in model hours
    ReminderHours,     \* CLARIFICATION_REMINDER_HOURS, in model hours
    BatchSize,         \* rows a poller looks at in one cycle
    None,              \* "no row" and "no clarification"
    MaxDeaths          \* bound: requests and poller transactions that die

ASSUME LifecycleAssumption ==
    /\ TaskOf \in [Clarifications -> Tasks]
    /\ ProductionTasks \subseteq Tasks
    /\ ClosableTasks \subseteq Tasks
    /\ None \notin Clarifications \cup Tasks
    /\ DueHours \in Nat /\ ReminderHours \in Nat
    /\ 0 < ReminderHours /\ ReminderHours < DueHours
    /\ BatchSize \in Nat \ {0}
    /\ MaxDeaths \in Nat

VARIABLES
    task,      \* task -> status and clarification_status
    clar,      \* clarification -> its row
    created,   \* the clarifications in the order of their creation
    events,    \* lifecycle events recorded, by their idempotency key
    handler,   \* request -> what it does next, and to what
    poller,    \* poller -> phase of its cycle, rows left, rows to skip, row held
    deaths

lifecycleVars == <<task, clar, created, events, handler, poller, deaths>>

TERMINAL_TASK_STATUSES ==
    {"accepted", "rejected", "canceled", "archived", "failed", "completed", "aborted"}

TaskStatus ==
    {"absent", "draft", "submitted", "blocked", "intake_review",
     "clarification_needed", "clarification_expired"} \cup TERMINAL_TASK_STATUSES

LifecycleTypeOK ==
    /\ task \in [Tasks -> [status : TaskStatus, asked : {"none", "open", "answered"}]]
    /\ clar \in [Clarifications ->
                    [status   : {"absent", "open", "answered", "expired"},
                     due      : 0..DueHours,
                     reminded : BOOLEAN,
                     message  : BOOLEAN]]
    /\ created \in Seq(Clarifications)
    /\ events \subseteq Clarifications \X {"reminder", "expired"}
    /\ handler \in [Handlers ->
                      [pc   : {"idle", "mark_needed", "claim", "message",
                               "mark_answered", "submit"},
                       task : Tasks \cup {None},
                       clar : Clarifications \cup {None}]]
    /\ poller \in [Pollers ->
                      [phase : {"idle", "expiry", "reminder"},
                       left  : 0..BatchSize,
                       skip  : SUBSET Clarifications,
                       row   : Clarifications \cup {None}]]
    /\ deaths \in Nat

NoRequest == [pc |-> "idle", task |-> None, clar |-> None]

Sleeping == [phase |-> "idle", left |-> 0, skip |-> {}, row |-> None]

LifecycleInit ==
    /\ task = [t \in Tasks |-> [status |-> "absent", asked |-> "none"]]
    /\ clar = [c \in Clarifications |->
                  [status |-> "absent", due |-> 0, reminded |-> FALSE, message |-> FALSE]]
    /\ created = <<>>
    /\ events = {}
    /\ handler = [h \in Handlers |-> NoRequest]
    /\ poller = [p \in Pollers |-> Sleeping]
    /\ deaths = 0

-----------------------------------------------------------------------------
\* The task API

\* create_task: production-effect work that asks to be submitted is blocked.
create_task(t, initial_status) ==
    /\ task[t].status = "absent"
    /\ task' = [task EXCEPT ![t].status =
                   IF t \in ProductionTasks /\ initial_status = "submitted"
                   THEN "blocked" ELSE initial_status]
    /\ UNCHANGED <<clar, created, events, handler, poller, deaths>>

\* submit_task up to its status check.
submit_task(h, t) ==
    /\ handler[h] = NoRequest
    /\ task[t].status \in {"draft", "submitted"}
    /\ handler' = [handler EXCEPT ![h] = [pc |-> "submit", task |-> t, clar |-> None]]
    /\ UNCHANGED <<task, clar, created, events, poller, deaths>>

\* update_status: unconditional, whatever the task has become meanwhile.
update_status(h) ==
    /\ handler[h].pc = "submit"
    /\ task' = [task EXCEPT ![handler[h].task].status =
                   IF handler[h].task \in ProductionTasks THEN "blocked" ELSE "intake_review"]
    /\ handler' = [handler EXCEPT ![h] = NoRequest]
    /\ UNCHANGED <<clar, created, events, poller, deaths>>

\* A task reaches a terminal status: no code in the repository does this yet,
\* the poller and the resume service are written for it.
CloseTask(t) ==
    /\ t \in ClosableTasks
    /\ task[t].status \notin {"absent"} \cup TERMINAL_TASK_STATUSES
    /\ task' = [task EXCEPT ![t].status = "canceled"]
    /\ UNCHANGED <<clar, created, events, handler, poller, deaths>>

-----------------------------------------------------------------------------
\* The workroom API

\* create_clarification: the row is inserted, whatever the status of the task.
create_clarification(h, c) ==
    /\ handler[h] = NoRequest
    /\ task[TaskOf[c]].status # "absent"
    /\ clar[c].status = "absent"
    /\ clar' = [clar EXCEPT ![c] = [status |-> "open", due |-> DueHours,
                                    reminded |-> FALSE, message |-> FALSE]]
    /\ created' = Append(created, c)
    /\ handler' = [handler EXCEPT ![h] = [pc |-> "mark_needed", task |-> TaskOf[c], clar |-> c]]
    /\ UNCHANGED <<task, events, poller, deaths>>

\* Faulty: the two columns are swapped.
set_clarification_state_Swapped(t, status, clarification_status) ==
    task' = [task EXCEPT ![t] = [status |-> clarification_status, asked |-> status]]

\* set_clarification_state, called by both handlers: unconditional.
set_clarification_state(t, status, clarification_status) ==
    task' = [task EXCEPT ![t] = [status |-> status, asked |-> clarification_status]]

MarkNeeded(h) ==
    /\ handler[h].pc = "mark_needed"
    /\ set_clarification_state(handler[h].task, "clarification_needed", "open")
    /\ handler' = [handler EXCEPT ![h] = NoRequest]
    /\ UNCHANGED <<clar, created, events, poller, deaths>>

\* answer_clarification up to its status check; every other status is a 409.
answer_clarification(h, c) ==
    /\ handler[h] = NoRequest
    /\ clar[c].status = "open"
    /\ handler' = [handler EXCEPT ![h] = [pc |-> "claim", task |-> TaskOf[c], clar |-> c]]
    /\ UNCHANGED <<task, clar, created, events, poller, deaths>>

\* A row lock is held from a poller's claim to the end of its transaction.
RowLocked(c) == \E p \in Pollers : poller[p].row = c

\* Faulty: an unconditional update that trusts the status read before it.
Answerable_PreCheckOnly(c) == clar[c].status # "absent"

\* The WHERE clause of claim_clarification_answer.
Answerable(c) == clar[c].status = "open" /\ clar[c].due > 0

\* claim_clarification_answer: the compare-and-swap waits for a row lock; the
\* request that loses it answers 409 and has no further effect.
claim_clarification_answer(h) ==
    /\ handler[h].pc = "claim"
    /\ LET c == handler[h].clar
       IN  /\ ~RowLocked(c)
           /\ \/ /\ Answerable(c)
                 /\ clar' = [clar EXCEPT ![c].status = "answered"]
                 /\ handler' = [handler EXCEPT ![h].pc = "message"]
              \/ /\ ~Answerable(c)
                 /\ handler' = [handler EXCEPT ![h] = NoRequest]
                 /\ UNCHANGED clar
    /\ UNCHANGED <<task, created, events, poller, deaths>>

set_answer_message(h) ==
    /\ handler[h].pc = "message"
    /\ clar' = [clar EXCEPT ![handler[h].clar].message = TRUE]
    /\ handler' = [handler EXCEPT ![h].pc = "mark_answered"]
    /\ UNCHANGED <<task, created, events, poller, deaths>>

MarkAnswered(h) ==
    /\ handler[h].pc = "mark_answered"
    /\ set_clarification_state(handler[h].task, "intake_review", "answered")
    /\ handler' = [handler EXCEPT ![h] = NoRequest]
    /\ UNCHANGED <<clar, created, events, poller, deaths>>

\* A request dies between two of its statements.
RequestDies(h) ==
    /\ handler[h].pc # "idle"
    /\ deaths < MaxDeaths
    /\ handler' = [handler EXCEPT ![h] = NoRequest]
    /\ deaths' = deaths + 1
    /\ UNCHANGED <<task, clar, created, events, poller>>

-----------------------------------------------------------------------------
\* The lifecycle poller

\* The WHERE clauses of the two claims.
Overdue(c)  == clar[c].status = "open" /\ clar[c].due = 0
Remindable(c) ==
    /\ clar[c].status = "open" /\ ~clar[c].reminded
    /\ clar[c].due > 0 /\ clar[c].due <= DueHours - ReminderHours

\* Rows poller p may claim among those that satisfy the WHERE clause.
Candidates(p, S) == {c \in S : c \notin poller[p].skip /\ ~RowLocked(c)}

\* ORDER BY due_at (or reminder_at) LIMIT 1
IsFirst(c, S) ==
    /\ c \in S
    /\ \E i \in DOMAIN created :
          created[i] = c /\ \A j \in 1..(i-1) : created[j] \notin S

OverdueFor(p)    == Candidates(p, {c \in Clarifications : Overdue(c)})
RemindableFor(p) == Candidates(p, {c \in Clarifications : Remindable(c)})

\* run_once: an expiry cycle, then a reminder cycle, each of at most BatchSize rows.
BeginPhase(p, phase) ==
    poller' = [poller EXCEPT ![p] =
                  [phase |-> phase, left |-> BatchSize, skip |-> {}, row |-> None]]

WakeUp(p) ==
    /\ poller[p].phase = "idle"
    /\ BeginPhase(p, "expiry")
    /\ UNCHANGED <<task, clar, created, events, handler, deaths>>

\* _claim_one_expiry up to the row lock
ClaimExpiry(p) ==
    /\ poller[p].phase = "expiry" /\ poller[p].row = None /\ poller[p].left > 0
    /\ \E c \in OverdueFor(p) :
          /\ IsFirst(c, OverdueFor(p))
          /\ poller' = [poller EXCEPT ![p].row = c, ![p].left = @ - 1]
    /\ UNCHANGED <<task, clar, created, events, handler, deaths>>

\* The parent task is locked and read.  Only a task that waits for the
\* clarification may be expired with it.
MayExpire(c) ==
    /\ task[TaskOf[c]].status = "clarification_needed"
    /\ <<c, "expired">> \notin events

CommitExpiry(p) ==
    LET c == poller[p].row
    IN  /\ poller[p].phase = "expiry" /\ c # None
        /\ MayExpire(c)
        /\ task' = [task EXCEPT ![TaskOf[c]].status = "clarification_expired"]
        /\ clar' = [clar EXCEPT ![c].status = "expired"]
        /\ events' = events \cup {<<c, "expired">>}
        /\ poller' = [poller EXCEPT ![p].row = None]
        /\ UNCHANGED <<created, handler, deaths>>

\* Faulty: the row is not remembered for the rest of the cycle.
SkipExpiry_NoSkipList(p) ==
    /\ poller[p].phase = "expiry" /\ poller[p].row # None
    /\ ~MayExpire(poller[p].row)
    /\ poller' = [poller EXCEPT ![p].row = None]
    /\ UNCHANGED <<task, clar, created, events, handler, deaths>>

\* suppressed_terminal or reconcile: roll back, and skip the row in this cycle.
SkipExpiry(p) ==
    /\ poller[p].phase = "expiry" /\ poller[p].row # None
    /\ ~MayExpire(poller[p].row)
    /\ poller' = [poller EXCEPT ![p].row = None, ![p].skip = @ \cup {poller[p].row}]
    /\ UNCHANGED <<task, clar, created, events, handler, deaths>>

EndExpiry(p) ==
    /\ poller[p].phase = "expiry" /\ poller[p].row = None
    /\ poller[p].left = 0 \/ OverdueFor(p) = {}
    /\ BeginPhase(p, "reminder")
    /\ UNCHANGED <<task, clar, created, events, handler, deaths>>

\* _claim_one_reminder: one transaction on one row, so one step.  A row whose
\* event is already in the outbox is skipped.
RemindOne(p) ==
    /\ poller[p].phase = "reminder" /\ poller[p].left > 0
    /\ \E c \in RemindableFor(p) :
          /\ IsFirst(c, RemindableFor(p))
          /\ IF <<c, "reminder">> \in events
             THEN /\ poller' = [poller EXCEPT ![p].skip = @ \cup {c}, ![p].left = @ - 1]
                  /\ UNCHANGED <<clar, events>>
             ELSE /\ clar' = [clar EXCEPT ![c].reminded = TRUE]
                  /\ events' = events \cup {<<c, "reminder">>}
                  /\ poller' = [poller EXCEPT ![p].left = @ - 1]
    /\ UNCHANGED <<task, created, handler, deaths>>

EndReminder(p) ==
    /\ poller[p].phase = "reminder"
    /\ poller[p].left = 0 \/ RemindableFor(p) = {}
    /\ poller' = [poller EXCEPT ![p] = Sleeping]
    /\ UNCHANGED <<task, clar, created, events, handler, deaths>>

\* A database error, or the death of the poller: the open transaction rolls
\* back and the cycle is abandoned.
CycleFails(p) ==
    /\ poller[p].phase # "idle"
    /\ deaths < MaxDeaths
    /\ poller' = [poller EXCEPT ![p] = Sleeping]
    /\ deaths' = deaths + 1
    /\ UNCHANGED <<task, clar, created, events, handler>>

-----------------------------------------------------------------------------
HourPasses ==
    /\ clar' = [c \in Clarifications |->
                   [clar[c] EXCEPT !.due = IF @ > 0 THEN @ - 1 ELSE 0]]
    /\ UNCHANGED <<task, created, events, handler, poller, deaths>>

HandlerStep(h) ==
    \/ update_status(h)
    \/ MarkNeeded(h)
    \/ claim_clarification_answer(h) \/ set_answer_message(h) \/ MarkAnswered(h)

PollerStep(p) ==
    \/ WakeUp(p)
    \/ ClaimExpiry(p) \/ CommitExpiry(p) \/ SkipExpiry(p) \/ EndExpiry(p)
    \/ RemindOne(p) \/ EndReminder(p)

LifecycleNext ==
    \/ \E t \in Tasks : CloseTask(t) \/ \E s \in {"draft", "submitted"} : create_task(t, s)
    \/ \E h \in Handlers :
          \/ HandlerStep(h) \/ RequestDies(h)
          \/ \E t \in Tasks : submit_task(h, t)
          \/ \E c \in Clarifications : create_clarification(h, c) \/ answer_clarification(h, c)
    \/ \E p \in Pollers : PollerStep(p) \/ CycleFails(p)
    \/ HourPasses

\* A request that has started runs on, run polls for ever, and time passes.
LifecycleFairness ==
    /\ \A h \in Handlers : WF_lifecycleVars(HandlerStep(h))
    /\ \A p \in Pollers : WF_lifecycleVars(PollerStep(p))
    /\ WF_lifecycleVars(HourPasses)

LifecycleSpec == LifecycleInit /\ [][LifecycleNext]_lifecycleVars

FairLifecycleSpec == LifecycleSpec /\ LifecycleFairness

-----------------------------------------------------------------------------
\* Properties

\* Concurrent answers and a concurrent expiry (answer_clarification): once a
\* request has won the claim it alone works on the clarification, and no
\* poller turns the row into an expired one under it.
Answering(h) == handler[h].pc \in {"message", "mark_answered"}

AnswerIsExclusive ==
    \A h \in Handlers : Answering(h) =>
        /\ clar[handler[h].clar].status = "answered"
        /\ \A g \in Handlers \ {h} : Answering(g) => handler[g].clar # handler[h].clar

\* Liveness of the expiry cycle: an overdue clarification whose task waits for
\* it is closed (or its task moves on), whatever other rows the pollers have to
\* skip, provided that these do not fill a batch.
Stalled(c) == clar[c].status = "open" /\ task[TaskOf[c]].status = "clarification_needed"

OverdueIsResolved == \A c \in Clarifications : Stalled(c) ~> ~Stalled(c)
=============================================================================
