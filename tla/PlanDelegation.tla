--------------------------- MODULE PlanDelegation ---------------------------
(***************************************************************************)
(* An accepted plan revision becomes an execution graph, its ready steps   *)
(* acquire owners and dispatches, results unblock what depended on them    *)
(* (shared/sdk/plan_delegation, shared/sdk/agent_planning/store.py,        *)
(* migrations 042).                                                        *)
(*                                                                         *)
(* One revision of one goal; the graphs of two revisions share nothing but *)
(* the locks on the project and on the primary work item, and a successor  *)
(* only makes this revision stale.  Every command is a PostgreSQL          *)
(* transaction at READ COMMITTED, modelled lock by lock: a step takes one  *)
(* row lock, and waits for it by not being enabled; what a transaction     *)
(* writes becomes visible with its last step.  Inserting a row that        *)
(* references the project takes a share of the lock on the project's row   *)
(* (the foreign keys of migrations 036, 042 and 024).                      *)
(***************************************************************************)
EXTENDS Integers, FiniteSets, FiniteSetsExt

CONSTANTS
    Steps,      \* the steps of the plan, numbered in the order of their keys
    Deps,       \* step -> the steps it depends on
    Workers,    \* connections that run commands
    MaxFaults   \* bound: crashes, lost publications, missing owners

ASSUME DelegationAssumption ==
    /\ Steps \subseteq Nat /\ Deps \in [Steps -> SUBSET Steps]
    /\ \A s \in Steps : \A d \in Deps[s] : d < s
    /\ MaxFaults \in Nat

VARIABLES
    current,    \* is the revision the tip, with no row that supersedes it?
    accepted,   \* is its status 'accepted'?
    cancelled,  \* is the goal's primary work item cancelled?
    unit,       \* step -> state of its execution unit ("absent": no graph yet)
    dispatch,   \* step -> its plan_execution_dispatches row
    sent,       \* steps of which a command is on the wire
    job,        \* worker -> the command it runs
    faults      \* faults so far

vars == <<current, accepted, cancelled, unit, dispatch, sent, job, faults>>

UnitStates == {"absent", "blocked", "ready", "assigned", "dispatched", "completed", "failed"}
Terminal == {"completed", "failed"}
Materialized == \A s \in Steps : unit[s] # "absent"

\* todo: what list_schedulable_units read; state: the unit's state in hand; held: dependents
\* locked by a result.
JobType ==
    [kind : {"none", "pass", "result", "successor", "materialize"},
     at : {"idle", "next", "revision", "gates", "insert", "read", "publish", "mark",
           "dependents"},
     step : Steps \cup {0}, todo : [Steps -> UnitStates],
     state : UnitStates, held : SUBSET Steps]

TypeOK ==
    /\ current \in BOOLEAN
    /\ accepted \in BOOLEAN
    /\ cancelled \in BOOLEAN
    /\ unit \in [Steps -> UnitStates]
    /\ dispatch \in [Steps -> {"none", "unpublished", "published"}]
    /\ sent \subseteq Steps
    /\ job \in [Workers -> JobType]
    /\ faults \in 0..MaxFaults

Nothing == [s \in Steps |-> "absent"]
NoJob == [kind |-> "none", at |-> "idle", step |-> 0, todo |-> Nothing,
          state |-> "absent", held |-> {}]

Init ==
    /\ current = TRUE
    /\ accepted = FALSE
    /\ cancelled = FALSE
    /\ unit = Nothing
    /\ dispatch = [s \in Steps |-> "none"]
    /\ sent = {}
    /\ job = [w \in Workers |-> NoJob]
    /\ faults = 0

Unit(w) == job[w].step
At(w, kind, at) == job[w].kind = kind /\ job[w].at = at
Goto(w, at) == job' = [job EXCEPT ![w].at = at]
Skip(w) == job' = [job EXCEPT ![w] = [NoJob EXCEPT !.kind = "pass", !.at = "next",
                                                   !.todo = job[w].todo]]
End(w) == job' = [job EXCEPT ![w] = NoJob]
Building == {"successor", "materialize"}
-----------------------------------------------------------------------------
(* Row locks, and who waits for whom *)

HoldsProject(v) == job[v].kind \in Building /\ job[v].at = "revision"
SharesProject(v) == At(v, "result", "dependents")

\* Faulty: the revision is read, and not held.
HoldsRevision_PreRead(v) == FALSE

HoldsRevision(v) == job[v].kind = "pass" /\ job[v].at \in {"gates", "insert"}

HoldsItem(v) == At(v, "pass", "insert")

\* A result holds its unit and the dependents it is about to promote.
HoldsUnit(v, u) ==
    \/ At(v, "pass", "insert") /\ Unit(v) = u
    \/ job[v].kind = "result" /\ job[v].at \in {"insert", "dependents"}
       /\ (Unit(v) = u \/ u \in job[v].held)

\* Blocked dependents a result has not locked yet, in execution_unit_id order.
Dependents(u) == {s \in Steps : u \in Deps[s] /\ unit[s] = "blocked"}
Unlocked(w) == Dependents(Unit(w)) \ job[w].held

Waits(w, v) ==
    /\ w # v
    /\ LET j == job[w] IN
       \/ j.at = "revision" /\ HoldsRevision(v)
       \/ j.at = "gates" /\ (HoldsItem(v) \/ HoldsUnit(v, Unit(w)))
       \/ j.at = "insert" /\ HoldsProject(v)
       \/ j.at = "dependents" /\ Unlocked(w) # {} /\ HoldsUnit(v, Min(Unlocked(w)))

Free(w) == \A v \in Workers : ~Waits(w, v)

Cycle(S) == \A w \in S : (\E v \in S : Waits(w, v)) /\ (\E v \in S : Waits(v, w))
-----------------------------------------------------------------------------
(* The planner's revisions, and the execution graph *)

\* create_successor_revision and materialize lock the project row first.  (A transaction that
\* holds nothing yet and waits can be in nobody's way, so its start is its first lock.)
LockProject(w, kind) ==
    /\ job[w].kind = "none" /\ current
    /\ \A v \in Workers : ~HoldsProject(v) /\ ~SharesProject(v)
    /\ job' = [job EXCEPT ![w] = [NoJob EXCEPT !.kind = kind, !.at = "revision"]]
    /\ UNCHANGED <<current, accepted, cancelled, unit, dispatch, sent, faults>>

\* create_successor_revision, the predecessor locked: refused if it has a successor.
CreateSuccessor(w) ==
    /\ At(w, "successor", "revision") /\ Free(w)
    /\ current' = FALSE
    /\ End(w)
    /\ UNCHANGED <<accepted, cancelled, unit, dispatch, sent, faults>>

\* accept_revision: draft -> accepted, current or not.
Accept ==
    /\ ~accepted /\ \A v \in Workers : ~HoldsRevision(v)
    /\ accepted' = TRUE
    /\ UNCHANGED <<current, cancelled, unit, dispatch, sent, job, faults>>

\* _confirm_dispatchable_revision.
Dispatchable == current /\ accepted

\* _materialize_locked: one graph per revision; a repeated call returns the one there is.
Materialize(w) ==
    /\ At(w, "materialize", "revision") /\ Free(w)
    /\ unit' = IF Dispatchable /\ ~Materialized
               THEN [s \in Steps |-> IF Deps[s] = {} THEN "ready" ELSE "blocked"]
               ELSE unit
    /\ End(w)
    /\ UNCHANGED <<current, accepted, cancelled, dispatch, sent, faults>>

\* Faulty: the cancellation moves the units too, to the state the schema has for it.
Cancel_Units ==
    /\ ~cancelled /\ Materialized
    /\ cancelled' = TRUE
    /\ unit' = [s \in Steps |-> IF unit[s] \in Terminal THEN unit[s] ELSE "cancelled"]
    /\ UNCHANGED <<current, accepted, dispatch, sent, job, faults>>

\* The primary work item is cancelled (update_work_item_status).
Cancel ==
    /\ ~cancelled /\ Materialized
    /\ \A v \in Workers : ~HoldsItem(v)
    /\ cancelled' = TRUE
    /\ UNCHANGED <<current, accepted, unit, dispatch, sent, job, faults>>
-----------------------------------------------------------------------------
(* schedule_ready_work *)

\* Faulty: a unit that has its dispatch is done with.
Schedulable_Undispatched(u) == unit[u] \in {"ready", "assigned"}

\* list_schedulable_units: a unit is owed an owner, a dispatch, or the publication of it.
Schedulable(u) == unit[u] \in {"ready", "assigned"}
                  \/ (unit[u] = "dispatched" /\ dispatch[u] = "unpublished")

StartPass(w) ==
    /\ job[w].kind = "none"
    /\ \E s \in Steps : Schedulable(s)
    /\ job' = [job EXCEPT ![w] =
         [NoJob EXCEPT !.kind = "pass", !.at = "next",
            !.todo = [s \in Steps |-> IF Schedulable(s) THEN unit[s] ELSE "absent"]]]
    /\ UNCHANGED <<current, accepted, cancelled, unit, dispatch, sent, faults>>

Left(w) == {s \in Steps : job[w].todo[s] # "absent"}

\* Where _advance_unit goes with a unit in this state: a dispatched one is only published.
Entry(state) == IF state = "dispatched" THEN "read" ELSE "revision"

\* _advance_unit for the next unit of the snapshot, or the end of the pass.
NextUnit(w) ==
    /\ At(w, "pass", "next")
    /\ IF Left(w) = {} THEN End(w)
       ELSE LET s == Min(Left(w)) IN
            job' = [job EXCEPT ![w].step = s, ![w].state = job[w].todo[s],
                               ![w].todo[s] = "absent", ![w].at = Entry(job[w].todo[s])]
    /\ UNCHANGED <<current, accepted, cancelled, unit, dispatch, sent, faults>>

\* confirm_current_revision: a stale revision aborts the whole pass.
LockRevision(w) ==
    /\ At(w, "pass", "revision") /\ Free(w)
    /\ IF Dispatchable THEN Goto(w, "gates") ELSE End(w)
    /\ UNCHANGED <<current, accepted, cancelled, unit, dispatch, sent, faults>>

\* _assert_lineage_not_cancelled, then the unit FOR UPDATE: what its state is decides, not
\* what the snapshot said.
LockUnit(w) ==
    /\ At(w, "pass", "gates") /\ Free(w)
    /\ LET now == unit[Unit(w)] IN
       CASE cancelled                -> End(w)
         [] ~cancelled /\ now = job[w].state -> Goto(w, "insert")
         [] OTHER -> IF job[w].state = "assigned" /\ now # "dispatched"
                     THEN End(w)
                     ELSE IF now \in {"assigned", "dispatched"}
                          THEN job' = [job EXCEPT ![w].state = now, ![w].at = Entry(now)]
                          ELSE Skip(w)
    /\ UNCHANGED <<current, accepted, cancelled, unit, dispatch, sent, faults>>

\* apply_assignment: the router finds an owner, or honestly nobody.
Assign(w) ==
    /\ At(w, "pass", "insert") /\ job[w].state = "ready" /\ Free(w)
    /\ \/ /\ unit' = [unit EXCEPT ![Unit(w)] = "assigned"]
          /\ job' = [job EXCEPT ![w].state = "assigned", ![w].at = "revision"]
          /\ UNCHANGED faults
       \/ /\ faults < MaxFaults /\ faults' = faults + 1
          /\ Skip(w)
          /\ UNCHANGED unit
    /\ UNCHANGED <<current, accepted, cancelled, dispatch, sent>>

\* create_dispatch: the one canonical dispatch of the unit.
CreateDispatch(w) ==
    /\ At(w, "pass", "insert") /\ job[w].state = "assigned" /\ Free(w)
    /\ unit' = [unit EXCEPT ![Unit(w)] = "dispatched"]
    /\ dispatch' = [dispatch EXCEPT ![Unit(w)] = "unpublished"]
    /\ Goto(w, "publish")
    /\ UNCHANGED <<current, accepted, cancelled, sent, faults>>

\* get_dispatch: published by somebody else, or owed.
ReadDispatch(w) ==
    /\ At(w, "pass", "read")
    /\ IF dispatch[Unit(w)] = "unpublished" THEN Goto(w, "publish") ELSE Skip(w)
    /\ UNCHANGED <<current, accepted, cancelled, unit, dispatch, sent, faults>>

\* _publish: the broker takes the command, or the dispatch stays owed.
PublishDispatch(w) ==
    /\ At(w, "pass", "publish")
    /\ \/ sent' = sent \cup {Unit(w)} /\ Goto(w, "mark") /\ UNCHANGED faults
       \/ faults < MaxFaults /\ faults' = faults + 1 /\ Skip(w) /\ UNCHANGED sent
    /\ UNCHANGED <<current, accepted, cancelled, unit, dispatch>>

\* mark_dispatch_published: stamped once, by whoever comes first.
MarkPublished(w) ==
    /\ At(w, "pass", "mark")
    /\ dispatch' = [dispatch EXCEPT ![Unit(w)] = "published"]
    /\ Skip(w)
    /\ UNCHANGED <<current, accepted, cancelled, unit, sent, faults>>
-----------------------------------------------------------------------------
(* record_result *)

\* The unit is locked and found dispatched; a unit that has ended is a replay or an error.
LockResultUnit(w, u) ==
    /\ job[w].kind = "none" /\ unit[u] = "dispatched"
    /\ \A v \in Workers : ~HoldsUnit(v, u)
    /\ job' = [job EXCEPT ![w] = [NoJob EXCEPT !.kind = "result", !.at = "insert", !.step = u]]
    /\ UNCHANGED <<current, accepted, cancelled, unit, dispatch, sent, faults>>

\* The event of the work item is inserted; a failure unblocks nothing and commits here.
RecordResult(w) ==
    /\ At(w, "result", "insert") /\ Free(w)
    /\ \/ Goto(w, "dependents") /\ UNCHANGED unit
       \/ unit' = [unit EXCEPT ![Unit(w)] = "failed"] /\ End(w)
    /\ UNCHANGED <<current, accepted, cancelled, dispatch, sent, faults>>

LockDependent(w) ==
    /\ At(w, "result", "dependents") /\ Unlocked(w) # {} /\ Free(w)
    /\ job' = [job EXCEPT ![w].held = @ \cup {Min(Unlocked(w))}]
    /\ UNCHANGED <<current, accepted, cancelled, unit, dispatch, sent, faults>>

\* Faulty: whatever has ended is out of the way.
Outstanding_Ended(u, v) == {d \in Deps[v] \ {u} : unit[d] \notin Terminal}

\* Dependencies of v that this transaction, having completed u, sees outstanding.
Outstanding(u, v) == {d \in Deps[v] \ {u} : unit[d] # "completed"}

\* _unblock_dependents and commit.
UnblockDependents(w) ==
    /\ At(w, "result", "dependents") /\ Unlocked(w) = {}
    /\ unit' = [s \in Steps |->
         CASE s = Unit(w) -> "completed"
           [] s \in job[w].held /\ Outstanding(Unit(w), s) = {} -> "ready"
           [] OTHER -> unit[s]]
    /\ End(w)
    /\ UNCHANGED <<current, accepted, cancelled, dispatch, sent, faults>>
-----------------------------------------------------------------------------
\* A process dies: its transaction is rolled back, the rest of its pass is not done.
Crash(w) ==
    /\ job[w].kind # "none" /\ faults < MaxFaults
    /\ faults' = faults + 1 /\ End(w)
    /\ UNCHANGED <<current, accepted, cancelled, unit, dispatch, sent>>

\* PostgreSQL ends a deadlock by aborting one of its transactions; a pass that is aborted
\* counts as a fault.
BreakDeadlock(w) ==
    /\ \E S \in SUBSET Workers : w \in S /\ Cycle(S)
    /\ IF job[w].kind = "pass" THEN faults < MaxFaults /\ faults' = faults + 1
                               ELSE UNCHANGED faults
    /\ End(w)
    /\ UNCHANGED <<current, accepted, cancelled, unit, dispatch, sent>>

Step(w) ==
    \/ CreateSuccessor(w) \/ Materialize(w)
    \/ NextUnit(w) \/ LockRevision(w) \/ LockUnit(w) \/ Assign(w) \/ CreateDispatch(w)
    \/ ReadDispatch(w) \/ PublishDispatch(w) \/ MarkPublished(w)
    \/ RecordResult(w) \/ LockDependent(w) \/ UnblockDependents(w)
    \/ BreakDeadlock(w)

Next ==
    \/ \E w \in Workers : Step(w) \/ Crash(w)
    \/ \E w \in Workers, kind \in Building : LockProject(w, kind)
    \/ \E w \in Workers : StartPass(w)
    \/ \E w \in Workers, u \in Steps : LockResultUnit(w, u)
    \/ Accept
    \/ Cancel

\* Lock queues are served in order, and schedule_ready_work is called again and again; that
\* call is a client's, nothing in the service repeats it.
Fairness ==
    /\ \A w \in Workers : SF_vars(Step(w))
    /\ SF_vars(\E w \in Workers : StartPass(w))

Spec == Init /\ [][Next]_vars
FairSpec == Spec /\ Fairness
-----------------------------------------------------------------------------
(* Properties *)

\* Fan-in: a step waits exactly as long as something it depends on has not completed, even
\* when its last two dependencies complete at the same moment in two transactions.
BlockedMeansWaiting ==
    Materialized =>
        \A u \in Steps : unit[u] = "blocked" <=> \E d \in Deps[u] : unit[d] # "completed"

\* New work is created only under the accepted tip of the plan and before a cancellation,
\* however the transaction races with the planner and the operator.
NewWorkIsAuthorized ==
    [][\A u \in Steps : (unit'[u] # unit[u] /\ unit'[u] \in {"assigned", "dispatched"}) =>
         Dispatchable' /\ ~cancelled']_vars

\* A committed dispatch the broker has not taken is sent in the end, unless the plan or the
\* goal was given up or the unit has ended: one failed or crashed pass does not lose it.
OwedIsSent ==
    \A u \in Steps : dispatch[u] = "unpublished" ~>
        u \in sent \/ unit[u] \in Terminal \/ cancelled \/ ~current
-----------------------------------------------------------------------------
\* A unit as DataflowContract sees it: issued once it has its dispatch.
InState(states) == {s \in Steps : unit[s] \in states}

Flow == INSTANCE DataflowContract WITH
            Steps <- Steps, Deps <- Deps,
            issued <- InState({"dispatched"} \cup Terminal),
            done <- InState({"completed"}), failed <- InState({"failed"})

\* However passes, results, the planner and deadlocks overlap, the graph is executed as
\* dataflow: one dispatch of a step, after everything it depends on, and one end.
ImplementsDataflow == Flow!Spec
=============================================================================
