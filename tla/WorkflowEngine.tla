--------------------------- MODULE WorkflowEngine ---------------------------
(***************************************************************************)
(* One workflow of the orchestrator: the graph that runs it, the approval  *)
(* engine that gates it, and everything that rewrites its row meanwhile    *)
(* (apps/orchestrator/src/workflow.py, resume_engine.py, dispatch.py,      *)
(* workflow_events.py, main.py; apps/approval-engine, apps/policy-engine;  *)
(* shared/sdk/workflow_store), together with the questions the             *)
(* requirement-agent asks about the task: once they are answered, anybody  *)
(* may have it sent again (main.py resume_after_clarification).            *)
(*                                                                         *)
(* The row has no version and no lock.  The graph writes its whole state   *)
(* in memory after every node; everybody else reads the row, works, and    *)
(* overwrites it with an UPDATE keyed by task id alone.  Tasks share       *)
(* nothing, so one task is modelled; it is submitted once.                 *)
(***************************************************************************)
EXTENDS Integers, Sequences

CONSTANTS
    MaxDecisions,   \* bound: decisions a human takes on the approval request
    MaxFaults       \* bound: lost publications, failed handlers, restarts

ASSUME WorkflowAssumption == MaxDecisions \in Nat /\ MaxFaults \in Nat

VARIABLES
    restricted,   \* is the requested action in RESTRICTED_ACTIONS?
    graph,        \* the run: next node, and what it holds in memory
    row,          \* the workflow_states row
    approval,     \* status of the approval_requests row
    granted,      \* has the request ever been approved? (history)
    decisions,    \* decisions taken so far
    events,       \* approval.* events the listener has not consumed
    job,          \* actor -> the read-modify-write it is in
    sent,         \* task.created messages the run and approvals sent: 0, 1 or Many
    resent,       \* has resume_after_clarification sent one before an approval? (history)
    questions,    \* the clarification requests of the task's work item
    faults        \* faults so far

vars == <<restricted, graph, row, approval, granted, decisions, events, job, sent, resent,
          questions, faults>>

Many == 2
\* Bound: the operators' requests (resume, resume-after-clarification, cancel, abort) are made
\* one at a time; so are those of the agents (the event consumer, the retry-scheduler).
Actors == {"listener", "operator", "scan", "consumer"}
Nodes == {"submit", "intake", "requirement", "team_formation", "policy", "approval",
          "approval_persist", "audit", "route_next", "dispatch", "dispatch_persist",
          "team_blocked", "end"}
\* "canceled" stands for "aborted" as well: nothing tells the two apart.
IGNORED_STAGES == {"canceled"}
TERMINAL_STAGES == IGNORED_STAGES \cup {"completed", "rejected"}
Stages == TERMINAL_STAGES \cup
          {"absent", "intake", "requirement_analysis", "policy_check", "approval", "audit",
           "waiting_approval", "dispatched", "in_progress", "blocked", "failed"}
Statuses == {"none", "pending", "not_required", "approved", "rejected"}

\* known: the state holds the id of a request of the approval engine.
RowType == [stage : Stages, status : Statuses, known : BOOLEAN]

GraphType == [at : Nodes, stage : Stages, required : BOOLEAN, status : Statuses,
              known : BOOLEAN, formation : {"not_applicable", "formed", "failed"}]

\* new: the row the writer will write, made of the row it read.
JobType == [kind : {"none", "decision", "terminate", "report", "clarification", "failure"},
            at : {"idle", "publish", "write", "republish"}, new : RowType]

TypeOK ==
    /\ restricted \in BOOLEAN
    /\ graph \in GraphType
    /\ row \in RowType
    /\ approval \in {"absent", "pending", "approved", "rejected"}
    /\ granted \in BOOLEAN
    /\ decisions \in 0..MaxDecisions
    /\ events \in Seq({"approved", "rejected"}) /\ Len(events) <= MaxDecisions
    /\ job \in [Actors -> JobType]
    /\ sent \in 0..Many /\ resent \in BOOLEAN
    /\ questions \in {"no_work_item", "none_open", "open"}
    /\ faults \in 0..MaxFaults

NoRow == [stage |-> "absent", status |-> "none", known |-> FALSE]
NoJob == [kind |-> "none", at |-> "idle", new |-> NoRow]

\* _initial_state
Init ==
    /\ restricted \in BOOLEAN
    /\ graph = [at |-> "submit", stage |-> "intake", required |-> FALSE, status |-> "none",
                known |-> FALSE, formation |-> "not_applicable"]
    /\ row = NoRow
    /\ approval = "absent"
    /\ granted = FALSE
    /\ decisions = 0
    /\ events = <<>>
    /\ job = [a \in Actors |-> NoJob]
    /\ sent = 0 /\ resent = FALSE
    /\ questions = "no_work_item"
    /\ faults = 0
-----------------------------------------------------------------------------
Exists == row.stage # "absent"

\* update_workflow_state: no condition but the task id.
Update(new) == row' = IF Exists THEN new ELSE row

\* _persist: the state after the node, best effort.
Persist(g) ==
    \/ Update([stage |-> g.stage, status |-> g.status, known |-> g.known]) /\ UNCHANGED faults
    \/ UNCHANGED row /\ faults < MaxFaults /\ faults' = faults + 1

\* A run that is over keeps nothing in memory (that approval was required is history).
Ended == [at |-> "end", stage |-> "intake", required |-> graph.required, status |-> "none",
          known |-> FALSE, formation |-> "not_applicable"]

\* Run the node and persist what it returns; calls that touch nothing shared are part of it.
Node(from, g) ==
    /\ graph.at = from
    /\ graph' = IF g.at = "end" THEN Ended ELSE g
    /\ Persist(g)
    /\ UNCHANGED <<restricted, approval, granted, decisions, events, job, sent, resent,
                   questions>>

\* dispatch_task: publishes task.created once.
Publish == sent' = IF sent < Many THEN sent + 1 ELSE Many

\* run_mock_workflow: the row is created, or cannot be.
Submit ==
    /\ graph.at = "submit"
    /\ graph' = [graph EXCEPT !.at = "intake"]
    /\ \/ row' = [NoRow EXCEPT !.stage = "intake"] /\ UNCHANGED faults
       \/ faults < MaxFaults /\ faults' = faults + 1 /\ UNCHANGED row
    /\ UNCHANGED <<restricted, approval, granted, decisions, events, job, sent, resent,
                   questions>>

intake_node ==
    Node("intake", [graph EXCEPT !.at = "requirement", !.stage = "requirement_analysis"])

requirement_node ==
    Node("requirement", [graph EXCEPT !.at = "team_formation", !.stage = "policy_check"])

team_formation_node ==
    \E formation \in {"not_applicable", "formed", "failed"} :
        Node("team_formation", [graph EXCEPT !.at = "policy", !.stage = "policy_check",
                                             !.formation = formation])

\* Faulty: a policy engine that is down requires nothing.
policy_node_FailOpen ==
    \E required \in {restricted, FALSE} :
        Node("policy", [graph EXCEPT !.at = "approval", !.stage = "approval",
                                     !.required = required])

\* The answer of the policy engine; without one, approval is required.
policy_node ==
    \E required \in {restricted, TRUE} :
        Node("policy", [graph EXCEPT !.at = "approval", !.stage = "approval",
                                     !.required = required])

\* Not required: persist and go on.
approval_skip ==
    /\ ~graph.required
    /\ Node("approval", [graph EXCEPT !.at = "audit", !.stage = "audit",
                                      !.status = "not_required"])

\* Required: the request is created in the approval engine, where it can be decided at
\* once, or gets a local id because the engine is down; the row learns of it one step later.
approval_node ==
    /\ graph.at = "approval" /\ graph.required
    /\ \E known \in BOOLEAN :
         /\ approval' = IF known THEN "pending" ELSE approval
         /\ graph' = [graph EXCEPT !.at = "approval_persist", !.stage = "waiting_approval",
                                   !.status = "pending", !.known = known]
    /\ UNCHANGED <<restricted, row, granted, decisions, events, job, sent, resent, questions,
                   faults>>

approval_persist == Node("approval_persist", [graph EXCEPT !.at = "audit"])

audit_node == Node("audit", [graph EXCEPT !.at = "route_next"])

\* route_next_node and select_route: no team and no project is the legacy pipeline; a team
\* that could not be formed, or has no owner for the work, parks it.
route_next_node ==
    \E next \in {"dispatch", "team_blocked"} :
        /\ graph.formation = "failed" => next = "team_blocked"
        /\ graph.formation = "not_applicable" => next = "dispatch"
        /\ Node("route_next", [graph EXCEPT !.at = next])

team_blocked_node == Node("team_blocked", [graph EXCEPT !.at = "end", !.stage = "blocked"])

\* The gate, on what the graph itself remembers of the approval.
Blocked == graph.required /\ graph.status # "approved"

dispatch_blocked ==
    /\ Blocked
    /\ Node("dispatch", [graph EXCEPT !.at = "end", !.stage = "waiting_approval"])

\* dispatch_task either publishes or reports that it did not: dispatched either way.
dispatch_node ==
    /\ graph.at = "dispatch" /\ ~Blocked
    /\ graph' = [graph EXCEPT !.at = "dispatch_persist", !.stage = "dispatched"]
    /\ \/ Publish /\ UNCHANGED faults
       \/ faults < MaxFaults /\ faults' = faults + 1 /\ UNCHANGED sent
    /\ UNCHANGED <<restricted, row, approval, granted, decisions, events, job, resent,
                   questions>>

dispatch_persist == Node("dispatch_persist", [graph EXCEPT !.at = "end"])

RunGraph ==
    \/ Submit \/ intake_node \/ requirement_node \/ team_formation_node \/ policy_node
    \/ approval_skip \/ approval_node \/ approval_persist \/ audit_node \/ route_next_node
    \/ team_blocked_node \/ dispatch_blocked \/ dispatch_node \/ dispatch_persist
-----------------------------------------------------------------------------
(* The approval engine *)

\* _decide: an UPDATE by id alone, so a request can be decided again, either way; the
\* event is published afterwards, best effort.
Decide ==
    /\ approval # "absent" /\ decisions < MaxDecisions
    /\ decisions' = decisions + 1
    /\ \E status \in {"approved", "rejected"} :
         /\ approval' = status
         /\ granted' = (granted \/ status = "approved")
         /\ \/ events' = Append(events, status) /\ UNCHANGED faults
            \/ UNCHANGED events /\ faults < MaxFaults /\ faults' = faults + 1
    /\ UNCHANGED <<restricted, graph, row, job, sent, resent, questions>>
-----------------------------------------------------------------------------
(* The writers of the row: each reads it, works, and overwrites it with what it read. *)

\* lifespan awaits the startup scan before it starts anything else.
Serving == job["scan"].at = "idle"
Idle(a) == job[a].at = "idle"

\* _apply_approved and mark_rejected: whatever the row says.
Approved == [kind |-> "decision", at |-> "publish",
             new |-> [row EXCEPT !.stage = "dispatched", !.status = "approved"]]

\* Faulty: a status no reader of the row knows.
Rejected_Unknown == [kind |-> "decision", at |-> "write",
                     new |-> [row EXCEPT !.stage = "rejected", !.status = "canceled"]]

Rejected == [kind |-> "decision", at |-> "write",
             new |-> [row EXCEPT !.stage = "rejected", !.status = "rejected"]]

\* Another writer: only the stage changes.
Moving(kind, stage) == [kind |-> kind, at |-> "write",
                        new |-> [row EXCEPT !.stage = stage]]

Begin(a, j) == job' = [job EXCEPT ![a] = j]

\* on_approval_event, after the listener took the event: the stage of the row is not looked at.
Listen ==
    /\ Serving /\ Idle("listener") /\ events # <<>>
    /\ events' = Tail(events)
    /\ IF Exists THEN Begin("listener", IF Head(events) = "approved" THEN Approved ELSE Rejected)
                 ELSE UNCHANGED job
    /\ UNCHANGED <<restricted, graph, row, approval, granted, decisions, sent, resent,
                   questions, faults>>

\* Faulty: anything that waits for nobody can be resumed.
MayResume_NotRequired == row.status \in {"approved", "not_required"}

\* The row says approved, or the approval engine does (_approval_granted).
MayResume == row.status = "approved" \/ (row.known /\ approval = "approved")

\* resume_workflow, called by an operator.
Resume ==
    /\ Serving /\ Idle("operator") /\ Exists /\ MayResume
    /\ Begin("operator", Approved)
    /\ UNCHANGED <<restricted, graph, row, approval, granted, decisions, events, sent, resent,
                   questions, faults>>

\* _terminate_workflow: refused at a terminal stage.
Terminate ==
    /\ Serving /\ Idle("operator") /\ Exists
    /\ row.stage \notin TERMINAL_STAGES
    /\ \E stage \in IGNORED_STAGES : Begin("operator", Moving("terminate", stage))
    /\ UNCHANGED <<restricted, graph, row, approval, granted, decisions, events, sent, resent,
                   questions, faults>>

\* handle_event and _advance: a terminated workflow ignores its agents.
Ignores(r) == r.stage \in IGNORED_STAGES

\* Where an event of the agents moves the workflow: a finished one never moves back.
Advanced(event) ==
    IF event = "final" \/ row.stage = "completed" THEN "completed" ELSE "in_progress"

\* Once a task has been analysed its agents report, and no order or number of reports is relied
\* on: they are lost and repeated like every message.
HandleEvent ==
    /\ Serving /\ Idle("consumer")
    /\ questions # "no_work_item"
    /\ Exists /\ ~Ignores(row)
    /\ \E event \in {"progress", "final"} : Begin("consumer", Moving("report", Advanced(event)))
    /\ UNCHANGED <<restricted, graph, row, approval, granted, decisions, events, sent, resent,
                   questions, faults>>

\* dispatch_task in _apply_approved, with the request alone: no team_context is passed on.
PublishApproved(a) ==
    /\ job[a].at = "publish"
    /\ job' = [job EXCEPT ![a].at = "write"]
    /\ \/ Publish /\ UNCHANGED faults
       \/ faults < MaxFaults /\ faults' = faults + 1 /\ UNCHANGED sent
    /\ UNCHANGED <<restricted, graph, row, approval, granted, decisions, events, resent,
                   questions>>

\* The same in resume_after_clarification, which does not write the workflow's row.
PublishClarified(a) ==
    /\ job[a].at = "republish"
    /\ job' = [job EXCEPT ![a] = NoJob]
    /\ \/ resent' = (resent \/ ~granted) /\ UNCHANGED faults
       \/ faults < MaxFaults /\ faults' = faults + 1 /\ UNCHANGED resent
    /\ UNCHANGED <<restricted, graph, row, approval, granted, decisions, events, sent,
                   questions>>

Write(a) ==
    /\ job[a].at = "write"
    /\ Update(job[a].new)
    /\ job' = [job EXCEPT ![a] = NoJob]
    /\ UNCHANGED <<restricted, graph, approval, granted, decisions, events, sent, resent,
                   questions, faults>>

\* A call of the handler fails: it gives up, and its event is acknowledged all the same.
Abandon(a) ==
    /\ ~Idle(a) /\ faults < MaxFaults
    /\ faults' = faults + 1
    /\ job' = [job EXCEPT ![a] = NoJob]
    /\ UNCHANGED <<restricted, graph, row, approval, granted, decisions, events, sent, resent,
                   questions>>

\* Faulty: only rows nobody has written since are recovered.
Scan_Pending ==
    IF row.stage = "waiting_approval" /\ row.known /\ row.status = "approved"
    THEN Approved
    ELSE NoJob

\* resume_approved_workflows for this row: what the scan of a starting process begins.
Scan ==
    IF row.stage = "waiting_approval" /\ row.known /\ approval \in {"approved", "rejected"}
    THEN IF approval = "approved" THEN Approved ELSE Rejected
    ELSE NoJob

\* Every handler of the orchestrator is gone; the retry-scheduler, another process, goes on.
StartAgain(begun) ==
    job' = [a \in Actors |->
              IF a = "scan" THEN begun ELSE IF job[a].kind = "failure" THEN job[a] ELSE NoJob]

\* The process restarts: the run in memory and every handler are gone, and so is what the
\* listener had read from its stream, for it reads only new entries.  The approval engine
\* may be down (a fault), and a restart during the scan is one.
Restart ==
    /\ graph' = Ended
    /\ \E lost \in 0..Len(events) : events' = SubSeq(events, lost + 1, Len(events))
    /\ \/ Serving /\ StartAgain(Scan) /\ UNCHANGED faults
       \/ /\ faults < MaxFaults /\ faults' = faults + 1
          /\ \E begun \in {Scan, NoJob} : StartAgain(begun)
    /\ UNCHANGED <<restricted, row, approval, granted, decisions, sent, resent, questions>>

\* _mark_workflow_failed of the retry-scheduler, another process: a message of the task has
\* used up its retries.
MarkFailed ==
    /\ Idle("consumer") /\ sent > 0
    /\ Exists /\ row.stage \notin TERMINAL_STAGES \cup {"failed"}
    /\ Begin("consumer", Moving("failure", "failed"))
    /\ UNCHANGED <<restricted, graph, row, approval, granted, decisions, events, sent, resent,
                   questions, faults>>
-----------------------------------------------------------------------------
(* The work item and its questions *)

\* A task that was sent is analysed, once for each of its deliveries: requirement-agent's
\* handle() upserts the work item.
Analyze ==
    /\ sent > 0
    /\ questions' = IF questions = "no_work_item" THEN "none_open" ELSE questions
    /\ UNCHANGED <<restricted, graph, row, approval, granted, decisions, events, job, sent,
                   resent, faults>>

\* Then the request is unclear, a question is opened and the task goes no further; or it is
\* clear, and the other agents begin to report.
Ask ==
    /\ questions # "no_work_item"
    /\ questions' = "open"
    /\ UNCHANGED <<restricted, graph, row, approval, granted, decisions, events, job, sent,
                   resent, faults>>

\* answer_clarification: the last question that is open is answered (the call of
\* resume_after_clarification that follows is best effort, and an operator can make it too).
Answer ==
    /\ questions = "open"
    /\ questions' = "none_open"
    /\ UNCHANGED <<restricted, graph, row, approval, granted, decisions, events, job, sent,
                   resent, faults>>

\* There is a work item and none of its questions is open.
Clarified == questions = "none_open"

\* resume_after_clarification, if the answers are found clear enough: neither the workflow's
\* row nor its approval is looked at, and nothing is kept of an earlier call.  Answers that
\* leave the request unclear end the call before it has an effect on the workflow.
ResumeAfterClarification ==
    /\ Serving /\ Idle("operator") /\ Clarified
    /\ Begin("operator", [NoJob EXCEPT !.kind = "clarification", !.at = "republish"])
    /\ UNCHANGED <<restricted, graph, row, approval, granted, decisions, events, sent, resent,
                   questions, faults>>
-----------------------------------------------------------------------------
Work(a) == PublishApproved(a) \/ PublishClarified(a) \/ Write(a)

Next ==
    \/ Serving /\ RunGraph
    \/ Decide \/ Listen \/ Resume \/ Terminate \/ HandleEvent \/ Restart
    \/ Analyze \/ Ask \/ Answer \/ ResumeAfterClarification \/ MarkFailed
    \/ \E a \in Actors : Work(a) \/ Abandon(a)

\* Handlers that have begun go on, the loops read their streams, the run goes on.
\* The orchestrator is started again some day: nothing else looks for approvals it missed.
Fairness ==
    /\ WF_vars(Serving /\ RunGraph) /\ WF_vars(Listen)
    /\ \A a \in Actors : WF_vars(Work(a))
    /\ WF_vars(Restart)

Spec == Init /\ [][Next]_vars
FairSpec == Spec /\ Fairness
-----------------------------------------------------------------------------
(* Properties *)

\* Whatever is lost, repeated or overtaken, nothing of a task that needs an approval goes to
\* the agents unless a human approved it at some time: not even through
\* resume_after_clarification, which does not look at the approval.
GateHolds == restricted \/ graph.required => ~resent /\ (sent > 0 => granted)

\* Without an approval, the run sends a task once, and whatever restarts, operators and stale
\* writes make of its row, it is not resumed.  Only resume_after_clarification sends it again,
\* on every call, and never before the run has sent it.
SentAgainOnlyIfAsked ==
    /\ sent = Many => granted
    /\ resent => sent > 0

Forgotten ==
    approval = "approved" /\ row.known /\ row.stage = "waiting_approval" /\ sent = 0

\* An approved workflow does not wait for ever, although its event can be lost, handled
\* before the row shows the request, or fail: the next start finds it.
ApprovalsAreHonoured == Forgotten ~> ~Forgotten
=============================================================================
