----------------------- MODULE WorkflowEngine_proofs -----------------------
(***************************************************************************)
(* The approval gate of a workflow holds for any number of decisions,      *)
(* faults and restarts.  The row proves nothing, for everybody overwrites  *)
(* it; the argument rests on what the run remembers of the policy engine's *)
(* answer, and on every "approved" having been a human's decision.         *)
(***************************************************************************)
EXTENDS WorkflowEngine, SequenceTheorems, TLAPS

BeforePolicy == {"submit", "intake", "requirement", "team_formation", "policy"}

\* The run asks for approval whenever the action is restricted, and can never believe that
\* it was approved.
RunRemembers ==
    /\ graph.at \in BeforePolicy => ~graph.required /\ graph.status = "none"
    /\ graph.at \notin BeforePolicy \cup {"end"} => (restricted => graph.required)
    /\ graph.status # "approved"
    /\ graph.required => graph.status # "not_required"

\* Whatever says "approved", a human did.
ApprovedMeansGranted ==
    \/ granted
    \/ /\ approval # "approved" /\ row.status # "approved"
       /\ \A a \in Actors : job[a].at # "publish" /\ job[a].new.status # "approved"
       /\ \A i \in 1..Len(events) : events[i] # "approved"

\* Without an approval the run itself is the only sender, sends once, and needed none.
UnapprovedIsSentOnce ==
    granted \/ sent = 0
    \/ (sent = 1 /\ graph.at \in {"dispatch_persist", "end"} /\ ~restricted /\ ~graph.required)

\* Nothing is asked about a task that was never sent, so no clarification sends it first; and
\* what one sends before an approval needed none.
ClarifiedWasSent ==
    /\ questions # "no_work_item" => sent > 0
    /\ \A a \in Actors : job[a].at = "republish" => sent > 0
    /\ resent => /\ sent > 0 /\ ~restricted /\ ~graph.required
                 /\ graph.at \in {"dispatch_persist", "end"}

EventsAreDecisions == Len(events) <= decisions

IInv == /\ TypeOK /\ RunRemembers /\ ApprovedMeansGranted /\ UnapprovedIsSentOnce
        /\ ClarifiedWasSent /\ EventsAreDecisions
-----------------------------------------------------------------------------
\* The empty row, the empty job and the state of a run that is over have their types.
LEMMA ConstantTypes ==
    /\ NoRow \in RowType /\ NoJob \in JobType
    /\ NoJob.at = "idle" /\ NoJob.new.status = "none"
    /\ graph \in GraphType => Ended \in GraphType
<1>1. NoRow \in RowType /\ NoRow.status = "none"
  BY DEF NoRow, RowType, Stages, Statuses
<1>2. NoJob \in JobType /\ NoJob.at = "idle" /\ NoJob.new = NoRow
  BY <1>1 DEF NoJob, JobType
<1>3. graph \in GraphType => Ended \in GraphType
  BY DEF Ended, GraphType, Nodes, Stages, IGNORED_STAGES, TERMINAL_STAGES, Statuses
<1> QED BY <1>1, <1>2, <1>3

\* The initial states satisfy the invariant.
LEMMA InitIInv == Init => IInv
<1> SUFFICES ASSUME Init PROVE IInv
  OBVIOUS
<1>1. graph \in GraphType /\ graph.at = "submit" /\ graph.required = FALSE /\ graph.status = "none"
  BY DEF Init, GraphType, Nodes, Stages, Statuses
<1>2. TypeOK
  <2>1. restricted \in BOOLEAN /\ granted \in BOOLEAN /\ resent \in BOOLEAN
    BY DEF Init
  <2>2. row \in RowType /\ job \in [Actors -> JobType]
    BY ConstantTypes DEF Init
  <2>3. events \in Seq({"approved", "rejected"}) /\ Len(events) <= MaxDecisions
    BY WorkflowAssumption DEF Init
  <2>4. /\ approval \in {"absent", "pending", "approved", "rejected"}
        /\ decisions \in 0..MaxDecisions /\ sent \in 0..Many
        /\ questions \in {"no_work_item", "none_open", "open"} /\ faults \in 0..MaxFaults
    BY WorkflowAssumption DEF Init, Many
  <2> QED BY <1>1, <2>1, <2>2, <2>3, <2>4 DEF TypeOK
<1>3. RunRemembers
  BY <1>1 DEF RunRemembers, BeforePolicy
<1>4. ApprovedMeansGranted
  BY ConstantTypes DEF Init, ApprovedMeansGranted, NoRow
<1>5. UnapprovedIsSentOnce /\ ClarifiedWasSent /\ EventsAreDecisions
  BY ConstantTypes DEF Init, UnapprovedIsSentOnce, ClarifiedWasSent, EventsAreDecisions
<1> QED BY <1>2, <1>3, <1>4, <1>5 DEF IInv
-----------------------------------------------------------------------------
(* The run *)

\* What a node may return: a state that remembers.
Remembers(g) ==
    /\ g.at \in BeforePolicy => ~g.required /\ g.status = "none"
    /\ g.at \notin BeforePolicy \cup {"end"} => (restricted => g.required)
    /\ g.status # "approved"
    /\ g.required => g.status # "not_required"

\* A node that remembers, and that does not send, keeps the invariant.
LEMMA NodeKeeps ==
    ASSUME IInv, NEW from \in Nodes \ {"end"}, NEW g \in GraphType, Node(from, g),
           g.status # "approved", g.at = "end" \/ Remembers(g), from = "dispatch_persist" => g.at = "end"
    PROVE  IInv'
<1>1. graph.at = from /\ graph' = IF g.at = "end" THEN Ended ELSE g
  BY DEF Node
<1>2. UNCHANGED <<restricted, approval, granted, decisions, events, job, sent, resent, questions>>
  BY DEF Node
<1>3. /\ row' \in RowType /\ (row' = row \/ row'.status = g.status)
      /\ faults' \in 0..MaxFaults
  BY WorkflowAssumption DEF Node, Persist, Update, IInv, TypeOK, GraphType, RowType
<1>4. graph' \in GraphType
  BY <1>1, ConstantTypes DEF IInv, TypeOK
<1>5. TypeOK'
  BY <1>2, <1>3, <1>4 DEF IInv, TypeOK
<1>6. Ended.at = "end" /\ Ended.required = graph.required /\ Ended.status = "none"
  BY DEF Ended
<1>7. RunRemembers'
  BY <1>1, <1>2, <1>6 DEF RunRemembers, Remembers, BeforePolicy
<1>8. ApprovedMeansGranted'
  <2>1. row'.status = "approved" => row.status = "approved"
    BY <1>3
  <2> QED BY <1>2, <2>1 DEF IInv, ApprovedMeansGranted
<1>9. UnapprovedIsSentOnce'
  BY <1>1, <1>2, <1>6 DEF IInv, UnapprovedIsSentOnce
<1>10. ClarifiedWasSent'
  BY <1>1, <1>2, <1>6 DEF IInv, ClarifiedWasSent
<1>11. EventsAreDecisions'
  BY <1>2 DEF IInv, EventsAreDecisions
<1> QED BY <1>5, <1>7, <1>8, <1>9, <1>10, <1>11 DEF IInv

\* Every step of the run keeps the invariant.
LEMMA RunSteps ==
    ASSUME IInv, RunGraph
    PROVE  IInv'
<1> USE DEF IInv, TypeOK, RunRemembers, BeforePolicy, Nodes, Stages, IGNORED_STAGES,
            TERMINAL_STAGES, Statuses
<1>0. graph \in GraphType /\ graph.required \in BOOLEAN /\ graph.status \in Statuses
  BY DEF GraphType
<1>1. CASE Submit
  <2>1. /\ graph.at = "submit" /\ graph' = [graph EXCEPT !.at = "intake"]
        /\ row' \in {row, [NoRow EXCEPT !.stage = "intake"]} /\ faults' \in {faults, faults + 1}
        /\ UNCHANGED <<restricted, approval, granted, decisions, events, job, sent, resent, questions>>
    BY <1>1 DEF Submit
  <2>2. row' \in RowType /\ (row' = row \/ row'.status = "none")
    BY <2>1 DEF NoRow, RowType
  <2>3. faults' \in 0..MaxFaults
    BY <1>1, WorkflowAssumption DEF Submit
  <2>4. graph' \in GraphType /\ graph'.at = "intake" /\ graph'.required = graph.required
        /\ graph'.status = graph.status
    BY <1>0, <2>1 DEF GraphType
  <2>5. TypeOK'
    BY <2>1, <2>2, <2>3, <2>4
  <2>6. RunRemembers'
    BY <2>1, <2>4
  <2>7. ApprovedMeansGranted' /\ UnapprovedIsSentOnce' /\ EventsAreDecisions'
    BY <2>1, <2>2, <2>4 DEF ApprovedMeansGranted, UnapprovedIsSentOnce, EventsAreDecisions
  <2>8. ClarifiedWasSent'
    BY <2>1 DEF ClarifiedWasSent
  <2> QED BY <2>5, <2>6, <2>7, <2>8
<1>2. CASE intake_node
  <2> DEFINE g == [graph EXCEPT !.at = "requirement", !.stage = "requirement_analysis"]
  <2>1. graph.at = "intake" /\ Node("intake", g)
    BY <1>2 DEF intake_node, Node
  <2>2. g \in GraphType /\ Remembers(g) /\ g.status # "approved"
    BY <1>0, <2>1 DEF GraphType, Remembers
  <2> QED BY <2>1, <2>2, NodeKeeps
<1>3. CASE requirement_node
  <2> DEFINE g == [graph EXCEPT !.at = "team_formation", !.stage = "policy_check"]
  <2>1. graph.at = "requirement" /\ Node("requirement", g)
    BY <1>3 DEF requirement_node, Node
  <2>2. g \in GraphType /\ Remembers(g) /\ g.status # "approved"
    BY <1>0, <2>1 DEF GraphType, Remembers
  <2> QED BY <2>1, <2>2, NodeKeeps
<1>4. CASE team_formation_node
  <2>1. PICK formation \in {"not_applicable", "formed", "failed"} :
          Node("team_formation", [graph EXCEPT !.at = "policy", !.stage = "policy_check",
                                               !.formation = formation])
    BY <1>4 DEF team_formation_node
  <2> DEFINE g == [graph EXCEPT !.at = "policy", !.stage = "policy_check",
                                !.formation = formation]
  <2>2. graph.at = "team_formation"
    BY <2>1 DEF Node
  <2>3. g \in GraphType /\ Remembers(g) /\ g.status # "approved"
    BY <1>0, <2>2 DEF GraphType, Remembers
  <2> QED BY <2>1, <2>3, NodeKeeps
<1>5. CASE policy_node
  <2>1. PICK required \in {restricted, TRUE} :
          Node("policy", [graph EXCEPT !.at = "approval", !.stage = "approval",
                                       !.required = required])
    BY <1>5 DEF policy_node
  <2> DEFINE g == [graph EXCEPT !.at = "approval", !.stage = "approval", !.required = required]
  <2>2. graph.at = "policy" /\ required \in BOOLEAN /\ (restricted => required)
    BY <2>1 DEF Node
  <2>3. g \in GraphType /\ g.at = "approval" /\ g.required = required /\ g.status = graph.status
    BY <1>0, <2>2 DEF GraphType
  <2>4. graph.status # "not_required"
    BY <2>2
  <2>5. Remembers(g) /\ g.status # "approved"
    BY <2>2, <2>3, <2>4 DEF Remembers
  <2> QED BY <2>1, <2>3, <2>5, NodeKeeps
<1>6. CASE approval_skip
  <2> DEFINE g == [graph EXCEPT !.at = "audit", !.stage = "audit", !.status = "not_required"]
  <2>1. graph.at = "approval" /\ ~graph.required /\ Node("approval", g)
    BY <1>6 DEF approval_skip, Node
  <2>2. g \in GraphType /\ Remembers(g) /\ g.status # "approved"
    BY <1>0, <2>1 DEF GraphType, Remembers
  <2> QED BY <2>1, <2>2, NodeKeeps
<1>7. CASE approval_node
  <2>1. PICK known \in BOOLEAN :
          /\ approval' \in {approval, "pending"}
          /\ graph' = [graph EXCEPT !.at = "approval_persist", !.stage = "waiting_approval",
                                    !.status = "pending", !.known = known]
    BY <1>7 DEF approval_node
  <2>2. /\ graph.at = "approval"
        /\ UNCHANGED <<restricted, row, granted, decisions, events, job, sent, resent, questions,
                       faults>>
    BY <1>7 DEF approval_node
  <2>3. graph' \in GraphType /\ graph'.at = "approval_persist" /\ graph'.status = "pending"
        /\ graph'.required = graph.required
    BY <1>0, <2>1 DEF GraphType
  <2>4. TypeOK'
    BY <2>1, <2>2, <2>3
  <2>5. RunRemembers'
    BY <2>2, <2>3
  <2>6. ApprovedMeansGranted' /\ UnapprovedIsSentOnce' /\ EventsAreDecisions'
    BY <2>1, <2>2 DEF ApprovedMeansGranted, UnapprovedIsSentOnce, EventsAreDecisions
  <2>7. ClarifiedWasSent'
    BY <2>2 DEF ClarifiedWasSent
  <2> QED BY <2>4, <2>5, <2>6, <2>7
<1>8. CASE approval_persist
  <2> DEFINE g == [graph EXCEPT !.at = "audit"]
  <2>1. graph.at = "approval_persist" /\ Node("approval_persist", g)
    BY <1>8 DEF approval_persist, Node
  <2>2. g \in GraphType /\ Remembers(g) /\ g.status # "approved"
    BY <1>0, <2>1 DEF GraphType, Remembers
  <2> QED BY <2>1, <2>2, NodeKeeps
<1>9. CASE audit_node
  <2> DEFINE g == [graph EXCEPT !.at = "route_next"]
  <2>1. graph.at = "audit" /\ Node("audit", g)
    BY <1>9 DEF audit_node, Node
  <2>2. g \in GraphType /\ Remembers(g) /\ g.status # "approved"
    BY <1>0, <2>1 DEF GraphType, Remembers
  <2> QED BY <2>1, <2>2, NodeKeeps
<1>10. CASE route_next_node
  <2>1. PICK next \in {"dispatch", "team_blocked"} :
          Node("route_next", [graph EXCEPT !.at = next])
    BY <1>10 DEF route_next_node
  <2> DEFINE g == [graph EXCEPT !.at = next]
  <2>2. graph.at = "route_next"
    BY <2>1 DEF Node
  <2>3. g \in GraphType /\ Remembers(g) /\ g.status # "approved"
    BY <1>0, <2>2 DEF GraphType, Remembers
  <2> QED BY <2>1, <2>3, NodeKeeps
<1>11. CASE team_blocked_node
  <2> DEFINE g == [graph EXCEPT !.at = "end", !.stage = "blocked"]
  <2>1. Node("team_blocked", g)
    BY <1>11 DEF team_blocked_node
  <2>2. g \in GraphType /\ g.at = "end" /\ g.status # "approved"
    BY <1>0 DEF GraphType
  <2> QED BY <2>1, <2>2, NodeKeeps
<1>12. CASE dispatch_blocked
  <2> DEFINE g == [graph EXCEPT !.at = "end", !.stage = "waiting_approval"]
  <2>1. Node("dispatch", g)
    BY <1>12 DEF dispatch_blocked
  <2>2. g \in GraphType /\ g.at = "end" /\ g.status # "approved"
    BY <1>0 DEF GraphType
  <2> QED BY <2>1, <2>2, NodeKeeps
<1>13. CASE dispatch_node
  <2>1. /\ graph.at = "dispatch" /\ ~graph.required
        /\ graph' = [graph EXCEPT !.at = "dispatch_persist", !.stage = "dispatched"]
        /\ UNCHANGED <<restricted, row, approval, granted, decisions, events, job, resent, questions>>
    BY <1>13 DEF dispatch_node, Blocked
  <2>2. ~restricted
    BY <2>1
  <2>3. graph' \in GraphType /\ graph'.at = "dispatch_persist" /\ ~graph'.required
        /\ graph'.status = graph.status
    BY <1>0, <2>1 DEF GraphType
  <2>4. /\ faults' \in 0..MaxFaults
        /\ sent' = sent \/ (sent < Many /\ sent' = sent + 1) \/ sent' = Many
        /\ granted \/ sent' \in {0, 1}
    <3>1. granted \/ sent = 0
      BY <2>1 DEF UnapprovedIsSentOnce
    <3>2. CASE Publish /\ UNCHANGED faults
      BY <3>1, <3>2 DEF Publish, Many
    <3>3. CASE faults < MaxFaults /\ faults' = faults + 1 /\ UNCHANGED sent
      BY <3>1, <3>3, WorkflowAssumption
    <3> QED BY <1>13, <3>2, <3>3 DEF dispatch_node
  <2>5. TypeOK'
    BY <2>1, <2>3, <2>4 DEF Many
  <2>6. RunRemembers'
    BY <2>1, <2>2, <2>3
  <2>7. ApprovedMeansGranted' /\ EventsAreDecisions'
    BY <2>1 DEF ApprovedMeansGranted, EventsAreDecisions
  <2>8. UnapprovedIsSentOnce'
    BY <2>1, <2>2, <2>3, <2>4 DEF UnapprovedIsSentOnce
  <2>9. ClarifiedWasSent'
    <3>1. sent \in 0..Many /\ (sent > 0 => sent' > 0)
      BY <2>4 DEF Many
    <3> QED BY <2>1, <3>1 DEF ClarifiedWasSent
  <2> QED BY <2>5, <2>6, <2>7, <2>8, <2>9
<1>14. CASE dispatch_persist
  <2> DEFINE g == [graph EXCEPT !.at = "end"]
  <2>1. Node("dispatch_persist", g)
    BY <1>14 DEF dispatch_persist
  <2>2. g \in GraphType /\ g.at = "end" /\ g.status # "approved"
    BY <1>0 DEF GraphType
  <2> QED BY <2>1, <2>2, NodeKeeps
<1> QED BY <1>1, <1>2, <1>3, <1>4, <1>5, <1>6, <1>7, <1>8, <1>9, <1>10, <1>11, <1>12, <1>13,
           <1>14 DEF RunGraph
-----------------------------------------------------------------------------
(* The approval engine and the writers of the row *)

\* A job that publishes, or that would write "approved", is a human's decision; one that
\* sends a clarified task sends it again.
Honest(j) ==
    /\ j.at = "publish" \/ j.new.status = "approved" => granted
    /\ j.at = "republish" => sent > 0

\* What a handler begins has its type, and one made of an approval is honest.
LEMMA JobsBegun ==
    ASSUME IInv
    PROVE  /\ Approved \in JobType /\ (granted => Honest(Approved))
           /\ Rejected \in JobType /\ Honest(Rejected)
           /\ \A kind \in {"terminate", "report", "failure"}, stage \in Stages :
                Moving(kind, stage) \in JobType /\ Honest(Moving(kind, stage))
<1>1. row \in RowType
  BY DEF IInv, TypeOK
<1>2. row.status = "approved" => granted
  BY DEF IInv, ApprovedMeansGranted
<1>3. Approved \in JobType /\ (granted => Honest(Approved))
  BY <1>1 DEF Approved, JobType, Honest, RowType, Stages, Statuses
<1>4. Rejected \in JobType /\ Honest(Rejected)
  BY <1>1 DEF Rejected, JobType, Honest, RowType, Stages, TERMINAL_STAGES, Statuses
<1>5. ASSUME NEW kind \in {"terminate", "report", "failure"}, NEW stage \in Stages
      PROVE  Moving(kind, stage) \in JobType /\ Honest(Moving(kind, stage))
  BY <1>1, <1>2 DEF Moving, JobType, Honest, RowType
<1> QED BY <1>3, <1>4, <1>5

\* A step that consumes events, ends the run or not, and leaves every actor its
\* job, none, or an honest new one, keeps the invariant.
LEMMA HandlersKeep ==
    ASSUME IInv, NEW j \in JobType, Honest(j),
           UNCHANGED <<restricted, row, approval, granted, decisions, sent, resent, questions>>,
           graph' = graph \/ graph' = Ended,
           events' \in Seq({"approved", "rejected"}), Len(events') <= Len(events),
           \A i \in 1..Len(events') : \E k \in 1..Len(events) : events'[i] = events[k],
           faults' \in 0..MaxFaults,
           job' \in [Actors -> JobType], \A a \in Actors : job'[a] \in {job[a], NoJob, j}
    PROVE  IInv'
<1>1. Ended.at = "end" /\ Ended.required = graph.required /\ Ended.status = "none"
  BY DEF Ended
<1>2. TypeOK'
  <2>1. graph' \in GraphType
    BY ConstantTypes DEF IInv, TypeOK
  <2>2. Len(events) \in Nat /\ Len(events') \in Nat /\ Len(events') <= MaxDecisions
    BY WorkflowAssumption, LenProperties DEF IInv, TypeOK
  <2> QED BY <2>1, <2>2 DEF IInv, TypeOK
<1>3. RunRemembers'
  BY <1>1 DEF IInv, RunRemembers, BeforePolicy
<1>4. ApprovedMeansGranted'
  <2>1. CASE granted
    BY <2>1 DEF ApprovedMeansGranted
  <2>2. CASE ~granted
    <3>1. \A a \in Actors : job'[a].at # "publish" /\ job'[a].new.status # "approved"
      BY <2>2, ConstantTypes DEF IInv, ApprovedMeansGranted, Honest
    <3>2. \A i \in 1..Len(events') : events'[i] # "approved"
      BY <2>2 DEF IInv, ApprovedMeansGranted
    <3> QED BY <2>2, <3>1, <3>2 DEF IInv, ApprovedMeansGranted
  <2> QED BY <2>1, <2>2
<1>5. UnapprovedIsSentOnce'
  BY <1>1 DEF IInv, UnapprovedIsSentOnce
<1>6. EventsAreDecisions'
  <2>1. Len(events) \in Nat /\ Len(events') \in Nat /\ decisions \in Nat
    BY WorkflowAssumption, LenProperties DEF IInv, TypeOK
  <2> QED BY <2>1 DEF IInv, EventsAreDecisions
<1>7. ClarifiedWasSent'
  <2>1. \A a \in Actors : job'[a].at = "republish" => sent > 0
    BY ConstantTypes DEF IInv, ClarifiedWasSent, Honest
  <2> QED BY <1>1, <2>1 DEF IInv, ClarifiedWasSent
<1> QED BY <1>2, <1>3, <1>4, <1>5, <1>6, <1>7 DEF IInv

\* One actor's new job is a case of what HandlersKeep allows.
LEMMA BeginOne ==
    ASSUME IInv, NEW a \in Actors, NEW j \in JobType, Begin(a, j)
    PROVE  job' \in [Actors -> JobType] /\ \A b \in Actors : job'[b] \in {job[b], NoJob, j}
BY DEF IInv, TypeOK, Begin

\* A human decides: what says "approved" from then on was granted.
LEMMA DecideKeeps ==
    ASSUME IInv, Decide
    PROVE  IInv'
<1>1. PICK status \in {"approved", "rejected"} :
        /\ approval' = status /\ granted' = (granted \/ status = "approved")
        /\ \/ events' = Append(events, status) /\ UNCHANGED faults
           \/ UNCHANGED events /\ faults < MaxFaults /\ faults' = faults + 1
  BY DEF Decide
<1>2. /\ decisions < MaxDecisions /\ decisions' = decisions + 1
      /\ UNCHANGED <<restricted, graph, row, job, sent, resent, questions>>
  BY DEF Decide
<1>3. /\ events \in Seq({"approved", "rejected"}) /\ Len(events) \in Nat
      /\ Len(events) <= decisions /\ decisions \in 0..MaxDecisions
  BY LenProperties DEF IInv, TypeOK, EventsAreDecisions
<1>4. /\ events' \in Seq({"approved", "rejected"}) /\ Len(events') <= decisions'
      /\ \A i \in 1..Len(events') : events'[i] = status \/ (i \in 1..Len(events) /\ events'[i] = events[i])
  <2>1. CASE events' = Append(events, status)
    <3>1. Len(events') = Len(events) + 1
      BY <1>3, <2>1, AppendProperties
    <3>2. /\ events' \in Seq({"approved", "rejected"}) /\ events'[Len(events) + 1] = status
          /\ \A i \in 1..Len(events) : events'[i] = events[i]
      BY <1>3, <2>1, AppendProperties
    <3> QED BY <1>2, <1>3, <3>1, <3>2
  <2>2. CASE events' = events
    BY <1>2, <1>3, <2>2
  <2> QED BY <1>1, <2>1, <2>2
<1>5. TypeOK'
  <2>1. faults' \in 0..MaxFaults /\ granted' \in BOOLEAN /\ decisions' \in 0..MaxDecisions
    BY <1>1, <1>2, WorkflowAssumption DEF IInv, TypeOK
  <2>2. Len(events') <= MaxDecisions
    BY <1>2, <1>3, <1>4, WorkflowAssumption, LenProperties
  <2> QED BY <1>1, <1>2, <1>4, <2>1, <2>2 DEF IInv, TypeOK
<1>6. RunRemembers'
  BY <1>2 DEF IInv, RunRemembers, BeforePolicy
<1>7. ApprovedMeansGranted'
  BY <1>1, <1>2, <1>4 DEF IInv, ApprovedMeansGranted
<1>8. UnapprovedIsSentOnce'
  BY <1>1, <1>2 DEF IInv, UnapprovedIsSentOnce
<1>9. ClarifiedWasSent'
  BY <1>2 DEF IInv, ClarifiedWasSent
<1> QED BY <1>4, <1>5, <1>6, <1>7, <1>8, <1>9 DEF IInv, EventsAreDecisions

\* The listener takes the first event: an approved one was a decision.
LEMMA ListenKeeps ==
    ASSUME IInv, Listen
    PROVE  IInv'
<1>1. /\ events # <<>> /\ events' = Tail(events)
      /\ UNCHANGED <<restricted, graph, row, approval, granted, decisions, sent, resent, questions,
                     faults>>
  BY DEF Listen
<1>2. events \in Seq({"approved", "rejected"})
  BY DEF IInv, TypeOK
<1>3. /\ events' \in Seq({"approved", "rejected"}) /\ Len(events') = Len(events) - 1
      /\ \A i \in 1..Len(events') : events'[i] = events[i + 1]
  BY <1>1, <1>2, HeadTailProperties
<1>4. Len(events) \in Nat /\ Len(events) # 0 /\ Head(events) = events[1]
  BY <1>1, <1>2, LenProperties, EmptySeq
<1>5. /\ Len(events') <= Len(events)
      /\ \A i \in 1..Len(events') : \E k \in 1..Len(events) : events'[i] = events[k]
  BY <1>3, <1>4
<1>6. Head(events) = "approved" => granted
  BY <1>4 DEF IInv, ApprovedMeansGranted
<1>7. PICK j \in JobType : Honest(j) /\ (Begin("listener", j) \/ UNCHANGED job)
  BY <1>6, JobsBegun, ConstantTypes DEF Listen
<1>8. job' \in [Actors -> JobType] /\ \A b \in Actors : job'[b] \in {job[b], NoJob, j}
  BY <1>7, BeginOne DEF IInv, TypeOK, Actors
<1>9. faults' \in 0..MaxFaults
  BY <1>1 DEF IInv, TypeOK
<1> QED BY <1>1, <1>3, <1>5, <1>7, <1>8, <1>9, HandlersKeep

\* Nothing but jobs changes: the events stay where they are.
LEMMA EventsStay ==
    ASSUME IInv, UNCHANGED events
    PROVE  /\ events' \in Seq({"approved", "rejected"}) /\ Len(events') <= Len(events)
           /\ \A i \in 1..Len(events') : \E k \in 1..Len(events) : events'[i] = events[k]
<1>1. Len(events) \in Nat
  BY LenProperties DEF IInv, TypeOK
<1> QED BY <1>1 DEF IInv, TypeOK

\* Only a granted approval is resumed: the row or the approval engine says so.
LEMMA ResumeKeeps ==
    ASSUME IInv, Resume
    PROVE  IInv'
<1>1. granted
  BY DEF Resume, MayResume, IInv, ApprovedMeansGranted
<1>2. Begin("operator", Approved) /\ Approved \in JobType /\ Honest(Approved)
  BY <1>1, JobsBegun DEF Resume
<1>3. job' \in [Actors -> JobType] /\ \A b \in Actors : job'[b] \in {job[b], NoJob, Approved}
  BY <1>2, BeginOne DEF Actors
<1>4. UNCHANGED <<restricted, graph, row, approval, granted, decisions, events, sent, resent,
                  questions, faults>>
  BY DEF Resume
<1> QED BY <1>2, <1>3, <1>4, EventsStay, HandlersKeep DEF IInv, TypeOK

\* A cancellation keeps the status it read.
LEMMA TerminateKeeps ==
    ASSUME IInv, Terminate
    PROVE  IInv'
<1>1. PICK stage \in IGNORED_STAGES : Begin("operator", Moving("terminate", stage))
  BY DEF Terminate
<1> DEFINE j == Moving("terminate", stage)
<1>2. j \in JobType /\ Honest(j)
  BY JobsBegun DEF Stages, TERMINAL_STAGES
<1>3. job' \in [Actors -> JobType] /\ \A b \in Actors : job'[b] \in {job[b], NoJob, j}
  BY <1>1, <1>2, BeginOne DEF Actors
<1>4. UNCHANGED <<restricted, graph, row, approval, granted, decisions, events, sent, resent,
                  questions, faults>>
  BY DEF Terminate
<1> QED BY <1>2, <1>3, <1>4, EventsStay, HandlersKeep DEF IInv, TypeOK

\* A report of the agents keeps the status it read.
LEMMA HandleEventKeeps ==
    ASSUME IInv, HandleEvent
    PROVE  IInv'
<1>1. PICK event \in {"progress", "final"} : Begin("consumer", Moving("report", Advanced(event)))
  BY DEF HandleEvent
<1> DEFINE j == Moving("report", Advanced(event))
<1>2. j \in JobType /\ Honest(j)
  BY JobsBegun DEF Advanced, Stages, TERMINAL_STAGES
<1>3. job' \in [Actors -> JobType] /\ \A b \in Actors : job'[b] \in {job[b], NoJob, j}
  BY <1>1, <1>2, BeginOne DEF Actors
<1>4. UNCHANGED <<restricted, graph, row, approval, granted, decisions, events, sent, resent,
                  questions, faults>>
  BY DEF HandleEvent
<1> HIDE DEF j
<1> QED BY <1>2, <1>3, <1>4, EventsStay, HandlersKeep DEF IInv, TypeOK

\* So does the retry-scheduler's failure.
LEMMA MarkFailedKeeps ==
    ASSUME IInv, MarkFailed
    PROVE  IInv'
<1> DEFINE j == Moving("failure", "failed")
<1>1. j \in JobType /\ Honest(j)
  BY JobsBegun DEF Stages
<1>2. job' \in [Actors -> JobType] /\ \A b \in Actors : job'[b] \in {job[b], NoJob, j}
  BY <1>1, BeginOne DEF MarkFailed, Actors
<1>3. UNCHANGED <<restricted, graph, row, approval, granted, decisions, events, sent, resent,
                  questions, faults>>
  BY DEF MarkFailed
<1> HIDE DEF j
<1> QED BY <1>1, <1>2, <1>3, EventsStay, HandlersKeep DEF IInv, TypeOK

\* A task is resumed after a clarification only if it was analysed, and so sent.
LEMMA ResumeAfterClarificationKeeps ==
    ASSUME IInv, ResumeAfterClarification
    PROVE  IInv'
<1> DEFINE j == [NoJob EXCEPT !.kind = "clarification", !.at = "republish"]
<1>1. sent > 0
  BY DEF ResumeAfterClarification, Clarified, IInv, ClarifiedWasSent
<1>2. j \in JobType /\ j.at = "republish" /\ j.new.status = "none"
  BY ConstantTypes DEF JobType
<1>3. job' \in [Actors -> JobType] /\ \A b \in Actors : job'[b] \in {job[b], NoJob, j}
  BY <1>2, BeginOne DEF ResumeAfterClarification, Actors
<1>4. UNCHANGED <<restricted, graph, row, approval, granted, decisions, events, sent, resent,
                  questions, faults>>
  BY DEF ResumeAfterClarification
<1>5. Honest(j)
  BY <1>1, <1>2 DEF Honest
<1> HIDE DEF j
<1> QED BY <1>2, <1>3, <1>4, <1>5, EventsStay, HandlersKeep DEF IInv, TypeOK

\* Work items and questions come of a task that was sent.
LEMMA QuestionsKeep ==
    ASSUME IInv, Analyze \/ Ask \/ Answer
    PROVE  IInv'
<1>1. /\ questions' \in {"no_work_item", "none_open", "open"}
      /\ UNCHANGED <<restricted, graph, row, approval, granted, decisions, events, job, sent, resent,
                     faults>>
  BY DEF Analyze, Ask, Answer, IInv, TypeOK
<1>2. sent > 0
  BY DEF Analyze, Ask, Answer, IInv, ClarifiedWasSent
<1>3. TypeOK' /\ RunRemembers' /\ ApprovedMeansGranted'
  BY <1>1 DEF IInv, TypeOK, RunRemembers, BeforePolicy, ApprovedMeansGranted
<1> QED BY <1>1, <1>2, <1>3 DEF IInv, UnapprovedIsSentOnce, ClarifiedWasSent, EventsAreDecisions

\* Whoever publishes for an approval was granted one.
LEMMA PublishKeeps ==
    ASSUME IInv, NEW a \in Actors, PublishApproved(a)
    PROVE  IInv'
<1>1. /\ job[a].at = "publish" /\ job' = [job EXCEPT ![a].at = "write"]
      /\ UNCHANGED <<restricted, graph, row, approval, granted, decisions, events, resent, questions>>
  BY DEF PublishApproved
<1>2. granted
  BY <1>1 DEF IInv, ApprovedMeansGranted
<1>3. job' \in [Actors -> JobType]
  BY <1>1 DEF IInv, TypeOK, JobType
<1>4. sent' \in 0..Many /\ (sent > 0 => sent' > 0) /\ faults' \in 0..MaxFaults
  BY WorkflowAssumption DEF PublishApproved, Publish, IInv, TypeOK, Many
<1>5. TypeOK'
  BY <1>1, <1>3, <1>4 DEF IInv, TypeOK
<1>6. ClarifiedWasSent'
  <2>1. \A b \in Actors : job'[b].at = "republish" => job[b].at = "republish"
    BY <1>1 DEF IInv, TypeOK, JobType
  <2> QED BY <1>1, <1>4, <2>1 DEF IInv, ClarifiedWasSent
<1> QED BY <1>1, <1>2, <1>5, <1>6 DEF IInv, RunRemembers, BeforePolicy, ApprovedMeansGranted,
                                     UnapprovedIsSentOnce, EventsAreDecisions

\* What is sent after a clarification was sent before, by the run if nobody approved it.
LEMMA PublishClarifiedKeeps ==
    ASSUME IInv, NEW a \in Actors, PublishClarified(a)
    PROVE  IInv'
<1>1. /\ job[a].at = "republish" /\ job' = [job EXCEPT ![a] = NoJob]
      /\ resent' \in {resent, resent \/ ~granted}
      /\ UNCHANGED <<restricted, graph, row, approval, granted, decisions, events, sent, questions>>
  BY DEF PublishClarified
<1>2. faults' \in 0..MaxFaults
  BY WorkflowAssumption DEF PublishClarified, IInv, TypeOK
<1>3. \A b \in Actors : job'[b] \in {job[b], NoJob}
  BY <1>1 DEF IInv, TypeOK
<1>4. TypeOK'
  <2>1. resent' \in BOOLEAN
    BY <1>1 DEF IInv, TypeOK
  <2>2. job' \in [Actors -> JobType]
    BY <1>1, ConstantTypes DEF IInv, TypeOK
  <2> QED BY <1>1, <1>2, <2>1, <2>2 DEF IInv, TypeOK
<1>5. ApprovedMeansGranted'
  BY <1>1, <1>3, ConstantTypes DEF IInv, ApprovedMeansGranted
<1>6. ClarifiedWasSent'
  <2>1. sent > 0
    BY <1>1 DEF IInv, ClarifiedWasSent
  <2>2. ~granted => ~restricted /\ ~graph.required /\ graph.at \in {"dispatch_persist", "end"}
    BY <2>1 DEF IInv, UnapprovedIsSentOnce
  <2> QED BY <1>1, <1>3, <2>1, <2>2, ConstantTypes DEF IInv, ClarifiedWasSent
<1> QED BY <1>1, <1>4, <1>5, <1>6 DEF IInv, RunRemembers, BeforePolicy, UnapprovedIsSentOnce,
                                     EventsAreDecisions

\* A write brings the row what an honest job holds.
LEMMA WriteKeeps ==
    ASSUME IInv, NEW a \in Actors, Write(a)
    PROVE  IInv'
<1>1. /\ row' \in {row, job[a].new} /\ job' = [job EXCEPT ![a] = NoJob]
      /\ UNCHANGED <<restricted, graph, approval, granted, decisions, events, sent, resent, questions,
                     faults>>
  BY DEF Write, Update
<1>2. row' \in RowType /\ job' \in [Actors -> JobType]
  BY <1>1, ConstantTypes DEF IInv, TypeOK, JobType
<1>3. TypeOK'
  BY <1>1, <1>2 DEF IInv, TypeOK
<1>4. ApprovedMeansGranted' /\ ClarifiedWasSent'
  <2>1. \A b \in Actors : job'[b] \in {job[b], NoJob}
    BY <1>1 DEF IInv, TypeOK
  <2>2. ApprovedMeansGranted'
    BY <1>1, <2>1, ConstantTypes DEF IInv, ApprovedMeansGranted
  <2>3. ClarifiedWasSent'
    BY <1>1, <2>1, ConstantTypes DEF IInv, ClarifiedWasSent
  <2> QED BY <2>2, <2>3
<1> QED BY <1>1, <1>3, <1>4 DEF IInv, RunRemembers, BeforePolicy, UnapprovedIsSentOnce,
                                EventsAreDecisions

\* A handler that gives up leaves nothing.
LEMMA AbandonKeeps ==
    ASSUME IInv, NEW a \in Actors, Abandon(a)
    PROVE  IInv'
<1>1. /\ job' = [job EXCEPT ![a] = NoJob] /\ faults' \in 0..MaxFaults
      /\ UNCHANGED <<restricted, graph, row, approval, granted, decisions, events, sent, resent,
                     questions>>
  BY WorkflowAssumption DEF Abandon, IInv, TypeOK
<1>2. /\ job' \in [Actors -> JobType] /\ NoJob \in JobType /\ Honest(NoJob)
      /\ \A b \in Actors : job'[b] \in {job[b], NoJob}
  BY <1>1, ConstantTypes DEF IInv, TypeOK, Honest
<1> QED BY <1>1, <1>2, EventsStay, HandlersKeep

\* A process that starts again begins with an approved row only what was approved, and leaves
\* the retry-scheduler its job.
LEMMA RestartKeeps ==
    ASSUME IInv, Restart
    PROVE  IInv'
<1>1. PICK lost \in 0..Len(events) : events' = SubSeq(events, lost + 1, Len(events))
  BY DEF Restart
<1>2. /\ graph' = Ended
      /\ UNCHANGED <<restricted, row, approval, granted, decisions, sent, resent, questions>>
  BY DEF Restart
<1>3. faults' \in 0..MaxFaults
  BY WorkflowAssumption DEF Restart, IInv, TypeOK
<1>4. PICK j \in {Scan, NoJob} : StartAgain(j)
  BY DEF Restart
<1>5. j \in JobType /\ Honest(j)
  <2>1. NoJob \in JobType /\ Honest(NoJob)
    BY ConstantTypes DEF Honest
  <2>2. approval = "approved" => granted
    BY DEF IInv, ApprovedMeansGranted
  <2> QED BY <1>4, <2>1, <2>2, JobsBegun DEF Scan
<1>6. job' \in [Actors -> JobType] /\ \A a \in Actors : job'[a] \in {job[a], NoJob, j}
  BY <1>4, <1>5, ConstantTypes DEF StartAgain, IInv, TypeOK
<1>7. /\ events' \in Seq({"approved", "rejected"}) /\ Len(events') <= Len(events)
      /\ \A i \in 1..Len(events') : \E k \in 1..Len(events) : events'[i] = events[k]
  <2>1. events \in Seq({"approved", "rejected"}) /\ Len(events) \in Nat
    BY LenProperties DEF IInv, TypeOK
  <2>2. \A i \in (lost + 1)..Len(events) : events[i] \in {"approved", "rejected"}
    BY <2>1, ElementOfSeq
  <2>3. /\ events' \in Seq({"approved", "rejected"})
        /\ Len(events') = IF lost + 1 <= Len(events) THEN Len(events) - (lost + 1) + 1 ELSE 0
        /\ \A i \in 1..(Len(events) - (lost + 1) + 1) : events'[i] = events[lost + 1 + i - 1]
    BY <1>1, <2>1, <2>2, SubSeqProperties
  <2> QED BY <2>1, <2>3
<1> QED BY <1>2, <1>3, <1>5, <1>6, <1>7, HandlersKeep

\* Every step of the specification keeps the invariant.
LEMMA NextIInv == IInv /\ [Next]_vars => IInv'
<1> SUFFICES ASSUME IInv, [Next]_vars PROVE IInv'
  OBVIOUS
<1>1. CASE RunGraph
  BY <1>1, RunSteps
<1>2. CASE Decide
  BY <1>2, DecideKeeps
<1>3. CASE Listen
  BY <1>3, ListenKeeps
<1>4. CASE Resume
  BY <1>4, ResumeKeeps
<1>5. CASE Terminate
  BY <1>5, TerminateKeeps
<1>6. CASE HandleEvent
  BY <1>6, HandleEventKeeps
<1>7. CASE Restart
  BY <1>7, RestartKeeps
<1>8. CASE Analyze \/ Ask \/ Answer
  BY <1>8, QuestionsKeep
<1>9. CASE ResumeAfterClarification
  BY <1>9, ResumeAfterClarificationKeeps
<1>10. CASE MarkFailed
  BY <1>10, MarkFailedKeeps
<1>11. CASE \E a \in Actors : Work(a) \/ Abandon(a)
  BY <1>11, PublishKeeps, PublishClarifiedKeeps, WriteKeeps, AbandonKeeps DEF Work
<1>12. CASE UNCHANGED vars
  BY <1>12 DEF vars, IInv, TypeOK, RunRemembers, BeforePolicy, ApprovedMeansGranted,
               UnapprovedIsSentOnce, ClarifiedWasSent, EventsAreDecisions
<1> QED BY <1>1, <1>2, <1>3, <1>4, <1>5, <1>6, <1>7, <1>8, <1>9, <1>10, <1>11, <1>12 DEF Next

\* The invariant holds in every reachable state.
LEMMA Invariant == Spec => []IInv
BY InitIInv, NextIInv, PTL DEF Spec
-----------------------------------------------------------------------------
\* Run, row, jobs and events keep their types, for any number of decisions and faults
\* (workflow.py, resume_engine.py, workflow_events.py).
THEOREM WorkflowTyped == Spec => []TypeOK
<1>1. IInv => TypeOK
  BY DEF IInv
<1> QED BY <1>1, Invariant, PTL

\* Whatever number of decisions is taken, and however often events are lost, handlers fail,
\* rows are overwritten and processes restart, nothing of a task that needs an approval goes to
\* the agents (dispatch_node, _apply_approved, resume_after_clarification) unless a human
\* approved it (_decide).
THEOREM GateAlwaysHolds == Spec => []GateHolds
<1>1. IInv => GateHolds
  BY DEF IInv, UnapprovedIsSentOnce, ClarifiedWasSent, GateHolds
<1> QED BY <1>1, Invariant, PTL

\* Without an approval the run sends the task once (dispatch_node), and no restart, operator or
\* stale write of the row has it resumed; only resume_after_clarification, as often as it is
\* called, sends it again, never before the run did.
THEOREM SentAgainAlwaysOnRequest == Spec => []SentAgainOnlyIfAsked
<1>1. IInv => SentAgainOnlyIfAsked
  BY DEF IInv, TypeOK, UnapprovedIsSentOnce, ClarifiedWasSent, SentAgainOnlyIfAsked, Many
<1> QED BY <1>1, Invariant, PTL
=============================================================================
