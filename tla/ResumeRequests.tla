--------------------------- MODULE ResumeRequests ---------------------------
(***************************************************************************)
(* Operator-controlled resume of an answered clarification: the request,   *)
(* its single-use authorization, the production approval it may need, the  *)
(* markers on the clarification row and the durable command               *)
(* (shared/sdk/tasks/resume_service.py, resume_request_repository.py,      *)
(* authorization_{policy,repository,service}.py,                           *)
(* production_approval_{repository,service}.py).                           *)
(*                                                                         *)
(* Every operation is one transaction that locks the rows it decides on    *)
(* (request, then clarification, then task, then approval), so it is one   *)
(* action.  A denied operation rolls back: it is an action that is not     *)
(* enabled.  Both feature gates are open.                                  *)
(*                                                                         *)
(* A resource is a clarification with its task.  Its version stands for    *)
(* resource_state_version: status, answer reference, production effect.    *)
(***************************************************************************)
EXTENDS Integers, FiniteSets

CONSTANTS
    Resources,             \* clarifications, each with its task
    ProductionStates,      \* <<resource, version>> where production_effect = true
    Requests,              \* resume requests, each with its own authorization
    Approvals,             \* rows of production_action_approvals
    None,                  \* "no resource", "no approval", "not used"
    Lifetime,              \* time from the creation of a grant to its expires_at
    MaxVersion             \* bound: number of versions of a resource, less one

ASSUME ResumeAssumption ==
    /\ ProductionStates \subseteq Resources \X (0..MaxVersion)
    /\ None \notin Resources \cup Requests \cup Approvals
    /\ Lifetime \in Nat \ {0}
    /\ MaxVersion \in Nat

VARIABLES
    resource,   \* resource -> version, resume_eligible_at, terminal task
    marker,     \* resource -> resume_requested_at, resume_authorized_at
    request,    \* request -> its resume_requests row
    auth,       \* request -> its resume_replay_authorizations row
    approval,   \* approval -> its production_action_approvals row
    commands    \* requests with a resume.execution_requested row in the outbox

vars == <<resource, marker, request, auth, approval, commands>>

ActiveStates == {"authorization_pending", "authorized", "execution_pending"}
TerminalStates == {"resumed", "rejected", "canceled", "failed", "expired"}

ResourceRow == [version : 0..MaxVersion, eligible : BOOLEAN, terminal : BOOLEAN]

RequestRow == [state    : {"absent"} \cup ActiveStates \cup TerminalStates,
               resource : Resources \cup {None},
               version  : 0..MaxVersion]

AuthRow == [decision : {"absent", "pending", "authorized", "rejected", "canceled"},
            mark     : {"none", "consumed", "revoked", "expired"},
            approval : Approvals \cup {None},
            left     : 0..Lifetime]     \* expires_at - now

ApprovalRow == [state    : {"absent", "granted", "consumed", "revoked"},
                resource : Resources \cup {None},
                version  : 0..MaxVersion,
                user     : Requests \cup {None},    \* consumed_by_authorization_id
                left     : 0..Lifetime]

TypeOK ==
    /\ resource \in [Resources -> ResourceRow]
    /\ marker \in [Resources -> {"none", "requested", "authorized"}]
    /\ request \in [Requests -> RequestRow]
    /\ auth \in [Requests -> AuthRow]
    /\ approval \in [Approvals -> ApprovalRow]
    /\ commands \subseteq Requests

Init ==
    /\ resource = [c \in Resources |-> [version |-> 0, eligible |-> FALSE, terminal |-> FALSE]]
    /\ marker = [c \in Resources |-> "none"]
    /\ request = [r \in Requests |-> [state |-> "absent", resource |-> None, version |-> 0]]
    /\ auth = [r \in Requests |-> [decision |-> "absent", mark |-> "none",
                                   approval |-> None, left |-> 0]]
    /\ approval = [a \in Approvals |-> [state |-> "absent", resource |-> None, version |-> 0,
                                        user |-> None, left |-> 0]]
    /\ commands = {}

-----------------------------------------------------------------------------
\* What other parts of the system do to a resource

\* resume_eligible_at is set for an answered clarification of a live task; the
\* code that will do it is not in the repository.
BecomeEligible(c) ==
    /\ ~resource[c].eligible /\ ~resource[c].terminal
    /\ resource' = [resource EXCEPT ![c].eligible = TRUE]
    /\ UNCHANGED <<marker, request, auth, approval, commands>>

\* set_answer_message by a request that is still under way, or a change of the
\* task's production_effect: another version, or one the resource had before.
ResourceChanges(c) ==
    /\ \E v \in 0..MaxVersion \ {resource[c].version} :
          resource' = [resource EXCEPT ![c].version = v]
    /\ UNCHANGED <<marker, request, auth, approval, commands>>

\* The task becomes terminal for resume (clarification_expired included).
TaskCloses(c) ==
    /\ ~resource[c].terminal
    /\ resource' = [resource EXCEPT ![c].terminal = TRUE]
    /\ UNCHANGED <<marker, request, auth, approval, commands>>

-----------------------------------------------------------------------------
\* Production approvals

\* grant_production_approval: bound to a resource in its present version.
grant_production_approval(a, c) ==
    /\ approval[a].state = "absent"
    /\ approval' = [approval EXCEPT ![a] = [state |-> "granted", resource |-> c,
                        version |-> resource[c].version, user |-> None, left |-> Lifetime]]
    /\ UNCHANGED <<resource, marker, request, auth, commands>>

\* revoke_approval: a consumed approval can no longer be revoked.
revoke_production_approval(a) ==
    /\ approval[a].state = "granted"
    /\ approval' = [approval EXCEPT ![a].state = "revoked"]
    /\ UNCHANGED <<resource, marker, request, auth, commands>>

\* resolve_and_consume_approval succeeds for reference a and request r.
ApprovalFits(a, r) ==
    /\ a # None
    /\ approval[a].state = "granted" /\ approval[a].left > 0
    /\ approval[a].resource = request[r].resource
    /\ approval[a].version = request[r].version

-----------------------------------------------------------------------------
\* The authorization of a request

\* The rows of uq_rra_active_request.
ActiveAuth(r) == auth[r].decision \in {"pending", "authorized"} /\ auth[r].mark = "none"

\* The WHERE clause shared by approve, reject and cancel; expires_at is not part of it.
Undecided(r) == auth[r].decision = "pending" /\ auth[r].mark # "expired"

\* The WHERE clause of consume.
Consumable(r) == auth[r].decision = "authorized" /\ auth[r].mark = "none" /\ auth[r].left > 0

\* revoke: no lock on the request, which stays authorized.
revoke(r) ==
    /\ auth[r].decision = "authorized" /\ auth[r].mark = "none"
    /\ auth' = [auth EXCEPT ![r].mark = "revoked"]
    /\ UNCHANGED <<resource, marker, request, approval, commands>>

expire_due_authorizations ==
    /\ \E r \in Requests : ActiveAuth(r) /\ auth[r].left = 0
    /\ auth' = [r \in Requests |->
                   IF ActiveAuth(r) /\ auth[r].left = 0
                   THEN [auth[r] EXCEPT !.mark = "expired"] ELSE auth[r]]
    /\ UNCHANGED <<resource, marker, request, approval, commands>>

-----------------------------------------------------------------------------
\* The resume service

\* request_resume: the marker is the active slot, claimed before anything is inserted.
request_resume(r, c, a) ==
    /\ request[r].state = "absent"
    /\ resource[c].eligible /\ ~resource[c].terminal
    /\ marker[c] = "none"
    /\ marker' = [marker EXCEPT ![c] = "requested"]
    /\ auth' = [auth EXCEPT ![r] = [decision |-> "pending", mark |-> "none",
                                    approval |-> a, left |-> Lifetime]]
    /\ request' = [request EXCEPT ![r] = [state |-> "authorization_pending", resource |-> c,
                                          version |-> resource[c].version]]
    /\ UNCHANGED <<resource, approval, commands>>

\* Faulty: the state version is not checked again.
StillValid_NoVersion(r) == ~resource[request[r].resource].terminal

\* The re-validation under the row locks, at authorization and at execution.
StillValid(r) ==
    /\ ~resource[request[r].resource].terminal
    /\ resource[request[r].resource].version = request[r].version

\* authorize_resume, by the policy authority.
authorize_resume(r) ==
    /\ request[r].state = "authorization_pending"
    /\ StillValid(r) /\ Undecided(r)
    /\ auth' = [auth EXCEPT ![r].decision = "authorized"]
    /\ marker' = [marker EXCEPT ![request[r].resource] = "authorized"]
    /\ request' = [request EXCEPT ![r].state = "authorized"]
    /\ UNCHANGED <<resource, approval, commands>>

\* reject_resume and cancel_resume: the markers are released.
Withdraw(r, outcome) ==
    /\ request[r].state = "authorization_pending"
    /\ Undecided(r)
    /\ auth' = [auth EXCEPT ![r].decision = outcome]
    /\ request' = [request EXCEPT ![r].state = outcome]
    /\ marker' = [marker EXCEPT ![request[r].resource] = "none"]
    /\ UNCHANGED <<resource, approval, commands>>

reject_resume(r) == Withdraw(r, "rejected")

\* Faulty: the request is withdrawn and its authorization left open.
cancel_resume_AuthKept(r) ==
    /\ request[r].state = "authorization_pending"
    /\ request' = [request EXCEPT ![r].state = "canceled"]
    /\ marker' = [marker EXCEPT ![request[r].resource] = "none"]
    /\ UNCHANGED <<resource, auth, approval, commands>>

cancel_resume(r) == Withdraw(r, "canceled")

\* production_effect as recorded in the authorization when it was requested.
NeedsApproval(r) == <<request[r].resource, request[r].version>> \in ProductionStates

\* Faulty: the approval is consumed although the authorization turns out not to be.
prepare_execution_SoftDeny(r) ==
    /\ request[r].state = "authorized"
    /\ StillValid(r)
    /\ NeedsApproval(r) => ApprovalFits(auth[r].approval, r)
    /\ approval' = IF NeedsApproval(r)
                   THEN [approval EXCEPT ![auth[r].approval].state = "consumed",
                                         ![auth[r].approval].user = r]
                   ELSE approval
    /\ auth' = IF Consumable(r) THEN [auth EXCEPT ![r].mark = "consumed"] ELSE auth
    /\ commands' = IF Consumable(r) THEN commands \cup {r} ELSE commands
    /\ request' = IF Consumable(r) THEN [request EXCEPT ![r].state = "execution_pending"]
                  ELSE request
    /\ UNCHANGED <<resource, marker>>

\* prepare_execution: approval, authorization and command in one transaction.
\* A consume that fails after the approval was consumed raises and rolls back.
prepare_execution(r) ==
    /\ request[r].state = "authorized"
    /\ StillValid(r) /\ Consumable(r)
    /\ \/ /\ NeedsApproval(r)
          /\ ApprovalFits(auth[r].approval, r)
          /\ approval' = [approval EXCEPT ![auth[r].approval].state = "consumed",
                                          ![auth[r].approval].user = r]
       \/ /\ ~NeedsApproval(r)
          /\ UNCHANGED approval
    /\ auth' = [auth EXCEPT ![r].mark = "consumed"]
    /\ commands' = commands \cup {r}
    /\ request' = [request EXCEPT ![r].state = "execution_pending"]
    /\ UNCHANGED <<resource, marker>>

\* Faulty: a confirmed resume releases the markers.
confirm_resumed_Released(r) ==
    /\ request[r].state = "execution_pending"
    /\ request' = [request EXCEPT ![r].state = "resumed"]
    /\ marker' = [marker EXCEPT ![request[r].resource] = "none"]
    /\ UNCHANGED <<resource, auth, approval, commands>>

\* The orchestrator's confirmations, with the command id of the request; a
\* repeated or contradicting one changes nothing.  Neither releases the markers.
confirm_resumed(r) ==
    /\ request[r].state = "execution_pending"
    /\ request' = [request EXCEPT ![r].state = "resumed"]
    /\ UNCHANGED <<resource, marker, auth, approval, commands>>

confirm_failed(r) ==
    /\ request[r].state = "execution_pending"
    /\ request' = [request EXCEPT ![r].state = "failed"]
    /\ UNCHANGED <<resource, marker, auth, approval, commands>>

\* The rows expire_due_requests selects.
Due(r) == request[r].state \in {"authorization_pending", "authorized"} /\ auth[r].left = 0

\* Faulty: a state outside chk_rr_state.
expire_due_requests_WrongState ==
    /\ \E r \in Requests : Due(r)
    /\ request' = [r \in Requests |->
                      IF Due(r) THEN [request[r] EXCEPT !.state = "timed_out"] ELSE request[r]]
    /\ UNCHANGED <<resource, marker, auth, approval, commands>>

\* expire_due_requests: one UPDATE over all due rows.  authorized_at is kept,
\* and chk_rr_authorized_coherent refuses an expired row that has one: with an
\* authorized row among them the whole statement fails.  The markers stay.
expire_due_requests ==
    /\ \E r \in Requests : Due(r)
    /\ \A r \in Requests : Due(r) => request[r].state = "authorization_pending"
    /\ request' = [r \in Requests |->
                      IF Due(r) THEN [request[r] EXCEPT !.state = "expired"] ELSE request[r]]
    /\ UNCHANGED <<resource, marker, auth, approval, commands>>

-----------------------------------------------------------------------------
\* PostgreSQL time passes.
Tick ==
    /\ auth' = [r \in Requests |-> [auth[r] EXCEPT !.left = IF @ > 0 THEN @ - 1 ELSE 0]]
    /\ approval' = [a \in Approvals |-> [approval[a] EXCEPT !.left = IF @ > 0 THEN @ - 1 ELSE 0]]
    /\ UNCHANGED <<resource, marker, request, commands>>

RequestStep(r) ==
    \/ \E c \in Resources, a \in Approvals \cup {None} : request_resume(r, c, a)
    \/ authorize_resume(r) \/ reject_resume(r) \/ cancel_resume(r)
    \/ revoke(r)
    \/ prepare_execution(r) \/ confirm_resumed(r) \/ confirm_failed(r)

Maintenance == expire_due_authorizations \/ expire_due_requests

Next ==
    \/ \E c \in Resources : BecomeEligible(c) \/ ResourceChanges(c) \/ TaskCloses(c)
    \/ \E a \in Approvals :
          \/ revoke_production_approval(a)
          \/ \E c \in Resources : grant_production_approval(a, c)
    \/ \E r \in Requests : RequestStep(r)
    \/ Maintenance
    \/ Tick

Spec == Init /\ [][Next]_vars

-----------------------------------------------------------------------------
\* Properties

\* The markers, uq_rr_active_per_clarification and uq_rra_active_request agree
\* (request_resume: "its active-request unique index can never fire inside this
\* transaction"): while no marker is set, neither index holds a row, and each
\* holds at most one row per clarification.
SlotsAgree ==
    \A r \in Requests :
        LET holds(q) == request[q].state \in ActiveStates \/ ActiveAuth(q)
        IN  holds(r) =>
               /\ marker[request[r].resource] # "none"
               /\ \A q \in Requests \ {r} :
                     holds(q) => request[q].resource # request[r].resource

\* A command, a consumed authorization and, for a production effect, a consumed
\* approval of the same resource in the same version come together or not at
\* all, although they are three rows and any of the three writes can fail.
CommandsArePaidFor ==
    /\ \A r \in Requests :
          /\ r \in commands <=> auth[r].mark = "consumed"
          /\ r \in commands =>
                /\ auth[r].decision = "authorized"
                /\ NeedsApproval(r) => approval[auth[r].approval].user = r
    /\ \A a \in Approvals :
          /\ approval[a].state = "consumed" <=> approval[a].user # None
          /\ approval[a].user # None =>
                /\ approval[a].user \in commands
                /\ approval[a].resource = request[approval[a].user].resource
                /\ approval[a].version = request[approval[a].user].version

\* A command is created only for the state that was requested and authorized:
\* if the answer, the classification or the task changed since the request,
\* the authorization is stale and nothing is dispatched.
NoStaleDispatch ==
    [][\A r \in commands' \ commands :
          LET c == request[r].resource
          IN  /\ resource[c].version = request[r].version
              /\ ~resource[c].terminal
              /\ marker[c] = "authorized"]_vars

\* However requests are withdrawn and made again, a clarification has at most
\* one command that is being executed or has been executed.
AtMostOneResume ==
    \A c \in Resources :
        Cardinality({r \in commands : request[r].resource = c /\
                                      request[r].state \in {"execution_pending", "resumed"}}) <= 1

\* A request that has ended stays as it ended: resumed never becomes failed,
\* and recovery is always a new request.
EndsAreFinal ==
    [][\A r \in Requests : request[r].state \in TerminalStates =>
          request'[r].state = request[r].state]_vars
-----------------------------------------------------------------------------
\* An authorization as SingleUseGrant sees it: the matter is the clarification, the deed
\* its command.
Phase(r) ==
    CASE auth[r].decision = "absent" -> "none"
      [] auth[r].mark = "consumed"   -> "spent"
      [] ActiveAuth(r)               -> IF auth[r].decision = "pending" THEN "asked" ELSE "granted"
      [] OTHER                       -> "void"

Phases == [r \in Requests |-> Phase(r)]
Subjects == [r \in Requests |-> request[r].resource]
Resumed == {request[r].resource : r \in commands}

Grant == INSTANCE SingleUseGrant WITH
            Grants <- Requests, Matters <- Resources, None <- None,
            phase <- Phases, matter <- Subjects, acted <- Resumed

\* Whatever happens to requests, the clarification's authorizations keep the contract of
\* SingleUseGrant: one that can still be used, one deed for ever, and the command and the
\* end of the authorization that pays for it are one step.
ImplementsGrant == Grant!Spec
=============================================================================
