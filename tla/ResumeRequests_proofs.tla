----------------------- MODULE ResumeRequests_proofs -----------------------
(***************************************************************************)
(* Machine-checked proofs about ResumeRequests, for any number of          *)
(* clarifications, requests and approvals and any lifetime of a grant.     *)
(***************************************************************************)
EXTENDS ResumeRequests, FiniteSetTheorems, TLAPS

\* States of a request whose command has been created.
Dispatched == {"execution_pending", "resumed", "failed"}

\* How a request, its authorization and its command move together.
InStep(r) ==
    /\ request[r].state = "absent" <=> auth[r].decision = "absent"
    /\ request[r].state # "absent" => request[r].resource \in Resources
    /\ auth[r].decision = "pending" <=>
           request[r].state \in {"authorization_pending", "expired"}
    /\ auth[r].decision = "authorized" <=>
           request[r].state \in {"authorized"} \cup Dispatched
    /\ r \in commands <=> request[r].state \in Dispatched
    /\ r \in commands <=> auth[r].mark = "consumed"
    /\ request[r].state = "authorized" => marker[request[r].resource] = "authorized"

\* A request occupies its clarification while it is active, while its
\* authorization can still be used, and for ever once a command was created.
Occupies(r) ==
    \/ request[r].state \in ActiveStates
    \/ ActiveAuth(r)
    \/ r \in commands

\* The marker is the slot: it is set while a request occupies the clarification,
\* and no two requests do.
HoldsSlot(r) ==
    Occupies(r) =>
        /\ marker[request[r].resource] # "none"
        /\ \A q \in Requests \ {r} :
               Occupies(q) => request[q].resource # request[r].resource

\* What a command has been paid with.
Paid(r) ==
    (r \in commands /\ NeedsApproval(r)) =>
        /\ auth[r].approval \in Approvals
        /\ approval[auth[r].approval].user = r

\* An approval is spent by one command, for the resource and version it names.
SpentWell(a) ==
    /\ approval[a].state = "consumed" <=> approval[a].user # None
    /\ approval[a].user # None =>
          /\ approval[a].user \in commands
          /\ approval[a].resource = request[approval[a].user].resource
          /\ approval[a].version = request[approval[a].user].version

IInv ==
    /\ TypeOK
    /\ \A r \in Requests : InStep(r)
    /\ \A r \in Requests : HoldsSlot(r)
    /\ \A r \in Requests : Paid(r)
    /\ \A a \in Approvals : SpentWell(a)

-----------------------------------------------------------------------------
\* What a step need not disturb

LEMMA RequestFields ==
    ASSUME TypeOK, NEW r \in Requests
    PROVE  /\ request[r] \in RequestRow /\ auth[r] \in AuthRow
           /\ request[r].resource \in Resources \cup {None}
           /\ request[r].version \in 0..MaxVersion
           /\ auth[r].approval \in Approvals \cup {None}
           /\ auth[r].left \in 0..Lifetime
<1>1. request[r] \in RequestRow /\ auth[r] \in AuthRow
  BY DEF TypeOK
<1> QED
  BY <1>1 DEF RequestRow, AuthRow

LEMMA BoundsAreNat == MaxVersion \in Nat /\ Lifetime \in Nat /\ Lifetime > 0
BY ResumeAssumption

LEMMA NoneIsApart == None \notin Resources /\ None \notin Requests /\ None \notin Approvals
BY ResumeAssumption

\* No slot is lost when no request comes to occupy a clarification it did not
\* occupy before, no request moves, and the markers of the occupied ones stay set.
LEMMA SlotsKept ==
    ASSUME \A r \in Requests : HoldsSlot(r),
           \A r \in Requests : Occupies(r)' =>
               /\ Occupies(r)
               /\ request'[r].resource = request[r].resource
               /\ marker'[request[r].resource] # "none"
    PROVE  \A r \in Requests : HoldsSlot(r)'
<1> SUFFICES ASSUME NEW r \in Requests, Occupies(r)'
             PROVE  /\ marker'[request'[r].resource] # "none"
                    /\ \A q \in Requests \ {r} :
                          Occupies(q)' => request'[q].resource # request'[r].resource
  BY DEF HoldsSlot
<1>1. marker'[request'[r].resource] # "none"
  OBVIOUS
<1>2. ASSUME NEW q \in Requests \ {r}, Occupies(q)'
      PROVE  request'[q].resource # request'[r].resource
  <2>1. Occupies(q) /\ Occupies(r)
    BY <1>2
  <2>2. request[q].resource # request[r].resource
    BY <2>1 DEF HoldsSlot
  <2> QED
    BY <1>2, <2>2
<1> QED
  BY <1>1, <1>2

\* Payments stay valid while no command and no approval changes and the paid
\* requests keep what they name.
LEMMA PaymentsKept ==
    ASSUME \A r \in Requests : Paid(r),
           \A a \in Approvals : SpentWell(a),
           commands \subseteq Requests,
           commands' = commands, approval' = approval,
           \A r \in commands : /\ request'[r].resource = request[r].resource
                               /\ request'[r].version = request[r].version
                               /\ auth'[r].approval = auth[r].approval
    PROVE  /\ \A r \in Requests : Paid(r)'
           /\ \A a \in Approvals : SpentWell(a)'
<1>1. \A r \in Requests : Paid(r)'
  BY DEF Paid, NeedsApproval
<1>2. \A a \in Approvals : SpentWell(a)'
  BY DEF SpentWell
<1> QED
  BY <1>1, <1>2

-----------------------------------------------------------------------------
\* Steps of the rest of the system: only resource changes

LEMMA ResourceSteps ==
    ASSUME IInv, NEW c \in Resources,
           BecomeEligible(c) \/ ResourceChanges(c) \/ TaskCloses(c)
    PROVE  IInv'
<1>1. UNCHANGED <<marker, request, auth, approval, commands>>
  BY DEF BecomeEligible, ResourceChanges, TaskCloses
<1>2. resource' \in [Resources -> ResourceRow]
  <2>1. resource \in [Resources -> ResourceRow]
    BY DEF IInv, TypeOK
  <2>2. CASE BecomeEligible(c)
    BY <2>1, <2>2 DEF BecomeEligible, ResourceRow
  <2>3. CASE ResourceChanges(c)
    BY <2>1, <2>3 DEF ResourceChanges, ResourceRow
  <2>4. CASE TaskCloses(c)
    BY <2>1, <2>4 DEF TaskCloses, ResourceRow
  <2> QED
    BY <2>2, <2>3, <2>4
<1>3. TypeOK'
  BY <1>1, <1>2 DEF IInv, TypeOK
<1>4. \A r \in Requests : InStep(r)'
  BY <1>1 DEF IInv, InStep
<1>5. \A r \in Requests : HoldsSlot(r)'
  BY <1>1 DEF IInv, HoldsSlot, Occupies, ActiveAuth
<1>6. \A r \in Requests : Paid(r)'
  BY <1>1 DEF IInv, Paid, NeedsApproval
<1>7. \A a \in Approvals : SpentWell(a)'
  BY <1>1 DEF IInv, SpentWell
<1> QED
  BY <1>3, <1>4, <1>5, <1>6, <1>7 DEF IInv

-----------------------------------------------------------------------------
\* Grants: only approval changes

\* An approval that was not granted to anyone is nobody's payment.
LEMMA ApprovalSteps ==
    ASSUME IInv, NEW a \in Approvals, NEW row \in ApprovalRow,
           approval' = [approval EXCEPT ![a] = row],
           UNCHANGED <<resource, marker, request, auth, commands>>,
           approval[a].user = None, row.user = None, row.state # "consumed"
    PROVE  IInv'
<1>1. TypeOK'
  BY DEF IInv, TypeOK
<1>2. \A r \in Requests : InStep(r)'
  BY DEF IInv, InStep
<1>3. \A r \in Requests : HoldsSlot(r)'
  BY DEF IInv, HoldsSlot, Occupies, ActiveAuth
<1>4. approval \in [Approvals -> ApprovalRow]
  BY DEF IInv, TypeOK
<1>5. \A r \in Requests : Paid(r)'
  <2> SUFFICES ASSUME NEW r \in Requests, r \in commands, NeedsApproval(r)
               PROVE  /\ auth[r].approval \in Approvals
                      /\ approval'[auth[r].approval].user = r
    BY DEF Paid, NeedsApproval
  <2>1. auth[r].approval \in Approvals /\ approval[auth[r].approval].user = r
    BY DEF IInv, Paid
  <2>2. auth[r].approval # a
    BY <2>1, NoneIsApart
  <2> QED
    BY <1>4, <2>1, <2>2
<1>6. \A b \in Approvals : SpentWell(b)'
  BY <1>4 DEF IInv, SpentWell
<1> QED
  BY <1>1, <1>2, <1>3, <1>5, <1>6 DEF IInv

LEMMA GrantSteps ==
    ASSUME IInv, NEW a \in Approvals,
           \/ revoke_production_approval(a)
           \/ \E c \in Resources : grant_production_approval(a, c)
    PROVE  IInv'
<1>1. /\ approval \in [Approvals -> ApprovalRow] /\ resource \in [Resources -> ResourceRow]
      /\ SpentWell(a)
  BY DEF IInv, TypeOK
<1>2. CASE revoke_production_approval(a)
  <2> DEFINE row == [state |-> "revoked", resource |-> approval[a].resource,
                     version |-> approval[a].version, user |-> approval[a].user,
                     left |-> approval[a].left]
  <2>1. [approval[a] EXCEPT !.state = "revoked"] = row
    BY <1>1 DEF ApprovalRow
  <2>2. approval' = [approval EXCEPT ![a] = row]
    BY <1>2, <2>1 DEF revoke_production_approval
  <2>3. approval[a].user = None
    BY <1>1, <1>2 DEF revoke_production_approval, SpentWell
  <2>4. row \in ApprovalRow
    BY <1>1 DEF ApprovalRow
  <2>5. UNCHANGED <<resource, marker, request, auth, commands>>
    BY <1>2 DEF revoke_production_approval
  <2>6. row.user = None /\ row.state # "consumed"
    BY <2>3
  <2> HIDE DEF row
  <2> QED
    BY <2>2, <2>3, <2>4, <2>5, <2>6, ApprovalSteps
<1>3. ASSUME NEW c \in Resources, grant_production_approval(a, c)
      PROVE  IInv'
  <2> DEFINE row == [state |-> "granted", resource |-> c, version |-> resource[c].version,
                     user |-> None, left |-> Lifetime]
  <2>1. approval' = [approval EXCEPT ![a] = row]
    BY <1>3 DEF grant_production_approval
  <2>2. approval[a].user = None
    BY <1>1, <1>3 DEF grant_production_approval, SpentWell
  <2>3. row \in ApprovalRow
    <3>1. resource[c].version \in 0..MaxVersion
      BY <1>1 DEF ResourceRow
    <3> QED
      BY <3>1, BoundsAreNat DEF ApprovalRow
  <2>4. UNCHANGED <<resource, marker, request, auth, commands>>
    BY <1>3 DEF grant_production_approval
  <2>5. row.user = None /\ row.state # "consumed"
    OBVIOUS
  <2> HIDE DEF row
  <2> QED
    BY <2>1, <2>2, <2>3, <2>4, <2>5, ApprovalSteps
<1> QED
  BY <1>2, <1>3

-----------------------------------------------------------------------------
\* Authorizations: revocation, expiry and the passing of time

\* A step that only takes authorizations away, or lets them age, keeps IInv.
LEMMA AuthOnlySteps ==
    ASSUME IInv, auth' \in [Requests -> AuthRow],
           UNCHANGED <<resource, marker, request, commands, approval>>,
           \A r \in Requests :
              /\ auth'[r].decision = auth[r].decision
              /\ auth'[r].approval = auth[r].approval
              /\ \/ auth'[r].mark = auth[r].mark
                 \/ auth[r].mark = "none" /\ auth'[r].mark \in {"revoked", "expired"}
    PROVE  IInv'
<1>1. TypeOK'
  BY DEF IInv, TypeOK
<1>2. \A r \in Requests : InStep(r)'
  BY DEF IInv, InStep
<1>3. \A r \in Requests : HoldsSlot(r)'
  <2>1. \A r \in Requests : HoldsSlot(r)
    BY DEF IInv
  <2>2. \A r \in Requests : Occupies(r)' => Occupies(r)
    BY DEF Occupies, ActiveAuth
  <2>3. \A r \in Requests : Occupies(r)' => marker'[request[r].resource] # "none"
    BY <2>1, <2>2 DEF HoldsSlot
  <2> QED
    BY <2>1, <2>2, <2>3, SlotsKept
<1>4. /\ \A r \in Requests : Paid(r)'
      /\ \A a \in Approvals : SpentWell(a)'
  <2>1. commands \subseteq Requests
    BY DEF IInv, TypeOK
  <2> QED
    BY <2>1, PaymentsKept DEF IInv
<1> QED
  BY <1>1, <1>2, <1>3, <1>4 DEF IInv

LEMMA RevocationSteps ==
    ASSUME IInv, (\E r \in Requests : revoke(r)) \/ expire_due_authorizations
    PROVE  IInv'
<1>1. auth \in [Requests -> AuthRow]
  BY DEF IInv, TypeOK
<1> DEFINE marked(q, m) == [decision |-> auth[q].decision, mark |-> m,
                            approval |-> auth[q].approval, left |-> auth[q].left]
<1>2. ASSUME NEW q \in Requests, NEW m \in {"revoked", "expired"}
      PROVE  /\ [auth[q] EXCEPT !.mark = m] = marked(q, m)
             /\ marked(q, m) \in AuthRow
  BY <1>1 DEF AuthRow
<1>3. CASE \E r \in Requests : revoke(r)
  <2> PICK r \in Requests : revoke(r)
    BY <1>3
  <2>1. auth' = [auth EXCEPT ![r] = marked(r, "revoked")]
    BY <1>2 DEF revoke
  <2>2. /\ auth[r].mark = "none"
        /\ UNCHANGED <<resource, marker, request, commands, approval>>
    BY DEF revoke
  <2>3. auth' \in [Requests -> AuthRow]
    BY <1>1, <1>2, <2>1
  <2>4. \A q \in Requests :
           /\ auth'[q].decision = auth[q].decision
           /\ auth'[q].approval = auth[q].approval
           /\ \/ auth'[q].mark = auth[q].mark
              \/ auth[q].mark = "none" /\ auth'[q].mark \in {"revoked", "expired"}
    BY <1>1, <2>1, <2>2
  <2> HIDE DEF marked
  <2> QED
    BY <2>2, <2>3, <2>4, AuthOnlySteps
<1>4. CASE expire_due_authorizations
  <2>1. auth' = [q \in Requests |-> IF ActiveAuth(q) /\ auth[q].left = 0
                                    THEN marked(q, "expired") ELSE auth[q]]
    BY <1>2, <1>4 DEF expire_due_authorizations
  <2>2. UNCHANGED <<resource, marker, request, commands, approval>>
    BY <1>4 DEF expire_due_authorizations
  <2>3. auth' \in [Requests -> AuthRow]
    <3>1. \A q \in Requests : auth[q] \in AuthRow /\ marked(q, "expired") \in AuthRow
      BY <1>1, <1>2
    <3> HIDE DEF marked
    <3> QED
      BY <2>1, <3>1
  <2>4. \A q \in Requests :
           /\ auth'[q].decision = auth[q].decision
           /\ auth'[q].approval = auth[q].approval
           /\ \/ auth'[q].mark = auth[q].mark
              \/ auth[q].mark = "none" /\ auth'[q].mark \in {"revoked", "expired"}
    BY <2>1 DEF ActiveAuth
  <2> HIDE DEF marked
  <2> QED
    BY <2>2, <2>3, <2>4, AuthOnlySteps
<1> QED
  BY <1>3, <1>4

\* Time moves expires_at nearer and nothing else.
LEMMA TickStep ==
    ASSUME IInv, Tick
    PROVE  IInv'
<1> DEFINE less(n) == IF n > 0 THEN n - 1 ELSE 0
           olderAuth(q) == [decision |-> auth[q].decision, mark |-> auth[q].mark,
                            approval |-> auth[q].approval, left |-> less(auth[q].left)]
           olderApproval(a) == [state |-> approval[a].state,
                                resource |-> approval[a].resource,
                                version |-> approval[a].version,
                                user |-> approval[a].user, left |-> less(approval[a].left)]
<1>1. /\ auth \in [Requests -> AuthRow] /\ approval \in [Approvals -> ApprovalRow]
      /\ UNCHANGED <<resource, marker, request, commands>>
  BY DEF IInv, TypeOK, Tick
<1>2. \A n \in 0..Lifetime : less(n) \in 0..Lifetime
  BY BoundsAreNat
<1>3. auth' = [q \in Requests |-> olderAuth(q)]
  <2>1. \A q \in Requests :
          [auth[q] EXCEPT !.left = IF @ > 0 THEN @ - 1 ELSE 0] = olderAuth(q)
    BY <1>1 DEF AuthRow
  <2> HIDE DEF olderAuth
  <2> QED
    BY <2>1 DEF Tick
<1>4. approval' = [a \in Approvals |-> olderApproval(a)]
  <2>1. \A a \in Approvals :
          [approval[a] EXCEPT !.left = IF @ > 0 THEN @ - 1 ELSE 0] = olderApproval(a)
    BY <1>1 DEF ApprovalRow
  <2> HIDE DEF olderApproval
  <2> QED
    BY <2>1 DEF Tick
<1> HIDE DEF less
<1>5. \A q \in Requests : olderAuth(q) \in AuthRow
  BY <1>1, <1>2 DEF AuthRow
<1>6. \A a \in Approvals : olderApproval(a) \in ApprovalRow
  BY <1>1, <1>2 DEF ApprovalRow
<1>7. \A q \in Requests : /\ auth'[q].decision = auth[q].decision
                          /\ auth'[q].mark = auth[q].mark
                          /\ auth'[q].approval = auth[q].approval
  BY <1>3
<1>8. \A a \in Approvals : /\ approval'[a].state = approval[a].state
                           /\ approval'[a].resource = approval[a].resource
                           /\ approval'[a].version = approval[a].version
                           /\ approval'[a].user = approval[a].user
  BY <1>4
<1>9. auth' \in [Requests -> AuthRow] /\ approval' \in [Approvals -> ApprovalRow]
  <2> HIDE DEF olderAuth, olderApproval
  <2> QED
    BY <1>3, <1>4, <1>5, <1>6
<1> HIDE DEF olderAuth, olderApproval
<1>10. TypeOK'
  BY <1>1, <1>9 DEF IInv, TypeOK
<1>11. \A r \in Requests : InStep(r)'
  BY <1>1, <1>7 DEF IInv, InStep
<1>12. \A r \in Requests : HoldsSlot(r)'
  BY <1>1, <1>7 DEF IInv, HoldsSlot, Occupies, ActiveAuth
<1>13. \A r \in Requests : Paid(r)'
  BY <1>1, <1>7, <1>8 DEF IInv, Paid, NeedsApproval
<1>14. \A a \in Approvals : SpentWell(a)'
  BY <1>1, <1>8 DEF IInv, SpentWell
<1> QED
  BY <1>10, <1>11, <1>12, <1>13, <1>14 DEF IInv

-----------------------------------------------------------------------------
\* Steps of one request

\* Decisions and confirmations: the request occupies its clarification before
\* the step, keeps what it names, and only the marker of its own clarification
\* changes; no other request can occupy that one.
LEMMA DecisionKeeps ==
    ASSUME IInv, NEW r \in Requests, Occupies(r),
           request' \in [Requests -> RequestRow], auth' \in [Requests -> AuthRow],
           marker' \in [Resources -> {"none", "requested", "authorized"}],
           UNCHANGED <<resource, approval, commands>>,
           \A q \in Requests \ {r} : request'[q] = request[q] /\ auth'[q] = auth[q],
           request'[r].resource = request[r].resource,
           request'[r].version = request[r].version,
           auth'[r].approval = auth[r].approval,
           \A c \in Resources \ {request[r].resource} : marker'[c] = marker[c],
           Occupies(r)' => marker'[request[r].resource] # "none",
           InStep(r)'
    PROVE  IInv'
<1>1. TypeOK'
  BY DEF IInv, TypeOK
<1>2. \A q \in Requests : InStep(q) /\ HoldsSlot(q)
  BY DEF IInv
<1>3. \A q \in Requests \ {r} : Occupies(q) =>
          request[q].resource \in Resources \ {request[r].resource}
  <2> SUFFICES ASSUME NEW q \in Requests \ {r}, Occupies(q)
               PROVE  request[q].resource \in Resources \ {request[r].resource}
    OBVIOUS
  <2>1. request[q].resource # request[r].resource
    BY <1>2 DEF HoldsSlot
  <2>2. request[q].state # "absent"
    BY <1>2 DEF InStep, Occupies, ActiveStates, ActiveAuth, Dispatched
  <2> QED
    BY <1>2, <2>1, <2>2 DEF InStep
<1>4. \A q \in Requests : InStep(q)'
  <2> SUFFICES ASSUME NEW q \in Requests \ {r} PROVE InStep(q)'
    OBVIOUS
  <2>1. request'[q] = request[q] /\ auth'[q] = auth[q] /\ InStep(q)
    BY <1>2
  <2>2. request[q].state = "authorized" =>
            marker'[request[q].resource] = marker[request[q].resource]
    BY <1>3 DEF Occupies, ActiveStates
  <2> QED
    BY <2>1, <2>2 DEF InStep
<1>5. \A q \in Requests : HoldsSlot(q)'
  <2>1. \A q \in Requests \ {r} : Occupies(q)' => Occupies(q)
    BY DEF Occupies, ActiveAuth
  <2>2. \A q \in Requests \ {r} : Occupies(q) => marker[request[q].resource] # "none"
    BY <1>2 DEF HoldsSlot
  <2>3. \A q \in Requests \ {r} : Occupies(q) => marker'[request[q].resource] # "none"
    BY <1>3, <2>2
  <2>4. \A q \in Requests : Occupies(q)' =>
            /\ Occupies(q)
            /\ request'[q].resource = request[q].resource
            /\ marker'[request[q].resource] # "none"
    BY <2>1, <2>3
  <2> QED
    BY <1>2, <2>4, SlotsKept
<1>6. /\ \A q \in Requests : Paid(q)'
      /\ \A a \in Approvals : SpentWell(a)'
  <2>1. /\ \A q \in Requests : Paid(q)
        /\ \A a \in Approvals : SpentWell(a)
        /\ commands \subseteq Requests
    BY DEF IInv, TypeOK
  <2>2. \A q \in commands : /\ request'[q].resource = request[q].resource
                            /\ request'[q].version = request[q].version
                            /\ auth'[q].approval = auth[q].approval
    BY <2>1
  <2> QED
    BY <2>1, <2>2, PaymentsKept
<1> QED
  BY <1>1, <1>4, <1>5, <1>6 DEF IInv

\* The rows of request r after a change of its state or its decision.
Moved(r, s) == [state |-> s, resource |-> request[r].resource, version |-> request[r].version]

Decided(r, d) == [decision |-> d, mark |-> auth[r].mark,
                  approval |-> auth[r].approval, left |-> auth[r].left]

LEMMA MovedRows ==
    ASSUME TypeOK, NEW r \in Requests
    PROVE  /\ \A s \in ActiveStates \cup TerminalStates :
                 /\ [request[r] EXCEPT !.state = s] = Moved(r, s)
                 /\ Moved(r, s) \in RequestRow
           /\ \A d \in {"authorized", "rejected", "canceled"} :
                 /\ [auth[r] EXCEPT !.decision = d] = Decided(r, d)
                 /\ Decided(r, d) \in AuthRow
<1>1. request[r] \in RequestRow /\ auth[r] \in AuthRow
  BY RequestFields
<1>2. \A s \in ActiveStates \cup TerminalStates :
         /\ [request[r] EXCEPT !.state = s] = Moved(r, s)
         /\ Moved(r, s) \in RequestRow
  BY <1>1 DEF RequestRow, Moved
<1>3. \A d \in {"authorized", "rejected", "canceled"} :
         /\ [auth[r] EXCEPT !.decision = d] = Decided(r, d)
         /\ Decided(r, d) \in AuthRow
  BY <1>1 DEF AuthRow, Decided
<1> QED
  BY <1>2, <1>3

LEMMA AuthorizeStep ==
    ASSUME IInv, NEW r \in Requests, authorize_resume(r)
    PROVE  IInv'
<1>1. TypeOK /\ InStep(r)
  BY DEF IInv
<1>2. request[r].state = "authorization_pending" /\ request[r].resource \in Resources
  BY <1>1 DEF InStep, authorize_resume
<1>3. /\ request' = [request EXCEPT ![r] = Moved(r, "authorized")]
      /\ auth' = [auth EXCEPT ![r] = Decided(r, "authorized")]
      /\ Moved(r, "authorized") \in RequestRow /\ Decided(r, "authorized") \in AuthRow
  BY <1>1, MovedRows DEF authorize_resume, ActiveStates
<1>4. marker' = [marker EXCEPT ![request[r].resource] = "authorized"]
  BY DEF authorize_resume
<1>5. /\ request \in [Requests -> RequestRow] /\ auth \in [Requests -> AuthRow]
      /\ marker \in [Resources -> {"none", "requested", "authorized"}]
  BY <1>1 DEF TypeOK
<1>6. /\ request' \in [Requests -> RequestRow] /\ auth' \in [Requests -> AuthRow]
      /\ marker' \in [Resources -> {"none", "requested", "authorized"}]
  BY <1>3, <1>4, <1>5
<1>7. /\ request'[r] = Moved(r, "authorized") /\ auth'[r] = Decided(r, "authorized")
      /\ marker'[request[r].resource] = "authorized"
      /\ \A q \in Requests \ {r} : request'[q] = request[q] /\ auth'[q] = auth[q]
      /\ \A c \in Resources \ {request[r].resource} : marker'[c] = marker[c]
  BY <1>2, <1>3, <1>4, <1>5
<1>8. UNCHANGED <<resource, approval, commands>>
  BY DEF authorize_resume
<1>9. InStep(r)'
  BY <1>1, <1>2, <1>7, <1>8 DEF InStep, Moved, Decided, Dispatched
<1>10. Occupies(r)
  BY <1>2 DEF Occupies, ActiveStates
<1>11. /\ request'[r].resource = request[r].resource
       /\ request'[r].version = request[r].version
       /\ auth'[r].approval = auth[r].approval
  BY <1>7 DEF Moved, Decided
<1> QED
  BY <1>6, <1>7, <1>8, <1>9, <1>10, <1>11, DecisionKeeps

LEMMA WithdrawStep ==
    ASSUME IInv, NEW r \in Requests, NEW d \in {"rejected", "canceled"}, Withdraw(r, d)
    PROVE  IInv'
<1>1. TypeOK /\ InStep(r)
  BY DEF IInv
<1>2. request[r].state = "authorization_pending" /\ request[r].resource \in Resources
  BY <1>1 DEF InStep, Withdraw
<1>3. /\ request' = [request EXCEPT ![r] = Moved(r, d)]
      /\ auth' = [auth EXCEPT ![r] = Decided(r, d)]
      /\ Moved(r, d) \in RequestRow /\ Decided(r, d) \in AuthRow
  BY <1>1, MovedRows DEF Withdraw, TerminalStates
<1>4. marker' = [marker EXCEPT ![request[r].resource] = "none"]
  BY DEF Withdraw
<1>5. /\ request \in [Requests -> RequestRow] /\ auth \in [Requests -> AuthRow]
      /\ marker \in [Resources -> {"none", "requested", "authorized"}]
  BY <1>1 DEF TypeOK
<1>6. /\ request' \in [Requests -> RequestRow] /\ auth' \in [Requests -> AuthRow]
      /\ marker' \in [Resources -> {"none", "requested", "authorized"}]
  BY <1>3, <1>4, <1>5
<1>7. /\ request'[r] = Moved(r, d) /\ auth'[r] = Decided(r, d)
      /\ \A q \in Requests \ {r} : request'[q] = request[q] /\ auth'[q] = auth[q]
      /\ \A c \in Resources \ {request[r].resource} : marker'[c] = marker[c]
  BY <1>2, <1>3, <1>4, <1>5
<1>8. UNCHANGED <<resource, approval, commands>>
  BY DEF Withdraw
<1>9. InStep(r)'
  BY <1>1, <1>2, <1>7, <1>8 DEF InStep, Moved, Decided, Dispatched
<1>10. Occupies(r)
  BY <1>2 DEF Occupies, ActiveStates
<1>11. ~Occupies(r)'
  <2>1. request'[r].state \notin ActiveStates /\ auth'[r].decision \notin {"pending", "authorized"}
    BY <1>7 DEF Moved, Decided, ActiveStates
  <2>2. r \notin commands'
    BY <1>1, <1>2, <1>8 DEF InStep, Dispatched
  <2> QED
    BY <2>1, <2>2 DEF Occupies, ActiveAuth
<1>12. /\ request'[r].resource = request[r].resource
       /\ request'[r].version = request[r].version
       /\ auth'[r].approval = auth[r].approval
  BY <1>7 DEF Moved, Decided
<1> QED
  BY <1>6, <1>7, <1>8, <1>9, <1>10, <1>11, <1>12, DecisionKeeps

LEMMA ConfirmSteps ==
    ASSUME IInv, NEW r \in Requests, confirm_resumed(r) \/ confirm_failed(r)
    PROVE  IInv'
<1>1. TypeOK /\ InStep(r) /\ HoldsSlot(r)
  BY DEF IInv
<1>2. PICK s \in {"resumed", "failed"} : request' = [request EXCEPT ![r].state = s]
  BY DEF confirm_resumed, confirm_failed
<1>3. request[r].state = "execution_pending" /\ request[r].resource \in Resources
  BY <1>1 DEF InStep, confirm_resumed, confirm_failed
<1>4. request' = [request EXCEPT ![r] = Moved(r, s)] /\ Moved(r, s) \in RequestRow
  BY <1>1, <1>2, MovedRows DEF TerminalStates
<1>5. UNCHANGED <<resource, marker, auth, approval, commands>>
  BY DEF confirm_resumed, confirm_failed
<1>6. /\ request \in [Requests -> RequestRow] /\ auth \in [Requests -> AuthRow]
      /\ marker \in [Resources -> {"none", "requested", "authorized"}]
  BY <1>1 DEF TypeOK
<1>7. /\ request' \in [Requests -> RequestRow] /\ request'[r] = Moved(r, s)
      /\ \A q \in Requests \ {r} : request'[q] = request[q]
  BY <1>4, <1>6
<1>8. InStep(r)'
  BY <1>1, <1>3, <1>5, <1>7 DEF InStep, Moved, Dispatched
<1>9. Occupies(r) /\ marker[request[r].resource] # "none"
  BY <1>1, <1>3 DEF Occupies, ActiveStates, HoldsSlot
<1>10. request'[r].resource = request[r].resource /\ request'[r].version = request[r].version
  BY <1>7 DEF Moved
<1> QED
  BY <1>5, <1>6, <1>7, <1>8, <1>9, <1>10, DecisionKeeps

\* The batch expiry ends requests that wait for a decision and keeps everything else.
LEMMA ExpireRequestsStep ==
    ASSUME IInv, expire_due_requests
    PROVE  IInv'
<1>1. TypeOK /\ \A r \in Requests : InStep(r) /\ HoldsSlot(r)
  BY DEF IInv
<1>2. \A r \in Requests : Due(r) => request[r].state = "authorization_pending"
  BY DEF expire_due_requests
<1>3. /\ UNCHANGED <<resource, marker, auth, approval, commands>>
      /\ request' = [r \in Requests |-> IF Due(r) THEN Moved(r, "expired") ELSE request[r]]
  BY <1>1, MovedRows DEF expire_due_requests, TerminalStates
<1>4. request \in [Requests -> RequestRow]
  BY <1>1 DEF TypeOK
<1>5. request' \in [Requests -> RequestRow]
  <2>1. \A r \in Requests : Moved(r, "expired") \in RequestRow /\ request[r] \in RequestRow
    BY <1>1, <1>4, MovedRows DEF TerminalStates
  <2> QED
    BY <1>3, <2>1
<1>6. \A r \in Requests :
         /\ request'[r].resource = request[r].resource
         /\ request'[r].version = request[r].version
         /\ \/ request'[r].state = request[r].state
            \/ request[r].state = "authorization_pending" /\ request'[r].state = "expired"
  BY <1>2, <1>3 DEF Moved
<1>7. TypeOK'
  BY <1>1, <1>3, <1>5 DEF TypeOK
<1>8. \A r \in Requests : InStep(r)'
  BY <1>1, <1>3, <1>6 DEF InStep, Dispatched
<1>9. \A r \in Requests : HoldsSlot(r)'
  <2>1. \A r \in Requests : Occupies(r)' => Occupies(r)
    BY <1>3, <1>6 DEF Occupies, ActiveAuth, ActiveStates
  <2>2. \A r \in Requests : Occupies(r) => marker[request[r].resource] # "none"
    BY <1>1 DEF HoldsSlot
  <2> QED
    BY <1>1, <1>3, <1>6, <2>1, <2>2, SlotsKept
<1>10. /\ \A r \in Requests : Paid(r)'
       /\ \A a \in Approvals : SpentWell(a)'
  <2>1. /\ \A r \in Requests : Paid(r)
        /\ \A a \in Approvals : SpentWell(a)
        /\ commands \subseteq Requests
    BY DEF IInv, TypeOK
  <2>2. \A r \in commands : /\ request'[r].resource = request[r].resource
                            /\ request'[r].version = request[r].version
                            /\ auth'[r].approval = auth[r].approval
    BY <1>3, <1>6, <2>1
  <2> QED
    BY <1>3, <2>1, <2>2, PaymentsKept
<1> QED
  BY <1>7, <1>8, <1>9, <1>10 DEF IInv

\* A new request takes a slot whose marker is clear, so nobody occupies it.
LEMMA RequestResumeStep ==
    ASSUME IInv, NEW r \in Requests, NEW c \in Resources, NEW a \in Approvals \cup {None},
           request_resume(r, c, a)
    PROVE  IInv'
<1> DEFINE row == [state |-> "authorization_pending", resource |-> c,
                   version |-> resource[c].version]
           right == [decision |-> "pending", mark |-> "none", approval |-> a, left |-> Lifetime]
<1>1. /\ TypeOK /\ \A q \in Requests : InStep(q) /\ HoldsSlot(q)
      /\ \A q \in Requests : Paid(q)
      /\ \A b \in Approvals : SpentWell(b)
  BY DEF IInv
<1>2. /\ request[r].state = "absent" /\ marker[c] = "none"
      /\ request' = [request EXCEPT ![r] = row] /\ auth' = [auth EXCEPT ![r] = right]
      /\ marker' = [marker EXCEPT ![c] = "requested"]
      /\ UNCHANGED <<resource, approval, commands>>
  BY DEF request_resume
<1>3. /\ request \in [Requests -> RequestRow] /\ auth \in [Requests -> AuthRow]
      /\ marker \in [Resources -> {"none", "requested", "authorized"}]
      /\ resource \in [Resources -> ResourceRow] /\ commands \subseteq Requests
  BY <1>1 DEF TypeOK
<1>4. row \in RequestRow /\ right \in AuthRow
  <2>1. resource[c].version \in 0..MaxVersion
    BY <1>3 DEF ResourceRow
  <2> QED
    BY <2>1, BoundsAreNat DEF RequestRow, AuthRow, ActiveStates
<1>5. /\ row.state = "authorization_pending" /\ row.resource = c
      /\ right.decision = "pending" /\ right.mark = "none"
  OBVIOUS
<1> HIDE DEF row, right
<1>6. TypeOK'
  BY <1>1, <1>2, <1>3, <1>4 DEF TypeOK
<1>7. /\ request'[r] = row /\ auth'[r] = right /\ marker'[c] = "requested"
      /\ \A q \in Requests \ {r} : request'[q] = request[q] /\ auth'[q] = auth[q]
      /\ \A d \in Resources \ {c} : marker'[d] = marker[d]
  BY <1>2, <1>3
<1>8. r \notin commands
  BY <1>1, <1>2 DEF InStep, Dispatched
<1>9. \A q \in Requests : Occupies(q) => request[q].resource \in Resources \ {c}
  <2> SUFFICES ASSUME NEW q \in Requests, Occupies(q)
               PROVE  request[q].resource \in Resources \ {c}
    OBVIOUS
  <2>1. request[q].state # "absent"
    BY <1>1 DEF InStep, Occupies, ActiveStates, ActiveAuth, Dispatched
  <2>2. marker[request[q].resource] # "none"
    BY <1>1 DEF HoldsSlot
  <2> QED
    BY <1>1, <1>2, <2>1, <2>2 DEF InStep
<1>10. \A q \in Requests : InStep(q)'
  <2>1. InStep(r)'
    BY <1>2, <1>5, <1>7, <1>8 DEF InStep, Dispatched
  <2>2. ASSUME NEW q \in Requests \ {r} PROVE InStep(q)'
    <3>1. request'[q] = request[q] /\ auth'[q] = auth[q] /\ InStep(q)
      BY <1>1, <1>7
    <3>2. request[q].state = "authorized" =>
              marker'[request[q].resource] = marker[request[q].resource]
      BY <1>7, <1>9 DEF Occupies, ActiveStates
    <3> QED
      BY <1>2, <3>1, <3>2 DEF InStep
  <2> QED
    BY <2>1, <2>2
<1>11. \A q \in Requests \ {r} : Occupies(q)' => Occupies(q)
  BY <1>2, <1>7 DEF Occupies, ActiveAuth
<1>12. \A q \in Requests : HoldsSlot(q)'
  <2>1. HoldsSlot(r)'
    <3>1. \A q \in Requests \ {r} : Occupies(q)' => request'[q].resource # c
      BY <1>7, <1>9, <1>11
    <3> QED
      BY <1>5, <1>7, <3>1 DEF HoldsSlot
  <2>2. ASSUME NEW q \in Requests \ {r}, Occupies(q)'
        PROVE  /\ marker'[request'[q].resource] # "none"
               /\ \A p \in Requests \ {q} :
                     Occupies(p)' => request'[p].resource # request'[q].resource
    <3>1. Occupies(q) /\ request'[q] = request[q] /\ request[q].resource \in Resources \ {c}
      BY <1>7, <1>9, <1>11, <2>2
    <3>2. marker'[request'[q].resource] # "none"
      BY <1>1, <1>7, <3>1 DEF HoldsSlot
    <3>3. ASSUME NEW p \in Requests \ {q}, Occupies(p)'
          PROVE  request'[p].resource # request'[q].resource
      <4>1. CASE p = r
        BY <1>5, <1>7, <3>1, <4>1
      <4>2. CASE p # r
        <5>1. Occupies(p) /\ request'[p] = request[p]
          BY <1>7, <1>11, <3>3, <4>2
        <5>2. request[p].resource # request[q].resource
          BY <1>1, <3>1, <5>1 DEF HoldsSlot
        <5> QED
          BY <3>1, <5>1, <5>2
      <4> QED
        BY <4>1, <4>2
    <3> QED
      BY <3>2, <3>3
  <2>3. \A q \in Requests \ {r} : HoldsSlot(q)'
    BY <2>2 DEF HoldsSlot
  <2> QED
    BY <2>1, <2>3
<1>13. /\ \A q \in Requests : Paid(q)'
       /\ \A b \in Approvals : SpentWell(b)'
  <2>1. \A q \in commands : /\ request'[q].resource = request[q].resource
                            /\ request'[q].version = request[q].version
                            /\ auth'[q].approval = auth[q].approval
    BY <1>3, <1>7, <1>8
  <2> QED
    BY <1>1, <1>2, <1>3, <2>1, PaymentsKept
<1> QED
  BY <1>6, <1>10, <1>12, <1>13 DEF IInv

\* What prepare_execution writes to the approval it uses, if it uses one.
Spent(a, r) == [state |-> "consumed", resource |-> approval[a].resource,
                version |-> approval[a].version, user |-> r, left |-> approval[a].left]

Used(r) == [decision |-> auth[r].decision, mark |-> "consumed",
            approval |-> auth[r].approval, left |-> auth[r].left]

\* The dispatch pays for its own command and spends no other command's approval.
LEMMA PaymentsAfterDispatch ==
    ASSUME IInv, NEW r \in Requests,
           r \notin commands, commands' = commands \cup {r},
           \A q \in Requests : /\ request'[q].resource = request[q].resource
                               /\ request'[q].version = request[q].version
                               /\ auth'[q].approval = auth[q].approval,
           \/ /\ NeedsApproval(r) /\ ApprovalFits(auth[r].approval, r)
              /\ approval' = [approval EXCEPT ![auth[r].approval] = Spent(auth[r].approval, r)]
           \/ ~NeedsApproval(r) /\ approval' = approval
    PROVE  /\ \A q \in Requests : Paid(q)'
           /\ \A a \in Approvals : SpentWell(a)'
<1>1. /\ TypeOK /\ \A q \in Requests : Paid(q)
      /\ \A a \in Approvals : SpentWell(a)
  BY DEF IInv
<1>2. approval \in [Approvals -> ApprovalRow] /\ auth[r].approval \in Approvals \cup {None}
      /\ commands \subseteq Requests
  BY <1>1, RequestFields DEF TypeOK
<1>3. \A q \in Requests : NeedsApproval(q)' <=> NeedsApproval(q)
  BY DEF NeedsApproval
<1>4. CASE /\ NeedsApproval(r) /\ ApprovalFits(auth[r].approval, r)
           /\ approval' = [approval EXCEPT ![auth[r].approval] = Spent(auth[r].approval, r)]
  <2> DEFINE b == auth[r].approval
  <2>1. /\ b \in Approvals /\ approval[b].state = "granted"
        /\ approval[b].resource = request[r].resource
        /\ approval[b].version = request[r].version
    BY <1>2, <1>4 DEF ApprovalFits
  <2>2. approval[b].user = None
    BY <1>1, <2>1 DEF SpentWell
  <2>3. approval'[b] = Spent(b, r) /\ \A a \in Approvals \ {b} : approval'[a] = approval[a]
    BY <1>2, <1>4, <2>1
  <2>4. \A q \in Requests : Paid(q)'
    <3>1. Paid(r)'
      BY <2>1, <2>3 DEF Paid, Spent
    <3>2. ASSUME NEW q \in Requests \ {r} PROVE Paid(q)'
      <4> SUFFICES ASSUME q \in commands, NeedsApproval(q)
                   PROVE  /\ auth[q].approval \in Approvals
                          /\ approval'[auth[q].approval].user = q
        BY <1>3 DEF Paid
      <4>1. auth[q].approval \in Approvals /\ approval[auth[q].approval].user = q
        BY <1>1 DEF Paid
      <4>2. auth[q].approval # b
        BY <2>2, <4>1, NoneIsApart
      <4> QED
        BY <2>3, <4>1, <4>2
    <3> QED
      BY <3>1, <3>2
  <2>5. \A a \in Approvals : SpentWell(a)'
    <3>1. SpentWell(b)'
      <4>1. /\ approval'[b].state = "consumed" /\ approval'[b].user = r
            /\ approval'[b].resource = request'[r].resource
            /\ approval'[b].version = request'[r].version
        BY <2>1, <2>3 DEF Spent
      <4> QED
        BY <4>1, NoneIsApart DEF SpentWell
    <3>2. ASSUME NEW a \in Approvals \ {b} PROVE SpentWell(a)'
      BY <1>1, <1>2, <2>3 DEF SpentWell
    <3> QED
      BY <3>1, <3>2
  <2> QED
    BY <2>4, <2>5
<1>5. CASE ~NeedsApproval(r) /\ approval' = approval
  <2>1. \A q \in Requests : Paid(q)'
    BY <1>1, <1>3, <1>5 DEF Paid
  <2>2. \A a \in Approvals : SpentWell(a)'
    BY <1>1, <1>2, <1>5 DEF SpentWell
  <2> QED
    BY <2>1, <2>2
<1> QED
  BY <1>4, <1>5

LEMMA PrepareStep ==
    ASSUME IInv, NEW r \in Requests, prepare_execution(r)
    PROVE  IInv'
<1>1. TypeOK /\ \A q \in Requests : InStep(q) /\ HoldsSlot(q)
  BY DEF IInv
<1>2. /\ request[r].state = "authorized" /\ auth[r].decision = "authorized"
      /\ auth[r].mark = "none"
      /\ commands' = commands \cup {r} /\ UNCHANGED <<resource, marker>>
  BY DEF prepare_execution, Consumable
<1>3. r \notin commands /\ request[r].resource \in Resources
  BY <1>1, <1>2 DEF InStep
<1>4. /\ request \in [Requests -> RequestRow] /\ auth \in [Requests -> AuthRow]
      /\ approval \in [Approvals -> ApprovalRow] /\ commands \subseteq Requests
  BY <1>1 DEF TypeOK
<1>5. /\ request' = [request EXCEPT ![r] = Moved(r, "execution_pending")]
      /\ Moved(r, "execution_pending") \in RequestRow
  BY <1>1, MovedRows DEF prepare_execution, ActiveStates
<1>6. auth' = [auth EXCEPT ![r] = Used(r)] /\ Used(r) \in AuthRow
  <2>1. auth[r] \in AuthRow
    BY <1>4
  <2>2. [auth[r] EXCEPT !.mark = "consumed"] = Used(r) /\ Used(r) \in AuthRow
    BY <2>1 DEF AuthRow, Used
  <2> QED
    BY <2>2 DEF prepare_execution
<1>7. \/ /\ NeedsApproval(r) /\ ApprovalFits(auth[r].approval, r)
         /\ approval' = [approval EXCEPT ![auth[r].approval] = Spent(auth[r].approval, r)]
      \/ ~NeedsApproval(r) /\ approval' = approval
  <2>1. CASE ~NeedsApproval(r)
    BY <2>1 DEF prepare_execution
  <2>2. CASE NeedsApproval(r)
    <3> DEFINE b == auth[r].approval
    <3>1. ApprovalFits(b, r) /\ b \in Approvals
      BY <1>1, <2>2, RequestFields DEF prepare_execution, ApprovalFits
    <3>2. approval' = [approval EXCEPT ![b].state = "consumed", ![b].user = r]
      BY <2>2 DEF prepare_execution
    <3>3. [[approval[b] EXCEPT !.state = "consumed"] EXCEPT !.user = r] = Spent(b, r)
      <4> DEFINE half == [state |-> "consumed", resource |-> approval[b].resource,
                          version |-> approval[b].version, user |-> approval[b].user,
                          left |-> approval[b].left]
      <4>1. approval[b] \in ApprovalRow
        BY <1>4, <3>1
      <4>2. [approval[b] EXCEPT !.state = "consumed"] = half
        BY <4>1 DEF ApprovalRow
      <4>3. [half EXCEPT !.user = r] = Spent(b, r)
        BY DEF Spent
      <4> HIDE DEF half
      <4> QED
        BY <4>2, <4>3
    <3>4. approval' = [approval EXCEPT ![b] = Spent(b, r)]
      BY <1>4, <3>1, <3>2, <3>3
    <3> QED
      BY <2>2, <3>1, <3>4
  <2> QED
    BY <2>1, <2>2
<1>8. approval' \in [Approvals -> ApprovalRow]
  <2>1. ASSUME NEW b \in Approvals PROVE Spent(b, r) \in ApprovalRow
    BY <1>4 DEF ApprovalRow, Spent
  <2> QED
    BY <1>4, <1>7, <2>1
<1>9. TypeOK'
  BY <1>1, <1>2, <1>4, <1>5, <1>6, <1>8 DEF TypeOK
<1>10. /\ request'[r] = Moved(r, "execution_pending") /\ auth'[r] = Used(r)
       /\ \A q \in Requests \ {r} : request'[q] = request[q] /\ auth'[q] = auth[q]
  BY <1>4, <1>5, <1>6
<1>11. \A q \in Requests : /\ request'[q].resource = request[q].resource
                           /\ request'[q].version = request[q].version
                           /\ auth'[q].approval = auth[q].approval
  BY <1>10 DEF Moved, Used
<1>12. \A q \in Requests : InStep(q)'
  <2>1. InStep(r)'
    BY <1>2, <1>3, <1>10 DEF InStep, Moved, Used, Dispatched
  <2>2. ASSUME NEW q \in Requests \ {r} PROVE InStep(q)'
    BY <1>1, <1>2, <1>10 DEF InStep
  <2> QED
    BY <2>1, <2>2
<1>13. \A q \in Requests : HoldsSlot(q)'
  <2>1. \A q \in Requests : Occupies(q)' => Occupies(q)
    BY <1>2, <1>10 DEF Occupies, ActiveAuth, ActiveStates
  <2>2. \A q \in Requests : Occupies(q) => marker[request[q].resource] # "none"
    BY <1>1 DEF HoldsSlot
  <2> QED
    BY <1>1, <1>2, <1>11, <2>1, <2>2, SlotsKept
<1>14. /\ \A q \in Requests : Paid(q)'
       /\ \A a \in Approvals : SpentWell(a)'
  BY <1>2, <1>3, <1>7, <1>11, PaymentsAfterDispatch
<1> QED
  BY <1>9, <1>12, <1>13, <1>14 DEF IInv

-----------------------------------------------------------------------------
\* The invariant

LEMMA InitIInv == Init => IInv
<1> SUFFICES ASSUME Init PROVE IInv
  OBVIOUS
<1>1. 0 \in 0..MaxVersion /\ 0 \in 0..Lifetime
  BY BoundsAreNat
<1>2. TypeOK
  <2>1. [version |-> 0, eligible |-> FALSE, terminal |-> FALSE] \in ResourceRow
    BY <1>1 DEF ResourceRow
  <2>2. [state |-> "absent", resource |-> None, version |-> 0] \in RequestRow
    BY <1>1 DEF RequestRow
  <2>3. [decision |-> "absent", mark |-> "none", approval |-> None, left |-> 0] \in AuthRow
    BY <1>1 DEF AuthRow
  <2>4. [state |-> "absent", resource |-> None, version |-> 0,
         user |-> None, left |-> 0] \in ApprovalRow
    BY <1>1 DEF ApprovalRow
  <2> QED
    BY <2>1, <2>2, <2>3, <2>4 DEF Init, TypeOK
<1>3. \A r \in Requests : request[r].state = "absent" /\ auth[r].decision = "absent"
                          /\ auth[r].mark = "none" /\ r \notin commands
  BY DEF Init
<1>4. \A r \in Requests : InStep(r)
  BY <1>3 DEF InStep, Dispatched
<1>5. \A r \in Requests : HoldsSlot(r)
  BY <1>3 DEF HoldsSlot, Occupies, ActiveStates, ActiveAuth
<1>6. \A r \in Requests : Paid(r)
  BY <1>3 DEF Paid
<1>7. \A a \in Approvals : SpentWell(a)
  BY DEF Init, SpentWell
<1> QED
  BY <1>2, <1>4, <1>5, <1>6, <1>7 DEF IInv

LEMMA NextIInv == IInv /\ [Next]_vars => IInv'
<1> SUFFICES ASSUME IInv, [Next]_vars PROVE IInv'
  OBVIOUS
<1>1. CASE \E c \in Resources : BecomeEligible(c) \/ ResourceChanges(c) \/ TaskCloses(c)
  BY <1>1, ResourceSteps
<1>2. CASE \E a \in Approvals : \/ revoke_production_approval(a)
                                \/ \E c \in Resources : grant_production_approval(a, c)
  BY <1>2, GrantSteps
<1>3. ASSUME NEW r \in Requests, RequestStep(r) PROVE IInv'
  <2>1. CASE \E c \in Resources, a \in Approvals \cup {None} : request_resume(r, c, a)
    BY <2>1, RequestResumeStep
  <2>2. CASE authorize_resume(r)
    BY <2>2, AuthorizeStep
  <2>3. CASE reject_resume(r)
    BY <2>3, WithdrawStep DEF reject_resume
  <2>4. CASE cancel_resume(r)
    BY <2>4, WithdrawStep DEF cancel_resume
  <2>5. CASE revoke(r)
    BY <2>5, RevocationSteps
  <2>6. CASE prepare_execution(r)
    BY <2>6, PrepareStep
  <2>7. CASE confirm_resumed(r) \/ confirm_failed(r)
    BY <2>7, ConfirmSteps
  <2> QED
    BY <1>3, <2>1, <2>2, <2>3, <2>4, <2>5, <2>6, <2>7 DEF RequestStep
<1>4. CASE Maintenance
  BY <1>4, RevocationSteps, ExpireRequestsStep DEF Maintenance
<1>5. CASE Tick
  BY <1>5, TickStep
<1>6. CASE UNCHANGED vars
  BY <1>6 DEF vars, IInv, TypeOK, InStep, HoldsSlot, Occupies, ActiveAuth, Paid,
              NeedsApproval, SpentWell
<1> QED
  BY <1>1, <1>2, <1>3, <1>4, <1>5, <1>6 DEF Next

LEMMA AlwaysIInv == Spec => []IInv
<1> QED
  BY InitIInv, NextIInv, PTL DEF Spec

-----------------------------------------------------------------------------
\* Theorems

\* The rows of the four tables and the outbox stay well-typed.
THEOREM ResumeTyped == Spec => []TypeOK
<1>1. IInv => TypeOK
  BY DEF IInv
<1> QED
  BY <1>1, AlwaysIInv, PTL

\* request_resume's claim of the marker is all the mutual exclusion there is:
\* neither unique index can fire, for any number of requests.
THEOREM SlotsAlwaysAgree == Spec => []SlotsAgree
<1>1. IInv => SlotsAgree
  <2> SUFFICES ASSUME IInv, NEW r \in Requests,
                      request[r].state \in ActiveStates \/ ActiveAuth(r)
               PROVE  /\ marker[request[r].resource] # "none"
                      /\ \A q \in Requests \ {r} :
                            (request[q].state \in ActiveStates \/ ActiveAuth(q)) =>
                                request[q].resource # request[r].resource
    BY DEF SlotsAgree
  <2>1. HoldsSlot(r) /\ Occupies(r)
    BY DEF IInv, Occupies
  <2>2. \A q \in Requests : (request[q].state \in ActiveStates \/ ActiveAuth(q)) => Occupies(q)
    BY DEF Occupies
  <2> QED
    BY <2>1, <2>2 DEF HoldsSlot
<1> QED
  BY <1>1, AlwaysIInv, PTL

\* prepare_execution: no command without a consumed authorization and, for a
\* production effect, a consumed approval of the same state; no grant is
\* consumed for nothing.
THEOREM CommandsAlwaysPaidFor == Spec => []CommandsArePaidFor
<1>1. IInv => CommandsArePaidFor
  <2> SUFFICES ASSUME IInv PROVE CommandsArePaidFor
    OBVIOUS
  <2>1. ASSUME NEW r \in Requests
        PROVE  /\ r \in commands <=> auth[r].mark = "consumed"
               /\ r \in commands =>
                     /\ auth[r].decision = "authorized"
                     /\ NeedsApproval(r) => approval[auth[r].approval].user = r
    <3>1. InStep(r) /\ Paid(r)
      BY DEF IInv
    <3> QED
      BY <3>1 DEF InStep, Paid, Dispatched
  <2>2. \A a \in Approvals : SpentWell(a)
    BY DEF IInv
  <2> QED
    BY <2>1, <2>2 DEF CommandsArePaidFor, SpentWell
<1> QED
  BY <1>1, AlwaysIInv, PTL

\* Whatever is withdrawn, expired, confirmed or requested again, a clarification
\* is never resumed twice.
THEOREM NeverResumedTwice == Spec => []AtMostOneResume
<1>1. IInv => AtMostOneResume
  <2> SUFFICES ASSUME IInv, NEW c \in Resources
               PROVE  Cardinality({r \in commands : request[r].resource = c /\
                          request[r].state \in {"execution_pending", "resumed"}}) <= 1
    BY DEF AtMostOneResume
  <2> DEFINE S == {r \in commands : request[r].resource = c /\
                          request[r].state \in {"execution_pending", "resumed"}}
  <2>1. commands \subseteq Requests /\ \A r \in Requests : HoldsSlot(r)
    BY DEF IInv, TypeOK
  <2>2. \A r, q \in S : r = q
    BY <2>1 DEF HoldsSlot, Occupies
  <2>3. Cardinality(S) <= 1
    <3> HIDE DEF S
    <3>1. CASE S = {}
      <4>1. Cardinality(S) = 0
        BY <3>1, FS_EmptySet
      <4> QED
        BY <4>1
    <3>2. CASE S # {}
      <4>1. PICK r \in S : S = {r}
        BY <2>2, <3>2
      <4>2. Cardinality(S) = 1
        BY <4>1, FS_Singleton
      <4> QED
        BY <4>2
    <3> QED
      BY <3>1, <3>2
  <2> QED
    BY <2>3
<1> QED
  BY <1>1, AlwaysIInv, PTL

\* Only prepare_execution creates a command, and it does so for the state that
\* was authorized, whatever happened between the two.
THEOREM NothingStaleIsDispatched == Spec => NoStaleDispatch
<1> DEFINE Fresh == \A r \in commands' \ commands :
                       LET c == request[r].resource
                       IN  /\ resource[c].version = request[r].version
                           /\ ~resource[c].terminal
                           /\ marker[c] = "authorized"
<1>1. IInv /\ [Next]_vars => [Fresh]_vars
  <2> SUFFICES ASSUME IInv, Next PROVE Fresh
    BY DEF vars
  <2>1. ASSUME NEW r \in Requests, prepare_execution(r) PROVE Fresh
    <3>1. commands' \ commands \subseteq {r} /\ StillValid(r) /\ request[r].state = "authorized"
      BY <2>1 DEF prepare_execution
    <3>2. marker[request[r].resource] = "authorized"
      BY <3>1 DEF IInv, InStep
    <3> QED
      BY <3>1, <3>2 DEF StillValid
  <2>2. ASSUME NEW r \in Requests, RequestStep(r), ~prepare_execution(r)
        PROVE  commands' = commands
    BY <2>2 DEF RequestStep, request_resume, authorize_resume, reject_resume, cancel_resume,
                Withdraw, revoke, confirm_resumed, confirm_failed
  <2>3. CASE \/ \E c \in Resources : BecomeEligible(c) \/ ResourceChanges(c) \/ TaskCloses(c)
             \/ \E a \in Approvals :
                   \/ revoke_production_approval(a)
                   \/ \E c \in Resources : grant_production_approval(a, c)
             \/ Maintenance
             \/ Tick
    BY <2>3 DEF BecomeEligible, ResourceChanges, TaskCloses, revoke_production_approval,
                grant_production_approval, Maintenance, expire_due_authorizations,
                expire_due_requests, Tick
  <2> QED
    BY <2>1, <2>2, <2>3 DEF Next
<1>2. (Spec => []IInv) /\ (Spec => [][Next]_vars)
  BY AlwaysIInv, PTL DEF Spec
<1>3. Spec => [][Fresh]_vars
  BY <1>1, <1>2, PTL
<1> QED
  BY <1>3 DEF NoStaleDispatch

\* No handler, batch statement or late confirmation moves a request that has ended.
THEOREM EndsStayFinal == Spec => EndsAreFinal
<1> DEFINE Final == \A r \in Requests :
                       request[r].state \in TerminalStates => request'[r].state = request[r].state
<1>1. IInv /\ [Next]_vars => [Final]_vars
  <2> SUFFICES ASSUME IInv, Next PROVE Final
    BY DEF vars
  <2>1. request \in [Requests -> RequestRow]
    BY DEF IInv, TypeOK
  <2>2. ASSUME NEW r \in Requests, request[r].state \notin TerminalStates,
               \A q \in Requests \ {r} : request'[q] = request[q]
        PROVE  Final
    BY <2>2
  <2>3. ASSUME NEW r \in Requests, RequestStep(r) PROVE Final
    <3>1. CASE revoke(r)
      BY <3>1 DEF revoke
    <3>2. CASE ~revoke(r)
      <4>1. request[r].state \notin TerminalStates
        BY <2>3, <3>2 DEF RequestStep, request_resume, authorize_resume, reject_resume,
              cancel_resume, Withdraw, prepare_execution, confirm_resumed, confirm_failed,
              TerminalStates
      <4>2. \A q \in Requests \ {r} : request'[q] = request[q]
        BY <2>1, <2>3, <3>2 DEF RequestStep, request_resume, authorize_resume, reject_resume,
              cancel_resume, Withdraw, prepare_execution, confirm_resumed, confirm_failed
      <4> QED
        BY <2>2, <4>1, <4>2
    <3> QED
      BY <3>1, <3>2
  <2>4. CASE expire_due_requests
    <3>1. \A r \in Requests : request[r].state \in TerminalStates => request'[r] = request[r]
      BY <2>1, <2>4 DEF expire_due_requests, Due, TerminalStates
    <3> QED
      BY <3>1
  <2>5. CASE \/ \E c \in Resources : BecomeEligible(c) \/ ResourceChanges(c) \/ TaskCloses(c)
             \/ \E a \in Approvals :
                   \/ revoke_production_approval(a)
                   \/ \E c \in Resources : grant_production_approval(a, c)
             \/ expire_due_authorizations
             \/ Tick
    BY <2>5 DEF BecomeEligible, ResourceChanges, TaskCloses, revoke_production_approval,
                grant_production_approval, expire_due_authorizations, Tick
  <2> QED
    BY <2>3, <2>4, <2>5 DEF Next, Maintenance
<1>2. (Spec => []IInv) /\ (Spec => [][Next]_vars)
  BY AlwaysIInv, PTL DEF Spec
<1>3. Spec => [][Final]_vars
  BY <1>1, <1>2, PTL
<1> QED
  BY <1>3 DEF EndsAreFinal
-----------------------------------------------------------------------------
(* Authorizations keep the contract of SingleUseGrant *)

\* What the contract sees of a step that moves no request and creates no command.
LEMMA SameDeeds ==
    ASSUME TypeOK, commands' = commands,
           \A q \in Requests : request'[q].resource = request[q].resource
    PROVE  Subjects' = Subjects /\ Resumed' = Resumed
<1>1. Subjects' = Subjects
  BY DEF Subjects
<1>2. Resumed' = Resumed
  BY DEF Resumed, TypeOK
<1> QED BY <1>1, <1>2

\* The phase is a matter of the decision and the mark.
LEMMA PhaseOfRow ==
    ASSUME NEW q \in Requests,
           auth'[q].decision = auth[q].decision, auth'[q].mark = auth[q].mark
    PROVE  Phase(q)' = Phase(q)
BY DEF Phase, ActiveAuth

\* A step that changes the phase of one authorization.
LEMMA OnePhase ==
    ASSUME NEW r \in Requests,
           \A q \in Requests \ {r} : auth'[q].decision = auth[q].decision
                                     /\ auth'[q].mark = auth[q].mark
    PROVE  Phases' = [Phases EXCEPT ![r] = Phase(r)']
<1>1. \A q \in Requests \ {r} : Phase(q)' = Phase(q)
  BY PhaseOfRow
<1> QED BY <1>1 DEF Phases

\* An authorization can be used exactly while it is in uq_rra_active_request.
LEMMA LiveIsActive ==
    ASSUME NEW q \in Requests
    PROVE  Grant!Live(q) <=> ActiveAuth(q)
BY DEF Grant!Live, Phases, Phase, ActiveAuth

\* Steps of the rest of the system, confirmations, the expiry of requests, the clock.
LEMMA GrantUntouched ==
    ASSUME TypeOK, commands' = commands,
           \A q \in Requests : /\ request'[q].resource = request[q].resource
                               /\ auth'[q].decision = auth[q].decision
                               /\ auth'[q].mark = auth[q].mark
    PROVE  UNCHANGED <<Phases, Subjects, Resumed>>
<1>1. Phases' = Phases
  BY PhaseOfRow DEF Phases
<1> QED BY <1>1, SameDeeds

\* Rejection, cancellation, revocation and expiry take authorizations away.
LEMMA GrantVoided ==
    ASSUME TypeOK, commands' = commands,
           \A q \in Requests :
              /\ request'[q].resource = request[q].resource
              /\ \/ Phase(q)' = Phase(q)
                 \/ Phase(q) \in {"asked", "granted"} /\ Phase(q)' = "void"
    PROVE  Grant!Next
<1> DEFINE S == {q \in Requests : Phase(q)' # Phase(q)}
<1>1. \A q \in S : Grant!Live(q)
  BY DEF Grant!Live, Phases
<1>2. Phases' = [q \in Requests |-> IF q \in S THEN "void" ELSE Phases[q]]
  BY DEF Phases
<1>3. Grant!Void(S)
  BY <1>1, <1>2, SameDeeds DEF Grant!Void
<1> QED BY <1>3 DEF Grant!Next

\* request_resume asks for a clarification that nobody occupies.
LEMMA GrantAsked ==
    ASSUME IInv, NEW r \in Requests, NEW c \in Resources, NEW a \in Approvals \cup {None},
           request_resume(r, c, a)
    PROVE  Grant!Next
<1>1. TypeOK /\ InStep(r) /\ \A q \in Requests : HoldsSlot(q)
  BY DEF IInv
<1>2. /\ request[r].state = "absent" /\ marker[c] = "none" /\ commands' = commands
      /\ auth' = [auth EXCEPT ![r] = [decision |-> "pending", mark |-> "none",
                                      approval |-> a, left |-> Lifetime]]
      /\ request' = [request EXCEPT ![r] = [state |-> "authorization_pending", resource |-> c,
                                            version |-> resource[c].version]]
  BY DEF request_resume
<1>3. \A q \in Requests : Occupies(q) => request[q].resource # c
  BY <1>1, <1>2 DEF HoldsSlot
<1>4. Phases' = [Phases EXCEPT ![r] = "asked"]
  <2>1. Phase(r)' = "asked"
    BY <1>1, <1>2 DEF TypeOK, Phase, ActiveAuth
  <2> QED BY <1>1, <1>2, <2>1, OnePhase DEF TypeOK
<1>5. Phases[r] = "none"
  <2>1. auth[r].decision = "absent" /\ auth[r].mark # "consumed"
    BY <1>1, <1>2 DEF InStep, Dispatched
  <2> QED BY <2>1 DEF Phases, Phase, ActiveAuth
<1>6. Subjects' = [Subjects EXCEPT ![r] = c]
  BY <1>1, <1>2 DEF TypeOK, Subjects
<1>7. r \notin commands
  BY <1>1, <1>2 DEF InStep, Dispatched
<1>8. Resumed' = Resumed
  BY <1>1, <1>2, <1>7 DEF TypeOK, Resumed
<1>9. c \notin Resumed
  BY <1>1, <1>3 DEF TypeOK, Resumed, Occupies
<1>10. \A h \in Requests : Grant!Live(h) => Subjects[h] # c
  BY <1>3, LiveIsActive DEF Subjects, Occupies
<1>11. Grant!Ask(r, c)
  BY <1>4, <1>5, <1>6, <1>8, <1>9, <1>10 DEF Grant!Ask
<1> QED BY <1>11 DEF Grant!Next

\* authorize_resume approves what is still asked for; it brings nothing back.
LEMMA GrantApproved ==
    ASSUME IInv, NEW r \in Requests, authorize_resume(r)
    PROVE  Grant!Next \/ UNCHANGED <<Phases, Subjects, Resumed>>
<1>1. TypeOK /\ InStep(r)
  BY DEF IInv
<1>2. /\ request[r].state = "authorization_pending" /\ auth[r].decision = "pending"
      /\ auth[r].mark # "expired" /\ commands' = commands
      /\ auth' = [auth EXCEPT ![r].decision = "authorized"]
      /\ request' = [request EXCEPT ![r].state = "authorized"]
  BY DEF authorize_resume, Undecided
<1>3. /\ auth'[r].decision = "authorized" /\ auth'[r].mark = auth[r].mark
      /\ auth[r].mark \in {"none", "revoked"}
      /\ \A q \in Requests \ {r} : auth'[q] = auth[q]
      /\ \A q \in Requests : request'[q].resource = request[q].resource
  BY <1>1, <1>2 DEF TypeOK, AuthRow, RequestRow, InStep, Dispatched
<1>4. Phases' = [Phases EXCEPT ![r] = Phase(r)']
  BY <1>3, OnePhase
<1>5. Subjects' = Subjects /\ Resumed' = Resumed
  BY <1>1, <1>2, <1>3, SameDeeds
<1>6. CASE auth[r].mark = "none"
  <2>1. Phases[r] = "asked" /\ Phase(r)' = "granted"
    BY <1>2, <1>3, <1>6 DEF Phases, Phase, ActiveAuth
  <2>2. Grant!Approve(r)
    BY <1>4, <1>5, <2>1 DEF Grant!Approve
  <2> QED BY <2>2 DEF Grant!Next
<1>7. CASE auth[r].mark = "revoked"
  <2>1. Phases[r] = "void" /\ Phase(r)' = "void"
    BY <1>2, <1>3, <1>7 DEF Phases, Phase, ActiveAuth
  <2>2. Phases' = Phases
    BY <1>4, <2>1 DEF Phases
  <2> QED BY <1>5, <2>2
<1> QED BY <1>3, <1>6, <1>7

\* prepare_execution: the command is the deed, and the first in its clarification.
LEMMA GrantSpent ==
    ASSUME IInv, NEW r \in Requests, prepare_execution(r)
    PROVE  Grant!Next
<1>1. TypeOK /\ InStep(r) /\ \A q \in Requests : HoldsSlot(q)
  BY DEF IInv
<1>2. /\ request[r].state = "authorized" /\ Consumable(r)
      /\ commands' = commands \cup {r}
      /\ auth' = [auth EXCEPT ![r].mark = "consumed"]
      /\ request' = [request EXCEPT ![r].state = "execution_pending"]
  BY DEF prepare_execution
<1>3. /\ auth'[r].decision = auth[r].decision /\ auth'[r].mark = "consumed"
      /\ \A q \in Requests \ {r} : auth'[q] = auth[q]
      /\ \A q \in Requests : request'[q].resource = request[q].resource
  BY <1>1, <1>2 DEF TypeOK, AuthRow, RequestRow
<1>4. Phases[r] = "granted" /\ Phase(r)' = "spent"
  BY <1>2, <1>3 DEF Consumable, Phases, Phase, ActiveAuth
<1>5. Phases' = [Phases EXCEPT ![r] = "spent"]
  BY <1>3, <1>4, OnePhase
<1>6. Subjects' = Subjects
  BY <1>3 DEF Subjects
<1>7. Resumed' = Resumed \cup {Subjects[r]}
  BY <1>1, <1>2, <1>3 DEF TypeOK, Resumed, Subjects
<1>8. Subjects[r] \notin Resumed
  <2>1. r \notin commands
    BY <1>1, <1>2 DEF InStep, Dispatched
  <2>2. \A q \in commands : request[q].resource # request[r].resource
    BY <1>1, <1>2, <2>1 DEF TypeOK, HoldsSlot, Occupies, ActiveStates
  <2> QED BY <2>2 DEF Resumed, Subjects
<1>9. Grant!Spend(r)
  BY <1>4, <1>5, <1>6, <1>7, <1>8 DEF Grant!Spend
<1> QED BY <1>9 DEF Grant!Next

\* Every step is one of the contract, or does not concern it.
LEMMA GrantStep ==
    ASSUME IInv, [Next]_vars
    PROVE  Grant!Next \/ UNCHANGED <<Phases, Subjects, Resumed>>
<1>1. TypeOK /\ \A q \in Requests : InStep(q)
  BY DEF IInv
<1>2. CASE \/ \E c \in Resources : BecomeEligible(c) \/ ResourceChanges(c) \/ TaskCloses(c)
           \/ \E a \in Approvals :
                 \/ revoke_production_approval(a)
                 \/ \E c \in Resources : grant_production_approval(a, c)
           \/ UNCHANGED vars
  <2>1. request' = request /\ auth' = auth /\ commands' = commands
    BY <1>2 DEF BecomeEligible, ResourceChanges, TaskCloses, revoke_production_approval,
                grant_production_approval, vars
  <2> QED BY <1>1, <2>1, GrantUntouched
<1>3. CASE \/ \E r \in Requests : confirm_resumed(r) \/ confirm_failed(r)
           \/ expire_due_requests \/ Tick
  <2>1. commands' = commands
    BY <1>3 DEF confirm_resumed, confirm_failed, expire_due_requests, Tick
  <2>2. \A q \in Requests : /\ request'[q].resource = request[q].resource
                            /\ auth'[q].decision = auth[q].decision
                            /\ auth'[q].mark = auth[q].mark
    BY <1>1, <1>3 DEF TypeOK, RequestRow, AuthRow, confirm_resumed, confirm_failed,
                      expire_due_requests, Tick
  <2> QED BY <1>1, <2>1, <2>2, GrantUntouched
<1>4. ASSUME NEW r \in Requests, NEW d \in {"rejected", "canceled"}, Withdraw(r, d)
      PROVE  Grant!Next
  <2>1. /\ commands' = commands /\ auth[r].decision = "pending" /\ auth[r].mark # "expired"
        /\ request[r].state = "authorization_pending"
        /\ auth' = [auth EXCEPT ![r].decision = d] /\ request' = [request EXCEPT ![r].state = d]
    BY <1>4 DEF Withdraw, Undecided
  <2>2. /\ auth'[r].decision = d /\ auth'[r].mark = auth[r].mark
        /\ auth[r].mark \in {"none", "revoked"}
        /\ \A q \in Requests \ {r} : auth'[q] = auth[q]
        /\ \A q \in Requests : request'[q].resource = request[q].resource
    BY <1>1, <2>1 DEF TypeOK, AuthRow, RequestRow, InStep, Dispatched
  <2>3. Phase(r)' = "void" /\ Phase(r) \in {"asked", "void"}
    BY <2>1, <2>2 DEF Phase, ActiveAuth
  <2>4. \A q \in Requests : \/ Phase(q)' = Phase(q)
                            \/ Phase(q) \in {"asked", "granted"} /\ Phase(q)' = "void"
    BY <2>2, <2>3, PhaseOfRow
  <2> QED BY <1>1, <2>1, <2>2, <2>4, GrantVoided
<1>5. CASE (\E r \in Requests : revoke(r)) \/ expire_due_authorizations
  <2>1. commands' = commands /\ request' = request
    BY <1>5 DEF revoke, expire_due_authorizations
  <2>2. \A q \in Requests :
           \/ auth'[q] = auth[q]
           \/ ActiveAuth(q) /\ auth'[q].decision = auth[q].decision
              /\ auth'[q].mark \in {"revoked", "expired"}
    BY <1>1, <1>5 DEF TypeOK, AuthRow, revoke, expire_due_authorizations, ActiveAuth
  <2>3. \A q \in Requests : \/ Phase(q)' = Phase(q)
                            \/ Phase(q) \in {"asked", "granted"} /\ Phase(q)' = "void"
    BY <2>2 DEF Phase, ActiveAuth
  <2> QED BY <1>1, <2>1, <2>3, GrantVoided
<1>6. ASSUME NEW r \in Requests, RequestStep(r)
      PROVE  Grant!Next \/ UNCHANGED <<Phases, Subjects, Resumed>>
  BY <1>3, <1>4, <1>5, <1>6, GrantAsked, GrantApproved, GrantSpent
     DEF RequestStep, reject_resume, cancel_resume
<1> QED BY <1>2, <1>3, <1>5, <1>6 DEF Next, Maintenance

\* Requests withdrawn, revoked, expired and made again: whatever the order, a clarification's
\* authorizations are used one at a time, for one command, in the step that creates it.
THEOREM ResumeKeepsGrant == Spec => ImplementsGrant
<1>1. Init => Grant!Init
  <2> SUFFICES ASSUME Init PROVE Grant!Init
    OBVIOUS
  <2>1. \A r \in Requests : auth[r].decision = "absent" /\ auth[r].mark = "none"
                             /\ request[r].resource = None
    BY DEF Init
  <2>2. \A r \in Requests : Phase(r) = "none"
    BY <2>1 DEF Phase, ActiveAuth
  <2>3. commands = {}
    BY DEF Init
  <2> QED BY <2>1, <2>2, <2>3 DEF Grant!Init, Phases, Subjects, Resumed
<1>2. IInv /\ [Next]_vars => [Grant!Next]_(Grant!vars)
  BY GrantStep DEF Grant!vars
<1>3. Spec => Grant!Init /\ [][Grant!Next]_(Grant!vars)
  BY <1>1, <1>2, AlwaysIInv, PTL DEF Spec
<1> QED BY <1>3 DEF ImplementsGrant, Grant!Spec
=============================================================================
