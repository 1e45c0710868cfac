----------------------- MODULE PlanDelegation_proofs -----------------------
(***************************************************************************)
(* Fan-in and authority of the execution graph, for any plan, any number   *)
(* of connections and any number of faults.  The argument is about the     *)
(* row locks: what a transaction decided on cannot change before it        *)
(* commits, because whoever would change it waits.                         *)
(***************************************************************************)
EXTENDS PlanDelegation, WellFoundedInduction, TLAPS

\* Materialize builds the whole graph in one transaction.
AllOrNothing == unit = Nothing \/ Materialized

\* A pass has a unit in hand, in a state that is owed something.
Sensible(j) ==
    j.kind = "pass" =>
        /\ \A s \in Steps : j.todo[s] \in {"absent", "ready", "assigned", "dispatched"}
        /\ j.at # "next" => j.step \in Steps
        /\ j.at \in {"revision", "gates", "insert"} => j.state \in {"ready", "assigned"}

\* What a transaction has locked is as it found it: the revision dispatchable, and, once a
\* pass is about to write, the goal not cancelled and the unit in the state it has in hand; the
\* unit of a result dispatched, and the dependents it has locked blocked.
Backed(j) ==
    /\ j.kind = "pass" /\ j.at \in {"gates", "insert"} => Dispatchable
    /\ j.kind = "pass" /\ j.at = "insert" => ~cancelled /\ unit[j.step] = j.state
    /\ j.kind = "result" =>
         /\ j.at \in {"insert", "dependents"}
         /\ j.step \in Steps /\ unit[j.step] = "dispatched"
         /\ \A s \in j.held : unit[s] = "blocked"

\* HoldsUnit, of a job.
Locks(j, u) ==
    \/ j.kind = "pass" /\ j.at = "insert" /\ j.step = u
    \/ j.kind = "result" /\ j.at \in {"insert", "dependents"} /\ (j.step = u \/ u \in j.held)

\* No unit is locked by two transactions.
Exclusive ==
    \A v, w \in Workers : v # w => \A u \in Steps : ~(Locks(job[v], u) /\ Locks(job[w], u))

IInv ==
    /\ TypeOK
    /\ AllOrNothing
    /\ \A w \in Workers : Sensible(job[w]) /\ Backed(job[w])
    /\ Exclusive
    /\ BlockedMeansWaiting
-----------------------------------------------------------------------------
(* Lemmas about the operators of the model *)

\* There is a well-founded relation that holds whenever a number is below another.
Below(R) == \A a, b \in Nat : a < b => <<a, b>> \in R

LEMMA BelowIsWellFounded == \E R : IsWellFoundedOn(R, Nat) /\ Below(R)
<1>1. Below(OpToRel(<, Nat))
  BY DEF OpToRel, Below
<1> WITNESS OpToRel(<, Nat)
<1> QED BY <1>1, NatLessThanWellFounded

\* Min, which picks the next unit and the next dependent, picks one of them.
LEMMA MinIsMember ==
    ASSUME NEW S, S \subseteq Nat, S # {}
    PROVE  Min(S) \in S
<1>1. PICK R : IsWellFoundedOn(R, Nat) /\ Below(R)
  BY BelowIsWellFounded
<1>2. PICK x \in S : \A y \in S : ~(<<y, x>> \in R)
  BY <1>1, WFMin, Zenon
<1>3. ASSUME NEW y \in S PROVE x <= y
  <2>1. ~(y < x) /\ x \in Nat /\ y \in Nat
    BY <1>1, <1>2 DEF Below
  <2> QED BY <2>1
<1>4. \E z \in S : \A y \in S : z <= y
  BY <1>3
<1> QED BY <1>4 DEF Min

\* The empty job and the empty graph have their types.
LEMMA ConstantTypes ==
    /\ Nothing \in [Steps -> UnitStates]
    /\ NoJob \in JobType /\ NoJob.kind = "none" /\ NoJob.at = "idle" /\ NoJob.held = {}
<1>1. Nothing \in [Steps -> UnitStates]
  BY DEF Nothing, UnitStates
<1> QED BY <1>1 DEF NoJob, JobType, UnitStates

\* Which unit a connection holds is read off its job.
LEMMA HoldsIsLocks ==
    ASSUME NEW v, NEW u
    PROVE  HoldsUnit(v, u) <=> Locks(job[v], u)
BY DEF HoldsUnit, Locks, At, Unit

\* A job that holds no lock that anything depends on.
Loose(j) == j.kind # "result" /\ ~(j.kind = "pass" /\ j.at \in {"gates", "insert"})

LEMMA LooseLocksNothing ==
    ASSUME NEW j, Loose(j)
    PROVE  Backed(j) /\ \A u : ~Locks(j, u)
BY DEF Loose, Backed, Locks

\* The initial states satisfy the invariant.
LEMMA InitIInv == Init => IInv
<1> SUFFICES ASSUME Init PROVE IInv
  OBVIOUS
<1>1. TypeOK
  <2>1. unit \in [Steps -> UnitStates] /\ job \in [Workers -> JobType]
    BY ConstantTypes DEF Init
  <2>2. dispatch \in [Steps -> {"none", "unpublished", "published"}] /\ faults \in 0..MaxFaults
    BY DelegationAssumption DEF Init
  <2> QED BY <2>1, <2>2 DEF Init, TypeOK
<1>2. \A w \in Workers : job[w] = NoJob
  BY DEF Init
<1>3. Sensible(NoJob) /\ Loose(NoJob)
  BY ConstantTypes DEF Sensible, Loose
<1>4. \A w \in Workers : Sensible(job[w]) /\ Backed(job[w])
  BY <1>2, <1>3, LooseLocksNothing
<1>5. Exclusive
  BY <1>2, <1>3, LooseLocksNothing DEF Exclusive
<1>6. AllOrNothing
  BY DEF Init, AllOrNothing
<1>7. BlockedMeansWaiting
  <2> SUFFICES ASSUME Materialized PROVE \A u \in Steps : FALSE
    BY DEF BlockedMeansWaiting
  <2> QED BY DEF Init, Nothing, Materialized
<1> QED BY <1>1, <1>4, <1>5, <1>6, <1>7 DEF IInv
-----------------------------------------------------------------------------
(* Steps that change no unit *)

\* One connection goes on, with what backs it and with no lock another one has.
LEMMA JobMoves ==
    ASSUME IInv, NEW w \in Workers, NEW j \in JobType, job' = [job EXCEPT ![w] = j],
           UNCHANGED <<current, accepted, cancelled, unit>>,
           dispatch' \in [Steps -> {"none", "unpublished", "published"}],
           sent' \subseteq Steps, faults' \in 0..MaxFaults,
           Sensible(j), Backed(j),
           \A v \in Workers \ {w}, u \in Steps : Locks(j, u) => ~Locks(job[v], u)
    PROVE  IInv'
<1>1. /\ job'[w] = j /\ \A v \in Workers \ {w} : job'[v] = job[v]
      /\ job' \in [Workers -> JobType]
  BY DEF IInv, TypeOK
<1>2. TypeOK'
  BY <1>1 DEF IInv, TypeOK
<1>3. ASSUME NEW v \in Workers PROVE Sensible(job'[v]) /\ Backed(job'[v])
  BY <1>1 DEF IInv
<1>4. ASSUME NEW v \in Workers PROVE (Sensible(job[v]) /\ Backed(job[v]))'
  BY <1>3 DEF Sensible, Backed, Dispatchable
<1>5. Exclusive'
  BY <1>1 DEF IInv, Exclusive, Locks
<1>6. AllOrNothing' /\ BlockedMeansWaiting'
  BY DEF IInv, AllOrNothing, Nothing, Materialized, BlockedMeansWaiting
<1> QED BY <1>2, <1>4, <1>5, <1>6 DEF IInv

\* A connection that goes on loosely, everything else being typed, keeps the invariant.
LEMMA LooseMoves ==
    ASSUME IInv, NEW w \in Workers, NEW j \in JobType, job' = [job EXCEPT ![w] = j],
           UNCHANGED <<current, accepted, cancelled, unit>>,
           dispatch' \in [Steps -> {"none", "unpublished", "published"}],
           sent' \subseteq Steps, faults' \in 0..MaxFaults, Sensible(j), Loose(j)
    PROVE  IInv'
BY LooseLocksNothing, JobMoves

\* A job that only changes its place, its unit or its state in hand.
LEMMA GotoMoves ==
    ASSUME IInv, NEW w \in Workers,
           NEW at \in {"idle", "next", "revision", "gates", "insert", "read", "publish", "mark",
                       "dependents"},
           NEW j, j = [job[w] EXCEPT !.at = at], job[w].kind = "pass" => job[w].step \in Steps
    PROVE  /\ j \in JobType /\ j.at = at /\ j.kind = job[w].kind /\ j.step = job[w].step
           /\ j.state = job[w].state /\ j.held = job[w].held /\ j.todo = job[w].todo
           /\ (at \notin {"revision", "gates", "insert"} => Sensible(j))
           /\ (job[w].at \in {"revision", "gates", "insert"} => Sensible(j))
<1>1. job[w] \in JobType /\ Sensible(job[w])
  BY DEF IInv, TypeOK
<1> QED BY <1>1 DEF JobType, Sensible

\* A pass that gives up its unit, and a job that ends, hold nothing.
LEMMA SkipAndEnd ==
    ASSUME IInv, NEW w \in Workers, NEW j,
           \/ j = NoJob
           \/ /\ j = [NoJob EXCEPT !.kind = "pass", !.at = "next", !.todo = job[w].todo]
              /\ job[w].kind = "pass"
    PROVE  j \in JobType /\ Sensible(j) /\ Loose(j)
<1>1. job[w] \in JobType /\ Sensible(job[w])
  BY DEF IInv, TypeOK
<1>2. CASE j = NoJob
  BY <1>2, ConstantTypes DEF Sensible, Loose
<1>3. CASE j = [NoJob EXCEPT !.kind = "pass", !.at = "next", !.todo = job[w].todo] /\ job[w].kind = "pass"
  BY <1>1, <1>3, ConstantTypes DEF JobType, Sensible, Loose
<1> QED BY <1>2, <1>3

\* A step that only ends a job, or lets a pass skip its unit.
LEMMA EndMoves ==
    ASSUME IInv, NEW w \in Workers, End(w) \/ (Skip(w) /\ job[w].kind = "pass"),
           UNCHANGED <<current, accepted, cancelled, unit>>,
           dispatch' \in [Steps -> {"none", "unpublished", "published"}],
           sent' \subseteq Steps, faults' \in 0..MaxFaults
    PROVE  IInv'
<1>1. PICK j : /\ job' = [job EXCEPT ![w] = j]
               /\ \/ j = NoJob
                  \/ /\ j = [NoJob EXCEPT !.kind = "pass", !.at = "next", !.todo = job[w].todo]
                     /\ job[w].kind = "pass"
  BY DEF End, Skip
<1>2. j \in JobType /\ Sensible(j) /\ Loose(j)
  BY <1>1, SkipAndEnd
<1> QED BY <1>1, <1>2, LooseMoves

\* The lock on the project is taken.
LEMMA LockProjectKeeps ==
    ASSUME IInv, NEW w \in Workers, NEW kind \in Building, LockProject(w, kind)
    PROVE  IInv'
<1> DEFINE j == [NoJob EXCEPT !.kind = kind, !.at = "revision"]
<1>1. j \in JobType /\ Sensible(j) /\ Loose(j)
  BY ConstantTypes DEF JobType, Sensible, Loose, Building
<1>2. /\ job' = [job EXCEPT ![w] = j]
      /\ UNCHANGED <<current, accepted, cancelled, unit, dispatch, sent, faults>>
  BY DEF LockProject
<1> HIDE DEF j
<1> QED BY <1>1, <1>2, LooseMoves DEF IInv, TypeOK

\* A pass begins with what is schedulable.
LEMMA StartPassKeeps ==
    ASSUME IInv, NEW w \in Workers, StartPass(w)
    PROVE  IInv'
<1> DEFINE todo == [s \in Steps |-> IF Schedulable(s) THEN unit[s] ELSE "absent"]
           j == [NoJob EXCEPT !.kind = "pass", !.at = "next", !.todo = todo]
<1>1. todo \in [Steps -> UnitStates]
  BY DEF IInv, TypeOK, UnitStates
<1>2. \A s \in Steps : todo[s] \in {"absent", "ready", "assigned", "dispatched"}
  BY DEF Schedulable
<1>3. /\ job' = [job EXCEPT ![w] = j]
      /\ UNCHANGED <<current, accepted, cancelled, unit, dispatch, sent, faults>>
  BY DEF StartPass
<1> HIDE DEF todo
<1>4. j \in JobType /\ Sensible(j) /\ Loose(j)
  BY <1>1, <1>2, ConstantTypes DEF JobType, Sensible, Loose
<1> HIDE DEF j
<1> QED BY <1>3, <1>4, LooseMoves DEF IInv, TypeOK

\* The pass goes to its next unit.
LEMMA NextUnitKeeps ==
    ASSUME IInv, NEW w \in Workers, NextUnit(w)
    PROVE  IInv'
<1>1. /\ job[w].kind = "pass" /\ job[w].at = "next" /\ job[w] \in JobType /\ Sensible(job[w])
      /\ UNCHANGED <<current, accepted, cancelled, unit, dispatch, sent, faults>>
  BY DEF NextUnit, At, IInv, TypeOK
<1>2. CASE Left(w) = {}
  <2>1. End(w)
    BY <1>2 DEF NextUnit
  <2> QED BY <1>1, <2>1, EndMoves DEF IInv, TypeOK
<1>3. CASE Left(w) # {}
  <2> DEFINE s == Min(Left(w))
             j == [job[w] EXCEPT !.step = s, !.state = job[w].todo[s], !.todo[s] = "absent",
                                 !.at = Entry(job[w].todo[s])]
  <2>1. Left(w) \subseteq Nat /\ Left(w) \subseteq Steps
    BY DelegationAssumption DEF Left
  <2>2. s \in Left(w)
    BY <1>3, <2>1, MinIsMember
  <2>3. s \in Steps /\ job[w].todo[s] \in {"ready", "assigned", "dispatched"}
    BY <1>1, <2>2 DEF Left, Sensible
  <2>4. job' = [job EXCEPT ![w] = j]
    BY <1>1, <1>3 DEF NextUnit, IInv, TypeOK
  <2> HIDE DEF s
  <2>5. /\ j \in JobType /\ j.kind = "pass" /\ j.step = s /\ j.state = job[w].todo[s]
        /\ j.todo = [job[w].todo EXCEPT ![s] = "absent"]
        /\ j.at = Entry(job[w].todo[s])
    BY <1>1, <2>3 DEF JobType, UnitStates, Entry
  <2>6. job[w].todo \in [Steps -> UnitStates]
    BY <1>1 DEF JobType
  <2> HIDE DEF j
  <2>7. Sensible(j)
    BY <1>1, <2>3, <2>5, <2>6 DEF Sensible, Entry
  <2>8. Loose(j)
    BY <2>5 DEF Loose, Entry
  <2> QED BY <1>1, <2>4, <2>5, <2>7, <2>8, LooseMoves DEF IInv, TypeOK
<1> QED BY <1>2, <1>3

\* The revision is locked, and is dispatchable.
LEMMA LockRevisionKeeps ==
    ASSUME IInv, NEW w \in Workers, LockRevision(w)
    PROVE  IInv'
<1>1. /\ job[w].kind = "pass" /\ job[w].at = "revision" /\ job[w].step \in Steps
      /\ UNCHANGED <<current, accepted, cancelled, unit, dispatch, sent, faults>>
  BY DEF LockRevision, At, IInv, Sensible
<1>2. CASE ~Dispatchable
  <2>1. End(w)
    BY <1>2 DEF LockRevision
  <2> QED BY <1>1, <2>1, EndMoves DEF IInv, TypeOK
<1>3. CASE Dispatchable
  <2>1. PICK j : j = [job[w] EXCEPT !.at = "gates"]
    OBVIOUS
  <2>2. job' = [job EXCEPT ![w] = j]
    BY <1>3, <2>1 DEF LockRevision, Goto, IInv, TypeOK
  <2>3. j \in JobType /\ j.at = "gates" /\ j.kind = "pass" /\ Sensible(j)
    BY <1>1, <2>1, GotoMoves
  <2>4. Backed(j) /\ \A u : ~Locks(j, u)
    BY <1>3, <2>3 DEF Backed, Locks
  <2> QED BY <1>1, <2>2, <2>3, <2>4, JobMoves DEF IInv, TypeOK
<1> QED BY <1>2, <1>3

\* The gates pass: the unit is locked in the state the pass has in hand, and nobody else has it.
LEMMA LockUnitKeeps ==
    ASSUME IInv, NEW w \in Workers, LockUnit(w)
    PROVE  IInv'
<1>1. /\ job[w].kind = "pass" /\ job[w].at = "gates" /\ job[w].step \in Steps /\ Unit(w) = job[w].step
      /\ job[w] \in JobType /\ Sensible(job[w]) /\ Dispatchable
      /\ UNCHANGED <<current, accepted, cancelled, unit, dispatch, sent, faults>>
  BY DEF LockUnit, At, IInv, TypeOK, Sensible, Backed, Unit
<1> DEFINE now == unit[Unit(w)]
<1>2. now \in UnitStates
  BY <1>1 DEF IInv, TypeOK
<1>3. CASE End(w) \/ Skip(w)
  BY <1>1, <1>3, EndMoves DEF IInv, TypeOK
<1>4. CASE ~cancelled /\ now = job[w].state /\ Goto(w, "insert")
  <2>1. PICK j : j = [job[w] EXCEPT !.at = "insert"]
    OBVIOUS
  <2>2. job' = [job EXCEPT ![w] = j]
    BY <1>4, <2>1 DEF Goto, IInv, TypeOK
  <2>3. /\ j \in JobType /\ j.at = "insert" /\ j.kind = "pass" /\ Sensible(j)
        /\ j.step = job[w].step /\ j.state = job[w].state
    BY <1>1, <2>1, GotoMoves
  <2>4. Backed(j)
    BY <1>1, <1>4, <2>3 DEF Backed
  <2>5. \A v \in Workers \ {w} : ~HoldsUnit(v, Unit(w))
    <3>1. Free(w) /\ job[w].at = "gates"
      BY <1>1 DEF LockUnit
    <3> QED BY <3>1 DEF Free, Waits
  <2>6. \A v \in Workers \ {w}, u \in Steps : Locks(j, u) => ~Locks(job[v], u)
    BY <1>1, <2>3, <2>5, HoldsIsLocks DEF Locks
  <2> QED BY <1>1, <2>2, <2>3, <2>4, <2>6, JobMoves DEF IInv, TypeOK
<1>5. CASE /\ now \in {"assigned", "dispatched"}
           /\ job' = [job EXCEPT ![w].state = now, ![w].at = Entry(now)]
  <2>1. PICK j : j = [job[w] EXCEPT !.state = now, !.at = Entry(now)]
    OBVIOUS
  <2>2. job' = [job EXCEPT ![w] = j]
    BY <1>5, <2>1 DEF IInv, TypeOK
  <2>3. /\ j \in JobType /\ j.at = Entry(now) /\ j.kind = "pass"
        /\ j.step = job[w].step /\ j.state = now /\ j.todo = job[w].todo
    BY <1>1, <1>2, <2>1 DEF JobType, Entry
  <2>4. Sensible(j) /\ Loose(j)
    BY <1>1, <1>5, <2>3 DEF Sensible, Loose, Entry
  <2> QED BY <1>1, <2>2, <2>3, <2>4, LooseMoves DEF IInv, TypeOK
<1> QED BY <1>1, <1>3, <1>4, <1>5 DEF LockUnit

\* The steps of a publication, which hold no lock.
LEMMA PublishingKeeps ==
    ASSUME IInv, NEW w \in Workers,
           ReadDispatch(w) \/ PublishDispatch(w) \/ MarkPublished(w)
    PROVE  IInv'
<1>1. /\ job[w].kind = "pass" /\ job[w].at \in {"read", "publish", "mark"}
      /\ job[w].step \in Steps /\ Unit(w) = job[w].step
      /\ UNCHANGED <<current, accepted, cancelled, unit>>
  BY DEF ReadDispatch, PublishDispatch, MarkPublished, At, IInv, Sensible, Unit
<1>2. /\ dispatch' \in [Steps -> {"none", "unpublished", "published"}]
      /\ sent' \subseteq Steps /\ faults' \in 0..MaxFaults
  <2>1. /\ dispatch' = dispatch \/ dispatch' = [dispatch EXCEPT ![Unit(w)] = "published"]
        /\ sent' = sent \/ sent' = sent \cup {Unit(w)}
        /\ faults' = faults \/ (faults < MaxFaults /\ faults' = faults + 1)
    BY DEF ReadDispatch, PublishDispatch, MarkPublished
  <2>2. dispatch' \in [Steps -> {"none", "unpublished", "published"}]
    BY <1>1, <2>1 DEF IInv, TypeOK
  <2>3. sent' \subseteq Steps
    BY <1>1, <2>1 DEF IInv, TypeOK
  <2>4. faults' \in 0..MaxFaults
    BY <2>1, DelegationAssumption DEF IInv, TypeOK
  <2> QED BY <2>2, <2>3, <2>4
<1>3. PICK at \in {"publish", "mark"} : Skip(w) \/ Goto(w, at)
  BY DEF ReadDispatch, PublishDispatch, MarkPublished
<1>4. CASE Skip(w)
  BY <1>1, <1>2, <1>4, EndMoves
<1>5. CASE Goto(w, at)
  <2>1. PICK j : j = [job[w] EXCEPT !.at = at]
    OBVIOUS
  <2>2. job' = [job EXCEPT ![w] = j]
    BY <1>5, <2>1 DEF Goto, IInv, TypeOK
  <2>3. j \in JobType /\ j.at = at /\ j.kind = "pass" /\ Sensible(j)
    BY <1>1, <2>1, GotoMoves
  <2>4. Loose(j)
    BY <2>3 DEF Loose
  <2> QED BY <1>1, <1>2, <2>2, <2>3, <2>4, LooseMoves
<1> QED BY <1>3, <1>4, <1>5

\* A result locks its unit, which nobody holds.
LEMMA LockResultUnitKeeps ==
    ASSUME IInv, NEW w \in Workers, NEW u \in Steps, LockResultUnit(w, u)
    PROVE  IInv'
<1> DEFINE j == [NoJob EXCEPT !.kind = "result", !.at = "insert", !.step = u]
<1>1. j \in JobType /\ j.kind = "result" /\ j.at = "insert" /\ j.step = u /\ j.held = {}
  BY ConstantTypes DEF JobType
<1>2. /\ job' = [job EXCEPT ![w] = j] /\ unit[u] = "dispatched"
      /\ \A v \in Workers : ~HoldsUnit(v, u)
      /\ UNCHANGED <<current, accepted, cancelled, unit, dispatch, sent, faults>>
  BY DEF LockResultUnit
<1> HIDE DEF j
<1>3. Sensible(j) /\ Backed(j)
  BY <1>1, <1>2 DEF Sensible, Backed
<1>4. \A v \in Workers \ {w}, s \in Steps : Locks(j, s) => ~Locks(job[v], s)
  BY <1>1, <1>2, HoldsIsLocks DEF Locks
<1> QED BY <1>1, <1>2, <1>3, <1>4, JobMoves DEF IInv, TypeOK

\* A result locks one more dependent: blocked, and nobody's.
LEMMA LockDependentKeeps ==
    ASSUME IInv, NEW w \in Workers, LockDependent(w)
    PROVE  IInv'
<1> DEFINE s == Min(Unlocked(w))
<1>1. /\ job[w].kind = "result" /\ job[w].at = "dependents" /\ job[w] \in JobType
      /\ Backed(job[w]) /\ Unlocked(w) # {} /\ Free(w)
      /\ job' = [job EXCEPT ![w].held = @ \cup {s}]
      /\ UNCHANGED <<current, accepted, cancelled, unit, dispatch, sent, faults>>
  BY DEF LockDependent, At, IInv, TypeOK
<1>2. Unlocked(w) \subseteq Nat
  BY DelegationAssumption DEF Unlocked, Dependents
<1>3. s \in Unlocked(w)
  BY <1>1, <1>2, MinIsMember
<1>4. s \in Steps /\ unit[s] = "blocked"
  BY <1>3 DEF Unlocked, Dependents
<1>5. \A v \in Workers \ {w} : ~HoldsUnit(v, s)
  BY <1>1 DEF Free, Waits
<1> HIDE DEF s
<1>6. PICK j : j = [job[w] EXCEPT !.held = job[w].held \cup {s}]
  OBVIOUS
<1>7. job' = [job EXCEPT ![w] = j]
  BY <1>1, <1>6 DEF IInv, TypeOK
<1>8. /\ j \in JobType /\ j.kind = "result" /\ j.at = "dependents" /\ j.step = job[w].step
      /\ j.held = job[w].held \cup {s}
  BY <1>1, <1>4, <1>6 DEF JobType
<1>9. Sensible(j) /\ Backed(j)
  BY <1>1, <1>4, <1>8 DEF Sensible, Backed
<1>10. \A v \in Workers \ {w}, u \in Steps : Locks(j, u) => ~Locks(job[v], u)
  <2>1. \A u \in Steps : Locks(j, u) => Locks(job[w], u) \/ u = s
    BY <1>1, <1>8 DEF Locks
  <2> QED BY <1>5, <2>1, HoldsIsLocks DEF IInv, Exclusive
<1> QED BY <1>1, <1>7, <1>8, <1>9, <1>10, JobMoves DEF IInv, TypeOK

\* A transaction is rolled back.
LEMMA AbortKeeps ==
    ASSUME IInv, NEW w \in Workers, Crash(w) \/ BreakDeadlock(w)
    PROVE  IInv'
<1>1. End(w) /\ UNCHANGED <<current, accepted, cancelled, unit, dispatch, sent>>
  BY DEF Crash, BreakDeadlock
<1>2. faults' \in 0..MaxFaults
  BY DelegationAssumption DEF Crash, BreakDeadlock, IInv, TypeOK
<1> QED BY <1>1, <1>2, EndMoves DEF IInv, TypeOK
-----------------------------------------------------------------------------
(* Steps that change the revision, the goal or the units *)

\* The planner goes on: whoever relies on the revision holds it, and is waited for.
LEMMA CreateSuccessorKeeps ==
    ASSUME IInv, NEW w \in Workers, CreateSuccessor(w)
    PROVE  IInv'
<1>1. /\ job[w].kind = "successor" /\ job[w].at = "revision" /\ Free(w)
      /\ current' = FALSE /\ job' = [job EXCEPT ![w] = NoJob]
      /\ UNCHANGED <<accepted, cancelled, unit, dispatch, sent, faults>>
  BY DEF CreateSuccessor, At, End
<1>2. \A v \in Workers : ~(job[v].kind = "pass" /\ job[v].at \in {"gates", "insert"})
  BY <1>1 DEF Free, Waits, HoldsRevision
<1>3. /\ job'[w] = NoJob /\ \A v \in Workers \ {w} : job'[v] = job[v]
      /\ job' \in [Workers -> JobType]
  BY <1>1, ConstantTypes DEF IInv, TypeOK
<1>4. TypeOK'
  BY <1>1, <1>3 DEF IInv, TypeOK
<1>5. Sensible(NoJob) /\ Loose(NoJob)
  BY ConstantTypes DEF Sensible, Loose
<1>6. ASSUME NEW v \in Workers PROVE (Sensible(job[v]) /\ Backed(job[v]))'
  BY <1>1, <1>2, <1>3, <1>5 DEF IInv, Sensible, Backed, Loose
<1>7. Exclusive'
  BY <1>3, <1>5, LooseLocksNothing DEF IInv, Exclusive, Locks
<1>8. AllOrNothing' /\ BlockedMeansWaiting'
  BY <1>1 DEF IInv, AllOrNothing, Nothing, Materialized, BlockedMeansWaiting
<1> QED BY <1>4, <1>6, <1>7, <1>8 DEF IInv

\* The revision is accepted, or the goal cancelled while no pass holds it.
LEMMA AcceptAndCancelKeep ==
    ASSUME IInv, Accept \/ Cancel
    PROVE  IInv'
<1>1. /\ UNCHANGED <<current, unit, dispatch, sent, job, faults>>
      /\ accepted \in BOOLEAN /\ cancelled \in BOOLEAN
      /\ accepted' = accepted \/ accepted' = TRUE
      /\ cancelled' = cancelled \/ (cancelled' = TRUE /\ \A v \in Workers : ~HoldsItem(v))
  BY DEF Accept, Cancel, IInv, TypeOK
<1>2. TypeOK'
  BY <1>1 DEF IInv, TypeOK
<1>3. ASSUME NEW v \in Workers PROVE (Sensible(job[v]) /\ Backed(job[v]))'
  BY <1>1 DEF IInv, Sensible, Backed, Dispatchable, HoldsItem, At
<1>4. Exclusive'
  BY <1>1 DEF IInv, Exclusive, Locks
<1>5. AllOrNothing' /\ BlockedMeansWaiting'
  BY <1>1 DEF IInv, AllOrNothing, Nothing, Materialized, BlockedMeansWaiting
<1> QED BY <1>2, <1>3, <1>4, <1>5 DEF IInv

\* The graph is built: exactly the steps with dependencies wait for them.
LEMMA MaterializeKeeps ==
    ASSUME IInv, NEW w \in Workers, Materialize(w)
    PROVE  IInv'
<1> DEFINE graph == [s \in Steps |-> IF Deps[s] = {} THEN "ready" ELSE "blocked"]
<1>1. /\ End(w) /\ UNCHANGED <<current, accepted, cancelled, dispatch, sent, faults>>
      /\ unit' = unit \/ (~Materialized /\ unit' = graph)
  BY DEF Materialize
<1>2. CASE unit' = unit
  BY <1>1, <1>2, EndMoves DEF IInv, TypeOK
<1>3. CASE ~Materialized /\ unit' = graph
  <2>1. unit = Nothing
    BY <1>3 DEF IInv, AllOrNothing
  <2>2. \A v \in Workers : job[v].kind # "result" /\ ~(job[v].kind = "pass" /\ job[v].at = "insert")
    BY <2>1 DEF IInv, Sensible, Backed, Nothing
  <2>3. /\ job'[w] = NoJob /\ \A v \in Workers \ {w} : job'[v] = job[v]
        /\ job' \in [Workers -> JobType]
    BY <1>1, ConstantTypes DEF IInv, TypeOK, End
  <2>4. Sensible(NoJob) /\ Loose(NoJob)
    BY ConstantTypes DEF Sensible, Loose
  <2>5. TypeOK'
    <3>1. unit' \in [Steps -> UnitStates]
      BY <1>3 DEF UnitStates
    <3> QED BY <1>1, <2>3, <3>1 DEF IInv, TypeOK
  <2>6. ASSUME NEW v \in Workers PROVE (Sensible(job[v]) /\ Backed(job[v]))'
    BY <1>1, <2>2, <2>3, <2>4 DEF IInv, Sensible, Backed, Loose, Dispatchable
  <2>7. Exclusive'
    BY <2>2, <2>3, <2>4 DEF Exclusive, Locks, Loose
  <2>8. AllOrNothing'
    BY <1>3 DEF AllOrNothing, Materialized
  <2>9. BlockedMeansWaiting'
    <3>1. \A u \in Steps : unit'[u] = "blocked" <=> Deps[u] # {}
      BY <1>3
    <3>2. \A u \in Steps : unit'[u] # "completed"
      BY <1>3
    <3>3. \A u \in Steps : Deps[u] \subseteq Steps
      BY DelegationAssumption
    <3> QED BY <3>1, <3>2, <3>3 DEF BlockedMeansWaiting
  <2> QED BY <2>5, <2>6, <2>7, <2>8, <2>9 DEF IInv
<1> QED BY <1>1, <1>2, <1>3

\* A connection moves a unit it holds, on the way from ready to its end without success, and
\* lets go of it.
LEMMA UnitMoves ==
    ASSUME IInv, NEW w \in Workers, NEW j \in JobType, job' = [job EXCEPT ![w] = j],
           UNCHANGED <<current, accepted, cancelled, sent, faults>>,
           dispatch' \in [Steps -> {"none", "unpublished", "published"}],
           Sensible(j), Loose(j),
           NEW u \in Steps, Locks(job[w], u), unit[u] \in {"ready", "assigned", "dispatched"},
           NEW x \in {"assigned", "dispatched", "failed"}, unit' = [unit EXCEPT ![u] = x]
    PROVE  IInv'
<1>1. /\ job'[w] = j /\ \A v \in Workers \ {w} : job'[v] = job[v]
      /\ job' \in [Workers -> JobType]
  BY DEF IInv, TypeOK
<1>2. /\ unit'[u] = x /\ \A s \in Steps \ {u} : unit'[s] = unit[s]
      /\ unit' \in [Steps -> UnitStates]
  BY DEF IInv, TypeOK, UnitStates
<1>3. TypeOK'
  BY <1>1, <1>2 DEF IInv, TypeOK
<1>4. Backed(j)' /\ \A s : ~Locks(j, s)
  BY LooseLocksNothing DEF Loose, Backed
<1>5. ASSUME NEW v \in Workers PROVE (Sensible(job[v]) /\ Backed(job[v]))'
  <2>1. CASE v = w
    BY <1>1, <1>4, <2>1 DEF Sensible, Backed
  <2>2. CASE v # w
    <3>1. Sensible(job[v]) /\ Backed(job[v]) /\ ~Locks(job[v], u) /\ job[v] \in JobType
      BY <2>2 DEF IInv, Exclusive, TypeOK
    <3>2. Sensible(job[v])' /\ job'[v] = job[v]
      BY <1>1, <2>2, <3>1 DEF Sensible
    <3>3. CASE job[v].kind = "pass"
      BY <1>2, <3>1, <3>2, <3>3 DEF Backed, Locks, Dispatchable, Sensible
    <3>4. CASE job[v].kind = "result"
      <4>1. job[v].step # u /\ u \notin job[v].held /\ job[v].held \subseteq Steps
        BY <3>1, <3>4 DEF Backed, Locks, JobType
      <4> QED BY <1>2, <3>1, <3>2, <3>4, <4>1 DEF Backed
    <3> QED BY <3>2, <3>3, <3>4 DEF Backed
  <2> QED BY <2>1, <2>2
<1>6. Exclusive'
  BY <1>1, <1>4 DEF IInv, Exclusive, Locks
<1>7. AllOrNothing'
  BY <1>2 DEF IInv, AllOrNothing, Nothing, Materialized
<1>8. BlockedMeansWaiting'
  <2>1. Materialized
    BY DEF IInv, AllOrNothing, Nothing
  <2>2. \A s \in Steps : unit[s] = "blocked" <=> \E d \in Deps[s] : unit[d] # "completed"
    BY <2>1 DEF IInv, BlockedMeansWaiting
  <2>3. \A s \in Steps : /\ unit'[s] = "blocked" <=> unit[s] = "blocked"
                         /\ unit'[s] = "completed" <=> unit[s] = "completed"
    BY <1>2
  <2>4. \A s \in Steps : Deps[s] \subseteq Steps
    BY DelegationAssumption
  <2> QED BY <2>2, <2>3, <2>4 DEF BlockedMeansWaiting
<1> QED BY <1>3, <1>5, <1>6, <1>7, <1>8 DEF IInv

\* The steps of a pass and of a failed result that write the unit they hold.
LEMMA UnitWritersKeep ==
    ASSUME IInv, NEW w \in Workers, Assign(w) \/ CreateDispatch(w) \/ RecordResult(w)
    PROVE  IInv'
<1>1. /\ job[w] \in JobType /\ Sensible(job[w]) /\ Backed(job[w]) /\ Unit(w) = job[w].step
      /\ unit \in [Steps -> UnitStates]
      /\ dispatch \in [Steps -> {"none", "unpublished", "published"}]
  BY DEF IInv, TypeOK, Unit
<1>2. CASE Assign(w)
  <2>1. /\ job[w].kind = "pass" /\ job[w].at = "insert" /\ job[w].step \in Steps
        /\ job[w].state = "ready" /\ unit[Unit(w)] = "ready"
        /\ UNCHANGED <<current, accepted, cancelled, dispatch, sent>>
    BY <1>1, <1>2 DEF Assign, At, Sensible, Backed
  <2>2. CASE /\ unit' = [unit EXCEPT ![Unit(w)] = "assigned"] /\ UNCHANGED faults
             /\ job' = [job EXCEPT ![w].state = "assigned", ![w].at = "revision"]
    <3>1. PICK j : j = [job[w] EXCEPT !.state = "assigned", !.at = "revision"]
      OBVIOUS
    <3>2. job' = [job EXCEPT ![w] = j]
      BY <2>2, <3>1 DEF IInv, TypeOK
    <3>3. /\ j \in JobType /\ j.kind = "pass" /\ j.at = "revision" /\ j.state = "assigned"
          /\ j.step = job[w].step /\ j.todo = job[w].todo
      BY <1>1, <2>1, <3>1 DEF JobType, UnitStates
    <3>4. Sensible(j) /\ Loose(j)
      BY <1>1, <2>1, <3>3 DEF Sensible, Loose
    <3>5. Locks(job[w], Unit(w))
      BY <1>1, <2>1 DEF Locks
    <3> QED BY <1>1, <2>1, <2>2, <3>2, <3>3, <3>4, <3>5, UnitMoves DEF IInv, TypeOK
  <2>3. CASE faults < MaxFaults /\ faults' = faults + 1 /\ Skip(w) /\ UNCHANGED unit
    <3>1. faults' \in 0..MaxFaults
      BY <2>3, DelegationAssumption DEF IInv, TypeOK
    <3> QED BY <2>1, <2>3, <3>1, EndMoves DEF IInv, TypeOK
  <2> QED BY <1>2, <2>2, <2>3 DEF Assign
<1>3. CASE CreateDispatch(w)
  <2>1. /\ job[w].kind = "pass" /\ job[w].at = "insert" /\ job[w].step \in Steps
        /\ job[w].state = "assigned" /\ unit[Unit(w)] = "assigned"
        /\ unit' = [unit EXCEPT ![Unit(w)] = "dispatched"]
        /\ dispatch' = [dispatch EXCEPT ![Unit(w)] = "unpublished"]
        /\ UNCHANGED <<current, accepted, cancelled, sent, faults>>
    BY <1>1, <1>3 DEF CreateDispatch, At, Sensible, Backed
  <2>2. PICK j : j = [job[w] EXCEPT !.at = "publish"]
    OBVIOUS
  <2>3. job' = [job EXCEPT ![w] = j]
    BY <1>3, <2>2 DEF CreateDispatch, Goto, IInv, TypeOK
  <2>4. j \in JobType /\ j.kind = "pass" /\ j.at = "publish" /\ Sensible(j)
    BY <2>1, <2>2, GotoMoves
  <2>5. Loose(j) /\ Locks(job[w], Unit(w))
    BY <1>1, <2>1, <2>4 DEF Loose, Locks
  <2>6. dispatch' \in [Steps -> {"none", "unpublished", "published"}]
    BY <1>1, <2>1
  <2> QED BY <1>1, <2>1, <2>3, <2>4, <2>5, <2>6, UnitMoves
<1>4. CASE RecordResult(w)
  <2>1. /\ job[w].kind = "result" /\ job[w].at = "insert" /\ job[w].step \in Steps
        /\ unit[Unit(w)] = "dispatched"
        /\ UNCHANGED <<current, accepted, cancelled, dispatch, sent, faults>>
    BY <1>1, <1>4 DEF RecordResult, At, Backed
  <2>2. CASE Goto(w, "dependents") /\ UNCHANGED unit
    <3>1. PICK j : j = [job[w] EXCEPT !.at = "dependents"]
      OBVIOUS
    <3>2. job' = [job EXCEPT ![w] = j]
      BY <2>2, <3>1 DEF Goto, IInv, TypeOK
    <3>3. /\ j \in JobType /\ j.at = "dependents" /\ j.kind = "result" /\ Sensible(j)
          /\ j.step = job[w].step /\ j.held = job[w].held
      BY <2>1, <3>1, GotoMoves
    <3>4. Backed(j)
      BY <1>1, <2>1, <3>3 DEF Backed
    <3>5. \A u \in Steps : Locks(j, u) => Locks(job[w], u)
      BY <2>1, <3>3 DEF Locks
    <3>6. \A v \in Workers \ {w}, u \in Steps : Locks(j, u) => ~Locks(job[v], u)
      BY <3>5 DEF IInv, Exclusive
    <3> QED BY <2>1, <2>2, <3>2, <3>3, <3>4, <3>6, JobMoves DEF IInv, TypeOK
  <2>3. CASE unit' = [unit EXCEPT ![Unit(w)] = "failed"] /\ End(w)
    <3>1. NoJob \in JobType /\ Sensible(NoJob) /\ Loose(NoJob)
      BY SkipAndEnd
    <3>2. Locks(job[w], Unit(w)) /\ job' = [job EXCEPT ![w] = NoJob]
      BY <1>1, <2>1, <2>3 DEF Locks, End
    <3> QED BY <1>1, <2>1, <2>3, <3>1, <3>2, UnitMoves
  <2> QED BY <1>4, <2>2, <2>3 DEF RecordResult
<1> QED BY <1>2, <1>3, <1>4

\* A result completes its unit and promotes the dependents that waited for it alone.  Whoever
\* else would complete one of their dependencies waits for the dependent; so of two results
\* that finish together, the second one sees the first.
LEMMA UnblockDependentsKeeps ==
    ASSUME IInv, NEW w \in Workers, UnblockDependents(w)
    PROVE  IInv'
<1> DEFINE c == Unit(w)
           held == job[w].held
<1>1. /\ job[w].kind = "result" /\ job[w].at = "dependents" /\ job[w] \in JobType
      /\ c \in Steps /\ unit[c] = "dispatched" /\ (\A s \in held : unit[s] = "blocked")
      /\ held \subseteq Steps /\ Unlocked(w) = {} /\ End(w)
      /\ UNCHANGED <<current, accepted, cancelled, dispatch, sent, faults>>
  BY DEF UnblockDependents, At, Unit, IInv, TypeOK, Backed, JobType
<1>2. /\ unit'[c] = "completed"
      /\ \A s \in Steps \ {c} :
            unit'[s] = IF s \in held /\ Outstanding(c, s) = {} THEN "ready" ELSE unit[s]
      /\ unit' \in [Steps -> UnitStates]
  <2>1. unit' = [s \in Steps |-> CASE s = c -> "completed"
                                   [] s \in held /\ Outstanding(c, s) = {} -> "ready"
                                   [] OTHER -> unit[s]]
    BY DEF UnblockDependents
  <2>2. c \notin held
    BY <1>1
  <2>3. /\ unit'[c] = "completed"
        /\ \A s \in Steps \ {c} :
              unit'[s] = IF s \in held /\ Outstanding(c, s) = {} THEN "ready" ELSE unit[s]
    BY <1>1, <2>1, <2>2
  <2>4. \A s \in Steps : unit'[s] \in UnitStates
    BY <2>3 DEF IInv, TypeOK, UnitStates
  <2> QED BY <2>1, <2>3, <2>4
<1>3. Sensible(NoJob) /\ Loose(NoJob)
  BY ConstantTypes DEF Sensible, Loose
<1>4. /\ job'[w] = NoJob /\ \A v \in Workers \ {w} : job'[v] = job[v]
      /\ job' \in [Workers -> JobType]
  BY <1>1, ConstantTypes DEF IInv, TypeOK, End
<1>5. TypeOK'
  BY <1>1, <1>2, <1>4 DEF IInv, TypeOK
<1>6. ASSUME NEW v \in Workers PROVE (Sensible(job[v]) /\ Backed(job[v]))'
  <2>1. CASE v = w
    BY <1>3, <1>4, <2>1 DEF Sensible, Backed, Loose
  <2>2. CASE v # w
    <3>1. Sensible(job[v]) /\ Backed(job[v]) /\ job[v] \in JobType /\ job'[v] = job[v]
      BY <1>4, <2>2 DEF IInv, TypeOK
    <3>2. \A s \in Steps : Locks(job[v], s) => s # c /\ s \notin held
      BY <1>1, <2>2 DEF IInv, Exclusive, Locks, Unit
    <3>3. \A s \in Steps : Locks(job[v], s) => unit'[s] = unit[s]
      BY <1>2, <3>2
    <3>4. Sensible(job[v])'
      BY <3>1 DEF Sensible
    <3>5. CASE job[v].kind = "pass"
      BY <1>1, <3>1, <3>3, <3>5 DEF Backed, Locks, Dispatchable, Sensible
    <3>6. CASE job[v].kind = "result"
      <4>1. job[v].held \subseteq Steps
        BY <3>1 DEF JobType
      <4> QED BY <3>1, <3>3, <3>6, <4>1 DEF Backed, Locks
    <3> QED BY <3>1, <3>4, <3>5, <3>6 DEF Backed
  <2> QED BY <2>1, <2>2
<1>7. Exclusive'
  BY <1>3, <1>4, LooseLocksNothing DEF IInv, Exclusive, Locks
<1>8. Materialized
  BY <1>1 DEF IInv, AllOrNothing, Nothing
<1>9. AllOrNothing'
  BY <1>2, <1>8 DEF AllOrNothing, Materialized
<1>10. BlockedMeansWaiting'
  <2>1. \A u \in Steps : unit[u] = "blocked" <=> \E d \in Deps[u] : unit[d] # "completed"
    BY <1>8 DEF IInv, BlockedMeansWaiting
  <2>2. \A u \in Steps : Deps[u] \subseteq Steps
    BY DelegationAssumption
  <2>3. \A d \in Steps : unit'[d] = "completed" <=> d = c \/ unit[d] = "completed"
    BY <1>1, <1>2
  <2>4. ASSUME NEW u \in Steps
        PROVE  unit'[u] = "blocked" <=> \E d \in Deps[u] : unit'[d] # "completed"
    <3>1. CASE unit[u] # "blocked"
      BY <1>1, <1>2, <2>1, <2>2, <2>3, <3>1
    <3>2. CASE unit[u] = "blocked" /\ u \notin held
      <4>1. c \notin Deps[u] /\ u # c
        BY <1>1, <3>2 DEF Unlocked, Dependents
      <4> QED BY <1>2, <2>1, <2>2, <2>3, <3>2, <4>1
    <3>3. CASE unit[u] = "blocked" /\ u \in held
      <4>1. Outstanding(c, u) = {} <=> \A d \in Deps[u] : d = c \/ unit[d] = "completed"
        BY DEF Outstanding
      <4>2. u # c
        BY <1>1, <3>3
      <4> QED BY <1>2, <2>2, <2>3, <3>3, <4>1, <4>2
    <3> QED BY <3>1, <3>2, <3>3
  <2> QED BY <2>4 DEF BlockedMeansWaiting
<1> QED BY <1>5, <1>6, <1>7, <1>9, <1>10 DEF IInv
-----------------------------------------------------------------------------
\* Every step of the specification keeps the invariant.
LEMMA NextIInv == IInv /\ [Next]_vars => IInv'
<1> SUFFICES ASSUME IInv, [Next]_vars PROVE IInv'
  OBVIOUS
<1>1. CASE \E w \in Workers : Step(w) \/ Crash(w)
  <2>1. PICK w \in Workers : Step(w) \/ Crash(w)
    BY <1>1
  <2>2. CASE NextUnit(w) \/ LockRevision(w) \/ LockUnit(w)
    BY <2>2, NextUnitKeeps, LockRevisionKeeps, LockUnitKeeps
  <2>3. CASE Assign(w) \/ CreateDispatch(w) \/ RecordResult(w)
    BY <2>3, UnitWritersKeep
  <2>4. CASE ReadDispatch(w) \/ PublishDispatch(w) \/ MarkPublished(w)
    BY <2>4, PublishingKeeps
  <2>5. CASE LockDependent(w) \/ UnblockDependents(w)
    BY <2>5, LockDependentKeeps, UnblockDependentsKeeps
  <2>6. CASE CreateSuccessor(w) \/ Materialize(w)
    BY <2>6, CreateSuccessorKeeps, MaterializeKeeps
  <2>7. CASE Crash(w) \/ BreakDeadlock(w)
    BY <2>7, AbortKeeps
  <2> QED BY <2>1, <2>2, <2>3, <2>4, <2>5, <2>6, <2>7 DEF Step
<1>2. CASE \E w \in Workers, kind \in Building : LockProject(w, kind)
  BY <1>2, LockProjectKeeps
<1>3. CASE \E w \in Workers : StartPass(w)
  BY <1>3, StartPassKeeps
<1>4. CASE \E w \in Workers, u \in Steps : LockResultUnit(w, u)
  BY <1>4, LockResultUnitKeeps
<1>5. CASE Accept \/ Cancel
  BY <1>5, AcceptAndCancelKeep
<1>6. CASE UNCHANGED vars
  <2>1. UNCHANGED <<current, accepted, cancelled, unit, dispatch, sent, job, faults>>
    BY <1>6 DEF vars
  <2>2. TypeOK' /\ AllOrNothing' /\ BlockedMeansWaiting'
    BY <2>1 DEF IInv, TypeOK, AllOrNothing, Nothing, Materialized, BlockedMeansWaiting
  <2>3. (\A w \in Workers : Sensible(job[w]) /\ Backed(job[w]))'
    BY <2>1 DEF IInv, Sensible, Backed, Dispatchable
  <2>4. Exclusive'
    BY <2>1 DEF IInv, Exclusive, Locks
  <2> QED BY <2>2, <2>3, <2>4 DEF IInv
<1> QED BY <1>1, <1>2, <1>3, <1>4, <1>5, <1>6 DEF Next

\* The invariant holds in every reachable state.
LEMMA Invariant == Spec => []IInv
BY InitIInv, NextIInv, PTL DEF Spec
-----------------------------------------------------------------------------
\* Units, dispatches and the commands of the connections keep their types, for any plan and
\* any number of connections (plan_delegation, agent_planning/store.py).
THEOREM DelegationTyped == Spec => []TypeOK
<1>1. IInv => TypeOK
  BY DEF IInv
<1> QED BY <1>1, Invariant, PTL

\* For any plan and any number of results that arrive together, a step is blocked exactly as
\* long as one of its dependencies has not completed: record_result locks its unit and the
\* dependents (_unblock_dependents), so the last of them always sees the others.
THEOREM FanInNeverForgets == Spec => []BlockedMeansWaiting
<1>1. IInv => BlockedMeansWaiting
  BY DEF IInv
<1> QED BY <1>1, Invariant, PTL

\* No unit is in two transactions at once, whatever plan and connections: what
\* schedule_ready_work and record_result lock FOR UPDATE is theirs.
THEOREM UnitsHaveOneHolder ==
    Spec => [](\A v, w \in Workers, u \in Steps : HoldsUnit(v, u) /\ HoldsUnit(w, u) => v = w)
<1>1. IInv => \A v, w \in Workers, u \in Steps : HoldsUnit(v, u) /\ HoldsUnit(w, u) => v = w
  BY HoldsIsLocks DEF IInv, Exclusive
<1> QED BY <1>1, Invariant, PTL

\* The transactions that write units: everything else leaves them alone.
LEMMA WhoMovesUnits ==
    ASSUME [Next]_vars, unit' # unit
    PROVE  \E w \in Workers : \/ Materialize(w) \/ Assign(w) \/ CreateDispatch(w)
                              \/ RecordResult(w) \/ UnblockDependents(w)
<1>1. CASE UNCHANGED vars
  BY <1>1 DEF vars
<1>2. CASE \E w \in Workers : Step(w) \/ Crash(w)
  BY <1>2 DEF Step, Crash, CreateSuccessor, NextUnit, LockRevision, LockUnit, ReadDispatch,
              PublishDispatch, MarkPublished, LockDependent, BreakDeadlock
<1>3. CASE ~(\E w \in Workers : Step(w) \/ Crash(w)) /\ ~UNCHANGED vars
  BY <1>3 DEF Next, LockProject, StartPass, LockResultUnit, Accept, Cancel
<1> QED BY <1>1, <1>2, <1>3

\* A unit gets an owner or a dispatch only under the accepted tip of the plan and before the
\* goal is cancelled: what confirm_current_revision and _assert_lineage_not_cancelled found is
\* locked until the transaction commits.
THEOREM WorkOnlyWhenAuthorized == Spec => NewWorkIsAuthorized
<1> DEFINE Authorized ==
      \A u \in Steps : (unit'[u] # unit[u] /\ unit'[u] \in {"assigned", "dispatched"}) =>
         Dispatchable' /\ ~cancelled'
<1>1. ASSUME IInv, [Next]_vars PROVE [Authorized]_vars
  <2> SUFFICES ASSUME NEW u \in Steps, unit'[u] # unit[u], unit'[u] \in {"assigned", "dispatched"}
               PROVE  Dispatchable' /\ ~cancelled'
    OBVIOUS
  <2>1. PICK w \in Workers : \/ Materialize(w) \/ Assign(w) \/ CreateDispatch(w)
                             \/ RecordResult(w) \/ UnblockDependents(w)
    BY <1>1, WhoMovesUnits
  <2>2. unit \in [Steps -> UnitStates] /\ Backed(job[w]) /\ Unit(w) = job[w].step
    BY <1>1 DEF IInv, TypeOK, Unit
  <2>3. CASE Assign(w) \/ CreateDispatch(w)
    <3>1. Dispatchable /\ ~cancelled /\ UNCHANGED <<current, accepted, cancelled>>
      BY <2>2, <2>3 DEF Assign, CreateDispatch, At, Backed
    <3> QED BY <3>1 DEF Dispatchable
  <2>4. CASE RecordResult(w)
    BY <2>2, <2>4 DEF RecordResult
  <2>5. CASE Materialize(w)
    BY <2>5 DEF Materialize
  <2>6. CASE UnblockDependents(w)
    <3>1. unit' = [s \in Steps |->
             CASE s = Unit(w) -> "completed"
               [] s \in job[w].held /\ Outstanding(Unit(w), s) = {} -> "ready"
               [] OTHER -> unit[s]]
      BY <2>6 DEF UnblockDependents
    <3>2. unit'[u] \in {"completed", "ready", unit[u]}
      BY <3>1
    <3> QED BY <3>2
  <2> QED BY <2>1, <2>3, <2>4, <2>5, <2>6
<1> QED BY <1>1, Invariant, PTL DEF Spec, NewWorkIsAuthorized
-----------------------------------------------------------------------------
(* The execution graph is dataflow *)

\* What one step may do to the units: build the graph, take one unit on to its next state, or
\* complete one and promote others.
Builds ==
    /\ \A s \in Steps : unit[s] = "absent"
    /\ \A s \in Steps : unit'[s] \in {"ready", "blocked"}

TakesOn(u) ==
    /\ <<unit[u], unit'[u]>> \in {<<"ready", "assigned">>, <<"assigned", "dispatched">>,
                                  <<"dispatched", "failed">>}
    /\ \A s \in Steps \ {u} : unit'[s] = unit[s]

Promotes(u) ==
    /\ unit[u] = "dispatched" /\ unit'[u] = "completed"
    /\ \A s \in Steps \ {u} : unit'[s] # unit[s] => unit[s] = "blocked" /\ unit'[s] = "ready"

LEMMA UnitsMoveSo ==
    ASSUME IInv, [Next]_vars, unit' # unit
    PROVE  Builds \/ \E u \in Steps : TakesOn(u) \/ Promotes(u)
<1>1. PICK w \in Workers : \/ Materialize(w) \/ Assign(w) \/ CreateDispatch(w)
                           \/ RecordResult(w) \/ UnblockDependents(w)
  BY WhoMovesUnits
<1>2. /\ unit \in [Steps -> UnitStates] /\ Backed(job[w]) /\ Sensible(job[w])
      /\ Unit(w) = job[w].step /\ job[w].held \subseteq Steps
  BY DEF IInv, TypeOK, Unit, JobType
<1>3. CASE Materialize(w)
  <2>1. /\ ~Materialized
        /\ unit' = [s \in Steps |-> IF Deps[s] = {} THEN "ready" ELSE "blocked"]
    BY <1>3 DEF Materialize
  <2>2. unit = Nothing
    BY <2>1 DEF IInv, AllOrNothing
  <2>3. \A s \in Steps : unit[s] = "absent" /\ unit'[s] \in {"ready", "blocked"}
    BY <2>1, <2>2 DEF Nothing
  <2> QED BY <2>3 DEF Builds
<1>4. CASE Assign(w)
  <2>1. /\ job[w].step \in Steps /\ unit[job[w].step] = "ready"
        /\ unit' = [unit EXCEPT ![job[w].step] = "assigned"]
    BY <1>2, <1>4 DEF Assign, At, Sensible, Backed
  <2> QED BY <1>2, <2>1 DEF TakesOn
<1>5. CASE CreateDispatch(w)
  <2>1. /\ job[w].step \in Steps /\ unit[job[w].step] = "assigned"
        /\ unit' = [unit EXCEPT ![job[w].step] = "dispatched"]
    BY <1>2, <1>5 DEF CreateDispatch, At, Sensible, Backed
  <2> QED BY <1>2, <2>1 DEF TakesOn
<1>6. CASE RecordResult(w)
  <2>1. /\ job[w].step \in Steps /\ unit[job[w].step] = "dispatched"
        /\ unit' = [unit EXCEPT ![job[w].step] = "failed"]
    BY <1>2, <1>6 DEF RecordResult, At, Backed
  <2> QED BY <1>2, <2>1 DEF TakesOn
<1>7. CASE UnblockDependents(w)
  <2>1. /\ job[w].step \in Steps /\ unit[job[w].step] = "dispatched"
        /\ \A s \in job[w].held : unit[s] = "blocked"
    BY <1>2, <1>7 DEF UnblockDependents, At, Backed
  <2>2. unit' = [s \in Steps |->
           CASE s = job[w].step -> "completed"
             [] s \in job[w].held /\ Outstanding(job[w].step, s) = {} -> "ready"
             [] OTHER -> unit[s]]
    BY <1>2, <1>7 DEF UnblockDependents
  <2>3. unit'[job[w].step] = "completed"
    BY <2>1, <2>2
  <2>4. ASSUME NEW s \in Steps \ {job[w].step}, unit'[s] # unit[s]
        PROVE  unit[s] = "blocked" /\ unit'[s] = "ready"
    <3>1. s \in job[w].held /\ unit'[s] = "ready"
      BY <2>2, <2>4
    <3> QED BY <2>1, <3>1
  <2> QED BY <2>1, <2>3, <2>4 DEF Promotes
<1> QED BY <1>1, <1>3, <1>4, <1>5, <1>6, <1>7

\* Whoever is past "blocked" has everything it depends on.
LEMMA PastBlockedHasDeps ==
    ASSUME IInv, NEW u \in Steps, unit[u] \notin {"absent", "blocked"}
    PROVE  /\ \A d \in Deps[u] : d \in Steps /\ unit[d] = "completed"
           /\ \A s \in Steps : unit[s] # "absent"
<1>1. Materialized
  BY DEF IInv, AllOrNothing, Nothing
<1> QED BY <1>1, DelegationAssumption DEF IInv, BlockedMeansWaiting, Materialized

LEMMA FlowInit == Init => Flow!Init
BY DEF Init, Nothing, Flow!Init, InState, Terminal

\* Every step is a step of the contract, or none.
LEMMA FlowStep ==
    ASSUME IInv, [Next]_vars
    PROVE  [Flow!Next]_(Flow!vars)
<1> DEFINE issued == InState({"dispatched"} \cup Terminal)
           done == InState({"completed"})
           failed == InState({"failed"})
<1>1. CASE UNCHANGED unit
  <2>1. issued' = issued /\ done' = done /\ failed' = failed
    BY <1>1 DEF InState
  <2> QED BY <2>1 DEF Flow!vars
<1>2. CASE Builds
  <2>1. issued' = issued /\ done' = done /\ failed' = failed
    BY <1>2 DEF Builds, InState, Terminal
  <2> QED BY <2>1 DEF Flow!vars
<1>3. ASSUME NEW u \in Steps, TakesOn(u) PROVE [Flow!Next]_(Flow!vars)
  <2>1. CASE unit[u] = "ready" /\ unit'[u] = "assigned"
    <3>1. issued' = issued /\ done' = done /\ failed' = failed
      BY <1>3, <2>1 DEF TakesOn, InState, Terminal
    <3> QED BY <3>1 DEF Flow!vars
  <2>2. CASE unit[u] = "assigned" /\ unit'[u] = "dispatched"
    <3>1. /\ u \notin issued /\ issued' = issued \cup {u}
          /\ done' = done /\ failed' = failed
      BY <1>3, <2>2 DEF TakesOn, InState, Terminal
    <3>2. Deps[u] \subseteq done
      BY <2>2, PastBlockedHasDeps DEF InState
    <3> QED BY <3>1, <3>2 DEF Flow!Next, Flow!Issue
  <2>3. CASE unit[u] = "dispatched" /\ unit'[u] = "failed"
    <3>1. /\ u \in issued /\ u \notin done /\ u \notin failed
          /\ issued' = issued /\ done' = done /\ failed' = failed \cup {u}
      BY <1>3, <2>3 DEF TakesOn, InState, Terminal
    <3> QED BY <3>1 DEF Flow!Next, Flow!Fail, Flow!Running
  <2> QED BY <1>3, <2>1, <2>2, <2>3 DEF TakesOn
<1>4. ASSUME NEW u \in Steps, Promotes(u) PROVE [Flow!Next]_(Flow!vars)
  <2>1. /\ u \in issued /\ u \notin done /\ u \notin failed
        /\ issued' = issued /\ done' = done \cup {u} /\ failed' = failed
    BY <1>4 DEF Promotes, InState, Terminal
  <2> QED BY <2>1 DEF Flow!Next, Flow!Complete, Flow!Running
<1> QED BY <1>1, <1>2, <1>3, <1>4, UnitsMoveSo

\* Passes, results, the planner, crashes and broken deadlocks execute the graph as dataflow,
\* for any plan: create_dispatch is reached once for a step, after every result it depends on,
\* and record_result ends a step once; a step behind a failed one is never dispatched.
THEOREM GraphIsDataflow == Spec => ImplementsDataflow
<1>1. Spec => Flow!Init /\ [][Flow!Next]_(Flow!vars)
  BY FlowInit, FlowStep, Invariant, PTL DEF Spec
<1> QED BY <1>1 DEF ImplementsDataflow, Flow!Spec
-----------------------------------------------------------------------------
(* What is on the wire has its row, and its dependencies *)

\* A command on the wire has its dispatch row, and everything its step depends on completed.
CommandsAreEarned ==
    \A u \in sent : dispatch[u] # "none" /\ \A d \in Deps[u] : unit[d] = "completed"

\* The dispatch row is written with the state of its unit, and stamped only after the broker
\* has taken the command.
RowMatches(u) ==
    /\ dispatch[u] # "none" <=> unit[u] \in {"dispatched", "completed", "failed"}
    /\ dispatch[u] = "published" => u \in sent
    /\ u \in sent => dispatch[u] # "none"

\* What a pass believes to be dispatched has its row, also after the row was read.
Posted(j) ==
    j.kind = "pass" =>
        /\ \A s \in Steps : j.todo[s] = "dispatched" => dispatch[s] # "none"
        /\ j.at \in {"read", "publish", "mark"} => dispatch[j.step] # "none"
        /\ j.at = "mark" => j.step \in sent

Delivery ==
    /\ \A u \in Steps : RowMatches(u)
    /\ \A w \in Workers : Posted(job[w])

LEMMA DeliveryInit == Init => Delivery
<1> SUFFICES ASSUME Init PROVE Delivery
  OBVIOUS
<1>1. \A u \in Steps : unit[u] = "absent" /\ dispatch[u] = "none" /\ u \notin sent
  BY DEF Init, Nothing
<1>2. \A w \in Workers : job[w].kind = "none"
  BY ConstantTypes DEF Init
<1> QED BY <1>1, <1>2 DEF Delivery, RowMatches, Posted

\* The ends of a turn of a connection: Skip goes on with the rest of the pass, End with nothing.
LEMMA TurnEnds ==
    ASSUME IInv, Delivery, NEW w \in Workers, Skip(w) \/ End(w)
    PROVE  /\ \A v \in Workers \ {w} : job'[v] = job[v]
           /\ job'[w].kind = "pass" => job'[w].at = "next" /\ job'[w].todo = job[w].todo
           /\ job'[w].kind = "pass" => Skip(w)
<1>1. job \in [Workers -> JobType]
  BY DEF IInv, TypeOK
<1>2. CASE Skip(w)
  <2>1. job' = [job EXCEPT ![w] = [NoJob EXCEPT !.kind = "pass", !.at = "next",
                                                !.todo = job[w].todo]]
    BY <1>2 DEF Skip
  <2> QED BY <1>1, <1>2, <2>1 DEF NoJob
<1>3. CASE End(w)
  <2>1. job' = [job EXCEPT ![w] = NoJob]
    BY <1>3 DEF End
  <2> QED BY <1>1, <2>1, ConstantTypes
<1> QED BY <1>2, <1>3

\* The steps of a pass that neither write nor publish a dispatch.
LEMMA PassIsPosted ==
    ASSUME IInv, Delivery, NEW w \in Workers, UNCHANGED <<dispatch, sent>>,
           StartPass(w) \/ NextUnit(w) \/ LockRevision(w) \/ LockUnit(w) \/ Assign(w)
             \/ ReadDispatch(w)
    PROVE  (\A v \in Workers \ {w} : job'[v] = job[v]) /\ Posted(job'[w])
<1>1. /\ job \in [Workers -> JobType] /\ unit \in [Steps -> UnitStates]
      /\ job[w] \in JobType /\ Posted(job[w]) /\ Sensible(job[w]) /\ Unit(w) = job[w].step
      /\ \A u \in Steps : unit[u] = "dispatched" => dispatch[u] # "none"
  BY DEF IInv, TypeOK, Delivery, RowMatches, Unit
<1>2. ASSUME Skip(w) \/ End(w), job[w].kind = "pass"
      PROVE  (\A v \in Workers \ {w} : job'[v] = job[v]) /\ Posted(job'[w])
  BY <1>1, <1>2, TurnEnds DEF Posted
<1>3. CASE StartPass(w)
  <2>1. PICK todo \in [Steps -> UnitStates] :
             todo = [s \in Steps |-> IF Schedulable(s) THEN unit[s] ELSE "absent"]
    BY <1>1 DEF UnitStates
  <2>2. job' = [job EXCEPT ![w] = [NoJob EXCEPT !.kind = "pass", !.at = "next", !.todo = todo]]
    BY <1>3, <2>1 DEF StartPass
  <2>3. /\ \A v \in Workers \ {w} : job'[v] = job[v]
        /\ job'[w].at = "next" /\ job'[w].todo = todo
    BY <1>1, <2>2 DEF NoJob
  <2>4. \A s \in Steps : todo[s] = "dispatched" => dispatch[s] # "none"
    BY <1>1, <2>1
  <2> QED BY <2>3, <2>4 DEF Posted
<1>4. CASE NextUnit(w)
  <2>1. job[w].kind = "pass"
    BY <1>4 DEF NextUnit, At
  <2>2. CASE Left(w) = {}
    BY <1>2, <1>4, <2>1, <2>2 DEF NextUnit
  <2>3. CASE Left(w) # {}
    <3>1. PICK s \in Left(w) : s = Min(Left(w))
      BY <2>3, MinIsMember, DelegationAssumption DEF Left
    <3>2. s \in Steps /\ Entry(job[w].todo[s]) = "read" => job[w].todo[s] = "dispatched"
      BY DEF Entry
    <3>3. job' = [job EXCEPT ![w].step = s, ![w].state = job[w].todo[s],
                             ![w].todo[s] = "absent", ![w].at = Entry(job[w].todo[s])]
      BY <1>4, <2>3, <3>1 DEF NextUnit
    <3>4. /\ \A v \in Workers \ {w} : job'[v] = job[v]
          /\ job'[w].kind = "pass" /\ job'[w].step = s
          /\ job'[w].at = Entry(job[w].todo[s])
          /\ job'[w].todo = [job[w].todo EXCEPT ![s] = "absent"]
      BY <1>1, <2>1, <3>3 DEF JobType
    <3>5. s \in Steps /\ job[w].todo \in [Steps -> UnitStates]
      BY <1>1 DEF Left, JobType
    <3>6. job'[w].at \in {"read", "revision"}
      BY <3>4 DEF Entry
    <3> QED BY <1>1, <2>1, <3>2, <3>4, <3>5, <3>6 DEF Posted
  <2> QED BY <2>2, <2>3
<1>5. CASE LockRevision(w)
  <2>1. job[w].kind = "pass"
    BY <1>5 DEF LockRevision, At
  <2>2. CASE Goto(w, "gates")
    <3>1. /\ \A v \in Workers \ {w} : job'[v] = job[v]
          /\ job'[w].at = "gates" /\ job'[w].todo = job[w].todo
      BY <1>1, <2>2 DEF Goto, JobType
    <3> QED BY <1>1, <2>1, <3>1 DEF Posted
  <2> QED BY <1>2, <1>5, <2>1, <2>2 DEF LockRevision
<1>6. CASE LockUnit(w)
  <2>1. job[w].kind = "pass" /\ job[w].step \in Steps
    BY <1>1, <1>6 DEF LockUnit, At, Sensible
  <2>2. CASE Goto(w, "insert")
    <3>1. /\ \A v \in Workers \ {w} : job'[v] = job[v]
          /\ job'[w].at = "insert" /\ job'[w].todo = job[w].todo
      BY <1>1, <2>2 DEF Goto, JobType
    <3> QED BY <1>1, <2>1, <3>1 DEF Posted
  <2>3. CASE job' = [job EXCEPT ![w].state = unit[Unit(w)], ![w].at = Entry(unit[Unit(w)])]
    <3>1. /\ \A v \in Workers \ {w} : job'[v] = job[v]
          /\ job'[w].at = Entry(unit[Unit(w)]) /\ job'[w].todo = job[w].todo
          /\ job'[w].step = job[w].step
      BY <1>1, <2>3 DEF JobType
    <3>2. /\ Entry(unit[Unit(w)]) \in {"read", "revision"}
          /\ Entry(unit[Unit(w)]) = "read" => unit[Unit(w)] = "dispatched"
      BY DEF Entry
    <3> QED BY <1>1, <2>1, <3>1, <3>2 DEF Posted
  <2>4. Skip(w) \/ End(w) \/ Goto(w, "insert")
        \/ job' = [job EXCEPT ![w].state = unit[Unit(w)], ![w].at = Entry(unit[Unit(w)])]
    BY <1>6 DEF LockUnit
  <2> QED BY <1>2, <2>1, <2>2, <2>3, <2>4
<1>7. CASE Assign(w)
  <2>1. job[w].kind = "pass"
    BY <1>7 DEF Assign, At
  <2>2. CASE job' = [job EXCEPT ![w].state = "assigned", ![w].at = "revision"]
    <3>1. /\ \A v \in Workers \ {w} : job'[v] = job[v]
          /\ job'[w].at = "revision" /\ job'[w].todo = job[w].todo
      BY <1>1, <2>2 DEF JobType
    <3> QED BY <1>1, <2>1, <3>1 DEF Posted
  <2> QED BY <1>2, <1>7, <2>1, <2>2 DEF Assign
<1>8. CASE ReadDispatch(w)
  <2>1. job[w].kind = "pass" /\ job[w].at = "read"
    BY <1>8 DEF ReadDispatch, At
  <2>2. CASE Goto(w, "publish")
    <3>1. /\ \A v \in Workers \ {w} : job'[v] = job[v]
          /\ job'[w].at = "publish" /\ job'[w].todo = job[w].todo
          /\ job'[w].step = job[w].step
      BY <1>1, <2>2 DEF Goto, JobType
    <3> QED BY <1>1, <2>1, <3>1 DEF Posted
  <2> QED BY <1>2, <1>8, <2>1, <2>2 DEF ReadDispatch
<1> QED BY <1>3, <1>4, <1>5, <1>6, <1>7, <1>8

\* Whoever's job does not become one of a pass has nothing to keep.
LEMMA OthersArePosted ==
    ASSUME IInv, Delivery, NEW w \in Workers,
           \/ \E kind \in Building : LockProject(w, kind)
           \/ \E u \in Steps : LockResultUnit(w, u)
           \/ CreateSuccessor(w) \/ Materialize(w) \/ RecordResult(w) \/ LockDependent(w)
           \/ UnblockDependents(w) \/ Crash(w) \/ BreakDeadlock(w)
    PROVE  (\A v \in Workers \ {w} : job'[v] = job[v]) /\ job'[w].kind # "pass"
<1>1. job \in [Workers -> JobType] /\ job[w] \in JobType
  BY DEF IInv, TypeOK
<1>2. CASE End(w)
  <2>1. job' = [job EXCEPT ![w] = NoJob]
    BY <1>2 DEF End
  <2> QED BY <1>1, <2>1, ConstantTypes
<1>3. CASE \E kind \in Building : LockProject(w, kind)
  <2>1. PICK kind \in Building :
             job' = [job EXCEPT ![w] = [NoJob EXCEPT !.kind = kind, !.at = "revision"]]
    BY <1>3 DEF LockProject
  <2>2. kind # "pass"
    BY DEF Building
  <2> QED BY <1>1, <2>1, <2>2 DEF NoJob
<1>4. CASE \E u \in Steps : LockResultUnit(w, u)
  <2>1. PICK u \in Steps : job' = [job EXCEPT ![w] = [NoJob EXCEPT
                                       !.kind = "result", !.at = "insert", !.step = u]]
    BY <1>4 DEF LockResultUnit
  <2> QED BY <1>1, <2>1 DEF NoJob
<1>5. CASE RecordResult(w) /\ Goto(w, "dependents")
  <2>1. job[w].kind = "result" /\ job' = [job EXCEPT ![w].at = "dependents"]
    BY <1>5 DEF RecordResult, At, Goto
  <2> QED BY <1>1, <2>1 DEF JobType
<1>6. CASE LockDependent(w)
  <2>1. job[w].kind = "result"
        /\ job' = [job EXCEPT ![w].held = @ \cup {Min(Unlocked(w))}]
    BY <1>6 DEF LockDependent, At
  <2> QED BY <1>1, <2>1 DEF JobType
<1> QED BY <1>2, <1>3, <1>4, <1>5, <1>6 DEF CreateSuccessor, Materialize, RecordResult,
        UnblockDependents, Crash, BreakDeadlock

\* Rows and commands only come, so one connection at a time has something to show.
LEMMA DeliveryMoves ==
    ASSUME IInv, Delivery, NEW w \in Workers,
           \A v \in Workers \ {w} : job'[v] = job[v],
           \A u \in Steps : dispatch[u] # "none" => dispatch'[u] # "none", sent \subseteq sent',
           Posted(job[w])', \A u \in Steps : RowMatches(u)'
    PROVE  Delivery'
<1>1. ASSUME NEW v \in Workers PROVE Posted(job[v])'
  <2>1. CASE v = w
    BY <2>1
  <2>2. CASE v # w
    BY <2>2 DEF IInv, Delivery, Posted, Sensible
  <2> QED BY <2>1, <2>2
<1> QED BY <1>1 DEF Delivery

\* Only create_dispatch makes a unit "dispatched".
LEMMA RowsStayMatched ==
    ASSUME IInv, Delivery, [Next]_vars, UNCHANGED <<dispatch, sent>>,
           ~\E w \in Workers : CreateDispatch(w)
    PROVE  \A u \in Steps : RowMatches(u)'
<1>1. CASE UNCHANGED unit
  BY <1>1 DEF Delivery, RowMatches
<1>2. CASE unit' # unit
  <2>1. \A s \in Steps : unit'[s] = "dispatched" => unit[s] = "dispatched"
    <3>1. PICK w \in Workers : Materialize(w) \/ Assign(w) \/ RecordResult(w)
                               \/ UnblockDependents(w)
      BY <1>2, WhoMovesUnits
    <3>2. unit \in [Steps -> UnitStates]
      BY DEF IInv, TypeOK
    <3>3. CASE Materialize(w)
      BY <1>2, <3>3 DEF Materialize
    <3>4. CASE Assign(w)
      BY <1>2, <3>2, <3>4 DEF Assign
    <3>5. CASE RecordResult(w)
      BY <1>2, <3>2, <3>5 DEF RecordResult
    <3>6. CASE UnblockDependents(w)
      <4>1. unit' = [s \in Steps |->
               CASE s = Unit(w) -> "completed"
                 [] s \in job[w].held /\ Outstanding(Unit(w), s) = {} -> "ready"
                 [] OTHER -> unit[s]]
        BY <3>6 DEF UnblockDependents
      <4>2. \A s \in Steps : unit'[s] \in {"completed", "ready", unit[s]}
        BY <4>1
      <4> QED BY <4>2
    <3> QED BY <3>1, <3>3, <3>4, <3>5, <3>6
  <2>2. ASSUME NEW u \in Steps
        PROVE  unit'[u] \in {"dispatched", "completed", "failed"}
                 <=> unit[u] \in {"dispatched", "completed", "failed"}
    <3>1. CASE Builds
      BY <3>1 DEF Builds
    <3>2. CASE \E s \in Steps : TakesOn(s)
      BY <2>1, <3>2 DEF TakesOn
    <3>3. CASE \E s \in Steps : Promotes(s)
      BY <3>3 DEF Promotes
    <3> QED BY <1>2, <3>1, <3>2, <3>3, UnitsMoveSo
  <2> QED BY <2>2 DEF Delivery, RowMatches
<1> QED BY <1>1, <1>2

LEMMA DeliveryNext == IInv /\ Delivery /\ [Next]_vars => Delivery'
<1> SUFFICES ASSUME IInv, Delivery, [Next]_vars PROVE Delivery'
  OBVIOUS
<1>1. /\ job \in [Workers -> JobType] /\ unit \in [Steps -> UnitStates]
      /\ dispatch \in [Steps -> {"none", "unpublished", "published"}]
  BY DEF IInv, TypeOK
<1>2. ASSUME NEW w \in Workers, CreateDispatch(w) PROVE Delivery'
  <2>1. /\ job[w].kind = "pass" /\ job[w].at = "insert" /\ job[w].step \in Steps
        /\ unit[job[w].step] = "assigned"
        /\ unit' = [unit EXCEPT ![job[w].step] = "dispatched"]
        /\ dispatch' = [dispatch EXCEPT ![job[w].step] = "unpublished"]
        /\ job' = [job EXCEPT ![w].at = "publish"] /\ sent' = sent
    BY <1>2 DEF CreateDispatch, At, Goto, Unit, IInv, Sensible, Backed
  <2>2. \A u \in Steps : RowMatches(u)'
    BY <1>1, <2>1 DEF Delivery, RowMatches
  <2>3. /\ \A v \in Workers \ {w} : job'[v] = job[v]
        /\ job'[w].at = "publish" /\ job'[w].step = job[w].step /\ job'[w].todo = job[w].todo
    BY <1>1, <2>1 DEF JobType
  <2>4. \A u \in Steps : dispatch[u] # "none" => dispatch'[u] # "none"
    BY <1>1, <2>1
  <2>5. Posted(job[w])'
    BY <1>1, <2>1, <2>3, <2>4 DEF Delivery, Posted
  <2> QED BY <2>1, <2>2, <2>3, <2>4, <2>5, DeliveryMoves
<1>3. ASSUME NEW w \in Workers, PublishDispatch(w) PROVE Delivery'
  <2>1. /\ job[w].kind = "pass" /\ job[w].at = "publish" /\ job[w].step \in Steps
        /\ dispatch[job[w].step] # "none" /\ UNCHANGED <<unit, dispatch>>
    BY <1>3 DEF PublishDispatch, At, IInv, Sensible, Delivery, Posted
  <2>2. CASE sent' = sent \cup {job[w].step} /\ job' = [job EXCEPT ![w].at = "mark"]
    <3>1. \A u \in Steps : RowMatches(u)'
      BY <2>1, <2>2 DEF Delivery, RowMatches
    <3>2. /\ \A v \in Workers \ {w} : job'[v] = job[v]
          /\ job'[w].at = "mark" /\ job'[w].step = job[w].step /\ job'[w].todo = job[w].todo
      BY <1>1, <2>2 DEF JobType
    <3>3. Posted(job[w])'
      BY <2>1, <2>2, <3>2 DEF Delivery, Posted
    <3> QED BY <2>1, <2>2, <3>1, <3>2, <3>3, DeliveryMoves
  <2>3. CASE Skip(w) /\ UNCHANGED sent
    <3>1. \A u \in Steps : RowMatches(u)'
      BY <2>1, <2>3 DEF Delivery, RowMatches
    <3>2. \A v \in Workers \ {w} : job'[v] = job[v]
      BY <2>3, TurnEnds
    <3>3. Posted(job[w])'
      BY <2>1, <2>3, TurnEnds DEF Delivery, Posted
    <3> QED BY <2>1, <2>3, <3>1, <3>2, <3>3, DeliveryMoves
  <2> QED BY <1>3, <2>2, <2>3 DEF PublishDispatch, Unit, Goto
<1>4. ASSUME NEW w \in Workers, MarkPublished(w) PROVE Delivery'
  <2>1. /\ job[w].kind = "pass" /\ job[w].at = "mark" /\ job[w].step \in Steps
        /\ dispatch[job[w].step] # "none" /\ job[w].step \in sent
        /\ UNCHANGED <<unit, sent>> /\ Skip(w)
        /\ dispatch' = [dispatch EXCEPT ![job[w].step] = "published"]
    BY <1>4 DEF MarkPublished, At, Unit, IInv, Sensible, Delivery, Posted
  <2>2. \A u \in Steps : RowMatches(u)'
    BY <1>1, <2>1 DEF Delivery, RowMatches
  <2>3. \A u \in Steps : dispatch[u] # "none" => dispatch'[u] # "none"
    BY <1>1, <2>1
  <2>4. (\A v \in Workers \ {w} : job'[v] = job[v]) /\ Posted(job[w])'
    BY <2>1, <2>3, TurnEnds DEF Delivery, Posted
  <2> QED BY <2>1, <2>2, <2>3, <2>4, DeliveryMoves
<1>5. ASSUME \A w \in Workers : ~(CreateDispatch(w) \/ PublishDispatch(w) \/ MarkPublished(w))
      PROVE  Delivery'
  <2>1. UNCHANGED <<dispatch, sent>>
    <3>1. CASE UNCHANGED vars
      BY <3>1 DEF vars
    <3>2. CASE \E w \in Workers : Step(w) \/ Crash(w)
      BY <1>5, <3>2 DEF Step, Crash, CreateSuccessor, Materialize, NextUnit, LockRevision,
           LockUnit, Assign, ReadDispatch, RecordResult, LockDependent, UnblockDependents,
           BreakDeadlock
    <3>3. CASE ~(\E w \in Workers : Step(w) \/ Crash(w)) /\ ~UNCHANGED vars
      BY <3>3 DEF Next, LockProject, StartPass, LockResultUnit, Accept, Cancel
    <3> QED BY <3>1, <3>2, <3>3
  <2>2. \A u \in Steps : RowMatches(u)'
    BY <1>5, <2>1, RowsStayMatched
  <2>3. CASE UNCHANGED job
    BY <2>1, <2>2, <2>3 DEF Delivery, Posted
  <2>4. ASSUME NEW w \in Workers,
               StartPass(w) \/ NextUnit(w) \/ LockRevision(w) \/ LockUnit(w) \/ Assign(w)
                 \/ ReadDispatch(w)
        PROVE  Delivery'
    <3>1. (\A v \in Workers \ {w} : job'[v] = job[v]) /\ Posted(job'[w])
      BY <2>1, <2>4, PassIsPosted
    <3>2. Posted(job[w])'
      BY <2>1, <3>1 DEF Posted
    <3> QED BY <2>1, <2>2, <3>1, <3>2, DeliveryMoves
  <2>5. ASSUME NEW w \in Workers,
               \/ \E kind \in Building : LockProject(w, kind)
               \/ \E u \in Steps : LockResultUnit(w, u)
               \/ CreateSuccessor(w) \/ Materialize(w) \/ RecordResult(w) \/ LockDependent(w)
               \/ UnblockDependents(w) \/ Crash(w) \/ BreakDeadlock(w)
        PROVE  Delivery'
    <3>1. (\A v \in Workers \ {w} : job'[v] = job[v]) /\ job'[w].kind # "pass"
      BY <2>5, OthersArePosted
    <3>2. Posted(job[w])'
      BY <3>1 DEF Posted
    <3> QED BY <2>1, <2>2, <3>1, <3>2, DeliveryMoves
  <2>6. CASE Accept \/ Cancel \/ UNCHANGED vars
    BY <2>3, <2>6 DEF Accept, Cancel, vars
  <2> QED BY <1>5, <2>4, <2>5, <2>6 DEF Next, Step
<1> QED BY <1>2, <1>3, <1>4, <1>5

\* A command reaches the wire only with a dispatch row behind it and every dependency of its
\* step completed, although passes of several connections publish from what they read earlier.
THEOREM CommandsAlwaysEarned == Spec => []CommandsAreEarned
<1>1. Spec => [](IInv /\ Delivery)
  BY InitIInv, NextIInv, DeliveryInit, DeliveryNext, PTL DEF Spec
<1>2. IInv /\ Delivery => CommandsAreEarned
  <2> SUFFICES ASSUME IInv, Delivery, NEW u \in sent
               PROVE  dispatch[u] # "none" /\ \A d \in Deps[u] : unit[d] = "completed"
    BY DEF CommandsAreEarned
  <2>1. u \in Steps /\ RowMatches(u) /\ dispatch[u] # "none"
    BY DEF IInv, TypeOK, Delivery, RowMatches
  <2> QED BY <2>1, PastBlockedHasDeps DEF RowMatches
<1> QED BY <1>1, <1>2, PTL
=============================================================================
