------------------------------ MODULE AuditChain ------------------------------
(***************************************************************************)
(* The tamper-evident chain over audit_logs: its concurrent writers, the   *)
(* verifier, the tamper simulation, and the two tools that undo what a     *)
(* simulation leaves behind (shared/sdk/audit_integrity,                   *)
(* apps/audit-service, apps/audit-worker, scripts/).                       *)
(*                                                                         *)
(* A hash is collision free, so it is modelled by what it is computed      *)
(* from: the sequence of <<sequence number, row, payload>> up to its       *)
(* record, the empty one being NULL.  A transaction is modelled statement  *)
(* by statement where others can come between; every writer of the chain   *)
(* takes the advisory lock.  Keys are never lost, and no row belongs to a  *)
(* production action.                                                      *)
(***************************************************************************)
EXTENDS Integers, Sequences, FiniteSets

CONSTANTS
    Rows,       \* audit_logs ids
    Writers,    \* connections of the audit-service, the audit-worker, the backfill
    Signing     \* may a writer have a signing key: a set of BOOLEANs

ASSUME ChainAssumption == Signing \subseteq BOOLEAN /\ "repair" \notin Writers
                          /\ "none" \notin Writers

VARIABLES
    log,        \* audit_logs: row -> its content
    chain,      \* audit_integrity_records, by sequence_number
    locker,     \* who holds the advisory lock
    job,        \* writer -> the record it is appending
    sim,        \* simulate_audit_tamper_detection.sh: the row it has marked
    repair,     \* repair_audit_chain_integrity.sh
    restore,    \* restore_audit_log_test_tamper_residue.sh: the row it will restore
    verify      \* verify_chain

vars == <<log, chain, locker, job, sim, repair, restore, verify>>

\* "marked" ends with the marker of the simulation.
Contents == {"original", "marked"}
NoRow == "absent"
Hash == Seq(Nat \X Rows \X Contents)
NULL == <<>>

Record == [id : Rows, payload : Contents, prev : Hash, hash : Hash, signature : Hash]

Jobs == [at : {"idle"}] \cup
        [at : {"lock", "read"}, kind : {"post", "record"}, row : Rows, payload : Contents] \cup
        [at : {"insert"}, kind : {"post", "record"}, row : Rows, payload : Contents,
         seq : Nat, prev : Hash]

Repairs == [at : {"idle"}] \cup [at : {"apply"}, first : Nat \ {0}] \cup
           [at : {"verify"}, chain : Seq(Record)]

Verifications == [at : {"idle"}, status : {"none", "passed", "partial", "failed"}] \cup
                 [at : {"records"}, seen : SUBSET Rows] \cup
                 [at : {"walk"}, seen : SUBSET Rows, records : Nat]

Nobody == {}

TypeOK ==
    /\ log \in [Rows -> Contents \cup {NoRow}]
    /\ chain \in Seq(Record)
    /\ locker \in Writers \cup {"repair", "none"}
    /\ job \in [Writers -> Jobs]
    /\ sim \in {Nobody} \cup {{r} : r \in Rows}
    /\ repair \in Repairs
    /\ restore \in {Nobody} \cup {{r} : r \in Rows}
    /\ verify \in Verifications

Idle == [at |-> "idle"]

Init ==
    /\ log = [r \in Rows |-> NoRow]
    /\ chain = <<>>
    /\ locker = "none"
    /\ job = [w \in Writers |-> Idle]
    /\ sim = Nobody
    /\ repair = Idle
    /\ restore = Nobody
    /\ verify = [at |-> "idle", status |-> "none"]
-----------------------------------------------------------------------------
\* Faulty: the fields are hashed in another order.
RowHash_Swapped(seq, row, prev, payload) == Append(prev, <<row, seq, payload>>)

\* compute_row_hash
RowHash(seq, row, prev, payload) == Append(prev, <<seq, row, payload>>)

\* The row_hash of the record before number seq, NULL for the first.
HashBefore(c, seq) == IF seq = 1 THEN NULL ELSE c[seq - 1].hash

NewRecord(seq, row, prev, payload, signed) ==
    LET hash == RowHash(seq, row, prev, payload)
    IN  [id |-> row, payload |-> payload, prev |-> prev, hash |-> hash,
         signature |-> IF signed THEN hash ELSE NULL]

Recorded == {chain[i].id : i \in DOMAIN chain}
Present == {r \in Rows : log[r] # NoRow}
Missing == Present \ Recorded

\* Rows nobody has inserted, not even in an open transaction.
Fresh(r) == r \notin Present /\ \A w \in Writers : job[w].at # "idle" => job[w].row # r
-----------------------------------------------------------------------------
(* create_integrity_record_in_txn and the writers that call it *)

\* audit-service: the row and its record in one transaction.
Post(w) ==
    /\ job[w].at = "idle"
    /\ \E r \in Rows :
         /\ Fresh(r)
         /\ job' = [job EXCEPT ![w] = [at |-> "lock", kind |-> "post", row |-> r,
                                       payload |-> "original"]]
    /\ UNCHANGED <<log, chain, locker, sim, repair, restore, verify>>

\* audit-worker: the row is committed, its record is a transaction of its own.
Persist(w) ==
    /\ job[w].at = "idle"
    /\ \E r \in Rows :
         /\ Fresh(r)
         /\ log' = [log EXCEPT ![r] = "original"]
         /\ job' = [job EXCEPT ![w] = [at |-> "lock", kind |-> "record", row |-> r,
                                       payload |-> "original"]]
    /\ UNCHANGED <<chain, locker, sim, repair, restore, verify>>

\* backfill_missing_integrity_records: one of the rows that had no record when it looked,
\* with the content it had then.
Backfill(w) ==
    /\ job[w].at = "idle"
    /\ \E r \in Missing :
         job' = [job EXCEPT ![w] = [at |-> "lock", kind |-> "record", row |-> r,
                                    payload |-> log[r]]]
    /\ UNCHANGED <<log, chain, locker, sim, repair, restore, verify>>

\* Faulty: nobody waits for the advisory lock.
LockIsFree_Always == TRUE

LockIsFree == locker = "none"

Lock(w) ==
    /\ job[w].at = "lock" /\ LockIsFree
    /\ locker' = w
    /\ job' = [job EXCEPT ![w].at = "read"]
    /\ UNCHANGED <<log, chain, sim, repair, restore, verify>>

Unlocked(w) == IF locker = w THEN "none" ELSE locker

\* The row has a record already, or the tail of the chain is read.
ReadTail(w) ==
    /\ job[w].at = "read"
    /\ IF job[w].row \in Recorded
       THEN job' = [job EXCEPT ![w] = Idle] /\ locker' = Unlocked(w)
       ELSE /\ job' = [job EXCEPT ![w] =
                 [at |-> "insert", kind |-> job[w].kind, row |-> job[w].row,
                  payload |-> job[w].payload, seq |-> Len(chain) + 1,
                  prev |-> HashBefore(chain, Len(chain) + 1)]]
            /\ UNCHANGED locker
    /\ UNCHANGED <<log, chain, sim, repair, restore, verify>>

\* uq_audit_integrity_sequence and uq_audit_integrity_audit_log_id
Conflicts(j) == j.seq # Len(chain) + 1 \/ j.row \in Recorded

\* INSERT and commit; a conflict rolls back (and the caller tries again).
Insert(w) ==
    /\ job[w].at = "insert"
    /\ LET j == job[w] IN
       IF Conflicts(j) THEN UNCHANGED <<log, chain>>
       ELSE /\ \E signed \in Signing :
                 chain' = Append(chain, NewRecord(j.seq, j.row, j.prev, j.payload, signed))
            /\ log' = IF j.kind = "post" THEN [log EXCEPT ![j.row] = j.payload] ELSE log
    /\ job' = [job EXCEPT ![w] = Idle]
    /\ locker' = Unlocked(w)
    /\ UNCHANGED <<sim, repair, restore, verify>>

\* The transaction fails: 503 and no row, or a row without a record.
Fail(w) ==
    /\ job[w].at # "idle"
    /\ job' = [job EXCEPT ![w] = Idle]
    /\ locker' = Unlocked(w)
    /\ UNCHANGED <<log, chain, sim, repair, restore, verify>>
-----------------------------------------------------------------------------
(* What a reader of the chain checks of record i *)

HashesMatch(c, i) ==
    LET r == c[i] IN
    /\ r.payload = log[r.id]
    /\ r.hash = RowHash(i, r.id, r.prev, log[r.id])
    /\ r.prev = HashBefore(c, i)

SignatureMatches(r) == r.signature # NULL => r.signature = r.hash

ChainMatches(c) == \A i \in DOMAIN c : HashesMatch(c, i)

Verifies(c) == ChainMatches(c) /\ \A i \in DOMAIN c : SignatureMatches(c[i])

\* verify_chain: three statements, each with a snapshot of its own.
CountLogs ==
    /\ verify.at = "idle"
    /\ verify' = [at |-> "records", seen |-> Present]
    /\ UNCHANGED <<log, chain, locker, job, sim, repair, restore>>

CountRecords ==
    /\ verify.at = "records"
    /\ verify' = [at |-> "walk", seen |-> verify.seen, records |-> Len(chain)]
    /\ UNCHANGED <<log, chain, locker, job, sim, repair, restore>>

\* Faulty: one row without a record is let pass.
Misses_OneLess(seen, records) == Cardinality(seen) > records + 1

\* missing_count: the difference of two numbers.
Misses(seen, records) == Cardinality(seen) > records

WalkChain ==
    /\ verify.at = "walk"
    /\ LET status == IF ~Verifies(chain) THEN "failed"
                     ELSE IF Misses(verify.seen, verify.records) THEN "partial" ELSE "passed"
       IN  verify' = [at |-> "idle", status |-> status]
    /\ UNCHANGED <<log, chain, locker, job, sim, repair, restore>>
-----------------------------------------------------------------------------
(* The tamper simulation.  It and the restore tool take the lock file. *)

FileIsLocked == sim # Nobody \/ restore # Nobody

\* It refuses to start on residue and on a chain that fails; it marks the latest row.
MarkRow ==
    /\ ~FileIsLocked
    /\ chain # <<>> /\ Verifies(chain) /\ \A r \in Rows : log[r] # "marked"
    /\ LET r == chain[Len(chain)].id IN
       log' = [log EXCEPT ![r] = "marked"] /\ sim' = {r}
    /\ UNCHANGED <<chain, locker, job, repair, restore, verify>>

\* The finally clause, which looks at nothing.
UnmarkRow ==
    /\ \E r \in sim : log' = [log EXCEPT ![r] = "original"]
    /\ sim' = Nobody
    /\ UNCHANGED <<chain, locker, job, repair, restore, verify>>

\* It is killed: the mark stays.
SimulationDies ==
    /\ sim # Nobody
    /\ sim' = Nobody
    /\ UNCHANGED <<log, chain, locker, job, repair, restore, verify>>
-----------------------------------------------------------------------------
(* Repair: the chain is bound to what the rows contain now. *)

\* scan, which looks at no signature
Failing == {i \in DOMAIN chain : ~HashesMatch(chain, i)}

\* analyse_record: without the marker the row has the payload that was recorded.
ProvenTamper(i) == log[chain[i].id] = "marked" /\ chain[i].payload = "original"

\* classify_chain_root_cause and plan_repair, approved by an operator
PlanRepair ==
    /\ repair = Idle
    /\ \A i \in Failing : ProvenTamper(i)
    /\ \E first \in Failing : /\ \A i \in Failing : first <= i
                              /\ repair' = [at |-> "apply", first |-> first]
    /\ UNCHANGED <<log, chain, locker, job, sim, restore, verify>>

\* The row_hash of record i when the records from first on are hashed again, one after the
\* other: what came before first, and what these rows contain now.
Rehash(first, i) ==
    HashBefore(chain, first) \o
    [k \in 1..(i - first + 1) |->
        LET n == first + k - 1 IN <<n, chain[n].id, log[chain[n].id]>>]

\* _recompute_chain: every record from the first one on; signatures stay what they are.
Recomputed(first) ==
    [i \in DOMAIN chain |->
        IF i < first THEN chain[i]
        ELSE [chain[i] EXCEPT !.payload = log[chain[i].id],
                              !.prev = Rehash(first, i - 1), !.hash = Rehash(first, i)]]

Recompute ==
    /\ repair.at = "apply" /\ LockIsFree
    /\ locker' = "repair"
    /\ repair' = [at |-> "verify", chain |-> Recomputed(repair.first)]
    /\ UNCHANGED <<log, chain, job, sim, restore, verify>>

\* Faulty: the transaction is committed whatever it has made of the chain.
RepairVerified_Always == TRUE

\* _verify_in_txn, on what the rows contain by then
RepairVerified == ChainMatches(repair.chain)

EndRepair ==
    /\ repair.at = "verify"
    /\ chain' = IF RepairVerified THEN repair.chain ELSE chain
    /\ repair' = Idle
    /\ locker' = Unlocked("repair")
    /\ UNCHANGED <<log, job, sim, restore, verify>>

RepairDies ==
    /\ repair # Idle
    /\ repair' = Idle
    /\ locker' = Unlocked("repair")
    /\ UNCHANGED <<log, chain, job, sim, restore, verify>>
-----------------------------------------------------------------------------
(* Restore: the marked row gets back what its record says. *)

\* precheck.  The forensic report is a file and may be old: what counts is what is read now.
CheckRestore ==
    /\ ~FileIsLocked
    /\ Missing = {}
    /\ \E i \in DOMAIN chain :
         /\ ProvenTamper(i) /\ chain[i].signature = NULL
         /\ chain[i].prev = HashBefore(chain, i)
         /\ i < Len(chain) => chain[i + 1].prev = chain[i].hash
         /\ restore' = {chain[i].id}
    /\ UNCHANGED <<log, chain, locker, job, sim, repair, verify>>

\* The record of the row still has the payload without the marker.
StillRecorded(r) == \A i \in DOMAIN chain : chain[i].id = r => chain[i].payload = "original"

\* apply, and the record of its own event at the tail; or it is rolled back.
ApplyRestore ==
    /\ LockIsFree
    /\ \E r \in restore :
         IF log[r] = "marked" /\ StillRecorded(r)
         THEN \E event \in Rows, signed \in Signing :
                /\ Fresh(event)
                /\ log' = [log EXCEPT ![r] = "original", ![event] = "original"]
                /\ chain' = Append(chain,
                     NewRecord(Len(chain) + 1, event, HashBefore(chain, Len(chain) + 1),
                               "original", signed))
         ELSE UNCHANGED <<log, chain>>
    /\ restore' = Nobody
    /\ UNCHANGED <<locker, job, sim, repair, verify>>

RestoreDies ==
    /\ restore # Nobody
    /\ restore' = Nobody
    /\ UNCHANGED <<log, chain, locker, job, sim, repair, verify>>
-----------------------------------------------------------------------------
Write(w) ==
    Post(w) \/ Persist(w) \/ Backfill(w) \/ Lock(w) \/ ReadTail(w) \/ Insert(w) \/ Fail(w)

Next ==
    \/ \E w \in Writers : Write(w)
    \/ CountLogs \/ CountRecords \/ WalkChain
    \/ MarkRow \/ UnmarkRow \/ SimulationDies
    \/ PlanRepair \/ Recompute \/ EndRepair \/ RepairDies
    \/ CheckRestore \/ ApplyRestore \/ RestoreDies

Spec == Init /\ [][Next]_vars
-----------------------------------------------------------------------------
(* Properties *)

Linked(c) ==
    /\ \A i \in DOMAIN c : /\ c[i].prev = HashBefore(c, i)
                           /\ c[i].hash = RowHash(i, c[i].id, c[i].prev, c[i].payload)
    /\ \A i, j \in DOMAIN c : c[i].id = c[j].id => i = j

\* Whatever writers, backfill and repair do at once, every record is hashed over its own
\* fields and linked to the record before it, and no row has two records.
ChainIsLinked == Linked(chain)

Repaired == repair.at = "verify" /\ chain' # chain
Restored == restore # Nobody /\ chain' # chain /\ restore' = Nobody

\* A repair or a restore that is committed leaves hashes that match the rows, although rows
\* and records may have changed since it was planned.
ToolsHeal == [][Repaired \/ Restored => ChainMatches(chain)']_vars

\* "A completed repair must leave the chain verifying cleanly": the signatures too.
RepairedChainVerifies ==
    [][Repaired => \A i \in DOMAIN chain' : SignatureMatches(chain'[i])]_vars

\* The counts are not of one snapshot, so "passed" does not mean that every row has a record:
\* but what it overlooks of the rows it counted is never more than what was recorded meanwhile.
PassedMissesOnlyWhatCameMeanwhile ==
    [][verify.at = "walk" /\ verify'.at = "idle" /\ verify'.status = "passed" =>
         Cardinality(verify.seen \ Recorded) <= Cardinality(Recorded \ verify.seen)]_vars
=============================================================================
