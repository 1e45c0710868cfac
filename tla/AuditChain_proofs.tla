-------------------------- MODULE AuditChain_proofs --------------------------
(***************************************************************************)
(* The chain is linked in every state, for any number of rows, writers and *)
(* signing keys.  The advisory lock carries the argument: while a writer   *)
(* holds the tail it has read, or the repair tool the records it has       *)
(* computed, nobody else changes the chain.  Then: what the repair and the *)
(* restore tool commit matches the rows, and what a verification that      *)
(* passes may have overlooked.                                             *)
(***************************************************************************)
EXTENDS AuditChain, SequenceTheorems, FunctionTheorems, FiniteSetTheorems, TLAPS

\* Who has read the tail or computed a new chain holds the lock, and only one does.
LockIsHeld ==
    /\ \A w \in Writers : job[w].at \in {"read", "insert"} <=> locker = w
    /\ repair.at = "verify" <=> locker = "repair"

\* What a writer is about to insert after is still the tail.
TailIsHeld ==
    \A w \in Writers : job[w].at = "insert" =>
        /\ job[w].seq = Len(chain) + 1
        /\ job[w].prev = HashBefore(chain, Len(chain) + 1)

\* Records, and records to come, belong to rows that are there.
RecordsHaveRows ==
    /\ \A i \in DOMAIN chain : log[chain[i].id] # NoRow
    /\ \A w \in Writers :
         job[w].at # "idle" /\ job[w].kind = "record" => log[job[w].row] # NoRow

\* The repair tool changes no row of a record, and no other tool the chain meanwhile.
RepairKeepsRows ==
    repair.at = "verify" => /\ DOMAIN repair.chain = DOMAIN chain
                            /\ \A i \in DOMAIN chain : repair.chain[i].id = chain[i].id

IInv == TypeOK /\ ChainIsLinked /\ LockIsHeld /\ TailIsHeld /\ RecordsHaveRows /\ RepairKeepsRows
-----------------------------------------------------------------------------
\* The empty sequence is a hash, and hashing a row after a hash gives a hash.
LEMMA HashTypes ==
    /\ NULL \in Hash
    /\ \A seq \in Nat, r \in Rows, prev \in Hash, p \in Contents :
         RowHash(seq, r, prev, p) \in Hash
BY DEF NULL, Hash, RowHash

\* A new record is a record.
LEMMA NewRecordType ==
    ASSUME NEW seq \in Nat, NEW r \in Rows, NEW prev \in Hash, NEW p \in Contents,
           NEW signed \in BOOLEAN
    PROVE  /\ NewRecord(seq, r, prev, p, signed) \in Record
           /\ NewRecord(seq, r, prev, p, signed).id = r
           /\ NewRecord(seq, r, prev, p, signed).payload = p
           /\ NewRecord(seq, r, prev, p, signed).prev = prev
           /\ NewRecord(seq, r, prev, p, signed).hash = RowHash(seq, r, prev, p)
BY HashTypes DEF NewRecord, Record

\* What a sequence of records gives at each of its places.
LEMMA RecordAt ==
    ASSUME NEW c \in Seq(Record)
    PROVE  /\ DOMAIN c = 1..Len(c) /\ Len(c) \in Nat
           /\ \A i \in DOMAIN c : c[i] \in Record /\ c[i].id \in Rows
<1>1. \A i \in DOMAIN c : c[i] \in Record
  OBVIOUS
<1> QED BY <1>1 DEF Record

\* The hash before a place of the chain, and before its first free one, is a hash.
LEMMA HashBeforeType ==
    ASSUME NEW c \in Seq(Record), NEW seq \in 1..(Len(c) + 1)
    PROVE  HashBefore(c, seq) \in Hash
<1>1. CASE seq = 1
  BY <1>1, HashTypes DEF HashBefore
<1>2. CASE seq # 1
  <2>1. c[seq - 1] \in Record
    BY <1>2
  <2> QED BY <1>2, <2>1 DEF HashBefore, Record
<1> QED BY <1>1, <1>2

\* Appending a record of a new row, hashed after the tail, keeps a chain linked.
LEMMA Appending ==
    ASSUME NEW c \in Seq(Record), Linked(c), NEW rec \in Record,
           \A i \in DOMAIN c : c[i].id # rec.id,
           rec.prev = HashBefore(c, Len(c) + 1),
           rec.hash = RowHash(Len(c) + 1, rec.id, rec.prev, rec.payload)
    PROVE  /\ Append(c, rec) \in Seq(Record) /\ Linked(Append(c, rec))
           /\ DOMAIN Append(c, rec) = 1..(Len(c) + 1)
           /\ \A i \in DOMAIN c : Append(c, rec)[i] = c[i]
           /\ Append(c, rec)[Len(c) + 1] = rec
<1> DEFINE new == Append(c, rec)
<1>1. Len(c) \in Nat /\ DOMAIN c = 1..Len(c)
  OBVIOUS
<1>2. /\ new \in Seq(Record) /\ Len(new) = Len(c) + 1 /\ DOMAIN new = 1..(Len(c) + 1)
      /\ \A i \in 1..Len(c) : new[i] = c[i]
      /\ new[Len(c) + 1] = rec
  BY <1>1
<1> HIDE DEF new
<1>3. \A i \in 1..(Len(c) + 1) : HashBefore(new, i) = HashBefore(c, i)
  BY <1>1, <1>2 DEF HashBefore
<1>4. \A i \in DOMAIN new : /\ new[i].prev = HashBefore(new, i)
                            /\ new[i].hash = RowHash(i, new[i].id, new[i].prev, new[i].payload)
  <2> SUFFICES ASSUME NEW i \in 1..(Len(c) + 1)
               PROVE  /\ new[i].prev = HashBefore(c, i)
                      /\ new[i].hash = RowHash(i, new[i].id, new[i].prev, new[i].payload)
    BY <1>2, <1>3
  <2>1. CASE i \in 1..Len(c)
    BY <1>1, <1>2, <2>1 DEF Linked
  <2>2. CASE i = Len(c) + 1
    BY <1>2, <2>2
  <2> QED BY <1>1, <2>1, <2>2
<1>5. \A i, j \in DOMAIN new : new[i].id = new[j].id => i = j
  BY <1>1, <1>2 DEF Linked
<1> QED BY <1>1, <1>2, <1>4, <1>5 DEF new, Linked

\* What the repair tool computes are records, of the same rows, in the same places.
LEMMA RecomputedChain ==
    ASSUME IInv, NEW first \in Nat \ {0}
    PROVE  /\ Recomputed(first) \in Seq(Record)
           /\ DOMAIN Recomputed(first) = DOMAIN chain
           /\ \A i \in DOMAIN chain : Recomputed(first)[i].id = chain[i].id
<1> DEFINE size == Len(chain)
<1>1. chain \in Seq(Record) /\ size \in Nat /\ DOMAIN chain = 1..size
  BY DEF IInv, TypeOK
<1>2. \A i \in 1..size : /\ chain[i] \in Record /\ chain[i].id \in Rows
                      /\ log[chain[i].id] \in Contents
  <2> SUFFICES ASSUME NEW i \in 1..size
               PROVE  /\ chain[i] \in Record /\ chain[i].id \in Rows
                      /\ log[chain[i].id] \in Contents
    OBVIOUS
  <2>1. chain[i] \in Record
    BY <1>1
  <2>2. chain[i].id \in Rows
    BY <2>1 DEF Record
  <2>3. log[chain[i].id] # NoRow
    BY <1>1 DEF IInv, RecordsHaveRows
  <2> QED BY <2>1, <2>2, <2>3 DEF IInv, TypeOK
<1>3. ASSUME NEW i \in first..size, NEW m \in {i - 1, i}
      PROVE  Rehash(first, m) \in Hash
  <2> DEFINE part == [k \in 1..(m - first + 1) |->
                        LET n == first + k - 1 IN <<n, chain[n].id, log[chain[n].id]>>]
  <2>1. HashBefore(chain, first) \in Hash
    BY <1>1, HashBeforeType
  <2>2. m - first + 1 \in Nat
    OBVIOUS
  <2>3. \A k \in 1..(m - first + 1) :
          LET q == first + k - 1
          IN  <<q, chain[q].id, log[chain[q].id]>> \in Nat \X Rows \X Contents
    BY <1>1, <1>2
  <2>4. part \in [1..(m - first + 1) -> Nat \X Rows \X Contents]
    BY <2>3
  <2>5. part \in Seq(Nat \X Rows \X Contents)
    BY <2>2, <2>4, SeqDef
  <2>6. Rehash(first, m) = HashBefore(chain, first) \o part
    BY DEF Rehash
  <2> HIDE DEF part
  <2> QED BY <2>1, <2>5, <2>6, ConcatProperties DEF Hash
<1>4. DOMAIN Recomputed(first) = 1..size
  BY <1>1 DEF Recomputed
<1>5. \A i \in 1..size : Recomputed(first)[i] \in Record /\ Recomputed(first)[i].id = chain[i].id
  <2> SUFFICES ASSUME NEW i \in 1..size
               PROVE  /\ Recomputed(first)[i] \in Record
                      /\ Recomputed(first)[i].id = chain[i].id
    OBVIOUS
  <2>1. CASE i < first
    BY <1>1, <1>2, <2>1 DEF Recomputed
  <2>2. CASE ~(i < first)
    <3>1. Rehash(first, i - 1) \in Hash /\ Rehash(first, i) \in Hash
      BY <1>1, <1>3, <2>2
    <3>2. Recomputed(first)[i] = [chain[i] EXCEPT !.payload = log[chain[i].id],
                                    !.prev = Rehash(first, i - 1), !.hash = Rehash(first, i)]
      BY <1>1, <2>2 DEF Recomputed
    <3> QED BY <1>2, <3>1, <3>2 DEF Record
  <2> QED BY <2>1, <2>2
<1>6. Recomputed(first) \in [1..size -> Record]
  BY <1>4, <1>5 DEF Recomputed
<1> QED BY <1>1, <1>4, <1>5, <1>6, SeqDef
-----------------------------------------------------------------------------
\* The initial state satisfies the invariant.
LEMMA InitIInv == Init => IInv
<1> SUFFICES ASSUME Init PROVE IInv
  OBVIOUS
<1>1. TypeOK
  BY DEF Init, TypeOK, Jobs, Idle, Repairs, Verifications
<1>2. ChainIsLinked /\ TailIsHeld /\ RecordsHaveRows /\ RepairKeepsRows
  BY DEF Init, ChainIsLinked, Linked, TailIsHeld, RecordsHaveRows, RepairKeepsRows, Idle
<1>3. LockIsHeld
  BY ChainAssumption DEF Init, LockIsHeld, Idle
<1> QED BY <1>1, <1>2, <1>3 DEF IInv

\* A writer that begins, waits or fails leaves the chain alone.
LEMMA WriterSteps ==
    ASSUME IInv, NEW w \in Writers,
           Post(w) \/ Persist(w) \/ Backfill(w) \/ Lock(w) \/ ReadTail(w) \/ Fail(w)
    PROVE  IInv'
<1> USE DEF IInv
<1>1. CASE Post(w)
  <2>1. PICK r \in Rows : job' = [job EXCEPT ![w] = [at |-> "lock", kind |-> "post", row |-> r,
                                                    payload |-> "original"]]
    BY <1>1 DEF Post
  <2>2. TypeOK'
    BY <1>1, <2>1 DEF Post, TypeOK, Jobs, Contents
  <2>3. LockIsHeld' /\ TailIsHeld' /\ RecordsHaveRows'
    BY <1>1, <2>1 DEF Post, TypeOK, LockIsHeld, TailIsHeld, RecordsHaveRows, HashBefore
  <2> QED BY <1>1, <2>2, <2>3 DEF Post, ChainIsLinked, Linked, HashBefore, RepairKeepsRows
<1>2. CASE Persist(w)
  <2>1. PICK r \in Rows :
          /\ log' = [log EXCEPT ![r] = "original"]
          /\ job' = [job EXCEPT ![w] = [at |-> "lock", kind |-> "record", row |-> r,
                                        payload |-> "original"]]
    BY <1>2 DEF Persist
  <2>2. TypeOK'
    BY <1>2, <2>1 DEF Persist, TypeOK, Jobs, Contents
  <2>3. LockIsHeld' /\ TailIsHeld'
    BY <1>2, <2>1 DEF Persist, TypeOK, LockIsHeld, TailIsHeld, HashBefore
  <2>4. RecordsHaveRows'
    BY <1>2, <2>1 DEF Persist, TypeOK, RecordsHaveRows, NoRow
  <2> QED BY <1>2, <2>2, <2>3, <2>4 DEF Persist, ChainIsLinked, Linked, HashBefore, RepairKeepsRows
<1>3. CASE Backfill(w)
  <2>1. PICK r \in Missing :
          job' = [job EXCEPT ![w] = [at |-> "lock", kind |-> "record", row |-> r,
                                     payload |-> log[r]]]
    BY <1>3 DEF Backfill
  <2>2. r \in Rows /\ log[r] # NoRow /\ log[r] \in Contents
    BY DEF Missing, Present, TypeOK
  <2>3. TypeOK'
    BY <1>3, <2>1, <2>2 DEF Backfill, TypeOK, Jobs
  <2>4. LockIsHeld' /\ TailIsHeld' /\ RecordsHaveRows'
    BY <1>3, <2>1, <2>2 DEF Backfill, TypeOK, LockIsHeld, TailIsHeld, RecordsHaveRows, HashBefore
  <2> QED BY <1>3, <2>3, <2>4 DEF Backfill, ChainIsLinked, Linked, HashBefore, RepairKeepsRows
<1>4. CASE Lock(w)
  <2>1. job[w] \in [at : {"lock", "read"}, kind : {"post", "record"}, row : Rows,
                    payload : Contents]
    BY <1>4 DEF Lock, TypeOK, Jobs
  <2>2. [job[w] EXCEPT !.at = "read"]
          \in [at : {"lock", "read"}, kind : {"post", "record"}, row : Rows, payload : Contents]
    BY <2>1
  <2>3. job' = [job EXCEPT ![w] = [job[w] EXCEPT !.at = "read"]] /\ locker = "none" /\ locker' = w
    BY <1>4 DEF Lock, LockIsFree
  <2>4. TypeOK'
    BY <1>4, <2>2, <2>3 DEF Lock, TypeOK, Jobs
  <2>5. LockIsHeld'
    BY <1>4, <2>3, ChainAssumption DEF Lock, TypeOK, LockIsHeld
  <2>6. TailIsHeld' /\ RecordsHaveRows'
    BY <1>4, <2>1, <2>3 DEF Lock, TypeOK, TailIsHeld, RecordsHaveRows, HashBefore
  <2> QED BY <1>4, <2>4, <2>5, <2>6 DEF Lock, ChainIsLinked, Linked, HashBefore, RepairKeepsRows
<1>5. CASE ReadTail(w)
  <2>1. job[w] \in [at : {"lock", "read"}, kind : {"post", "record"}, row : Rows,
                    payload : Contents]
    BY <1>5 DEF ReadTail, TypeOK, Jobs
  <2>2. chain \in Seq(Record) /\ Len(chain) + 1 \in Nat
    BY DEF TypeOK
  <2>3. HashBefore(chain, Len(chain) + 1) \in Hash
    BY <2>2, HashBeforeType
  <2>4. locker = w
    BY <1>5 DEF ReadTail, LockIsHeld
  <2>5. CASE job[w].row \in Recorded
    <3>1. job' = [job EXCEPT ![w] = Idle] /\ locker' = "none"
      BY <1>5, <2>4, <2>5 DEF ReadTail, Unlocked
    <3>2. TypeOK'
      BY <1>5, <3>1 DEF ReadTail, TypeOK, Jobs, Idle
    <3>3. LockIsHeld' /\ TailIsHeld' /\ RecordsHaveRows'
      BY <1>5, <2>4, <3>1, ChainAssumption
         DEF ReadTail, TypeOK, LockIsHeld, TailIsHeld, RecordsHaveRows, HashBefore, Idle
    <3> QED BY <1>5, <3>2, <3>3 DEF ReadTail, ChainIsLinked, Linked, HashBefore, RepairKeepsRows
  <2>6. CASE job[w].row \notin Recorded
    <3> DEFINE j == [at |-> "insert", kind |-> job[w].kind, row |-> job[w].row,
                     payload |-> job[w].payload, seq |-> Len(chain) + 1,
                     prev |-> HashBefore(chain, Len(chain) + 1)]
    <3>1. job' = [job EXCEPT ![w] = j] /\ locker' = locker
      BY <1>5, <2>6 DEF ReadTail
    <3>2. j \in Jobs
      BY <2>1, <2>2, <2>3 DEF Jobs
    <3>3. TypeOK'
      BY <1>5, <3>1, <3>2 DEF ReadTail, TypeOK
    <3>4. LockIsHeld' /\ TailIsHeld' /\ RecordsHaveRows'
      BY <1>5, <2>1, <2>4, <3>1
         DEF ReadTail, TypeOK, LockIsHeld, TailIsHeld, RecordsHaveRows, HashBefore
    <3> QED BY <1>5, <3>3, <3>4 DEF ReadTail, ChainIsLinked, Linked, HashBefore, RepairKeepsRows
  <2> QED BY <2>5, <2>6
<1>6. CASE Fail(w)
  <2>1. job' = [job EXCEPT ![w] = Idle] /\ locker' = (IF locker = w THEN "none" ELSE locker)
    BY <1>6 DEF Fail, Unlocked
  <2>2. TypeOK'
    BY <1>6, <2>1 DEF Fail, TypeOK, Jobs, Idle
  <2>3. LockIsHeld' /\ TailIsHeld' /\ RecordsHaveRows'
    BY <1>6, <2>1, ChainAssumption
       DEF Fail, TypeOK, LockIsHeld, TailIsHeld, RecordsHaveRows, HashBefore, Idle
  <2> QED BY <1>6, <2>2, <2>3 DEF Fail, ChainIsLinked, Linked, HashBefore, RepairKeepsRows
<1> QED BY <1>1, <1>2, <1>3, <1>4, <1>5, <1>6

\* Inserting a record keeps the invariant: the tail the writer has read is still the tail, and
\* the row has no record.
LEMMA InsertStep ==
    ASSUME IInv, NEW w \in Writers, Insert(w)
    PROVE  IInv'
<1> USE DEF IInv
<1>1. /\ job[w].at = "insert" /\ locker = w
      /\ job' = [job EXCEPT ![w] = Idle] /\ locker' = "none"
  BY DEF Insert, LockIsHeld, Unlocked
<1>2. /\ job[w].row \in Rows /\ job[w].payload \in Contents /\ job[w].kind \in {"post", "record"}
      /\ job[w].seq = Len(chain) + 1 /\ job[w].prev = HashBefore(chain, Len(chain) + 1)
  BY <1>1 DEF TypeOK, Jobs, TailIsHeld
<1>3. /\ UNCHANGED <<sim, repair, restore, verify>>
      /\ job' \in [Writers -> Jobs] /\ locker' \in Writers \cup {"repair", "none"}
  BY <1>1 DEF Insert, TypeOK, Jobs, Idle
<1>4. LockIsHeld' /\ TailIsHeld' /\ RepairKeepsRows'
  <2>1. LockIsHeld'
    BY <1>1, <1>3, ChainAssumption DEF LockIsHeld, TypeOK, Idle
  <2>2. \A v \in Writers : job'[v].at # "insert"
    BY <1>1 DEF LockIsHeld, TypeOK, Idle
  <2>3. repair.at # "verify"
    BY <1>1, ChainAssumption DEF LockIsHeld
  <2> QED BY <1>3, <2>1, <2>2, <2>3 DEF TailIsHeld, RepairKeepsRows
<1>5. CASE Conflicts(job[w])
  <2>1. UNCHANGED <<log, chain>>
    BY <1>5 DEF Insert
  <2>2. TypeOK' /\ ChainIsLinked'
    BY <1>3, <2>1 DEF TypeOK, ChainIsLinked, Linked, HashBefore
  <2>3. RecordsHaveRows'
    BY <1>1, <2>1 DEF RecordsHaveRows, TypeOK, Idle
  <2> QED BY <1>4, <2>2, <2>3
<1>6. CASE ~Conflicts(job[w])
  <2>1. PICK signed \in Signing :
          chain' = Append(chain, NewRecord(job[w].seq, job[w].row, job[w].prev, job[w].payload,
                                           signed))
    BY <1>6 DEF Insert
  <2>2. log' = IF job[w].kind = "post" THEN [log EXCEPT ![job[w].row] = job[w].payload] ELSE log
    BY <1>6 DEF Insert
  <2>3. \A i \in DOMAIN chain : chain[i].id # job[w].row
    BY <1>6 DEF Conflicts, Recorded
  <2>4. signed \in BOOLEAN /\ chain \in Seq(Record) /\ Linked(chain)
    BY ChainAssumption DEF TypeOK, ChainIsLinked
  <2> DEFINE rec == NewRecord(job[w].seq, job[w].row, job[w].prev, job[w].payload, signed)
  <2>5. /\ chain' \in Seq(Record) /\ Linked(chain')
        /\ DOMAIN chain' = 1..(Len(chain) + 1)
        /\ \A i \in DOMAIN chain : chain'[i] = chain[i]
        /\ chain'[Len(chain) + 1].id = job[w].row
    <3>1. job[w].seq \in Nat /\ job[w].prev \in Hash
      BY <1>2, <2>4, HashBeforeType
    <3>2. /\ rec \in Record /\ rec.id = job[w].row /\ rec.payload = job[w].payload
          /\ rec.prev = job[w].prev
          /\ rec.hash = RowHash(job[w].seq, job[w].row, job[w].prev, job[w].payload)
      BY <1>2, <2>4, <3>1, NewRecordType
    <3>3. chain' = Append(chain, rec)
      BY <2>1
    <3> HIDE DEF rec
    <3> QED BY <1>2, <2>3, <2>4, <3>2, <3>3, Appending
  <2>6. TypeOK'
    BY <1>2, <1>3, <2>2, <2>5 DEF TypeOK
  <2>7. ChainIsLinked'
    BY <2>5 DEF ChainIsLinked, Linked, HashBefore
  <2>8. /\ \A r \in Rows : log[r] # NoRow => log'[r] # NoRow
        /\ log'[job[w].row] # NoRow
    BY <1>1, <1>2, <2>2 DEF TypeOK, RecordsHaveRows, Contents, NoRow
  <2>9. \A i \in DOMAIN chain : chain[i].id \in Rows
    BY <2>4, RecordAt
  <2>10. DOMAIN chain = 1..Len(chain) /\ Len(chain) \in Nat
    BY <2>4
  <2>11. \A i \in DOMAIN chain' : log'[chain'[i].id] # NoRow
    BY <2>5, <2>8, <2>9, <2>10 DEF RecordsHaveRows
  <2>12. \A v \in Writers :
           job'[v].at # "idle" /\ job'[v].kind = "record" => log'[job'[v].row] # NoRow
    BY <1>1, <2>8 DEF RecordsHaveRows, TypeOK, Jobs, Idle
  <2> QED BY <1>4, <2>6, <2>7, <2>11, <2>12 DEF RecordsHaveRows
<1> QED BY <1>5, <1>6

\* What leaves the chain, the lock and the jobs alone, and takes no row away.
LEMMA RowsOnly ==
    ASSUME IInv, TypeOK', UNCHANGED <<chain, locker, job>>,
           repair' = repair \/ (repair.at # "verify" /\ repair'.at # "verify"),
           \A r \in Rows : log[r] # NoRow => log'[r] # NoRow
    PROVE  IInv'
<1> USE DEF IInv
<1>1. \A i \in DOMAIN chain : chain[i].id \in Rows
  BY RecordAt DEF TypeOK
<1>2. \A w \in Writers : job[w].at # "idle" => job[w].row \in Rows
  BY DEF TypeOK, Jobs
<1>3. RecordsHaveRows'
  BY <1>1, <1>2 DEF RecordsHaveRows
<1>4. LockIsHeld' /\ TailIsHeld' /\ RepairKeepsRows'
  BY DEF LockIsHeld, TailIsHeld, RepairKeepsRows, HashBefore
<1> QED BY <1>3, <1>4 DEF ChainIsLinked, Linked, HashBefore

\* The verifier reads; the simulation and the tools before they write the chain change at
\* most what a row contains.
LEMMA ReaderSteps ==
    ASSUME IInv, \/ CountLogs \/ CountRecords \/ WalkChain
                 \/ MarkRow \/ UnmarkRow \/ SimulationDies
                 \/ PlanRepair \/ CheckRestore \/ RestoreDies
    PROVE  IInv'
<1> USE DEF IInv
<1>1. Present \subseteq Rows /\ Len(chain) \in Nat
  BY DEF Present, TypeOK
<1>2. \A i \in DOMAIN chain : chain[i].id \in Rows
  BY RecordAt DEF TypeOK
<1>3. CASE CountLogs \/ CountRecords \/ WalkChain
  <2>1. UNCHANGED <<log, chain, locker, job, sim, repair, restore>>
    BY <1>3 DEF CountLogs, CountRecords, WalkChain
  <2>2. verify' \in Verifications
    BY <1>1, <1>3 DEF CountLogs, CountRecords, WalkChain, TypeOK, Verifications
  <2>3. TypeOK'
    BY <2>1, <2>2 DEF TypeOK
  <2> QED BY <2>1, <2>3, RowsOnly
<1>4. CASE MarkRow
  <2> DEFINE r == chain[Len(chain)].id
  <2>1. r \in Rows /\ log' = [log EXCEPT ![r] = "marked"] /\ sim' = {r}
    <3>1. Len(chain) \in DOMAIN chain
      BY <1>4 DEF MarkRow, TypeOK
    <3> QED BY <1>2, <1>4, <3>1 DEF MarkRow
  <2> HIDE DEF r
  <2>2. UNCHANGED <<chain, locker, job, repair, restore, verify>>
    BY <1>4 DEF MarkRow
  <2>3. TypeOK'
    BY <2>1, <2>2 DEF TypeOK, Contents
  <2>4. \A q \in Rows : log[q] # NoRow => log'[q] # NoRow
    BY <2>1 DEF TypeOK, NoRow
  <2> QED BY <2>2, <2>3, <2>4, RowsOnly
<1>5. CASE UnmarkRow
  <2>1. PICK r \in sim : log' = [log EXCEPT ![r] = "original"]
    BY <1>5 DEF UnmarkRow
  <2>2. r \in Rows /\ sim' = {} /\ UNCHANGED <<chain, locker, job, repair, restore, verify>>
    BY <1>5 DEF UnmarkRow, TypeOK, Nobody
  <2>3. TypeOK'
    BY <2>1, <2>2 DEF TypeOK, Contents, Nobody
  <2>4. \A q \in Rows : log[q] # NoRow => log'[q] # NoRow
    BY <2>1, <2>2 DEF TypeOK, NoRow
  <2> QED BY <2>2, <2>3, <2>4, RowsOnly
<1>6. CASE SimulationDies \/ RestoreDies
  <2>1. UNCHANGED <<log, chain, locker, job, repair, verify>>
    BY <1>6 DEF SimulationDies, RestoreDies
  <2>2. TypeOK'
    BY <1>6 DEF SimulationDies, RestoreDies, TypeOK
  <2> QED BY <2>1, <2>2, RowsOnly
<1>7. CASE PlanRepair
  <2>1. PICK first \in Failing : repair' = [at |-> "apply", first |-> first]
    BY <1>7 DEF PlanRepair
  <2>2. first \in Nat \ {0}
    BY DEF Failing, TypeOK
  <2>3. /\ repair = Idle /\ repair' \in Repairs
        /\ UNCHANGED <<log, chain, locker, job, sim, restore, verify>>
    BY <1>7, <2>1, <2>2 DEF PlanRepair, Repairs
  <2>4. TypeOK'
    BY <2>3 DEF TypeOK
  <2>5. repair.at # "verify" /\ repair'.at # "verify"
    BY <2>1, <2>3 DEF Idle
  <2> QED BY <2>3, <2>4, <2>5, RowsOnly
<1>8. CASE CheckRestore
  <2>1. PICK i \in DOMAIN chain : restore' = {chain[i].id}
    BY <1>8 DEF CheckRestore
  <2>2. UNCHANGED <<log, chain, locker, job, sim, repair, verify>>
    BY <1>8 DEF CheckRestore
  <2>3. TypeOK'
    BY <1>2, <2>1, <2>2 DEF TypeOK
  <2> QED BY <2>2, <2>3, RowsOnly
<1> QED BY <1>3, <1>4, <1>5, <1>6, <1>7, <1>8

\* The repair tool: it computes new records under the lock, and commits them when they match
\* the rows, which are linked then.
LEMMA RepairSteps ==
    ASSUME IInv, Recompute \/ EndRepair \/ RepairDies
    PROVE  IInv'
<1> USE DEF IInv
<1>1. CASE Recompute
  <2>1. repair.first \in Nat \ {0}
    BY <1>1 DEF Recompute, TypeOK, Repairs, Idle
  <2>2. /\ Recomputed(repair.first) \in Seq(Record)
        /\ DOMAIN Recomputed(repair.first) = DOMAIN chain
        /\ \A i \in DOMAIN chain : Recomputed(repair.first)[i].id = chain[i].id
    BY <2>1, RecomputedChain
  <2>3. /\ locker = "none" /\ locker' = "repair"
        /\ repair' = [at |-> "verify", chain |-> Recomputed(repair.first)]
        /\ UNCHANGED <<log, chain, job, sim, restore, verify>>
    BY <1>1 DEF Recompute, LockIsFree
  <2>4. TypeOK'
    BY <2>2, <2>3 DEF TypeOK, Repairs
  <2>5. LockIsHeld'
    BY <2>3, ChainAssumption DEF LockIsHeld
  <2>6. TailIsHeld' /\ RecordsHaveRows' /\ RepairKeepsRows'
    BY <2>2, <2>3 DEF TailIsHeld, RecordsHaveRows, RepairKeepsRows, HashBefore
  <2> QED BY <2>3, <2>4, <2>5, <2>6 DEF ChainIsLinked, Linked, HashBefore
<1>2. CASE EndRepair
  <2>1. /\ repair.at = "verify" /\ locker = "repair" /\ locker' = "none" /\ repair' = Idle
        /\ UNCHANGED <<log, job, sim, restore, verify>>
    BY <1>2 DEF EndRepair, LockIsHeld, Unlocked
  <2>2. \A w \in Writers : job[w].at # "insert" /\ job[w].at # "read"
    BY <2>1, ChainAssumption DEF LockIsHeld
  <2>3. LockIsHeld' /\ TailIsHeld' /\ RepairKeepsRows'
    BY <2>1, <2>2, ChainAssumption DEF LockIsHeld, TailIsHeld, RepairKeepsRows, Idle
  <2>4. repair.chain \in Seq(Record)
    BY <2>1 DEF TypeOK, Repairs, Idle
  <2>5. chain' \in {chain, repair.chain}
    BY <1>2 DEF EndRepair
  <2>6. DOMAIN chain' = DOMAIN chain /\ \A i \in DOMAIN chain : chain'[i].id = chain[i].id
    BY <2>1, <2>5 DEF RepairKeepsRows
  <2>7. TypeOK'
    BY <2>1, <2>4, <2>5 DEF TypeOK, Repairs, Idle
  <2>8. RecordsHaveRows'
    BY <2>1, <2>6 DEF RecordsHaveRows
  <2>9. Linked(chain')
    <3>1. CASE RepairVerified
      <4>1. chain' = repair.chain /\ ChainMatches(chain')
        BY <1>2, <3>1 DEF EndRepair, RepairVerified
      <4>2. \A i \in DOMAIN chain' :
              /\ chain'[i].prev = HashBefore(chain', i)
              /\ chain'[i].hash = RowHash(i, chain'[i].id, chain'[i].prev, chain'[i].payload)
        <5> SUFFICES ASSUME NEW i \in DOMAIN chain'
                     PROVE  /\ chain'[i].prev = HashBefore(chain', i)
                            /\ chain'[i].hash =
                                 RowHash(i, chain'[i].id, chain'[i].prev, chain'[i].payload)
          OBVIOUS
        <5>1. HashesMatch(repair.chain, i)
          BY <1>2, <3>1, <4>1 DEF EndRepair, RepairVerified, ChainMatches
        <5> QED BY <4>1, <5>1 DEF HashesMatch
      <4>3. \A i, j \in DOMAIN chain' : chain'[i].id = chain'[j].id => i = j
        BY <2>6 DEF ChainIsLinked, Linked
      <4> QED BY <4>2, <4>3 DEF Linked
    <3>2. CASE ~RepairVerified
      BY <1>2, <3>2 DEF EndRepair, ChainIsLinked, Linked, HashBefore
    <3> QED BY <3>1, <3>2
  <2>10. ChainIsLinked'
    BY <2>9 DEF ChainIsLinked, Linked, HashBefore
  <2> QED BY <2>3, <2>7, <2>8, <2>10
<1>3. CASE RepairDies
  <2>1. /\ repair' = Idle /\ locker' = (IF locker = "repair" THEN "none" ELSE locker)
        /\ UNCHANGED <<log, chain, job, sim, restore, verify>>
    BY <1>3 DEF RepairDies, Unlocked
  <2>2. TypeOK'
    BY <2>1 DEF TypeOK, Repairs, Idle
  <2>3. LockIsHeld' /\ TailIsHeld' /\ RecordsHaveRows' /\ RepairKeepsRows'
    BY <2>1, ChainAssumption
       DEF LockIsHeld, TailIsHeld, RecordsHaveRows, RepairKeepsRows, HashBefore, Idle
  <2> QED BY <2>1, <2>2, <2>3 DEF ChainIsLinked, Linked, HashBefore
<1> QED BY <1>1, <1>2, <1>3

\* The restore tool appends the record of its own event while nobody else holds the tail.
LEMMA RestoreStep ==
    ASSUME IInv, ApplyRestore
    PROVE  IInv'
<1> USE DEF IInv
<1>1. PICK r \in restore :
        \/ UNCHANGED <<log, chain>>
        \/ \E event \in Rows, signed \in Signing :
             /\ Fresh(event)
             /\ log' = [log EXCEPT ![r] = "original", ![event] = "original"]
             /\ chain' = Append(chain,
                  NewRecord(Len(chain) + 1, event, HashBefore(chain, Len(chain) + 1),
                            "original", signed))
  BY DEF ApplyRestore
<1>2. /\ r \in Rows /\ locker = "none" /\ restore' = {}
      /\ UNCHANGED <<locker, job, sim, repair, verify>>
  BY <1>1 DEF ApplyRestore, LockIsFree, TypeOK, Nobody
<1>3. CASE UNCHANGED <<log, chain>>
  <2>1. TypeOK'
    BY <1>2, <1>3 DEF TypeOK, Nobody
  <2> QED BY <1>2, <1>3, <2>1, RowsOnly
<1>4. CASE \E event \in Rows, signed \in Signing :
             /\ Fresh(event)
             /\ log' = [log EXCEPT ![r] = "original", ![event] = "original"]
             /\ chain' = Append(chain,
                  NewRecord(Len(chain) + 1, event, HashBefore(chain, Len(chain) + 1),
                            "original", signed))
  <2>1. PICK event \in Rows, signed \in Signing :
             /\ Fresh(event)
             /\ log' = [log EXCEPT ![r] = "original", ![event] = "original"]
             /\ chain' = Append(chain,
                  NewRecord(Len(chain) + 1, event, HashBefore(chain, Len(chain) + 1),
                            "original", signed))
    BY <1>4
  <2>2. \A i \in DOMAIN chain : chain[i].id # event
    BY <2>1 DEF Fresh, Present, RecordsHaveRows
  <2>3. signed \in BOOLEAN /\ chain \in Seq(Record) /\ Linked(chain) /\ "original" \in Contents
    BY ChainAssumption DEF TypeOK, ChainIsLinked, Contents
  <2> DEFINE rec == NewRecord(Len(chain) + 1, event, HashBefore(chain, Len(chain) + 1),
                              "original", signed)
  <2>4. /\ chain' \in Seq(Record) /\ Linked(chain')
        /\ DOMAIN chain' = 1..(Len(chain) + 1)
        /\ \A i \in DOMAIN chain : chain'[i] = chain[i]
        /\ chain'[Len(chain) + 1].id = event
    <3>1. Len(chain) + 1 \in Nat /\ HashBefore(chain, Len(chain) + 1) \in Hash
      BY <2>3, HashBeforeType
    <3>2. /\ rec \in Record /\ rec.id = event /\ rec.payload = "original"
          /\ rec.prev = HashBefore(chain, Len(chain) + 1)
          /\ rec.hash = RowHash(Len(chain) + 1, event, HashBefore(chain, Len(chain) + 1),
                                "original")
      BY <2>3, <3>1, NewRecordType
    <3>3. chain' = Append(chain, rec)
      BY <2>1
    <3> HIDE DEF rec
    <3> QED BY <2>2, <2>3, <3>2, <3>3, Appending
  <2>5. /\ log' \in [Rows -> Contents \cup {NoRow}]
        /\ \A q \in Rows : log[q] # NoRow => log'[q] # NoRow
        /\ log'[event] # NoRow
    BY <1>2, <2>1 DEF TypeOK, Contents, NoRow
  <2>6. TypeOK'
    BY <1>2, <2>4, <2>5 DEF TypeOK, Nobody
  <2>7. \A w \in Writers : job[w].at # "insert"
    BY <1>2, ChainAssumption DEF LockIsHeld
  <2>8. repair.at # "verify"
    BY <1>2 DEF LockIsHeld
  <2>9. LockIsHeld' /\ TailIsHeld' /\ RepairKeepsRows'
    BY <1>2, <2>7, <2>8 DEF LockIsHeld, TailIsHeld, RepairKeepsRows
  <2>10. /\ DOMAIN chain = 1..Len(chain) /\ Len(chain) \in Nat
         /\ \A i \in DOMAIN chain : chain[i].id \in Rows
    BY <2>3, RecordAt
  <2>11. \A i \in DOMAIN chain' : log'[chain'[i].id] # NoRow
    BY <2>4, <2>5, <2>10 DEF RecordsHaveRows
  <2>12. \A w \in Writers :
           job'[w].at # "idle" /\ job'[w].kind = "record" => log'[job'[w].row] # NoRow
    BY <1>2, <2>5 DEF RecordsHaveRows, TypeOK, Jobs
  <2> QED BY <2>4, <2>6, <2>9, <2>11, <2>12 DEF RecordsHaveRows, ChainIsLinked, Linked, HashBefore
<1> QED BY <1>1, <1>3, <1>4

\* Every step keeps the invariant.
LEMMA NextIInv == IInv /\ [Next]_vars => IInv'
<1> SUFFICES ASSUME IInv, [Next]_vars PROVE IInv'
  OBVIOUS
<1>1. CASE \E w \in Writers : Write(w)
  BY <1>1, WriterSteps, InsertStep DEF Write
<1>2. CASE \/ CountLogs \/ CountRecords \/ WalkChain
           \/ MarkRow \/ UnmarkRow \/ SimulationDies
           \/ PlanRepair \/ CheckRestore \/ RestoreDies
  BY <1>2, ReaderSteps
<1>3. CASE Recompute \/ EndRepair \/ RepairDies
  BY <1>3, RepairSteps
<1>4. CASE ApplyRestore
  BY <1>4, RestoreStep
<1>5. CASE UNCHANGED vars
  <2>1. TypeOK'
    BY <1>5 DEF vars, IInv, TypeOK
  <2> QED BY <1>5, <2>1, RowsOnly DEF vars
<1> QED BY <1>1, <1>2, <1>3, <1>4, <1>5 DEF Next

\* The invariant holds in every reachable state.
LEMMA Invariant == Spec => []IInv
BY InitIInv, NextIInv, PTL DEF Spec

\* Whatever writers, verifier and tools do, the chain, the jobs and the tools' notes keep
\* their types.
THEOREM ChainTyped == Spec => []TypeOK
<1>1. IInv => TypeOK
  BY DEF IInv
<1> QED BY <1>1, Invariant, PTL

\* Every record is hashed over its own fields and linked to the record before it, and no row
\* has two records, in every state of any number of writers, of backfills and of repairs
\* (create_integrity_record_in_txn, apply of the repair and of the restore tool).
THEOREM ChainAlwaysLinked == Spec => []ChainIsLinked
<1>1. IInv => ChainIsLinked
  BY DEF IInv
<1> QED BY <1>1, Invariant, PTL
-----------------------------------------------------------------------------
(* What the marks of the simulation may look like *)

\* Only a recorded row is marked, and only one at a time.
MarkIsOne ==
    \A r \in Rows : log[r] = "marked" =>
        r \in Recorded /\ \A s \in Rows : log[s] = "marked" => s = r

\* A writer records what it has found without the marker.
WritersSeeNoMark == \A w \in Writers : job[w].at # "idle" => job[w].payload = "original"

\* The simulation that still runs has its mark, and the restore tool does not run beside it.
SimulationHasMark ==
    /\ \A r \in sim : log[r] = "marked"
    /\ sim = Nobody \/ restore = Nobody

\* A record that was hashed over the marker and no longer matches its row, because the mark
\* was taken away after a repair: from then on the chain does not verify, and no row is marked.
SpoiledMeansUnmarked ==
    \A i \in DOMAIN chain :
        chain[i].payload = "marked" /\ log[chain[i].id] = "original" =>
            \A r \in Rows : log[r] # "marked"

Marks == MarkIsOne /\ WritersSeeNoMark /\ SimulationHasMark /\ SpoiledMeansUnmarked

\* What the verifier has counted: finitely many rows, and no more records than there are now.
Counts ==
    /\ IsFiniteSet(Present)
    /\ verify.at # "idle" => IsFiniteSet(verify.seen)
    /\ verify.at = "walk" => verify.records <= Len(chain)

\* A step that changes neither row nor record: the writers still hold what they have read
\* without the marker, and simulation and restore tool exclude each other by the lock file.
LEMMA MarksWhereNothingIsWritten ==
    ASSUME IInv, Marks, UNCHANGED <<log, chain>>, WritersSeeNoMark', SimulationHasMark'
    PROVE  Marks'
BY DEF Marks, MarkIsOne, SpoiledMeansUnmarked, Recorded

\* The steps of a writer before it inserts.
LEMMA WritersKeepMarks ==
    ASSUME IInv, Marks, NEW w \in Writers,
           Post(w) \/ Persist(w) \/ Backfill(w) \/ Lock(w) \/ ReadTail(w) \/ Fail(w)
    PROVE  Marks'
<1>1. UNCHANGED <<sim, restore, chain>>
  BY DEF Post, Persist, Backfill, Lock, ReadTail, Fail
<1>2. job \in [Writers -> Jobs] /\ job[w] \in Jobs
  BY DEF IInv, TypeOK
<1>3. WritersSeeNoMark'
  <2>1. job' = [job EXCEPT ![w] = job'[w]]
    BY <1>2 DEF Post, Persist, Backfill, Lock, ReadTail, Fail
  <2>2. job'[w].at # "idle" => job'[w].payload = "original"
    <3>1. CASE Post(w) \/ Persist(w)
      BY <1>2, <3>1 DEF Post, Persist
    <3>2. CASE Backfill(w)
      <4>1. PICK r \in Missing : job'[w].payload = log[r]
        BY <1>2, <3>2 DEF Backfill
      <4>2. log[r] \in Contents /\ log[r] # "marked"
        BY DEF Missing, Present, IInv, TypeOK, Marks, MarkIsOne
      <4> QED BY <4>1, <4>2 DEF Contents
    <3>3. CASE Lock(w)
      <4>1. job[w].payload = "original" /\ job'[w] = [job[w] EXCEPT !.at = "read"]
        BY <1>2, <3>3 DEF Lock, Marks, WritersSeeNoMark
      <4> QED BY <1>2, <3>3, <4>1 DEF Lock, Jobs
    <3>4. CASE ReadTail(w)
      <4>1. job[w].payload = "original"
        BY <3>4 DEF ReadTail, Marks, WritersSeeNoMark
      <4> QED BY <1>2, <3>4, <4>1 DEF ReadTail, Idle
    <3>5. CASE Fail(w)
      BY <1>2, <3>5 DEF Fail, Idle
    <3> QED BY <3>1, <3>2, <3>3, <3>4, <3>5
  <2>3. \A v \in Writers \ {w} : job'[v] = job[v]
    BY <1>2, <2>1
  <2> QED BY <2>2, <2>3 DEF Marks, WritersSeeNoMark
<1>4. CASE Persist(w)
  <2>1. PICK r \in Rows : r \notin Present /\ log' = [log EXCEPT ![r] = "original"]
    BY <1>4 DEF Persist, Fresh
  <2>2. /\ log \in [Rows -> Contents \cup {NoRow}] /\ log[r] = NoRow
        /\ \A q \in Rows \ {r} : log'[q] = log[q]
        /\ log'[r] = "original"
    BY <2>1 DEF IInv, TypeOK, Present
  <2>3. \A i \in DOMAIN chain : chain[i].id \in Rows /\ chain[i].id # r
    BY <2>2, RecordAt DEF IInv, TypeOK, RecordsHaveRows
  <2>4. MarkIsOne'
    BY <1>1, <2>2 DEF Marks, MarkIsOne, Recorded
  <2>5. SimulationHasMark'
    <3>1. sim \subseteq Rows
      BY DEF IInv, TypeOK, Nobody
    <3> QED BY <1>1, <2>2, <3>1 DEF Marks, SimulationHasMark, NoRow
  <2>6. SpoiledMeansUnmarked'
    BY <1>1, <2>2, <2>3 DEF Marks, SpoiledMeansUnmarked
  <2> QED BY <1>3, <2>4, <2>5, <2>6 DEF Marks
<1>5. CASE ~Persist(w)
  <2>1. UNCHANGED log
    BY <1>5 DEF Post, Backfill, Lock, ReadTail, Fail
  <2>2. SimulationHasMark'
    BY <1>1, <2>1 DEF Marks, SimulationHasMark
  <2> QED BY <1>1, <1>3, <2>1, <2>2, MarksWhereNothingIsWritten
<1> QED BY <1>4, <1>5

\* An INSERT adds a record without the marker, of a row that had none.
LEMMA InsertKeepsMarks ==
    ASSUME IInv, Marks, NEW w \in Writers, Insert(w)
    PROVE  Marks'
<1>1. /\ job[w].at = "insert" /\ job' = [job EXCEPT ![w] = Idle] /\ UNCHANGED <<sim, restore>>
  BY DEF Insert
<1>2. job \in [Writers -> Jobs] /\ job[w].row \in Rows /\ job[w].payload = "original"
  BY <1>1 DEF IInv, TypeOK, Jobs, Marks, WritersSeeNoMark
<1>3. WritersSeeNoMark'
  BY <1>1, <1>2 DEF Marks, WritersSeeNoMark, Idle
<1>4. CASE UNCHANGED <<log, chain>>
  <2>1. SimulationHasMark'
    BY <1>1, <1>4 DEF Marks, SimulationHasMark
  <2> QED BY <1>3, <1>4, <2>1, MarksWhereNothingIsWritten
<1>5. CASE ~Conflicts(job[w])
  <2> DEFINE r == job[w].row
  <2>1. PICK rec : rec.id = r /\ rec.payload = "original" /\ chain' = Append(chain, rec)
    <3>1. PICK signed \in Signing :
            chain' = Append(chain, NewRecord(job[w].seq, r, job[w].prev, job[w].payload, signed))
      BY <1>5 DEF Insert
    <3> QED BY <1>2, <3>1 DEF NewRecord
  <2>2. /\ DOMAIN chain' = 1..(Len(chain) + 1) /\ DOMAIN chain = 1..Len(chain) /\ Len(chain) \in Nat
        /\ \A i \in DOMAIN chain : chain'[i] = chain[i] /\ chain[i].id \in Rows
        /\ chain'[Len(chain) + 1] = rec
    <3>1. chain \in Seq(Record)
      BY DEF IInv, TypeOK
    <3> QED BY <2>1, <3>1, RecordAt
  <2>3. r \notin Recorded /\ log' \in {log, [log EXCEPT ![r] = "original"]}
    BY <1>2, <1>5 DEF Conflicts, Insert
  <2>4. /\ log[r] # "marked" /\ log'[r] # "marked"
        /\ \A q \in Rows \ {r} : log'[q] = log[q]
    BY <1>2, <2>3 DEF Marks, MarkIsOne, IInv, TypeOK
  <2>5. Recorded \subseteq Recorded'
    BY <2>2 DEF Recorded
  <2>6. MarkIsOne'
    BY <2>4, <2>5 DEF Marks, MarkIsOne
  <2>7. SimulationHasMark'
    <3>1. sim \subseteq Rows
      BY DEF IInv, TypeOK, Nobody
    <3> QED BY <1>1, <2>4, <3>1 DEF Marks, SimulationHasMark
  <2>8. SpoiledMeansUnmarked'
    <3> SUFFICES ASSUME NEW i \in DOMAIN chain', chain'[i].payload = "marked",
                        log'[chain'[i].id] = "original", NEW q \in Rows
                 PROVE  log'[q] # "marked"
      BY DEF SpoiledMeansUnmarked
    <3>1. i \in DOMAIN chain
      BY <2>1, <2>2
    <3>2. chain[i].payload = "marked" /\ chain[i].id \in Rows /\ chain[i].id # r
      BY <2>2, <2>3, <3>1 DEF Recorded
    <3>3. log[chain[i].id] = "original"
      BY <2>2, <2>4, <3>1, <3>2
    <3>4. log[q] # "marked"
      BY <3>1, <3>2, <3>3 DEF Marks, SpoiledMeansUnmarked
    <3> QED BY <2>4, <3>4
  <2> QED BY <1>3, <2>6, <2>7, <2>8 DEF Marks
<1> QED BY <1>4, <1>5 DEF Insert

\* The simulation starts on a chain that verifies and without a marked row, and takes its own
\* mark away.
LEMMA SimulationKeepsMarks ==
    ASSUME IInv, Marks, MarkRow \/ UnmarkRow \/ SimulationDies
    PROVE  Marks'
<1>1. UNCHANGED <<chain, job, restore>>
  BY DEF MarkRow, UnmarkRow, SimulationDies
<1>2. WritersSeeNoMark'
  BY <1>1 DEF Marks, WritersSeeNoMark
<1>3. log \in [Rows -> Contents \cup {NoRow}] /\ sim \subseteq Rows
  BY DEF IInv, TypeOK, Nobody
<1>4. CASE MarkRow
  <2> DEFINE r == chain[Len(chain)].id
  <2>1. r \in Rows /\ r \in Recorded
    <3>1. chain \in Seq(Record) /\ Len(chain) \in DOMAIN chain
      BY <1>4 DEF MarkRow, IInv, TypeOK
    <3> QED BY <3>1, RecordAt DEF Recorded
  <2>2. /\ \A q \in Rows : log[q] # "marked"
        /\ log' = [log EXCEPT ![r] = "marked"] /\ sim' = {r} /\ restore = Nobody
        /\ Verifies(chain)
    BY <1>4 DEF MarkRow, FileIsLocked
  <2>3. \A i \in DOMAIN chain : chain[i].payload # "marked"
    <3> SUFFICES ASSUME NEW i \in DOMAIN chain PROVE chain[i].payload # "marked"
      OBVIOUS
    <3>1. chain[i].payload = log[chain[i].id]
      BY <2>2 DEF Verifies, ChainMatches, HashesMatch
    <3>2. chain[i].id \in Rows
      BY RecordAt DEF IInv, TypeOK
    <3> QED BY <2>2, <3>1, <3>2
  <2> HIDE DEF r
  <2>4. MarkIsOne' /\ SimulationHasMark' /\ SpoiledMeansUnmarked'
    BY <1>1, <1>3, <2>1, <2>2, <2>3
       DEF MarkIsOne, SimulationHasMark, SpoiledMeansUnmarked, Recorded
  <2> QED BY <1>2, <2>4 DEF Marks
<1>5. CASE UnmarkRow
  <2>1. PICK r \in sim : log' = [log EXCEPT ![r] = "original"]
    BY <1>5 DEF UnmarkRow
  <2>2. \A q \in Rows : log'[q] # "marked"
    BY <1>3, <2>1 DEF Marks, MarkIsOne, SimulationHasMark
  <2>3. sim' = {}
    BY <1>5 DEF UnmarkRow, Nobody
  <2>4. MarkIsOne' /\ SimulationHasMark' /\ SpoiledMeansUnmarked'
    BY <2>2, <2>3 DEF MarkIsOne, SimulationHasMark, SpoiledMeansUnmarked, Nobody
  <2> QED BY <1>2, <2>4 DEF Marks
<1>6. CASE SimulationDies
  <2>1. UNCHANGED log /\ SimulationHasMark'
    BY <1>6 DEF SimulationDies, SimulationHasMark, Nobody
  <2> QED BY <1>1, <1>2, <2>1, MarksWhereNothingIsWritten
<1> QED BY <1>4, <1>5, <1>6

\* What the repair tool commits is what RepairVerified has passed, on the rows of the chain.
LEMMA RepairCommits ==
    ASSUME IInv, EndRepair, chain' # chain
    PROVE  /\ ChainMatches(repair.chain) /\ chain' = repair.chain /\ UNCHANGED log
           /\ DOMAIN chain' = DOMAIN chain /\ \A i \in DOMAIN chain : chain'[i].id = chain[i].id
<1>1. repair.at = "verify" /\ UNCHANGED log
      /\ chain' = (IF RepairVerified THEN repair.chain ELSE chain)
  BY DEF EndRepair
<1>2. RepairVerified /\ chain' = repair.chain
  BY <1>1
<1>3. ChainMatches(repair.chain)
  BY <1>2 DEF RepairVerified
<1> QED BY <1>1, <1>2, <1>3 DEF IInv, RepairKeepsRows

\* The repair tool leaves no record that does not match its row.
LEMMA RepairKeepsMarks ==
    ASSUME IInv, Marks, PlanRepair \/ Recompute \/ EndRepair \/ RepairDies
    PROVE  Marks'
<1>1. UNCHANGED <<log, job, sim, restore>>
  BY DEF PlanRepair, Recompute, EndRepair, RepairDies
<1>2. WritersSeeNoMark' /\ SimulationHasMark'
  BY <1>1 DEF Marks, WritersSeeNoMark, SimulationHasMark
<1>3. CASE chain' = chain
  BY <1>1, <1>2, <1>3, MarksWhereNothingIsWritten
<1>4. CASE chain' # chain
  <2>1. EndRepair
    BY <1>4 DEF PlanRepair, Recompute, RepairDies
  <2>2. PICK c : c = repair.chain
    OBVIOUS
  <2>3. /\ ChainMatches(c) /\ chain' = c
        /\ DOMAIN c = DOMAIN chain /\ \A i \in DOMAIN chain : c[i].id = chain[i].id
    BY <1>4, <2>1, <2>2, RepairCommits
  <2>4. Recorded' = Recorded
    BY <2>3 DEF Recorded
  <2>5. MarkIsOne'
    BY <1>1, <2>4 DEF Marks, MarkIsOne
  <2>6. \A i \in DOMAIN c : c[i].payload = log[c[i].id]
    BY <2>3 DEF ChainMatches, HashesMatch
  <2>7. SpoiledMeansUnmarked'
    BY <1>1, <2>3, <2>6 DEF SpoiledMeansUnmarked
  <2> QED BY <1>2, <2>5, <2>7 DEF Marks
<1> QED BY <1>3, <1>4

\* What ApplyRestore does when it changes the chain: the one mark goes, and a record of a row
\* that was not there comes.
LEMMA RestoreCommits ==
    ASSUME IInv, Marks, ApplyRestore, chain' # chain
    PROVE  \E r, event \in Rows, rec \in Record :
             /\ log[r] = "marked" /\ StillRecorded(r) /\ event \notin Present
             /\ log' = [log EXCEPT ![r] = "original", ![event] = "original"]
             /\ rec.id = event /\ rec.payload = "original" /\ chain' = Append(chain, rec)
<1>1. PICK r \in restore :
        /\ log[r] = "marked" /\ StillRecorded(r)
        /\ \E event \in Rows, signed \in Signing :
             /\ Fresh(event)
             /\ log' = [log EXCEPT ![r] = "original", ![event] = "original"]
             /\ chain' = Append(chain,
                  NewRecord(Len(chain) + 1, event, HashBefore(chain, Len(chain) + 1),
                            "original", signed))
  BY DEF ApplyRestore
<1>2. PICK event \in Rows, signed \in Signing :
        /\ Fresh(event)
        /\ log' = [log EXCEPT ![r] = "original", ![event] = "original"]
        /\ chain' = Append(chain,
             NewRecord(Len(chain) + 1, event, HashBefore(chain, Len(chain) + 1),
                       "original", signed))
  BY <1>1
<1>3. r \in Rows /\ chain \in Seq(Record) /\ Len(chain) + 1 \in Nat
  BY DEF IInv, TypeOK, Nobody
<1>4. signed \in BOOLEAN /\ HashBefore(chain, Len(chain) + 1) \in Hash /\ "original" \in Contents
  BY <1>3, ChainAssumption, HashBeforeType DEF Contents
<1>5. PICK rec : rec = NewRecord(Len(chain) + 1, event, HashBefore(chain, Len(chain) + 1),
                                 "original", signed)
  OBVIOUS
<1>6. rec \in Record /\ rec.id = event /\ rec.payload = "original"
  BY <1>3, <1>4, <1>5, NewRecordType
<1>7. chain' = Append(chain, rec) /\ event \notin Present
  BY <1>2, <1>5 DEF Fresh
<1> QED BY <1>1, <1>2, <1>3, <1>6, <1>7

\* The restore tool takes the one mark away.
LEMMA RestoreKeepsMarks ==
    ASSUME IInv, Marks, CheckRestore \/ ApplyRestore \/ RestoreDies
    PROVE  Marks'
<1>1. UNCHANGED <<job, sim>>
  BY DEF CheckRestore, ApplyRestore, RestoreDies
<1>2. WritersSeeNoMark'
  BY <1>1 DEF Marks, WritersSeeNoMark
<1>3. CASE UNCHANGED <<log, chain>>
  <2>1. SimulationHasMark'
    BY <1>1, <1>3 DEF CheckRestore, ApplyRestore, RestoreDies, FileIsLocked, Marks, SimulationHasMark
  <2> QED BY <1>2, <1>3, <2>1, MarksWhereNothingIsWritten
<1>4. CASE ApplyRestore /\ chain' # chain
  <2>1. PICK r, event \in Rows : /\ log[r] = "marked"
                                 /\ log' = [log EXCEPT ![r] = "original", ![event] = "original"]
    BY <1>4, RestoreCommits
  <2>2. \A q \in Rows : log'[q] # "marked"
    BY <2>1 DEF Marks, MarkIsOne, IInv, TypeOK
  <2>3. sim = {} /\ restore' = Nobody
    BY <1>4 DEF ApplyRestore, Marks, SimulationHasMark, Nobody
  <2>4. MarkIsOne' /\ SimulationHasMark' /\ SpoiledMeansUnmarked'
    BY <1>1, <2>2, <2>3 DEF MarkIsOne, SimulationHasMark, SpoiledMeansUnmarked, Nobody
  <2> QED BY <1>2, <2>4 DEF Marks
<1>5. ApplyRestore /\ chain' = chain => UNCHANGED log
  <2> SUFFICES ASSUME ApplyRestore, chain' = chain PROVE UNCHANGED log
    OBVIOUS
  <2>1. \A rec : Append(chain, rec) # chain
    <3>1. chain \in Seq(Record)
      BY DEF IInv, TypeOK
    <3>2. \A rec : Len(Append(chain, rec)) = Len(chain) + 1 /\ Len(chain) \in Nat
      BY <3>1
    <3> QED BY <3>2
  <2> QED BY <2>1 DEF ApplyRestore
<1> QED BY <1>3, <1>4, <1>5 DEF CheckRestore, RestoreDies

\* Every step keeps what the marks may look like.
LEMMA NextMarks ==
    ASSUME IInv, Marks, [Next]_vars
    PROVE  Marks'
<1>1. CASE \E w \in Writers : Write(w)
  BY <1>1, WritersKeepMarks, InsertKeepsMarks DEF Write
<1>2. CASE MarkRow \/ UnmarkRow \/ SimulationDies
  BY <1>2, SimulationKeepsMarks
<1>3. CASE PlanRepair \/ Recompute \/ EndRepair \/ RepairDies
  BY <1>3, RepairKeepsMarks
<1>4. CASE CheckRestore \/ ApplyRestore \/ RestoreDies
  BY <1>4, RestoreKeepsMarks
<1>5. CASE CountLogs \/ CountRecords \/ WalkChain \/ UNCHANGED vars
  <2>1. UNCHANGED <<log, chain, job, sim, restore>>
    BY <1>5 DEF CountLogs, CountRecords, WalkChain, vars
  <2>2. WritersSeeNoMark' /\ SimulationHasMark'
    BY <2>1 DEF Marks, WritersSeeNoMark, SimulationHasMark
  <2> QED BY <2>1, <2>2, MarksWhereNothingIsWritten
<1> QED BY <1>1, <1>2, <1>3, <1>4, <1>5 DEF Next
-----------------------------------------------------------------------------
(* What the tools commit *)

\* A linked chain matches the rows when every record has the payload of its row.
LEMMA LinkedMatches ==
    ASSUME NEW c, Linked(c), \A i \in DOMAIN c : c[i].payload = log[c[i].id]
    PROVE  ChainMatches(c)
<1>1. ASSUME NEW i \in DOMAIN c PROVE HashesMatch(c, i)
  <2>1. /\ c[i].prev = HashBefore(c, i)
        /\ c[i].hash = RowHash(i, c[i].id, c[i].prev, c[i].payload)
        /\ c[i].payload = log[c[i].id]
    BY DEF Linked
  <2> QED BY <2>1 DEF HashesMatch
<1> QED BY <1>1 DEF ChainMatches

\* A committed repair is EndRepair, for who computes a chain holds the lock.
LEMMA RepairHeals ==
    ASSUME IInv, [Next]_vars, Repaired
    PROVE  ChainMatches(chain)'
<1>1. repair.at = "verify" /\ chain' # chain /\ locker = "repair"
  BY DEF Repaired, IInv, LockIsHeld
<1>2. EndRepair
  <2>1. ASSUME NEW w \in Writers PROVE ~Insert(w)
    BY <1>1, ChainAssumption DEF Insert, IInv, LockIsHeld
  <2>2. ~ApplyRestore
    BY <1>1 DEF ApplyRestore, LockIsFree
  <2> QED BY <1>1, <2>1, <2>2
          DEF Next, vars, Write, Post, Persist, Backfill, Lock, ReadTail, Fail, CountLogs,
              CountRecords, WalkChain, MarkRow, UnmarkRow, SimulationDies, PlanRepair, Recompute,
              RepairDies, CheckRestore, RestoreDies
<1>3. ChainMatches(repair.chain) /\ chain' = repair.chain /\ UNCHANGED log
  BY <1>1, <1>2, RepairCommits
<1> QED BY <1>3 DEF ChainMatches, HashesMatch, HashBefore

\* A committed restore takes away the only mark, and no record was hashed over a mark that is
\* gone: what is left matches.
LEMMA RestoreHeals ==
    ASSUME IInv, Marks, IInv', [Next]_vars, Restored
    PROVE  ChainMatches(chain)'
<1>1. restore # Nobody /\ chain' # chain /\ restore' = Nobody
  BY DEF Restored
<1>2. ApplyRestore
  BY <1>1 DEF Next, vars, Write, Post, Persist, Backfill, Lock, ReadTail, Insert, Fail, CountLogs,
              CountRecords, WalkChain, MarkRow, UnmarkRow, SimulationDies, PlanRepair, Recompute,
              EndRepair, RepairDies, CheckRestore, RestoreDies
<1>3. PICK r, event \in Rows, rec \in Record :
        /\ log[r] = "marked" /\ StillRecorded(r) /\ event \notin Present
        /\ log' = [log EXCEPT ![r] = "original", ![event] = "original"]
        /\ rec.id = event /\ rec.payload = "original" /\ chain' = Append(chain, rec)
  BY <1>1, <1>2, RestoreCommits
<1>4. log \in [Rows -> Contents \cup {NoRow}] /\ chain \in Seq(Record)
  BY DEF IInv, TypeOK
<1>5. /\ DOMAIN chain' = 1..(Len(chain) + 1) /\ DOMAIN chain = 1..Len(chain) /\ Len(chain) \in Nat
      /\ \A i \in DOMAIN chain : chain'[i] = chain[i]
      /\ chain'[Len(chain) + 1] = rec
  BY <1>3, <1>4
<1>6. log'[r] = "original" /\ log'[event] = "original"
      /\ \A q \in Rows \ {r, event} : log'[q] = log[q]
  BY <1>3, <1>4
<1>7. ASSUME NEW i \in DOMAIN chain
      PROVE  chain'[i].payload = log'[chain'[i].id]
  <2>1. chain[i] \in Record /\ chain[i].id \in Rows /\ log[chain[i].id] # NoRow
    BY <1>4, RecordAt DEF IInv, RecordsHaveRows
  <2>2. chain[i].payload \in Contents
    BY <2>1 DEF Record
  <2>3. chain[i].id # event
    BY <1>3, <2>1 DEF Present
  <2>4. CASE chain[i].id = r
    BY <1>3, <1>5, <1>6, <2>4 DEF StillRecorded
  <2>5. CASE chain[i].id # r
    <3>1. log[chain[i].id] = "original"
      BY <1>3, <1>4, <2>1, <2>5 DEF Marks, MarkIsOne, Contents
    <3>2. chain[i].payload # "marked"
      BY <1>3, <3>1 DEF Marks, SpoiledMeansUnmarked
    <3> QED BY <1>5, <1>6, <2>1, <2>2, <2>3, <2>5, <3>1, <3>2 DEF Contents
  <2> QED BY <2>4, <2>5
<1>8. \A i \in DOMAIN chain' : chain'[i].payload = log'[chain'[i].id]
  <2> SUFFICES ASSUME NEW i \in DOMAIN chain'
               PROVE  chain'[i].payload = log'[chain'[i].id]
    OBVIOUS
  <2>1. CASE i \in DOMAIN chain
    BY <1>7, <2>1
  <2>2. CASE i = Len(chain) + 1
    BY <1>3, <1>5, <1>6, <2>2
  <2>3. i \in DOMAIN chain \/ i = Len(chain) + 1
    BY <1>5
  <2> QED BY <2>1, <2>2, <2>3
<1>9. \A i \in DOMAIN chain' : /\ chain'[i].prev = HashBefore(chain', i)
                               /\ chain'[i].hash = RowHash(i, chain'[i].id, chain'[i].prev,
                                                           chain'[i].payload)
  BY DEF IInv, ChainIsLinked, Linked, HashBefore, RowHash
<1> QED BY <1>8, <1>9 DEF ChainMatches, HashesMatch, HashBefore, RowHash
-----------------------------------------------------------------------------
(* What the verifier counts *)

\* Rows come one or two at a time.
LEMMA RowsStayFinite ==
    ASSUME IsFiniteSet(Present), NEW a, NEW b, Present' \subseteq Present \cup {a, b}
    PROVE  IsFiniteSet(Present')
<1>1. IsFiniteSet((Present \cup {a}) \cup {b})
  BY FS_AddElement
<1>2. Present' \subseteq (Present \cup {a}) \cup {b}
  OBVIOUS
<1> QED BY <1>1, <1>2, FS_Subset

\* No step takes a record away, and none adds more than two rows.
LEMMA NextCounts ==
    ASSUME IInv, Counts, [Next]_vars
    PROVE  Counts'
<1>1. /\ log \in [Rows -> Contents \cup {NoRow}] /\ chain \in Seq(Record)
      /\ Len(chain) \in Nat /\ DOMAIN chain = 1..Len(chain)
  BY DEF IInv, TypeOK
<1>2. \E a, b : Present' \subseteq Present \cup {a, b}
  <2>1. UNCHANGED log => Present' \subseteq Present
    BY DEF Present
  <2>2. ASSUME NEW r, NEW v, NEW q, NEW u, log' = [log EXCEPT ![r] = v, ![q] = u]
        PROVE  Present' \subseteq Present \cup {r, q}
    BY <1>1, <2>2 DEF Present
  <2>3. ASSUME NEW r, NEW v, log' = [log EXCEPT ![r] = v]
        PROVE  Present' \subseteq Present \cup {r, r}
    BY <1>1, <2>3 DEF Present
  <2>4. \/ UNCHANGED log
        \/ \E r, v : log' = [log EXCEPT ![r] = v]
        \/ \E r, v, q, u : log' = [log EXCEPT ![r] = v, ![q] = u]
    <3>1. CASE \E w \in Writers : Write(w)
      BY <3>1 DEF Write, Post, Persist, Backfill, Lock, ReadTail, Insert, Fail
    <3>2. CASE ApplyRestore
      BY <3>2 DEF ApplyRestore
    <3>3. CASE MarkRow \/ UnmarkRow \/ SimulationDies
      BY <3>3 DEF MarkRow, UnmarkRow, SimulationDies
    <3>4. CASE \/ CountLogs \/ CountRecords \/ WalkChain
               \/ PlanRepair \/ Recompute \/ EndRepair \/ RepairDies
               \/ CheckRestore \/ RestoreDies \/ UNCHANGED vars
      BY <3>4 DEF vars, CountLogs, CountRecords, WalkChain, PlanRepair, Recompute, EndRepair,
                  RepairDies, CheckRestore, RestoreDies
    <3> QED BY <3>1, <3>2, <3>3, <3>4 DEF Next
  <2>5. CASE UNCHANGED log
    <3>1. Present' \subseteq Present \cup {0, 0}
      BY <2>1, <2>5
    <3> QED BY <3>1, Zenon
  <2>6. CASE \E r, v : log' = [log EXCEPT ![r] = v]
    <3>1. PICK r, v : log' = [log EXCEPT ![r] = v]
      BY <2>6
    <3>2. Present' \subseteq Present \cup {r, r}
      BY <2>3, <3>1
    <3> QED BY <3>2, Zenon
  <2>7. CASE \E r, v, q, u : log' = [log EXCEPT ![r] = v, ![q] = u]
    <3>1. PICK r, v, q, u : log' = [log EXCEPT ![r] = v, ![q] = u]
      BY <2>7
    <3>2. Present' \subseteq Present \cup {r, q}
      BY <2>2, <3>1
    <3> QED BY <3>2, Zenon
  <2> QED BY <2>4, <2>5, <2>6, <2>7, Zenon
<1>3. IsFiniteSet(Present')
  BY <1>2, RowsStayFinite DEF Counts
<1>4. Len(chain) <= Len(chain')
  <2>1. CASE UNCHANGED chain
    BY <1>1, <2>1
  <2>2. ASSUME NEW rec, chain' = Append(chain, rec) PROVE Len(chain) <= Len(chain')
    BY <1>1, <2>2
  <2>3. CASE EndRepair
    <3>1. CASE chain' = repair.chain /\ repair.at = "verify"
      <4>1. repair.chain \in Seq(Record) /\ DOMAIN repair.chain = DOMAIN chain
        BY <3>1 DEF IInv, TypeOK, Repairs, RepairKeepsRows, Idle
      <4>2. Len(repair.chain) = Len(chain)
        BY <1>1, <4>1, LenProperties
      <4> QED BY <1>1, <3>1, <4>2
    <3> QED BY <2>1, <2>3, <3>1 DEF EndRepair
  <2>4. UNCHANGED chain \/ EndRepair \/ \E rec : chain' = Append(chain, rec)
    <3>1. CASE \E w \in Writers : Write(w)
      BY <3>1 DEF Write, Post, Persist, Backfill, Lock, ReadTail, Insert, Fail
    <3>2. CASE ApplyRestore
      BY <3>2 DEF ApplyRestore
    <3>3. CASE \/ CountLogs \/ CountRecords \/ WalkChain
               \/ MarkRow \/ UnmarkRow \/ SimulationDies
               \/ PlanRepair \/ Recompute \/ EndRepair \/ RepairDies
               \/ CheckRestore \/ RestoreDies \/ UNCHANGED vars
      BY <3>3 DEF vars, CountLogs, CountRecords, WalkChain, MarkRow, UnmarkRow, SimulationDies,
                  PlanRepair, Recompute, RepairDies, CheckRestore, RestoreDies
    <3> QED BY <3>1, <3>2, <3>3 DEF Next
  <2> QED BY <2>1, <2>2, <2>3, <2>4
<1>5. \/ UNCHANGED verify
      \/ verify' = [at |-> "records", seen |-> Present]
      \/ verify.at = "records" /\ verify' = [at |-> "walk", seen |-> verify.seen, records |-> Len(chain)]
      \/ verify'.at = "idle"
  BY DEF Next, vars, Write, Post, Persist, Backfill, Lock, ReadTail, Insert, Fail, CountLogs,
         CountRecords, WalkChain, MarkRow, UnmarkRow, SimulationDies, PlanRepair, Recompute,
         EndRepair, RepairDies, CheckRestore, ApplyRestore, RestoreDies
<1>6. verify'.at # "idle" => IsFiniteSet(verify'.seen)
  BY <1>5 DEF Counts
<1>7. verify'.at = "walk" => verify'.records <= Len(chain')
  <2>1. verify.at = "walk" => verify.records \in Nat
    BY DEF IInv, TypeOK, Verifications
  <2>2. Len(chain') \in Nat
    <3>1. IInv'
      BY NextIInv
    <3> QED BY <3>1 DEF IInv, TypeOK
  <2>3. CASE UNCHANGED verify
    <3>1. verify.at = "walk" => verify.records <= Len(chain)
      BY DEF Counts
    <3> QED BY <1>1, <1>4, <2>1, <2>2, <2>3, <3>1
  <2>4. CASE ~UNCHANGED verify
    BY <1>1, <1>4, <1>5, <2>4
  <2> QED BY <2>3, <2>4
<1> QED BY <1>3, <1>6, <1>7 DEF Counts

\* There are as many recorded rows as records.
LEMMA RecordedAreCounted ==
    ASSUME IInv
    PROVE  IsFiniteSet(Recorded) /\ Cardinality(Recorded) = Len(chain)
<1> DEFINE n == Len(chain)
           f == [i \in 1..n |-> chain[i].id]
<1>1. n \in Nat /\ DOMAIN chain = 1..n /\ ChainIsLinked
  BY DEF IInv, TypeOK
<1>2. \A i, j \in 1..n : f[i] = f[j] => i = j
  BY <1>1 DEF ChainIsLinked, Linked
<1>3. f \in [1..n -> Recorded] /\ \A r \in Recorded : \E i \in 1..n : f[i] = r
  BY <1>1 DEF Recorded
<1> HIDE DEF f
<1>4. f \in Bijection(1..n, Recorded)
  BY <1>2, <1>3, Fun_IsBij
<1>5. ExistsBijection(1..n, Recorded)
  BY <1>4, Fun_ExistsBij
<1>6. IsFiniteSet(1..n) /\ Cardinality(1..n) = n
  <2>1. 1 \in Int /\ n \in Int
    BY <1>1
  <2>2. IsFiniteSet(1..n) /\ Cardinality(1..n) = IF 1 > n THEN 0 ELSE n - 1 + 1
    BY <2>1, FS_Interval, Zenon
  <2> QED BY <1>1, <2>2
<1> QED BY <1>5, <1>6, FS_Bijection

\* Of two finite sets, the one that is not larger misses no more of the other than the other of it.
LEMMA DifferencesOrdered ==
    ASSUME NEW S, NEW R, IsFiniteSet(S), IsFiniteSet(R), Cardinality(S) <= Cardinality(R)
    PROVE  Cardinality(S \ R) <= Cardinality(R \ S)
<1>1. Cardinality(S \ R) = Cardinality(S) - Cardinality(S \cap R)
  BY FS_Difference
<1>2. Cardinality(R \ S) = Cardinality(R) - Cardinality(R \cap S)
  BY FS_Difference
<1>3. IsFiniteSet(S \cap R) /\ R \cap S = S \cap R
  BY FS_Intersection
<1>4. Cardinality(S) \in Nat /\ Cardinality(R) \in Nat /\ Cardinality(S \cap R) \in Nat
  BY <1>3, FS_CardinalityType
<1>5. Cardinality(S) - Cardinality(S \cap R) <= Cardinality(R) - Cardinality(S \cap R)
  <2> DEFINE both == Cardinality(S \cap R)
             s == Cardinality(S)
             r == Cardinality(R)
  <2>1. both \in Nat /\ s \in Nat /\ r \in Nat /\ s <= r
    BY <1>4
  <2> HIDE DEF both, s, r
  <2>2. s - both <= r - both
    BY <2>1
  <2> QED BY <2>2 DEF both, s, r
<1>6. Cardinality(R \ S) = Cardinality(R) - Cardinality(S \cap R)
  BY <1>2, <1>3, Zenon
<1> QED BY <1>1, <1>5, <1>6, Zenon

\* A verification that passes has counted no more rows than there are records by then.
LEMMA PassedCounts ==
    ASSUME IInv, Counts, [Next]_vars,
           verify.at = "walk", verify'.at = "idle", verify'.status = "passed"
    PROVE  Cardinality(verify.seen \ Recorded) <= Cardinality(Recorded \ verify.seen)
<1>1. WalkChain
  BY DEF Next, vars, Write, Post, Persist, Backfill, Lock, ReadTail, Insert, Fail, CountLogs,
         CountRecords, MarkRow, UnmarkRow, SimulationDies, PlanRepair, Recompute,
         EndRepair, RepairDies, CheckRestore, ApplyRestore, RestoreDies
<1>2. ~(Cardinality(verify.seen) > verify.records)
  BY <1>1 DEF WalkChain, Misses
<1>3. /\ IsFiniteSet(verify.seen) /\ Cardinality(verify.seen) \in Nat
      /\ verify.records \in Nat /\ verify.records <= Len(chain) /\ Len(chain) \in Nat
  <2>1. IsFiniteSet(verify.seen) /\ verify.records <= Len(chain)
    BY DEF Counts
  <2>2. Cardinality(verify.seen) \in Nat
    BY <2>1, FS_CardinalityType
  <2>3. verify.records \in Nat /\ Len(chain) \in Nat
    BY DEF IInv, TypeOK, Verifications
  <2> QED BY <2>1, <2>2, <2>3
<1>4. IsFiniteSet(Recorded) /\ Cardinality(Recorded) = Len(chain)
  BY RecordedAreCounted
<1>5. Cardinality(verify.seen) <= Cardinality(Recorded)
  BY <1>2, <1>3, <1>4
<1> QED BY <1>3, <1>4, <1>5, DifferencesOrdered

\* The stronger invariant holds in every reachable state.
LEMMA MarksAndCounts == Spec => [](IInv /\ Marks /\ Counts)
<1>1. Init => IInv /\ Marks /\ Counts
  <2> SUFFICES ASSUME Init PROVE Marks /\ Counts
    BY InitIInv
  <2>1. \A r \in Rows : log[r] = "absent"
    BY DEF Init, NoRow
  <2>2. Marks
    BY <2>1 DEF Init, Marks, MarkIsOne, WritersSeeNoMark, SimulationHasMark,
                SpoiledMeansUnmarked, Idle, Nobody
  <2>3. Present = {}
    BY <2>1 DEF Present, NoRow
  <2> QED BY <2>2, <2>3, FS_EmptySet DEF Init, Counts
<1>2. IInv /\ Marks /\ Counts /\ [Next]_vars => (IInv /\ Marks /\ Counts)'
  BY NextIInv, NextMarks, NextCounts
<1> QED BY <1>1, <1>2, PTL DEF Spec

\* A repair and a restore commit only what matches the rows, although rows and records may have
\* changed since they were planned: _verify_in_txn passes the one, and the other takes away the
\* only marker there can be (repair_audit_chain_integrity, restore_audit_log_test_tamper_residue).
THEOREM ToolsAlwaysHeal == Spec => ToolsHeal
<1>1. IInv /\ Marks /\ IInv' /\ [Next]_vars
        => [Repaired \/ Restored => ChainMatches(chain)']_vars
  BY RepairHeals, RestoreHeals
<1> QED BY <1>1, MarksAndCounts, PTL DEF ToolsHeal, Spec

\* verify_chain compares two numbers of two snapshots; when it passes, the rows it has counted
\* and that have no record are at most as many as the rows recorded after it had counted.
THEOREM PassedIsAccountedFor == Spec => PassedMissesOnlyWhatCameMeanwhile
<1>1. IInv /\ Counts /\ [Next]_vars
        => [verify.at = "walk" /\ verify'.at = "idle" /\ verify'.status = "passed" =>
              Cardinality(verify.seen \ Recorded) <= Cardinality(Recorded \ verify.seen)]_vars
  BY PassedCounts
<1> QED BY <1>1, MarksAndCounts, PTL DEF PassedMissesOnlyWhatCameMeanwhile, Spec
-----------------------------------------------------------------------------
(* Records are for ever *)

\* No record is removed, moved, signed again or bound to another row; only a repair that is
\* committed changes one.
RecordsAreForEver ==
    [][\A i \in DOMAIN chain :
          /\ i \in DOMAIN chain'
          /\ chain'[i].id = chain[i].id /\ chain'[i].signature = chain[i].signature
          /\ chain'[i] = chain[i] \/ Repaired]_vars

\* _recompute_chain leaves the signatures as they are.
RepairKeepsSignatures ==
    repair.at = "verify" =>
        \A i \in DOMAIN chain : repair.chain[i].signature = chain[i].signature

\* Who may write the chain: a writer with the lock, a restore without anybody having it, and
\* the repair tool.
LEMMA ChainWriters ==
    ASSUME IInv, [Next]_vars, chain' # chain
    PROVE  \/ /\ repair.at # "verify" /\ repair' = repair
              /\ \E rec : chain' = Append(chain, rec)
           \/ /\ repair.at = "verify" /\ repair' = Idle
              /\ chain' = repair.chain
<1>1. CASE \E w \in Writers : Write(w)
  <2>1. PICK w \in Writers : Insert(w)
    BY <1>1 DEF Write, Post, Persist, Backfill, Lock, ReadTail, Fail
  <2>2. locker = w /\ repair' = repair
    BY <2>1 DEF IInv, LockIsHeld, Insert
  <2>3. \E rec : chain' = Append(chain, rec)
    BY <2>1 DEF Insert
  <2> QED BY <2>2, <2>3, ChainAssumption DEF IInv, LockIsHeld
<1>2. CASE ApplyRestore
  BY <1>2, ChainAssumption DEF ApplyRestore, LockIsFree, IInv, LockIsHeld
<1>3. CASE EndRepair
  BY <1>3 DEF EndRepair
<1> QED BY <1>1, <1>2, <1>3 DEF Next, CountLogs, CountRecords, WalkChain, MarkRow, UnmarkRow,
        SimulationDies, PlanRepair, Recompute, RepairDies, CheckRestore, RestoreDies, vars

LEMMA SignaturesKept ==
    ASSUME IInv, RepairKeepsSignatures, [Next]_vars
    PROVE  RepairKeepsSignatures'
<1> SUFFICES ASSUME repair'.at = "verify"
             PROVE  \A i \in DOMAIN chain' : repair'.chain[i].signature = chain'[i].signature
  BY DEF RepairKeepsSignatures
<1>1. CASE Recompute
  <2>1. /\ repair'.chain = Recomputed(repair.first) /\ chain' = chain
        /\ chain \in Seq(Record)
    BY <1>1 DEF Recompute, IInv, TypeOK
  <2>2. ASSUME NEW i \in DOMAIN chain
        PROVE  Recomputed(repair.first)[i].signature = chain[i].signature
    <3>1. chain[i] \in Record
      BY <2>1
    <3> QED BY <3>1 DEF Recomputed, Record
  <2> QED BY <2>1, <2>2
<1>2. CASE ~Recompute
  <2>1. repair' = repair
    BY <1>2 DEF Next, Write, Post, Persist, Backfill, Lock, ReadTail, Insert, Fail,
         CountLogs, CountRecords, WalkChain, MarkRow, UnmarkRow, SimulationDies, PlanRepair,
         EndRepair, RepairDies, CheckRestore, ApplyRestore, RestoreDies, vars, Idle
  <2>2. chain' = chain
    BY <2>1, ChainWriters DEF Idle
  <2> QED BY <2>1, <2>2 DEF RepairKeepsSignatures
<1> QED BY <1>1, <1>2

\* Writers and tools that overlap, fail or die: what was recorded about a row stays in its
\* place in the chain, with the signature it was given, and a repair cannot drop a record.
THEOREM RecordsStay == Spec => RecordsAreForEver
<1> DEFINE Stays(i) == /\ i \in DOMAIN chain'
                       /\ chain'[i].id = chain[i].id /\ chain'[i].signature = chain[i].signature
                       /\ chain'[i] = chain[i] \/ Repaired
<1>1. Init => RepairKeepsSignatures
  BY DEF Init, RepairKeepsSignatures, Idle
<1>2. IInv /\ RepairKeepsSignatures /\ [Next]_vars => RepairKeepsSignatures'
  BY SignaturesKept
<1>3. IInv /\ RepairKeepsSignatures /\ [Next]_vars => [\A i \in DOMAIN chain : Stays(i)]_vars
  <2> SUFFICES ASSUME IInv, RepairKeepsSignatures, [Next]_vars, NEW i \in DOMAIN chain
               PROVE  Stays(i)
    BY Zenon
  <2>1. CASE chain' = chain
    BY <2>1
  <2>2. CASE chain' # chain
    <3>1. chain \in Seq(Record) /\ i \in 1..Len(chain) /\ Len(chain) \in Nat
      BY DEF IInv, TypeOK
    <3>2. CASE \E rec : chain' = Append(chain, rec)
      <4>1. PICK rec : chain' = Append(chain, rec)
        BY <3>2
      <4>2. i \in DOMAIN chain' /\ chain'[i] = chain[i]
        BY <3>1, <4>1
      <4> QED BY <4>2
    <3>3. CASE repair.at = "verify" /\ chain' = repair.chain
      <4>1. DOMAIN chain' = DOMAIN chain /\ chain'[i].id = chain[i].id
        BY <3>3 DEF IInv, RepairKeepsRows
      <4>2. chain'[i].signature = chain[i].signature
        BY <3>3 DEF RepairKeepsSignatures
      <4> QED BY <2>2, <3>3, <4>1, <4>2 DEF Repaired
    <3> QED BY <2>2, <3>2, <3>3, ChainWriters
  <2> QED BY <2>1, <2>2
<1> QED BY <1>1, <1>2, <1>3, Invariant, PTL DEF Spec, RecordsAreForEver
=============================================================================
