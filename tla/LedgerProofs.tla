----------------------------- MODULE LedgerProofs -----------------------------
(***************************************************************************)
(* The enrichment ledger, proved for every mailbox and registry, every     *)
(* batch size, cap of attempts and number of restarts, upgrades and failed *)
(* writes: a row's attempts are its failures since it was armed, and no    *)
(* row changes between its claim and the write that ends its run.          *)
(***************************************************************************)
EXTENDS EnrichmentLedger, FiniteSetTheorems, WellFoundedInduction, TLAPS

-----------------------------------------------------------------------------
(* A non-empty set of natural numbers has a least member. *)

LEMMA LeastNatural ==
  ASSUME NEW S \in SUBSET Nat, S # {}
  PROVE  \E x \in S : \A y \in S : x <= y
<1>1. \E x \in S : \A y \in S : ~ (<<y, x>> \in OpToRel(<, Nat))
  BY NatLessThanWellFounded, WFMin
<1>2. PICK x \in S : \A y \in S : ~ (<<y, x>> \in OpToRel(<, Nat))
  BY <1>1
<1>3. \A y \in S : ~ (y < x)
  BY <1>2 DEF OpToRel
<1>. QED  BY <1>3

-----------------------------------------------------------------------------
(* The inductive invariant *)

Claims == [row : Rows, attempts : Nat]
Workers == [at : {"idle", "cheap", "llm", "last"}, pass : 0 .. Passes, batch : SUBSET Claims]

Types ==
  /\ mail \in [Mail -> {"absent", "visible", "hidden"}] /\ recent \subseteq Mail
  /\ code \in [Enrichers -> 0 .. MaxVersion]
  /\ DOMAIN ledger \subseteq Rows /\ ledger \in [DOMAIN ledger -> RowType]
  /\ worker \in Workers
  /\ history \in [Rows -> [fails : Nat, diedAt : Nat]]

\* Rows have places of their own, by their number.
Placed(places) ==
  /\ places \in [DOMAIN places -> Nat]
  /\ \A r \in DOMAIN places : places[r] < Cardinality(DOMAIN places)
  /\ \A r, s \in DOMAIN places : places[r] = places[s] => r = s
OrderInv == DOMAIN order = DOMAIN ledger /\ Placed(order)

\* A row that is not there yet has not failed.
Untried == \A r \in Rows \ DOMAIN ledger : history[r].fails = 0

BatchInv ==
  /\ \A c, d \in worker.batch : c.row = d.row => c = d
  /\ worker.at \in {"idle", "llm"} => worker.batch = {}

IInv == Types /\ OrderInv /\ Untried /\ BatchInv /\ AttemptsAreFailures /\ SnapshotIsCurrent

-----------------------------------------------------------------------------
(* Lemmas on the operators *)

LEMMA RowsAreFinite == IsFiniteSet(Rows)
BY PipelineAssumption, FS_Product DEF Rows

\* What is enqueued is a pair of a message and an enricher the build has.
LEMMA EnqueuedPairs ==
  /\ \A m \in Mail : RowsFor(m) \subseteq Mail \X Registered
  /\ BackfillPending \subseteq Mail \X Registered
  /\ \A rows : BackfillCoverage(rows) \subseteq Mail \X Registered
<1>1. \A m \in Mail : RowsFor(m) \subseteq Mail \X Registered
  BY DEF RowsFor, Eligible
<1>2. BackfillPending \subseteq Mail \X Registered
  <2>1. FirstOf(HealLimit, Orphans, LAMBDA a, b : a < b) \subseteq Mail
    BY DEF FirstOf, Orphans, Visible
  <2>. QED  BY <1>1, <2>1 DEF BackfillPending
<1>3. \A rows : BackfillCoverage(rows) \subseteq Mail \X Registered
  <2>1. \A rows : Gaps(rows) \subseteq Mail \X Registered
    BY DEF Gaps, Visible
  <2>. QED  BY <2>1 DEF BackfillCoverage, FirstOf
<1>. QED  BY <1>1, <1>2, <1>3

\* Enqueueing leaves the rows that are there alone.
Grown(rows, new, filled) ==
  /\ DOMAIN filled = DOMAIN rows \cup new /\ DOMAIN filled \subseteq Rows
  /\ filled \in [DOMAIN filled -> RowType]
  /\ \A r \in DOMAIN rows : filled[r] = rows[r]
  /\ \A r \in new \ DOMAIN rows : filled[r].status = "pending" /\ filled[r].attempts = 0

LEMMA EnqueuedRows ==
  ASSUME Types, NEW new \in SUBSET (Mail \X Registered), NEW rows, rows \in [DOMAIN rows -> RowType],
         DOMAIN rows \subseteq Rows
  PROVE  Grown(rows, new, Enqueued(new, rows))
<1>1. new \subseteq Rows /\ \A r \in new : r[2] \in Enrichers /\ code[r[2]] \in 1 .. MaxVersion
  BY DEF Rows, Registered, Types
<1>2. \A r \in new : FreshRow(r) \in RowType
  BY <1>1, PipelineAssumption DEF FreshRow, RowType
<1>3. \A r : FreshRow(r).status = "pending" /\ FreshRow(r).attempts = 0
  BY DEF FreshRow
<1>4. \A r \in DOMAIN rows \cup new :
        Enqueued(new, rows)[r] = IF r \in DOMAIN rows THEN rows[r] ELSE FreshRow(r)
  BY DEF Enqueued
<1>5. DOMAIN Enqueued(new, rows) = DOMAIN rows \cup new
  BY DEF Enqueued
<1>6. Enqueued(new, rows) \in [DOMAIN rows \cup new -> RowType]
  BY <1>2 DEF Enqueued
<1>. QED  BY <1>1, <1>3, <1>4, <1>5, <1>6 DEF Grown

\* Appended rows come after those that are there, each in a place of its own.
LEMMA AppendedPlaces ==
  ASSUME NEW places, Placed(places), DOMAIN places \subseteq Rows, NEW new \in SUBSET Rows
  PROVE  DOMAIN Appended(new, places) = DOMAIN places \cup new /\ Placed(Appended(new, places))
<1>. DEFINE old == DOMAIN places
            add == new \ old
            below(r) == {s \in add : Before(s, r)}
            all == Appended(new, places)
<1>1. /\ DOMAIN all = old \cup add
      /\ \A r \in old : all[r] = places[r]
      /\ \A r \in add : all[r] = Cardinality(old) + Cardinality(below(r))
  BY DEF Appended
<1>2. /\ IsFiniteSet(old) /\ Cardinality(old) \in Nat
      /\ IsFiniteSet(add) /\ Cardinality(add) \in Nat
  BY RowsAreFinite, FS_Subset, FS_CardinalityType
<1>3. Cardinality(old \cup add) = Cardinality(old) + Cardinality(add)
  <2>1. old \cap add = {}
    OBVIOUS
  <2>. HIDE DEF old, add
  <2>2. Cardinality(old \cup add) = Cardinality(old) + Cardinality(add) - Cardinality(old \cap add)
    BY <1>2, FS_Union
  <2>. QED  BY <1>2, <2>1, <2>2, FS_EmptySet
<1>4. \A r \in add : r \in Rows /\ r[1] \in Nat /\ r[2] \in Nat /\ r = <<r[1], r[2]>>
  <2>1. \A r \in Mail \X Enrichers : r[1] \in Nat /\ r[2] \in Nat /\ r = <<r[1], r[2]>>
    <3>1. \A m \in Mail, e \in Enrichers : m \in Nat /\ e \in Nat
      BY PipelineAssumption
    <3>. QED  BY <3>1
  <2>. QED  BY <2>1 DEF Rows
<1>5. \A r \in add : IsFiniteSet(below(r)) /\ Cardinality(below(r)) \in Nat
  BY <1>2, FS_Subset, FS_CardinalityType
<1>6. \A r \in add : r \notin below(r)
  BY <1>4 DEF Before
<1>7. \A r \in add : Cardinality(below(r)) < Cardinality(add)
  <2>1. ASSUME NEW r \in add PROVE Cardinality(below(r)) < Cardinality(add)
    <3>1. below(r) \subseteq add /\ below(r) # add
      BY <1>6
    <3>. HIDE DEF below, add
    <3>2. Cardinality(below(r)) <= Cardinality(add) /\ Cardinality(below(r)) # Cardinality(add)
      BY <1>2, <3>1, FS_Subset
    <3>. QED  BY <1>2, <1>5, <3>2
  <2>. QED  BY <2>1
<1>8. ASSUME NEW r \in add, NEW s \in add, Before(r, s)
      PROVE  Cardinality(below(r)) < Cardinality(below(s))
  <2>1. r \in below(s) /\ r \notin below(r)
    BY <1>6, <1>8
  <2>2. below(r) \subseteq below(s)
    <3>1. ASSUME NEW t \in add, Before(t, r) PROVE Before(t, s)
      BY <1>4, <1>8, <3>1 DEF Before
    <3>. QED  BY <3>1
  <2>. HIDE DEF below
  <2>3. Cardinality(below(r)) <= Cardinality(below(s)) /\ Cardinality(below(r)) # Cardinality(below(s))
    BY <1>5, <2>1, <2>2, FS_Subset
  <2>. QED  BY <1>5, <2>3
<1>9. \A r, s \in add : r = s \/ Before(r, s) \/ Before(s, r)
  BY <1>4 DEF Before
<1>. HIDE DEF below, add, old, all
<1>10. all \in [DOMAIN all -> Nat] /\ \A r \in DOMAIN all : all[r] < Cardinality(DOMAIN all)
  <2>1. \A r \in old : places[r] \in Nat /\ places[r] < Cardinality(old)
    BY DEF Placed, old
  <2>2. ASSUME NEW r \in DOMAIN all PROVE all[r] \in Nat /\ all[r] < Cardinality(DOMAIN all)
    <3>1. CASE r \in old
      BY <1>1, <1>2, <1>3, <2>1, <3>1
    <3>2. CASE r \in add
      BY <1>1, <1>2, <1>3, <1>5, <1>7, <3>2
    <3>. QED  BY <1>1, <3>1, <3>2
  <2>3. all = [r \in DOMAIN all |-> all[r]]
    BY DEF all, Appended
  <2>. QED  BY <2>2, <2>3
<1>11. ASSUME NEW r \in DOMAIN all, NEW s \in DOMAIN all, all[r] = all[s] PROVE r = s
  <2>1. \A t \in old : all[t] \in Nat /\ all[t] < Cardinality(old)
    BY <1>1 DEF Placed, old
  <2>2. \A t \in add : all[t] \in Nat /\ all[t] >= Cardinality(old)
    BY <1>1, <1>2, <1>5
  <2>3. CASE r \in old /\ s \in old
    BY <1>1, <1>11, <2>3 DEF Placed, old
  <2>4. CASE r \in add /\ s \in add
    <3>1. Cardinality(below(r)) = Cardinality(below(s))
      BY <1>1, <1>2, <1>5, <1>11, <2>4
    <3>. QED  BY <1>5, <1>8, <1>9, <2>4, <3>1
  <2>5. CASE r \in old /\ s \in add
    BY <1>2, <1>11, <2>1, <2>2, <2>5
  <2>6. CASE r \in add /\ s \in old
    BY <1>2, <1>11, <2>1, <2>2, <2>6
  <2>. QED  BY <1>1, <2>3, <2>4, <2>5, <2>6
<1>. QED  BY <1>1, <1>10, <1>11 DEF Placed, add, old, all

\* A claim holds each of its rows once, as due and with the attempts it has.
Current(batch, rows) ==
  /\ batch \in SUBSET Claims
  /\ \A c, d \in batch : c.row = d.row => c = d
  /\ \A c \in batch : c.row \in DOMAIN rows /\ Due(rows[c.row]) /\ rows[c.row].attempts = c.attempts

LEMMA ClaimIsDue ==
  ASSUME NEW cost, NEW limit, NEW places,
         NEW rows, rows \in [DOMAIN rows -> RowType], DOMAIN rows \subseteq Rows
  PROVE  Current(Claim(cost, limit, rows, places), rows)
<1>. DEFINE due == {r \in DOMAIN rows : Due(rows[r]) /\ Cost(r) = cost}
<1>1. OldestOf(limit, due, places) \subseteq due
  BY DEF OldestOf, FirstOf
<1>2. Claim(cost, limit, rows, places) = {Snapshot(r, rows) : r \in OldestOf(limit, due, places)}
  BY DEF Claim
<1>3. \A r : Snapshot(r, rows) = [row |-> r, attempts |-> rows[r].attempts]
  BY DEF Snapshot
<1>4. ASSUME NEW c \in Claim(cost, limit, rows, places)
      PROVE  /\ c.row \in DOMAIN rows /\ Due(rows[c.row])
             /\ c = [row |-> c.row, attempts |-> rows[c.row].attempts]
  <2>1. PICK r \in OldestOf(limit, due, places) : c = Snapshot(r, rows)
    BY <1>2
  <2>2. r \in DOMAIN rows /\ Due(rows[r])
    BY <1>1
  <2>3. c = [row |-> r, attempts |-> rows[r].attempts] /\ c.row = r
    BY <1>3, <2>1
  <2>. QED  BY <2>2, <2>3
<1>5. ASSUME NEW c \in Claim(cost, limit, rows, places) PROVE c \in Claims /\ rows[c.row].attempts = c.attempts
  <2>1. rows[c.row] \in RowType /\ c.row \in Rows
    BY <1>4
  <2>2. rows[c.row].attempts \in Nat
    BY <2>1, PipelineAssumption DEF RowType
  <2>. QED  BY <1>4, <2>1, <2>2 DEF Claims
<1>. QED  BY <1>4, <1>5 DEF Current

\* The row next in the snapshot is one of it.
LEMMA NextIsClaimed ==
  ASSUME IInv, worker.batch # {}
  PROVE  Next1 \in worker.batch
<1>1. \A c \in worker.batch : c.row \in DOMAIN order /\ order[c.row] \in Nat
  BY DEF IInv, SnapshotIsCurrent, OrderInv, Placed
<1>. DEFINE ranks == {order[c.row] : c \in worker.batch}
<1>2. ranks \in SUBSET Nat /\ ranks # {}
  BY <1>1
<1>. HIDE DEF ranks
<1>3. PICK least \in ranks : \A n \in ranks : least <= n
  BY <1>2, LeastNatural
<1>4. PICK c \in worker.batch : order[c.row] = least
  BY <1>3 DEF ranks
<1>5. \A d \in worker.batch : order[c.row] <= order[d.row]
  BY <1>3, <1>4 DEF ranks
<1>. QED  BY <1>5 DEF Next1

-----------------------------------------------------------------------------
(* Steps *)

\* The ledger's part of the invariant, and the worker's.
LedgerPart ==
  /\ mail \in [Mail -> {"absent", "visible", "hidden"}] /\ recent \subseteq Mail
  /\ code \in [Enrichers -> 0 .. MaxVersion]
  /\ DOMAIN ledger \subseteq Rows /\ ledger \in [DOMAIN ledger -> RowType]
  /\ history \in [Rows -> [fails : Nat, diedAt : Nat]]
  /\ OrderInv /\ Untried /\ AttemptsAreFailures
WorkerPart == worker \in Workers /\ BatchInv /\ SnapshotIsCurrent

LEMMA Parts == IInv <=> LedgerPart /\ WorkerPart
BY DEF IInv, Types, LedgerPart, WorkerPart

LEMMA WorkerParts ==
  /\ WorkerPart <=> /\ worker \in Workers
                    /\ worker.at \in {"idle", "llm"} => worker.batch = {}
                    /\ Current(worker.batch, ledger)
  /\ Idle \in Workers /\ Idle.batch = {}
<1>1. worker \in Workers => worker.batch \in SUBSET Claims
  BY DEF Workers
<1>2. Idle \in Workers /\ Idle.batch = {}
  BY PipelineAssumption DEF Workers, Idle
<1>. QED  BY <1>1, <1>2 DEF WorkerPart, BatchInv, SnapshotIsCurrent, Current

\* A step that leaves the ledger alone.
LEMMA LedgerUntouched ==
  ASSUME IInv, mail' \in [Mail -> {"absent", "visible", "hidden"}], recent' \subseteq Mail,
         code' \in [Enrichers -> 0 .. MaxVersion], UNCHANGED <<ledger, order, history>>
  PROVE  LedgerPart' /\ (worker' = worker => WorkerPart')
BY DEF IInv, Types, LedgerPart, WorkerPart, OrderInv, Untried, AttemptsAreFailures, BatchInv, SnapshotIsCurrent

\* Rows are added: those that are there stay, and the new ones have not failed.
TrueRows(rows) ==
  /\ DOMAIN rows \subseteq Rows /\ rows \in [DOMAIN rows -> RowType]
  /\ \A r \in DOMAIN rows : /\ rows[r].attempts = history[r].fails
                            /\ rows[r].status \in {"pending", "failed"} => history[r].fails < MaxAttempts
                            /\ rows[r].status = "dead" => history[r].fails = MaxAttempts

LEMMA EnqueueStep ==
  ASSUME IInv, NEW new \in SUBSET (Mail \X Registered), NEW rows, rows = Enqueued(new, ledger)
  PROVE  /\ TrueRows(rows) /\ DOMAIN rows = DOMAIN ledger \cup new
         /\ \A r \in DOMAIN ledger : rows[r] = ledger[r]
<1>1. Types /\ ledger \in [DOMAIN ledger -> RowType] /\ DOMAIN ledger \subseteq Rows
  BY DEF IInv, Types
<1>2. Grown(ledger, new, rows)
  BY <1>1, EnqueuedRows
<1>3. \A r \in new \ DOMAIN ledger : history[r].fails = 0 /\ 0 < MaxAttempts
  BY <1>2, PipelineAssumption DEF IInv, Untried, Grown
<1>4. \A r \in DOMAIN ledger :
        /\ ledger[r].attempts = history[r].fails
        /\ ledger[r].status \in {"pending", "failed"} => history[r].fails < MaxAttempts
        /\ ledger[r].status = "dead" => history[r].fails = MaxAttempts
  BY DEF IInv, AttemptsAreFailures
<1>. QED  BY <1>2, <1>3, <1>4 DEF Grown, TrueRows

LEMMA IngestStep == ASSUME IInv, NEW m \in Mail, Ingest(m) PROVE IInv'
<1>1. RowsFor(m) \in SUBSET (Mail \X Registered)
  BY EnqueuedPairs
<1>2. ledger' = Enqueued(RowsFor(m), ledger) /\ order' = Appended(RowsFor(m), order)
      /\ UNCHANGED <<recent, code, worker, history>> /\ mail' = [mail EXCEPT ![m] = "visible"]
  BY DEF Ingest
<1>3. /\ TrueRows(ledger') /\ DOMAIN ledger' = DOMAIN ledger \cup RowsFor(m)
      /\ \A r \in DOMAIN ledger : ledger'[r] = ledger[r]
  BY <1>1, <1>2, EnqueueStep
<1>4. OrderInv'
  <2>1. Placed(order) /\ DOMAIN order = DOMAIN ledger /\ DOMAIN order \subseteq Rows
    BY DEF IInv, OrderInv, Types
  <2>2. RowsFor(m) \in SUBSET Rows
    BY <1>3 DEF TrueRows
  <2>. QED  BY <1>2, <1>3, <2>1, <2>2, AppendedPlaces DEF OrderInv
<1>5. LedgerPart'
  BY <1>2, <1>3, <1>4 DEF IInv, Types, Untried, AttemptsAreFailures, TrueRows, LedgerPart
<1>6. WorkerPart'
  BY <1>2, <1>3, Parts DEF WorkerPart, BatchInv, SnapshotIsCurrent
<1>. QED  BY <1>5, <1>6 DEF IInv, Types, LedgerPart, WorkerPart

LEMMA MailStep ==
  ASSUME IInv, NEW m \in Mail, IngestUnqueued(m) \/ Toggle(m) \/ Age(m) PROVE IInv'
<1>1. /\ mail' \in [Mail -> {"absent", "visible", "hidden"}] /\ recent' \subseteq Mail
      /\ UNCHANGED <<code, ledger, order, history, worker>>
  BY DEF IInv, Types, IngestUnqueued, Toggle, Age
<1>2. LedgerPart' /\ WorkerPart'
  BY <1>1, LedgerUntouched DEF IInv, Types
<1>. QED  BY <1>2 DEF IInv, Types, LedgerPart, WorkerPart

LEMMA RestartStep == ASSUME IInv, Restart PROVE IInv'
<1>1. code' \in [Enrichers -> 0 .. MaxVersion] /\ worker' = Idle
      /\ UNCHANGED <<mail, recent, ledger, order, history>>
  BY DEF Restart, Builds, database
<1>2. WorkerPart'
  BY <1>1, WorkerParts DEF Current, WorkerPart, BatchInv, SnapshotIsCurrent
<1>3. LedgerPart'
  BY <1>1, LedgerUntouched DEF IInv, Types
<1>. QED  BY <1>2, <1>3 DEF IInv, Types, LedgerPart, WorkerPart

LEMMA BackoffEndsStep == ASSUME IInv, NEW r \in Rows, BackoffEnds(r) PROVE IInv'
<1>1. PICK row \in RowType : row = ledger[r]
  BY DEF BackoffEnds, IInv, Types
<1>2. PICK q : q = [row EXCEPT !.waits = FALSE]
  OBVIOUS
<1>3. q = [status |-> row.status, version |-> row.version, attempts |-> row.attempts, waits |-> FALSE]
  BY <1>2 DEF RowType
<1>4. /\ q \in RowType /\ q.status = row.status /\ q.attempts = row.attempts /\ ~ q.waits
  BY <1>3 DEF RowType
<1>5. ledger' = [ledger EXCEPT ![r] = q] /\ r \in DOMAIN ledger
  BY <1>1, <1>2 DEF BackoffEnds
<1>6. UNCHANGED <<mail, recent, code, order, worker, history>>
  BY DEF BackoffEnds
<1>7. /\ DOMAIN ledger' = DOMAIN ledger /\ ledger' \in [DOMAIN ledger' -> RowType]
      /\ \A s \in DOMAIN ledger : /\ ledger'[s].status = ledger[s].status
                                  /\ ledger'[s].attempts = ledger[s].attempts
                                  /\ Due(ledger[s]) => Due(ledger'[s])
  BY <1>1, <1>4, <1>5 DEF IInv, Types, Due
<1>8. LedgerPart'
  BY <1>6, <1>7, Parts DEF LedgerPart, OrderInv, Untried, AttemptsAreFailures
<1>9. WorkerPart'
  BY <1>6, <1>7, Parts DEF WorkerPart, BatchInv, SnapshotIsCurrent
<1>. QED  BY <1>8, <1>9 DEF IInv, Types, LedgerPart, WorkerPart

\* A step of the worker that leaves the ledger alone.
LEMMA WorkerStep ==
  ASSUME IInv, UNCHANGED <<mail, recent, code, ledger, order, history>>, NEW w \in Workers, worker' = w,
         w.at \in {"idle", "llm"} => w.batch = {}, Current(w.batch, ledger)
  PROVE  IInv'
<1>1. LedgerPart'
  BY LedgerUntouched DEF IInv, Types
<1>2. WorkerPart'
  BY DEF WorkerPart, BatchInv, SnapshotIsCurrent, Current
<1>. QED  BY <1>1, <1>2 DEF IInv, Types, LedgerPart, WorkerPart

LEMMA NothingClaimed == Current({}, ledger)
BY DEF Current

\* The worker goes on with a batch, or with none.
LEMMA ClaimedFits ==
  ASSUME worker \in Workers, worker.at = "cheap", worker.batch = {}, worker.pass < Passes,
         NEW batch, NEW rows, Current(batch, rows), Claimed(batch)
  PROVE  /\ worker' \in Workers /\ (worker'.at \in {"idle", "llm"} => worker'.batch = {})
         /\ Current(worker'.batch, rows)
<1>1. worker = [at |-> "cheap", pass |-> worker.pass, batch |-> {}] /\ worker.pass \in 0 .. Passes
  BY DEF Workers
<1>2. batch \in SUBSET Claims
  BY DEF Current
<1>3. worker.pass + 1 \in 0 .. Passes
  BY <1>1, PipelineAssumption
<1>4. PICK w, v : /\ w = [worker EXCEPT !.at = "llm"]
                  /\ v = [worker EXCEPT !.pass = @ + 1, !.batch = batch]
  OBVIOUS
<1>5. w = [at |-> "llm", pass |-> worker.pass, batch |-> {}]
  BY <1>1, <1>4
<1>6. v = [at |-> "cheap", pass |-> worker.pass + 1, batch |-> batch]
  BY <1>1, <1>4
<1>7. worker' = IF batch = {} THEN w ELSE v
  BY <1>4 DEF Claimed
<1>8. /\ w \in Workers /\ w.batch = {} /\ v \in Workers /\ v.at = "cheap" /\ v.batch = batch
  BY <1>1, <1>2, <1>3, <1>5, <1>6 DEF Workers
<1>. QED  BY <1>7, <1>8

LEMMA DrainCheapStep == ASSUME IInv, DrainCheap PROVE IInv'
<1>1. PICK batch : batch = Claim("cheap", Batch, ledger, order)
  OBVIOUS
<1>2. Claimed(batch) /\ worker.at = "cheap" /\ worker.batch = {} /\ worker.pass < Passes
  BY <1>1 DEF DrainCheap
<1>3. Current(batch, ledger) /\ worker \in Workers
  BY <1>1, ClaimIsDue DEF IInv, Types
<1>4. PICK w : w = worker'
  OBVIOUS
<1>5. w \in Workers /\ (w.at \in {"idle", "llm"} => w.batch = {}) /\ Current(w.batch, ledger)
  BY <1>2, <1>3, <1>4, ClaimedFits
<1>. QED  BY <1>4, <1>5, WorkerStep DEF DrainCheap, database

\* The stages of a job, and what is left of a batch.
LEMMA StageStep ==
  ASSUME IInv, Nudge \/ EndCheap \/ EndJob \/ SkipRow \/ DrainLlm \/ DrainFails PROVE IInv'
<1>1. worker \in Workers /\ Current(worker.batch, ledger)
      /\ (worker.at \in {"idle", "llm"} => worker.batch = {})
  BY WorkerParts, Parts
<1>2. PICK at, pass, batch : worker = [at |-> at, pass |-> pass, batch |-> batch]
  BY <1>1 DEF Workers
<1>3. /\ worker.at = at /\ worker.batch = batch /\ batch \in SUBSET Claims
      /\ at \in {"idle", "cheap", "llm", "last"} /\ pass \in 0 .. Passes
  BY <1>1, <1>2 DEF Workers
<1>4. UNCHANGED <<mail, recent, code, ledger, order, history>>
  BY DEF Nudge, EndCheap, EndJob, SkipRow, DrainLlm, DrainFails, database
<1>5. PICK claim : claim = Claim("llm", LlmBatch, ledger, order)
  OBVIOUS
<1>6. Current(claim, ledger) /\ claim \in SUBSET Claims
  BY <1>5, ClaimIsDue DEF IInv, Types, Current
<1>7. ASSUME NEW left \in SUBSET batch PROVE Current(left, ledger)
  BY <1>1, <1>3 DEF Current
<1>8. CASE Nudge
  <2>1. PICK w : w = [Idle EXCEPT !.at = "cheap"]
    OBVIOUS
  <2>2. w = [at |-> "cheap", pass |-> 0, batch |-> {}]
    BY <2>1 DEF Idle
  <2>3. w \in Workers /\ w.at = "cheap" /\ w.batch = {}
    BY <2>2, PipelineAssumption DEF Workers
  <2>4. worker' = w
    BY <1>8, <2>1 DEF Nudge
  <2>. QED  BY <1>4, <2>3, <2>4, NothingClaimed, WorkerStep
<1>9. CASE EndCheap
  <2>1. PICK w : w = [worker EXCEPT !.at = "llm"]
    OBVIOUS
  <2>2. w = [at |-> "llm", pass |-> pass, batch |-> batch]
    BY <1>2, <2>1
  <2>3. w \in Workers /\ w.at = "llm" /\ w.batch = {}
    BY <1>3, <1>9, <2>2 DEF Workers, EndCheap
  <2>4. worker' = w
    BY <1>9, <2>1 DEF EndCheap
  <2>. QED  BY <1>4, <2>3, <2>4, NothingClaimed, WorkerStep
<1>10. CASE EndJob
  BY <1>4, <1>10, WorkerParts, NothingClaimed, WorkerStep DEF EndJob
<1>11. CASE SkipRow
  <2>1. PICK w : w = [worker EXCEPT !.batch = @ \ {Next1}]
    OBVIOUS
  <2>2. w = [at |-> at, pass |-> pass, batch |-> batch \ {Next1}]
    BY <1>2, <2>1
  <2>3. w \in Workers /\ w.at = at /\ w.batch = batch \ {Next1}
    BY <1>3, <2>2 DEF Workers
  <2>4. worker' = w
    BY <1>11, <2>1 DEF SkipRow, RowDone
  <2>5. Current(w.batch, ledger) /\ (w.at \in {"idle", "llm"} => w.batch = {})
    BY <1>1, <1>3, <1>7, <2>3
  <2>. QED  BY <1>4, <2>3, <2>4, <2>5, WorkerStep
<1>12. CASE DrainLlm
  <2>1. PICK w : w = [worker EXCEPT !.at = "last", !.batch = claim]
    OBVIOUS
  <2>2. w = [at |-> "last", pass |-> pass, batch |-> claim]
    BY <1>2, <2>1
  <2>3. w \in Workers /\ w.at = "last" /\ w.batch = claim
    BY <1>3, <1>6, <2>2 DEF Workers
  <2>4. worker' = w
    BY <1>5, <1>12, <2>1 DEF DrainLlm
  <2>. QED  BY <1>4, <1>6, <2>3, <2>4, WorkerStep
<1>13. CASE DrainFails
  <2>1. PICK w : w = [worker EXCEPT !.at = IF @ = "cheap" THEN "llm" ELSE @, !.batch = {}]
    OBVIOUS
  <2>2. w = [at |-> IF at = "cheap" THEN "llm" ELSE at, pass |-> pass, batch |-> {}]
    BY <1>2, <2>1
  <2>3. w \in Workers /\ w.batch = {}
    BY <1>3, <2>2 DEF Workers
  <2>4. worker' = w
    BY <1>13, <2>1 DEF DrainFails
  <2>. QED  BY <1>4, <2>3, <2>4, NothingClaimed, WorkerStep
<1>. QED  BY <1>8, <1>9, <1>10, <1>11, <1>12, <1>13

\* A run ends: its row is written, and the other rows of the batch are as they were.
LEMMA RowWritten ==
  ASSUME IInv, worker.batch # {}, RowDone, UNCHANGED <<mail, recent, code, order>>,
         NEW r, r = Next1.row,
         NEW row \in RowType, ledger' = [ledger EXCEPT ![r] = row],
         NEW tried \in [fails : Nat, diedAt : Nat], history' = [history EXCEPT ![r] = tried],
         row.attempts = tried.fails,
         row.status \in {"pending", "failed"} => tried.fails < MaxAttempts,
         row.status = "dead" => tried.fails = MaxAttempts
  PROVE  IInv'
<1>1. PICK n \in worker.batch : n = Next1
  BY NextIsClaimed
<1>2. r = n.row /\ r \in DOMAIN ledger
  BY <1>1 DEF IInv, SnapshotIsCurrent
<1>3. r \in Rows
  BY <1>2 DEF IInv, Types
<1>4. /\ DOMAIN ledger' = DOMAIN ledger /\ ledger' \in [DOMAIN ledger' -> RowType]
      /\ history' \in [Rows -> [fails : Nat, diedAt : Nat]]
      /\ ledger'[r] = row /\ history'[r] = tried
      /\ \A s \in DOMAIN ledger \ {r} : ledger'[s] = ledger[s]
      /\ \A s \in Rows \ {r} : history'[s] = history[s]
  <2>1. /\ ledger \in [DOMAIN ledger -> RowType] /\ DOMAIN ledger \subseteq Rows
        /\ history \in [Rows -> [fails : Nat, diedAt : Nat]]
    BY DEF IInv, Types
  <2>2. /\ DOMAIN ledger' = DOMAIN ledger /\ ledger'[r] = row
        /\ \A s \in DOMAIN ledger \ {r} : ledger'[s] = ledger[s]
    BY <1>2
  <2>3. ledger' \in [DOMAIN ledger -> RowType]
    BY <1>2, <2>1
  <2>4. history' \in [Rows -> [fails : Nat, diedAt : Nat]] /\ history'[r] = tried
        /\ \A s \in Rows \ {r} : history'[s] = history[s]
    BY <1>3, <2>1
  <2>. QED  BY <2>2, <2>3, <2>4
<1>5. LedgerPart'
  <2>1. AttemptsAreFailures'
    BY <1>4 DEF IInv, Types, AttemptsAreFailures
  <2>. QED  BY <1>4, <2>1 DEF IInv, Types, LedgerPart, OrderInv, Untried
<1>6. WorkerPart'
  <2>1. PICK w : w = [worker EXCEPT !.batch = worker.batch \ {n}]
    OBVIOUS
  <2>2. w = [at |-> worker.at, pass |-> worker.pass, batch |-> worker.batch \ {n}]
    BY <2>1 DEF IInv, Types, Workers
  <2>3. w \in Workers /\ w.at = worker.at /\ w.batch = worker.batch \ {n}
    BY <2>2 DEF IInv, Types, Workers
  <2>4. worker' = w
    BY <1>1, <2>1 DEF RowDone
  <2>5. \A c \in w.batch : c.row \in DOMAIN ledger \ {r}
    BY <1>1, <1>2, <2>3 DEF IInv, BatchInv, SnapshotIsCurrent
  <2>. QED  BY <1>4, <2>3, <2>4, <2>5 DEF IInv, WorkerPart, BatchInv, SnapshotIsCurrent
<1>. QED  BY <1>5, <1>6 DEF IInv, Types, LedgerPart, WorkerPart

LEMMA RowOkStep == ASSUME IInv, RowOk PROVE IInv'
<1>1. PICK n \in worker.batch : n = Next1
  BY NextIsClaimed DEF RowOk
<1>2. PICK r \in DOMAIN ledger : r = n.row
  BY <1>1 DEF IInv, SnapshotIsCurrent
<1>3. PICK row \in RowType : row = ledger[r]
  BY DEF IInv, Types
<1>4. PICK q : q = [row EXCEPT !.status = "ok", !.version = code[r[2]], !.waits = FALSE]
  OBVIOUS
<1>5. q = [status |-> "ok", version |-> code[r[2]], attempts |-> row.attempts, waits |-> FALSE]
  BY <1>3, <1>4 DEF RowType
<1>6. code[r[2]] \in 1 .. MaxVersion
  BY <1>1, <1>2, PipelineAssumption DEF IInv, Types, RowOk, Registered
<1>7. q \in RowType /\ q.status = "ok" /\ q.attempts = row.attempts
  BY <1>3, <1>5, <1>6 DEF RowType
<1>8. ledger' = [ledger EXCEPT ![r] = q]
  BY <1>1, <1>2, <1>3, <1>4 DEF RowOk
<1>9. PICK tried \in [fails : Nat, diedAt : Nat] : tried = history[r]
  BY DEF IInv, Types
<1>10. row.attempts = tried.fails
  BY <1>3, <1>9 DEF IInv, AttemptsAreFailures
<1>11. history' = [history EXCEPT ![r] = tried]
  BY <1>9 DEF RowOk, IInv, Types
<1>12. worker.batch # {} /\ RowDone /\ UNCHANGED <<mail, recent, code, order>> /\ r = Next1.row
  BY <1>1, <1>2 DEF RowOk
<1>. QED  BY <1>7, <1>8, <1>10, <1>11, <1>12, RowWritten

LEMMA RowFailsStep == ASSUME IInv, RowFails PROVE IInv'
<1>1. PICK n \in worker.batch : n = Next1
  BY NextIsClaimed DEF RowFails
<1>2. PICK r \in DOMAIN ledger : r = n.row
  BY <1>1 DEF IInv, SnapshotIsCurrent
<1>3. PICK row \in RowType : row = ledger[r]
  BY DEF IInv, Types
<1>4. /\ n.attempts = row.attempts /\ row.attempts = history[r].fails
      /\ history[r].fails < MaxAttempts /\ row.attempts \in 0 .. MaxAttempts
  BY <1>1, <1>2, <1>3 DEF IInv, SnapshotIsCurrent, AttemptsAreFailures, Due, RowType
<1>5. PICK attempts \in 0 .. MaxAttempts : attempts = n.attempts + 1
  BY <1>4, PipelineAssumption
<1>6. PICK dead, failed : /\ dead = [row EXCEPT !.status = "dead", !.attempts = attempts, !.waits = FALSE]
                          /\ failed = [row EXCEPT !.status = "failed", !.attempts = attempts, !.waits = TRUE]
  OBVIOUS
<1>7. /\ dead = [status |-> "dead", version |-> row.version, attempts |-> attempts, waits |-> FALSE]
      /\ failed = [status |-> "failed", version |-> row.version, attempts |-> attempts, waits |-> TRUE]
  BY <1>3, <1>6 DEF RowType
<1>8. PICK q : q = AfterFailure(row, attempts)
  OBVIOUS
<1>9. q = IF attempts >= MaxAttempts THEN dead ELSE failed
  BY <1>6, <1>8 DEF AfterFailure
<1>10. /\ q \in RowType /\ q.attempts = attempts
       /\ q.status = IF attempts >= MaxAttempts THEN "dead" ELSE "failed"
  BY <1>3, <1>5, <1>7, <1>9 DEF RowType
<1>11. PICK tried : tried = [fails |-> history[r].fails + 1,
                             diedAt |-> IF q.status = "dead" THEN code[r[2]] ELSE history[r].diedAt]
  OBVIOUS
<1>12. tried \in [fails : Nat, diedAt : Nat] /\ tried.fails = attempts
  <2>1. code[r[2]] \in Nat /\ history[r].diedAt \in Nat /\ history[r].fails \in Nat
    BY <1>1, <1>2, PipelineAssumption DEF IInv, Types, RowFails, Registered
  <2>. QED  BY <1>4, <1>5, <1>11, <2>1
<1>13. ledger' = [ledger EXCEPT ![r] = q] /\ history' = [history EXCEPT ![r] = tried]
  BY <1>1, <1>2, <1>3, <1>5, <1>8, <1>11 DEF RowFails
<1>14. /\ q.status \in {"pending", "failed"} => tried.fails < MaxAttempts
       /\ q.status = "dead" => tried.fails = MaxAttempts
  BY <1>5, <1>10, <1>12, PipelineAssumption
<1>15. worker.batch # {} /\ RowDone /\ UNCHANGED <<mail, recent, code, order>> /\ r = Next1.row
  BY <1>1, <1>2 DEF RowFails
<1>. QED  BY <1>10, <1>12, <1>13, <1>14, <1>15, RowWritten

\* The backfills: gaps are filled, and finished rows of older versions armed again.
LEMMA DrainIdleStep == ASSUME IInv, DrainIdle PROVE IInv'
<1>1. PICK pending, missing, filled :
        /\ pending = BackfillPending
        /\ missing = BackfillCoverage(DOMAIN ledger \cup pending)
        /\ filled = Enqueued(pending \cup missing, ledger)
  OBVIOUS
<1>2. PICK stale \in StaleChoices(StaleRows(filled)) :
        /\ ledger' = [r \in DOMAIN filled |-> IF r \in stale THEN Rearm(filled[r]) ELSE filled[r]]
        /\ order' = Appended(missing, Appended(pending, order))
        /\ history' = [r \in Rows |-> IF r \in stale THEN [history[r] EXCEPT !.fails = 0] ELSE history[r]]
  BY <1>1 DEF DrainIdle
<1>3. pending \in SUBSET (Mail \X Registered) /\ missing \in SUBSET (Mail \X Registered)
  BY <1>1, EnqueuedPairs
<1>4. TrueRows(filled) /\ DOMAIN filled = DOMAIN ledger \cup (pending \cup missing)
  <2>1. pending \cup missing \in SUBSET (Mail \X Registered)
    BY <1>3
  <2>. QED  BY <1>1, <2>1, EnqueueStep
<1>5. stale \subseteq DOMAIN filled
  BY DEF StaleChoices, StaleRows
<1>6. ASSUME NEW row \in RowType
      PROVE  Rearm(row) \in RowType /\ Rearm(row).status = "pending" /\ Rearm(row).attempts = 0
  <2>1. PICK q : q = Rearm(row)
    OBVIOUS
  <2>2. q = [status |-> "pending", version |-> row.version, attempts |-> 0, waits |-> FALSE]
    BY <2>1 DEF Rearm, RowType
  <2>3. q \in RowType /\ q.status = "pending" /\ q.attempts = 0
    BY <2>2, PipelineAssumption DEF RowType
  <2>. QED  BY <2>1, <2>3
<1>7. history \in [Rows -> [fails : Nat, diedAt : Nat]]
  BY DEF IInv, Types
<1>8. /\ history' \in [Rows -> [fails : Nat, diedAt : Nat]]
      /\ \A r \in Rows : history'[r].fails = IF r \in stale THEN 0 ELSE history[r].fails
  <2>1. ASSUME NEW r \in Rows
        PROVE  [history[r] EXCEPT !.fails = 0] = [fails |-> 0, diedAt |-> history[r].diedAt]
    BY <1>7
  <2>. QED  BY <1>2, <1>7, <2>1
<1>9. /\ DOMAIN ledger' = DOMAIN filled /\ ledger' \in [DOMAIN ledger' -> RowType]
      /\ \A r \in DOMAIN ledger' : ledger'[r] = IF r \in stale THEN Rearm(filled[r]) ELSE filled[r]
  BY <1>2, <1>4, <1>6 DEF TrueRows
<1>10. AttemptsAreFailures' /\ Untried'
  <2>1. ASSUME NEW r \in DOMAIN ledger'
        PROVE  /\ ledger'[r].attempts = history'[r].fails
               /\ ledger'[r].status \in {"pending", "failed"} => history'[r].fails < MaxAttempts
               /\ ledger'[r].status = "dead" => history'[r].fails = MaxAttempts
    <3>1. r \in Rows /\ filled[r] \in RowType
      BY <1>4, <1>9 DEF TrueRows
    <3>2. CASE r \in stale
      BY <1>6, <1>8, <1>9, <3>1, <3>2, PipelineAssumption
    <3>3. CASE r \notin stale
      BY <1>4, <1>8, <1>9, <3>1, <3>3 DEF TrueRows
    <3>. QED  BY <3>2, <3>3
  <2>2. Untried'
    BY <1>4, <1>5, <1>8, <1>9 DEF IInv, Untried, TrueRows
  <2>. QED  BY <2>1, <2>2 DEF AttemptsAreFailures
<1>11. OrderInv'
  <2>1. Placed(order) /\ DOMAIN order = DOMAIN ledger /\ DOMAIN order \subseteq Rows
        /\ pending \in SUBSET Rows /\ missing \in SUBSET Rows
    BY <1>4 DEF IInv, OrderInv, Types, TrueRows
  <2>2. PICK places : places = Appended(pending, order)
    OBVIOUS
  <2>3. Placed(places) /\ DOMAIN places = DOMAIN ledger \cup pending
    BY <2>1, <2>2, AppendedPlaces
  <2>4. DOMAIN places \subseteq Rows
    BY <2>1, <2>3
  <2>5. Placed(order') /\ DOMAIN order' = DOMAIN places \cup missing
    BY <1>2, <2>1, <2>2, <2>3, <2>4, AppendedPlaces
  <2>. QED  BY <1>4, <1>9, <2>3, <2>5 DEF OrderInv, TrueRows
<1>12. LedgerPart'
  BY <1>4, <1>8, <1>9, <1>10, <1>11 DEF DrainIdle, IInv, Types, LedgerPart, TrueRows
<1>13. PICK batch : batch = Claim("cheap", Batch, ledger', order')
  OBVIOUS
<1>14. Current(batch, ledger')
  BY <1>4, <1>9, <1>13, ClaimIsDue DEF TrueRows
<1>15. Claimed(batch) /\ worker.at = "cheap" /\ worker.batch = {} /\ worker.pass < Passes
  BY <1>13, PipelineAssumption DEF DrainIdle
<1>16. /\ worker' \in Workers /\ (worker'.at \in {"idle", "llm"} => worker'.batch = {})
       /\ Current(worker'.batch, ledger')
  BY <1>14, <1>15, ClaimedFits DEF IInv, Types
<1>17. WorkerPart'
  BY <1>16 DEF WorkerPart, BatchInv, SnapshotIsCurrent, Current
<1>. QED  BY <1>12, <1>17 DEF IInv, Types, LedgerPart, WorkerPart

-----------------------------------------------------------------------------
(* The invariant holds *)

LEMMA InitInv == Init => IInv
<1>. SUFFICES ASSUME Init PROVE IInv
  OBVIOUS
<1>1. ledger = <<>> /\ order = <<>> /\ DOMAIN ledger = {} /\ DOMAIN order = {}
  BY DEF Init
<1>2. ledger \in [DOMAIN ledger -> RowType]
  BY <1>1
<1>3. code \in [Enrichers -> 0 .. MaxVersion]
  BY PipelineAssumption DEF Init
<1>4. history \in [Rows -> [fails : Nat, diedAt : Nat]] /\ \A r \in Rows : history[r].fails = 0
  BY DEF Init, Unrun
<1>5. Types
  BY <1>1, <1>2, <1>3, <1>4, WorkerParts DEF Init, Types
<1>6. OrderInv
  <2>1. order \in [DOMAIN order -> Nat]
    BY <1>1
  <2>. QED  BY <1>1, <2>1 DEF OrderInv, Placed
<1>7. BatchInv /\ SnapshotIsCurrent
  BY WorkerParts DEF Init, BatchInv, SnapshotIsCurrent
<1>. QED  BY <1>1, <1>4, <1>5, <1>6, <1>7 DEF IInv, Untried, AttemptsAreFailures

LEMMA InvStep == IInv /\ [Next]_vars => IInv'
<1>. SUFFICES ASSUME IInv, [Next]_vars PROVE IInv'
  OBVIOUS
<1>1. ASSUME NEW m \in Mail, Ingest(m) PROVE IInv'
  BY <1>1, IngestStep
<1>2. ASSUME NEW m \in Mail, IngestUnqueued(m) \/ Toggle(m) \/ Age(m) PROVE IInv'
  BY <1>2, MailStep
<1>3. ASSUME NEW r \in Rows, BackoffEnds(r) PROVE IInv'
  BY <1>3, BackoffEndsStep
<1>4. CASE Restart
  BY <1>4, RestartStep
<1>5. CASE DrainCheap
  BY <1>5, DrainCheapStep
<1>6. CASE DrainIdle
  BY <1>6, DrainIdleStep
<1>7. CASE RowOk
  BY <1>7, RowOkStep
<1>8. CASE RowFails
  BY <1>8, RowFailsStep
<1>9. CASE Nudge \/ EndCheap \/ EndJob \/ SkipRow \/ DrainLlm \/ DrainFails
  BY <1>9, StageStep
<1>10. CASE UNCHANGED vars
  BY <1>10 DEF vars, IInv, Types, OrderInv, Placed, Untried, BatchInv, AttemptsAreFailures, SnapshotIsCurrent
<1>. QED  BY <1>1, <1>2, <1>3, <1>4, <1>5, <1>6, <1>7, <1>8, <1>9, <1>10 DEF Next, Job

LEMMA Invariance == Spec => []IInv
<1>1. Init => IInv
  BY InitInv
<1>2. IInv /\ [Next]_vars => IInv'
  BY InvStep
<1>. QED  BY <1>1, <1>2, PTL DEF Spec

-----------------------------------------------------------------------------
(* Theorems *)

\* One row for a pair of a message and an enricher, each in a place of its own,
\* and a snapshot that holds a row once and only while its job runs (claimDue).
THEOREM LedgerTypes == Spec => []LedgerTypeOK
<1>1. IInv => LedgerTypeOK
  BY DEF IInv, Types, OrderInv, Placed, BatchInv, Workers, LedgerTypeOK
<1>. QED  BY <1>1, Invariance, PTL

\* Whatever interleaves with a drain, a row's attempts are its failures since it
\* was armed, a live row has runs left, a dead one none, and the worker writes
\* back what it claimed (persistFailure, backfillStaleVersions).
THEOREM LedgerTellsTheTruth == Spec => []LedgerIsTrue
<1>1. IInv => LedgerIsTrue
  BY DEF IInv, LedgerIsTrue
<1>. QED  BY <1>1, Invariance, PTL
=============================================================================
