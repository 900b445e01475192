-------------------------- MODULE EnrichmentLedger --------------------------
(***************************************************************************)
(* The enrichment pipeline of backend/src/pipeline: the table enrichments  *)
(* is the work queue, one row for a (message, enricher), and one worker    *)
(* thread (worker/index.ts) drains it.  A drain claims a snapshot of due   *)
(* rows, oldest row first, and writes each row back after its run; the     *)
(* main thread stores and enqueues mail between any two of these steps,    *)
(* the user hides and restores messages, and the process may be restarted, *)
(* with a build that bumps, adds or drops enrichers, at any of them.       *)
(*                                                                         *)
(* Messages are numbered by age, the oldest first, and enrichers in the    *)
(* order of the registry.  A run's outcome is a choice: what an enricher   *)
(* extracts, and why one fails, is left out, and so are the applies() gate *)
(* (a success without a result), timings and the counts of the settings    *)
(* page.  reindex, which no caller uses, is left out too.                  *)
(***************************************************************************)
EXTENDS Integers, FiniteSets

CONSTANTS
  Mail,         \* messages, numbered by received date
  Enrichers,    \* numbered in registration order
  Operational,  \* the enrichers of kind 'operational'
  Llm,          \* those of cost 'llm'
  Removable,    \* the enrichers a later build may drop
  MaxVersion,   \* highest version an enricher is bumped to
  MaxAttempts,  \* env.pipelineMaxAttempts
  Batch,        \* rows of one cheap claim (500)
  LlmBatch,     \* rows of one LLM claim (env.pipelineLlmBatch)
  Passes,       \* cheap passes of one nudge (MAX_PASSES)
  HealLimit,    \* backfillLimit (500)
  MaxRestarts, MaxFaults   \* bounds on restarts and failing writes

ASSUME PipelineAssumption ==
  /\ Mail \subseteq Nat /\ IsFiniteSet(Mail)
  /\ Enrichers \subseteq Nat /\ IsFiniteSet(Enrichers)
  /\ Operational \cup Llm \cup Removable \subseteq Enrichers
  /\ {MaxVersion, MaxAttempts, Batch, LlmBatch, Passes, HealLimit} \subseteq Nat \ {0}
  /\ MaxRestarts \in Nat /\ MaxFaults \in Nat

VARIABLES
  mail,     \* "absent", "visible" or "hidden", for every message
  recent,   \* messages within the operational horizon (tier 0)
  code,     \* the running build's version of each enricher, 0 when it has none
  ledger,   \* the rows, a function on the pairs enqueued so far
  order,    \* their places by createdAt
  worker,   \* the enrich job: where it is, its pass, what is left of the claimed snapshot
  history,  \* per pair: failing runs since it was armed, version that died
  restarts, faults

database == <<mail, recent, ledger, order>>
bounds == <<restarts, faults>>
vars == <<mail, recent, code, ledger, order, worker, history, restarts, faults>>

Rows == Mail \X Enrichers
Idle == [at |-> "idle", pass |-> 0, batch |-> {}]
Unrun == [fails |-> 0, diedAt |-> 0]

-----------------------------------------------------------------------------
(* Enqueueing *)

Cost(r) == IF r[2] \in Llm THEN "llm" ELSE "cheap"
Registered == {e \in Enrichers : code[e] > 0}

\* enrichersForTier: old mail gets no operational enricher.
Eligible(m) == {e \in Registered : e \in Operational => m \in recent}

FreshRow(r) == [status |-> "pending", version |-> code[r[2]], attempts |-> 0, waits |-> FALSE]

\* onConflictDoNothing: what is there stays as it is.
Enqueued(new, rows) ==
  [r \in DOMAIN rows \cup new |-> IF r \in DOMAIN rows THEN rows[r] ELSE FreshRow(r)]

\* The rows `new' come after those there are, message by message.
Before(r, s) == r[1] < s[1] \/ (r[1] = s[1] /\ r[2] < s[2])
Appended(new, places) ==
  [r \in DOMAIN places \cup new |->
     IF r \in DOMAIN places THEN places[r]
     ELSE Cardinality(DOMAIN places) + Cardinality({s \in new \ DOMAIN places : Before(s, r)})]

RowsFor(m) == {m} \X Eligible(m)
HasRow(m, rows) == \E r \in rows : r[1] = m
Visible == {m \in Mail : mail[m] = "visible"}

\* The `n` first elements of `set` under `Precedes`.
FirstOf(n, set, Precedes(_, _)) == {x \in set : Cardinality({y \in set : Precedes(y, x)}) < n}

\* backfillPending: the visible messages without any row, by received date.
Orphans == {m \in Visible : ~HasRow(m, DOMAIN ledger)}
BackfillPending ==
  UNION {RowsFor(m) : m \in FirstOf(HealLimit, Orphans, LAMBDA a, b : a < b)}

\* Mutant: only messages without any row are caught up with.
BackfillCoverageNone(rows) == {}

\* backfillEnricherCoverage: enricher by enricher, newest message first, under
\* one limit for all of them.
Gaps(rows) == {r \in (Visible \X Registered) \ rows : r[2] \in Operational => r[1] \in recent}
BackfillCoverage(rows) ==
  FirstOf(HealLimit, Gaps(rows), LAMBDA a, b : a[2] < b[2] \/ (a[2] = b[2] /\ a[1] > b[1]))

\* backfillStaleVersions: finished rows an older version wrote, in the order of
\* the registry; which rows of an enricher come first is not specified.
StaleRows(rows) ==
  {r \in DOMAIN rows : /\ r[2] \in Registered \ Operational
                       /\ rows[r].status \in {"ok", "dead"}
                       /\ rows[r].version < code[r[2]]}
StaleChoices(stale) ==
  {chosen \in SUBSET stale :
     /\ Cardinality(chosen) = IF Cardinality(stale) < HealLimit THEN Cardinality(stale) ELSE HealLimit
     /\ \A r \in chosen, s \in stale \ chosen : r[2] <= s[2]}
Rearm(row) == [row EXCEPT !.status = "pending", !.attempts = 0, !.waits = FALSE]

-----------------------------------------------------------------------------
(* The main thread *)

Init ==
  /\ mail = [m \in Mail |-> "absent"] /\ recent = Mail
  /\ code \in {c \in [Enrichers -> {0, 1}] : \E e \in Enrichers : c[e] = 1}
  /\ ledger = <<>> /\ order = <<>> /\ worker = Idle
  /\ history = [r \in Rows |-> Unrun]
  /\ restarts = 0 /\ faults = 0

\* A sync pass stores a message and enqueues its rows.
Ingest(m) ==
  /\ mail[m] = "absent"
  /\ mail' = [mail EXCEPT ![m] = "visible"]
  /\ ledger' = Enqueued(RowsFor(m), ledger)
  /\ order' = Appended(RowsFor(m), order)
  /\ UNCHANGED <<recent, code, worker, history, bounds>>

\* The source sweep stores one without, and a pass may die in between.
IngestUnqueued(m) ==
  /\ mail[m] = "absent"
  /\ mail' = [mail EXCEPT ![m] = "visible"]
  /\ UNCHANGED <<recent, code, ledger, order, worker, history, bounds>>

\* Tombstoned and brought back, by the user or by a sync.
Toggle(m) ==
  /\ mail[m] # "absent"
  /\ mail' = [mail EXCEPT ![m] = IF @ = "visible" THEN "hidden" ELSE "visible"]
  /\ UNCHANGED <<recent, code, ledger, order, worker, history, bounds>>

\* Messages leave the horizon in the order they came; only operational
\* enrichers can tell.
Age(m) ==
  /\ Operational # {}
  /\ m \in recent /\ \A n \in recent : m <= n
  /\ recent' = recent \ {m}
  /\ UNCHANGED <<mail, code, ledger, order, worker, history, bounds>>

\* The next build: a version goes up, or the enricher goes.
Upgrade(e) == {c \in Nat : \/ c = code[e]
                           \/ c = code[e] + 1 /\ c <= MaxVersion
                           \/ c = 0 /\ e \in Removable}
Builds == {c \in [Enrichers -> 0 .. MaxVersion] : \A e \in Enrichers : c[e] \in Upgrade(e)}

\* A crash or an update: the drain's snapshot goes with the process.
Restart ==
  /\ restarts < MaxRestarts
  /\ restarts' = restarts + 1
  /\ code' \in Builds
  /\ worker' = Idle
  /\ UNCHANGED <<database, history, faults>>

\* A row's nextAttemptAt passes.
BackoffEnds(r) ==
  /\ r \in DOMAIN ledger /\ ledger[r].waits
  /\ ledger' = [ledger EXCEPT ![r].waits = FALSE]
  /\ UNCHANGED <<mail, recent, code, order, worker, history, bounds>>

-----------------------------------------------------------------------------
(* The worker's enrich job *)

\* A nudge from the timer or a sync pass; one that finds a job active or
\* queued is dropped.
Nudge ==
  /\ worker.at = "idle"
  /\ worker' = [Idle EXCEPT !.at = "cheap"]
  /\ UNCHANGED <<database, code, history, bounds>>

Due(row) == row.status \in {"pending", "failed"} /\ ~row.waits

\* What the snapshot keeps of a row is its attempts.
Snapshot(r, rows) == [row |-> r, attempts |-> rows[r].attempts]
OldestOf(limit, rows, places) == FirstOf(limit, rows, LAMBDA r, s : places[r] < places[s])

\* Mutant: the claim looks at the cost alone, not at status and backoff.
ClaimAnything(cost, limit, rows, places) ==
  {Snapshot(r, rows) : r \in OldestOf(limit, {r \in DOMAIN rows : Cost(r) = cost}, places)}

\* claimDue
Claim(cost, limit, rows, places) ==
  {Snapshot(r, rows) : r \in OldestOf(limit, {r \in DOMAIN rows : Due(rows[r]) /\ Cost(r) = cost}, places)}

Claimed(batch) ==
  worker' = IF batch = {} THEN [worker EXCEPT !.at = "llm"]
                          ELSE [worker EXCEPT !.pass = @ + 1, !.batch = batch]

\* A cheap pass that finds due rows.
DrainCheap ==
  /\ worker.at = "cheap" /\ worker.batch = {} /\ worker.pass < Passes
  /\ LET batch == Claim("cheap", Batch, ledger, order)
     IN (batch # {} \/ worker.pass > 0) /\ Claimed(batch)
  /\ UNCHANGED <<database, code, history, bounds>>

\* A first pass that finds none fills the ledger's gaps and claims again.
DrainIdle ==
  /\ worker.at = "cheap" /\ worker.batch = {} /\ worker.pass = 0
  /\ Claim("cheap", Batch, ledger, order) = {}
  /\ LET pending == BackfillPending
         missing == BackfillCoverage(DOMAIN ledger \cup pending)
         filled == Enqueued(pending \cup missing, ledger)
     IN \E stale \in StaleChoices(StaleRows(filled)) :
          /\ ledger' = [r \in DOMAIN filled |-> IF r \in stale THEN Rearm(filled[r]) ELSE filled[r]]
          /\ order' = Appended(missing, Appended(pending, order))
          /\ history' = [r \in Rows |-> IF r \in stale THEN [history[r] EXCEPT !.fails = 0] ELSE history[r]]
  /\ Claimed(Claim("cheap", Batch, ledger', order'))
  /\ UNCHANGED <<mail, recent, code, bounds>>

EndCheap ==
  /\ worker.at = "cheap" /\ worker.batch = {} /\ worker.pass = Passes
  /\ worker' = [worker EXCEPT !.at = "llm"]
  /\ UNCHANGED <<database, code, history, bounds>>

DrainLlm ==
  /\ worker.at = "llm"
  /\ worker' = [worker EXCEPT !.at = "last", !.batch = Claim("llm", LlmBatch, ledger, order)]
  /\ UNCHANGED <<database, code, history, bounds>>

EndJob ==
  /\ worker.at = "last" /\ worker.batch = {}
  /\ worker' = Idle
  /\ UNCHANGED <<database, code, history, bounds>>

\* The snapshot is worked off in the order of the claim.
Next1 == CHOOSE c \in worker.batch : \A d \in worker.batch : order[c.row] <= order[d.row]
RowDone == worker' = [worker EXCEPT !.batch = @ \ {Next1}]

\* A row of an enricher the build no longer has is left as it is.
SkipRow ==
  /\ worker.batch # {} /\ Next1.row[2] \notin Registered
  /\ RowDone
  /\ UNCHANGED <<database, code, history, bounds>>

\* persistSuccess, persistSkipped
RowOk ==
  /\ worker.batch # {} /\ Next1.row[2] \in Registered
  /\ ledger' = [ledger EXCEPT ![Next1.row].status = "ok", ![Next1.row].version = code[Next1.row[2]],
                              ![Next1.row].waits = FALSE]
  /\ RowDone
  /\ UNCHANGED <<mail, recent, code, order, history, bounds>>

\* persistFailure: one attempt more than the snapshot had.
AfterFailure(row, attempts) ==
  IF attempts >= MaxAttempts
  THEN [row EXCEPT !.status = "dead", !.attempts = attempts, !.waits = FALSE]
  ELSE [row EXCEPT !.status = "failed", !.attempts = attempts, !.waits = TRUE]

RowFails ==
  /\ worker.batch # {} /\ Next1.row[2] \in Registered
  /\ LET r == Next1.row
         row == AfterFailure(ledger[r], Next1.attempts + 1)
     IN /\ ledger' = [ledger EXCEPT ![r] = row]
        /\ history' = [history EXCEPT ![r] =
             [fails |-> @.fails + 1, diedAt |-> IF row.status = "dead" THEN code[r[2]] ELSE @.diedAt]]
  /\ RowDone
  /\ UNCHANGED <<mail, recent, code, order, bounds>>

\* A write that fails beyond its retries ends the phase; the rows left in its
\* snapshot stay due.
DrainFails ==
  /\ faults < MaxFaults /\ worker.batch # {}
  /\ faults' = faults + 1
  /\ worker' = [worker EXCEPT !.at = IF @ = "cheap" THEN "llm" ELSE @, !.batch = {}]
  /\ UNCHANGED <<database, code, history, restarts>>

Job == \/ DrainCheap \/ DrainIdle \/ EndCheap \/ DrainLlm \/ EndJob
       \/ SkipRow \/ RowOk \/ RowFails

Next ==
  \/ \E m \in Mail : Ingest(m) \/ IngestUnqueued(m) \/ Toggle(m) \/ Age(m)
  \/ \E r \in Rows : BackoffEnds(r)
  \/ Restart \/ Nudge \/ Job \/ DrainFails

Spec == Init /\ [][Next]_vars

\* The enrich timer keeps nudging, the worker runs its job to the end, and
\* every backoff ends.
FairSpec == Spec /\ WF_vars(Nudge) /\ WF_vars(Job) /\ \A r \in Rows : WF_vars(BackoffEnds(r))

-----------------------------------------------------------------------------
(* Properties *)

RowType == [status : {"pending", "ok", "failed", "dead"}, version : 1 .. MaxVersion,
            attempts : 0 .. MaxAttempts, waits : BOOLEAN]

\* The ledger has one row for a pair, in the order of creation, and the
\* worker's snapshot holds each row once and only while its job runs.
LedgerTypeOK ==
  /\ mail \in [Mail -> {"absent", "visible", "hidden"}] /\ recent \subseteq Mail
  /\ code \in [Enrichers -> 0 .. MaxVersion]
  /\ DOMAIN ledger \subseteq Rows /\ \A r \in DOMAIN ledger : ledger[r] \in RowType
  /\ DOMAIN order = DOMAIN ledger
  /\ \A r, s \in DOMAIN order : order[r] \in Nat /\ (order[r] = order[s] => r = s)
  /\ worker.at \in {"idle", "cheap", "llm", "last"} /\ worker.pass \in 0 .. Passes
  /\ \A c, d \in worker.batch : c.row = d.row => c = d
  /\ worker.at \in {"idle", "llm"} => worker.batch = {}

\* env.ts:176, "Retry cap before a poison enrichment row is parked": whatever
\* the order of restarts, upgrades and drains, a row's counter is the number of
\* runs that failed since it was last armed, a row still to be run has runs
\* left, and a dead one has used them all.
AttemptsAreFailures ==
  \A r \in DOMAIN ledger :
    /\ ledger[r].attempts = history[r].fails
    /\ ledger[r].status \in {"pending", "failed"} => history[r].fails < MaxAttempts
    /\ ledger[r].status = "dead" => history[r].fails = MaxAttempts

\* A snapshot is never older than the row it writes back: nothing the main
\* thread or an earlier pass did to a claimed row is lost when it is persisted.
SnapshotIsCurrent ==
  \A claimed \in worker.batch :
    /\ claimed.row \in DOMAIN ledger /\ Due(ledger[claimed.row])
    /\ ledger[claimed.row].attempts = claimed.attempts

\* The ledger tells the truth of what was tried, and so does what the worker holds of it.
LedgerIsTrue == AttemptsAreFailures /\ SnapshotIsCurrent

Wanted(m, e, v) == mail[m] = "visible" /\ code[e] = v /\ e \in Eligible(m)
Settled(m, e) ==
  /\ <<m, e>> \in DOMAIN ledger
  /\ \/ ledger[<<m, e>>].status = "dead"
     \/ ledger[<<m, e>>].status = "ok"
        /\ (e \notin Operational => ledger[<<m, e>>].version = code[e])

\* A due row of an enricher the build dropped is claimed and skipped each time,
\* so that no claim of a nudge is ever empty.
Jammed == \E r \in DOMAIN ledger : ledger[r].status \in {"pending", "failed"} /\ r[2] \notin Registered

\* enqueue.ts: a message that was never enqueued, an enricher that came later
\* and a version that went up are all caught up with: every enricher settles
\* on every visible message it applies to, unless one of the three changes or
\* a dropped enricher's row jams the claim.
Covered ==
  \A m \in Mail, e \in Enrichers, v \in 1 .. MaxVersion :
    Wanted(m, e, v) ~> Settled(m, e) \/ ~Wanted(m, e, v) \/ Jammed

\* The same with no allowance for the jam, as enqueue.ts has it ("`backfillPending`
\* self-heals any message that was inserted without ever being enqueued").
SelfHeals ==
  \A m \in Mail, e \in Enrichers, v \in 1 .. MaxVersion :
    Wanted(m, e, v) ~> Settled(m, e) \/ ~Wanted(m, e, v)

\* runner.ts:130, "'failed' rows are re-claimed once their backoff gate passes;
\* 'dead' rows aren't": a row the current version gave up on stays dead until
\* the version goes up.
DeadStaysDead ==
  [][\A r \in DOMAIN ledger :
       ledger[r].status = "dead" /\ history[r].diedAt = code[r[2]] /\ code' = code
         => ledger'[r].status = "dead"]_vars

\* enqueue.ts:63, "Newest first": while the backfill has not reached every
\* message without rows, those it has reached are the newer ones.
NewestFirst ==
  [][worker' # worker =>
       \A m, n \in Orphans : HasRow(m, DOMAIN ledger') /\ ~HasRow(n, DOMAIN ledger') => m > n]_vars

=============================================================================
