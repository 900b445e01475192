---------------------------- MODULE OutboxQueue ----------------------------
(***************************************************************************)
(* The server-owned outbox: one durable queue of actions that reach the    *)
(* mail provider on the user's behalf.  This module is the queue itself:   *)
(* how a row is inserted, claimed by a pass of the runner, settled,        *)
(* retried, canceled, re-armed at boot and pruned.  What a row DOES to the *)
(* local mailbox and to the server is MailboxIntents, which composes with  *)
(* this module.                                                            *)
(*                                                                         *)
(* Node runs one callback at a time, so everything between two awaits is   *)
(* one step here.  The awaits of a pass are the provider calls: `calling'  *)
(* is the set of rows whose call is outstanding.                           *)
(***************************************************************************)
EXTENDS Naturals, FiniteSets

CONSTANTS MaxRows,      \* bound: rows ever inserted
          Kinds,        \* the kinds of row this instance enqueues
          MaxAttempts,  \* MAX_ATTEMPTS, 5 in the code
          Batch,        \* BATCH, 50 in the code
          MaxRestarts,  \* bound: process crashes
          LostReplies,  \* may a call take effect and still report an error?
          WriteFaults   \* may a write exhaust its SQLITE_BUSY retries?

ASSUME QueueAssumption ==
  /\ MaxRows \in Nat \ {0}
  /\ Kinds \subseteq {"send", "delete", "archive", "move", "flags"}
  /\ MaxAttempts \in Nat \ {0}
  /\ Batch \in Nat \ {0}
  /\ MaxRestarts \in Nat
  /\ LostReplies \in BOOLEAN
  /\ WriteFaults \in BOOLEAN

VARIABLES rows,     \* the outbox table, by insertion order (SQLite rowid)
          busy,     \* a drain is running
          again,    \* a nudge landed while it ran
          batch,    \* rows this pass claimed and has not settled yet
          calling,  \* rows whose provider call is outstanding
          restarts, \* crashes so far
          \* observation of what happened outside the table
          reached,  \* the provider took the row's action
          doubtful, \* an attempt took effect and the runner never learned it
          undone    \* the row's inverse was applied locally

queueVars == <<rows, busy, again, batch, calling, restarts>>
seenVars  == <<reached, doubtful, undone>>
vars == <<queueVars, seenVars>>

RowIds == 1 .. MaxRows

\* "now": due when inserted (flags, rule actions).  "window": due after the
\* undo window, the same for every row.  "timed": a send, due when it says.
Lanes    == {"now", "window", "timed"}
Statuses == {"none", "pending", "sending", "done", "canceled", "dead", "pruned"}
Live     == {"pending", "sending"}
Settled  == {"done", "canceled", "dead"}

Row == [kind : Kinds \cup {"none"}, lane : Lanes, status : Statuses,
        due : BOOLEAN, cooling : BOOLEAN, attempts : 0 .. MaxAttempts]

NoRow == [kind |-> "none", lane |-> "now", status |-> "none",
          due |-> FALSE, cooling |-> FALSE, attempts |-> 0]

\* How one provider call ends: it took effect; there was nothing to ask the
\* provider; it failed; it took effect but the runner got an error.
Outcomes == {"taken", "nothing", "refused"}
            \cup (IF LostReplies THEN {"lost"} ELSE {})

-----------------------------------------------------------------------------
(* Claiming *)

Ready(rs) == {r \in RowIds : /\ rs[r].status = "pending"
                             /\ rs[r].due
                             /\ ~ rs[r].cooling}

\* ORDER BY dueAt, rowid, as far as it is fixed: rows with the same delay are
\* ordered by insertion.
Before(rs, i, j) == /\ i < j
                    /\ rs[i].lane = rs[j].lane
                    /\ rs[i].lane # "timed"

\* The snapshots claimDue may return: every ready row, or the first Batch.
Snapshots(rs) ==
  LET ready == Ready(rs) IN
  IF Cardinality(ready) <= Batch
  THEN {ready}
  ELSE {S \in SUBSET ready :
          /\ Cardinality(S) = Batch
          /\ \A i \in S : \A j \in ready : Before(rs, j, i) => j \in S}

Claimed(rs, S) ==
  [r \in RowIds |-> IF r \in S THEN [rs[r] EXCEPT !.status = "sending"] ELSE rs[r]]

\* A pass begins: the whole snapshot is flipped to `sending' before any call.
StartPass(rs) ==
  \E S \in Snapshots(rs) :
    /\ rows' = Claimed(rs, S)
    /\ batch' = S
    /\ busy' = (S # {})
    /\ again' = FALSE

\* Mutant: a nudge that finds the drain busy is forgotten.
NudgeForgotten(rs) ==
  IF busy THEN rows' = rs /\ UNCHANGED <<batch, busy, again>> ELSE StartPass(rs)

\* nudgeOutbox: drain at once, or ask the running drain for one more pass.
Nudge(rs) ==
  IF busy
  THEN /\ rows' = rs
       /\ again' = TRUE
       /\ UNCHANGED <<batch, busy>>
  ELSE StartPass(rs)

-----------------------------------------------------------------------------
(* Enqueueing.  Row ids are handed out in order. *)

Fresh(r) == /\ rows[r].status = "none"
            /\ \A q \in RowIds : q < r => rows[q].status # "none"

Inserted(r, k, l) ==
  [rows EXCEPT ![r] = [kind |-> k, lane |-> l, status |-> "pending",
                       due |-> (l = "now"), cooling |-> FALSE, attempts |-> 0]]

\* A delete, archive or move from its route: the undo window holds it.
EnqueueWindowed(r, k) ==
  /\ k \in Kinds \cap {"delete", "archive", "move"}
  /\ Fresh(r)
  /\ rows' = Inserted(r, k, "window")
  /\ UNCHANGED <<busy, again, batch, calling, restarts, seenVars>>

\* A flags toggle, or an action a rule takes on new mail: due now, nudged.
EnqueueNow(r, k) ==
  /\ k \in Kinds \ {"send"}
  /\ Fresh(r)
  /\ Nudge(Inserted(r, k, "now"))
  /\ UNCHANGED <<calling, restarts, seenVars>>

\* A send, undoable or scheduled; only an unscheduled one is nudged.
EnqueueSend(r, scheduled) ==
  /\ "send" \in Kinds
  /\ Fresh(r)
  /\ IF scheduled
     THEN /\ rows' = Inserted(r, "send", "timed")
          /\ UNCHANGED <<busy, again, batch>>
     ELSE Nudge(Inserted(r, "send", "timed"))
  /\ UNCHANGED <<calling, restarts, seenVars>>

\* dueAt passes.  Equal delays elapse in insertion order.
DueElapses(r) ==
  /\ rows[r].status = "pending"
  /\ ~ rows[r].due
  /\ \A q \in RowIds : Before(rows, q, r) /\ rows[q].status = "pending" => rows[q].due
  /\ rows' = [rows EXCEPT ![r].due = TRUE]
  /\ UNCHANGED <<busy, again, batch, calling, restarts, seenVars>>

\* nextAttemptAt passes.
BackoffElapses(r) ==
  /\ rows[r].status = "pending"
  /\ rows[r].cooling
  /\ rows' = [rows EXCEPT ![r].cooling = FALSE]
  /\ UNCHANGED <<busy, again, batch, calling, restarts, seenVars>>

-----------------------------------------------------------------------------
(* Undo.  The flip is atomic; the inverse is a second transaction. *)

IsIntent(r) == rows[r].kind # "send"

\* Mutant: the cancel's UPDATE lacks `AND status = pending'.
CancelAnyRow(r) ==
  /\ rows[r].status \in Live \cup Settled
  /\ Nudge([rows EXCEPT ![r].status = "canceled"])
  /\ undone' = [undone EXCEPT ![r] = IsIntent(r)]
  /\ UNCHANGED <<calling, restarts, reached, doubtful>>

Cancel(r) ==
  /\ rows[r].status = "pending"
  /\ Nudge([rows EXCEPT ![r].status = "canceled"])
  /\ undone' = [undone EXCEPT ![r] = IsIntent(r)]
  /\ UNCHANGED <<calling, restarts, reached, doubtful>>

-----------------------------------------------------------------------------
(* A pass of the runner *)

\* The interval timer calls drain, busy or not.
Tick ==
  /\ Nudge(rows)
  /\ UNCHANGED <<calling, restarts, seenVars>>

FlagRows(S) == {r \in S : rows[r].kind = "flags"}

\* Mutant: one attempt too many.
MarkedLate(row, o) ==
  IF o \in {"taken", "nothing"}
  THEN [row EXCEPT !.status = "done"]
  ELSE IF row.attempts >= MaxAttempts
       THEN [row EXCEPT !.status = "dead", !.cooling = FALSE]
       ELSE [row EXCEPT !.status = "pending", !.attempts = @ + 1, !.cooling = TRUE]

\* markDone / markFailed of one row.
Marked(row, o) ==
  LET n == row.attempts + 1 IN
  IF o \in {"taken", "nothing"}
  THEN [row EXCEPT !.status = "done"]
  ELSE IF n >= MaxAttempts
       THEN [row EXCEPT !.status = "dead", !.attempts = MaxAttempts, !.cooling = FALSE]
       ELSE [row EXCEPT !.status = "pending", !.attempts = n, !.cooling = TRUE]

\* The rows in DOMAIN o settle with outcomes o; a dead intent is reverted.
MarkedRows(o) == [r \in RowIds |-> IF r \in DOMAIN o THEN Marked(rows[r], o[r]) ELSE rows[r]]

Observe(o) ==
  /\ reached' = [r \in RowIds |->
                   reached[r] \/ (r \in DOMAIN o /\ o[r] \in {"taken", "lost"})]
  /\ doubtful' = [r \in RowIds |-> doubtful[r] \/ (r \in DOMAIN o /\ o[r] = "lost")]

Reverted(o) ==
  [r \in RowIds |-> undone[r] \/ (/\ r \in DOMAIN o
                                  /\ IsIntent(r)
                                  /\ Marked(rows[r], o[r]).status = "dead")]

\* Node is single threaded: from the claim of a flags row to its STORE there is
\* no await, so no other callback runs in between.
Yielded == calling # {} \/ FlagRows(batch) = {}

\* Flags of the batch go first, in batched STOREs ...
FlagsBegin ==
  /\ calling = {}
  /\ FlagRows(batch) # {}
  /\ calling' = FlagRows(batch)
  /\ UNCHANGED <<rows, busy, again, batch, restarts, seenVars>>

\* ... then the other rows one at a time.
RowBegin(r) ==
  /\ calling = {}
  /\ FlagRows(batch) = {}
  /\ r \in batch
  /\ \A q \in batch : ~ Before(rows, q, r)
  /\ calling' = {r}
  /\ UNCHANGED <<rows, busy, again, batch, restarts, seenVars>>

\* The calls answered: every row called is marked in the same callback.
Settle(o) ==
  /\ calling # {}
  /\ rows' = MarkedRows(o)
  /\ undone' = Reverted(o)
  /\ Observe(o)
  /\ batch' = batch \ calling
  /\ calling' = {}
  /\ UNCHANGED <<busy, again, restarts>>

SettleAny == \E o \in [calling -> Outcomes] : Settle(o)

\* The pass has settled its batch: one more if nudged, else the drain ends.
PassEnds ==
  /\ busy
  /\ batch = {}
  /\ IF again
     THEN StartPass(rows)
     ELSE busy' = FALSE /\ UNCHANGED <<rows, again, batch>>
  /\ UNCHANGED <<calling, restarts, seenVars>>

-----------------------------------------------------------------------------
(* Failures *)

\* The calls answered with outcomes o and rows are being marked, oldest first,
\* when marking row m stops short.  The rows before m are settled; m itself is
\* only parked dead, its inverse not run, when `parked'.
CutShort(o, m, parked) ==
  LET marked == {r \in calling : r < m \/ (parked /\ r = m)} IN
  /\ m \in calling
  /\ parked => Marked(rows[m], o[m]).status = "dead" /\ IsIntent(m)
  /\ undone' = Reverted([r \in marked \ {m} |-> o[r]])
  /\ reached' = [r \in RowIds |->
                   reached[r] \/ (r \in calling /\ o[r] \in {"taken", "lost"})]
  /\ doubtful' = [r \in RowIds |->
                   doubtful[r] \/ (/\ r \in calling
                                   /\ \/ o[r] = "lost"
                                      \/ o[r] = "taken" /\ r \notin marked)]

MarkedBefore(o, m, parked) ==
  MarkedRows([r \in {q \in calling : q < m \/ (parked /\ q = m)} |-> o[r]])

\* A write gives up on SQLITE_BUSY and throws out of the pass: the rows not
\* marked keep `sending' and the drain ends without them.
MarkThrows(o, m, parked) ==
  /\ WriteFaults
  /\ CutShort(o, m, parked)
  /\ rows' = MarkedBefore(o, m, parked)
  /\ busy' = FALSE
  /\ batch' = {}
  /\ calling' = {}
  /\ UNCHANGED <<again, restarts>>

\* The cancel is recorded and then its inverse throws.
CancelThrows(r) ==
  /\ WriteFaults
  /\ rows[r].status = "pending"
  /\ IsIntent(r)
  /\ rows' = [rows EXCEPT ![r].status = "canceled"]
  /\ UNCHANGED <<busy, again, batch, calling, restarts, seenVars>>

\* Mutant: boot re-arms nothing.
RearmedNone(rs) == rs

\* Mutant: boot re-arms finished rows too.
RearmedAll(rs) ==
  [r \in RowIds |-> IF rs[r].status \in {"sending", "done"} THEN [rs[r] EXCEPT !.status = "pending"] ELSE rs[r]]

\* resetInflight: rows left `sending' are due work again.
Rearmed(rs) ==
  [r \in RowIds |-> IF rs[r].status = "sending" THEN [rs[r] EXCEPT !.status = "pending"] ELSE rs[r]]

\* The process dies with the table at rs, and boots again.
Reboot(rs) ==
  /\ restarts < MaxRestarts
  /\ restarts' = restarts + 1
  /\ rows' = Rearmed(rs)
  /\ busy' = FALSE
  /\ again' = FALSE
  /\ batch' = {}
  /\ calling' = {}

\* Calls outstanding when the process died may have taken effect.
Outstanding ==
  /\ \E took \in SUBSET calling :
       /\ reached' = [r \in RowIds |-> reached[r] \/ r \in took]
       /\ doubtful' = [r \in RowIds |-> doubtful[r] \/ r \in took]
  /\ UNCHANGED undone

Crash == Reboot(rows) /\ Outstanding

\* It dies between a cancel's flip and the inverse that should follow it.
CrashInCancel(r) ==
  /\ rows[r].status = "pending"
  /\ Reboot([rows EXCEPT ![r].status = "canceled"])
  /\ Outstanding

\* It dies between two markings, or between a dead row's flip and its inverse.
CrashInMarking(o, m, parked) ==
  /\ CutShort(o, m, parked)
  /\ Reboot(MarkedBefore(o, m, parked))

CutShortAny ==
  \E o \in [calling -> Outcomes] : \E m \in calling : \E parked \in BOOLEAN :
    MarkThrows(o, m, parked) \/ CrashInMarking(o, m, parked)

\* Retention: a settled row is deleted 7 days after its last update.
Prune(r) ==
  /\ rows[r].status \in Settled
  /\ rows' = [rows EXCEPT ![r] = [NoRow EXCEPT !.status = "pruned"]]
  /\ UNCHANGED <<busy, again, batch, calling, restarts, seenVars>>

-----------------------------------------------------------------------------
Init ==
  /\ rows = [r \in RowIds |-> NoRow]
  /\ busy = FALSE
  /\ again = FALSE
  /\ batch = {}
  /\ calling = {}
  /\ restarts = 0
  /\ reached = [r \in RowIds |-> FALSE]
  /\ doubtful = [r \in RowIds |-> FALSE]
  /\ undone = [r \in RowIds |-> FALSE]

RowBeginAny == \E r \in RowIds : RowBegin(r)

\* What the other callbacks do: requests, new mail, timers.
Callback ==
  /\ Yielded
  /\ \/ \E r \in RowIds, k \in Kinds : EnqueueWindowed(r, k) \/ EnqueueNow(r, k)
     \/ \E r \in RowIds, s \in BOOLEAN : EnqueueSend(r, s)
     \/ \E r \in RowIds : Cancel(r) \/ CancelThrows(r) \/ CrashInCancel(r) \/ Prune(r)
     \/ Tick

Next ==
  \/ Callback
  \/ \E r \in RowIds : DueElapses(r) \/ BackoffElapses(r)
  \/ FlagsBegin \/ RowBeginAny \/ SettleAny \/ PassEnds
  \/ CutShortAny
  \/ Crash

\* Timers fire and every provider call eventually answers or fails.
Fairness ==
  /\ WF_vars(Tick) /\ WF_vars(PassEnds)
  /\ WF_vars(FlagsBegin) /\ WF_vars(RowBeginAny) /\ WF_vars(SettleAny)
  /\ \A r \in RowIds : WF_vars(DueElapses(r)) /\ WF_vars(BackoffElapses(r))

Spec == Init /\ [][Next]_vars
FairSpec == Spec /\ Fairness

-----------------------------------------------------------------------------
(* Properties *)

TypeOK ==
  /\ rows \in [RowIds -> Row]
  /\ busy \in BOOLEAN
  /\ again \in BOOLEAN
  /\ batch \subseteq RowIds
  /\ calling \subseteq batch
  /\ restarts \in 0 .. MaxRestarts
  /\ reached \in [RowIds -> BOOLEAN]
  /\ doubtful \in [RowIds -> BOOLEAN]
  /\ undone \in [RowIds -> BOOLEAN]

\* Undo and the runner never both win: a canceled row's action never reached
\* the provider, unless an earlier attempt took effect unknown to the runner
\* (a lost reply, a crash).  The atomic pending->sending and
\* pending->canceled flips of claim and cancelOutbox are for this.
NeverBothWin ==
  \A r \in RowIds : rows[r].status = "canceled" /\ reached[r] => doubtful[r]

\* No action is silently dropped by the pass: a row left `sending' is one the
\* running drain still holds, as long as every write succeeds.
SendingIsHeld ==
  ~ WriteFaults => \A r \in RowIds : rows[r].status = "sending" <=> r \in batch

\* The same with no allowance for failing writes, as runOutboxOnce's comment
\* has it ("Never throws ... so one bad action can't stall the rest").
NothingStalls ==
  \A r \in RowIds : rows[r].status = "sending" => r \in batch

\* A row is parked dead only after all its attempts, an intent's inverse has
\* run on every row that ended canceled or dead, and on no other, unless the
\* process died between the two transactions.
InverseMatchesEnd ==
  \A r \in RowIds :
    /\ undone[r] => rows[r].status \in {"canceled", "dead", "pruned"}
    /\ /\ restarts = 0 /\ ~ WriteFaults
       /\ rows[r].status \in {"canceled", "dead"} /\ IsIntent(r)
       => undone[r]
    /\ rows[r].status = "dead" <=> rows[r].attempts = MaxAttempts

\* A toggle made while a drain is busy does not wait for the next tick: when
\* the drain ends, every due row never tried yet has been picked up (for a
\* queue that fits one batch and a run with no crash).
NudgeHonoured ==
  (~ busy /\ restarts = 0 /\ ~ WriteFaults /\ Batch >= MaxRows) =>
    \A r \in RowIds : ~ (rows[r].lane = "now" /\ rows[r].status = "pending" /\ rows[r].attempts = 0)

\* A settled row never changes again, except to be pruned: a late markDone or
\* markFailed never overwrites an undo, nor a reset a finished row.
SettledIsFinal ==
  [][\A r \in RowIds : rows[r].status \in Settled \cup {"pruned"} =>
        rows'[r] = rows[r] \/ rows'[r].status = "pruned"]_vars

\* Every queued action ends: done, canceled or dead, however often the
\* process restarts and the provider refuses.
EveryRowSettles ==
  \A r \in RowIds : (rows[r].status \in Live) ~> (rows[r].status \notin Live)

-----------------------------------------------------------------------------
(* The queue implements the undo contract. *)

OutcomeOf(status) ==
  CASE status = "none"     -> "none"
    [] status \in Live     -> "open"
    [] status = "done"     -> "committed"
    [] status = "canceled" -> "undone"
    [] status = "dead"     -> "failed"
    [] OTHER               -> "forgotten"

outcomes == [r \in RowIds |-> OutcomeOf(rows[r].status)]

Contract == INSTANCE UndoContract WITH
              Actions <- RowIds,
              MayDoubt <- LostReplies \/ WriteFaults \/ MaxRestarts > 0,
              outcome <- outcomes, taken <- reached, doubt <- doubtful

\* Every queued action follows the undo contract: it ends exactly once, and
\* an undone or failed one is not at the provider unless an attempt slipped.
ImplementsContract == Contract!ContractSpec
=============================================================================
