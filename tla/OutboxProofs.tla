---------------------------- MODULE OutboxProofs ----------------------------
(***************************************************************************)
(* The outbox queue, and the mailbox its rows act on, proved for every     *)
(* number of rows, batch size, attempt cap, restart bound, set of messages *)
(* and flags and combination of failures.                                  *)
(***************************************************************************)
EXTENDS MailboxIntents, FiniteSetTheorems, WellFoundedInduction, TLAPS

-----------------------------------------------------------------------------
(* The inductive invariant *)

\* The drain's memory agrees with the table: what it holds is `sending', and
\* an idle drain holds nothing.
HeldRows ==
  /\ \A r \in batch : rows[r].status = "sending"
  /\ ~ busy => batch = {}

\* What the provider has and the queue does not know of is in doubt.
KnownOrDoubtful ==
  \A r \in RowIds : reached[r] /\ ~ doubtful[r] => rows[r].status \in {"done", "pruned"}

IInv == TypeOK /\ HeldRows /\ SendingIsHeld /\ KnownOrDoubtful /\ InverseMatchesEnd

-----------------------------------------------------------------------------
(* Lemmas on the operators *)

LEMMA NoRowType == NoRow \in Row
BY QueueAssumption DEF NoRow, Row, Lanes, Statuses

LEMMA SnapshotIsReady ==
  ASSUME NEW rs, NEW S \in Snapshots(rs)
  PROVE  S \subseteq Ready(rs)
BY DEF Snapshots, Ready

LEMMA ClaimedRows ==
  ASSUME NEW rs \in [RowIds -> Row], NEW S \in SUBSET Ready(rs)
  PROVE  /\ Claimed(rs, S) \in [RowIds -> Row]
         /\ \A r \in S : Claimed(rs, S)[r] = [rs[r] EXCEPT !.status = "sending"]
         /\ \A r \in RowIds \ S : Claimed(rs, S)[r] = rs[r]
BY DEF Claimed, Ready, Row, Statuses

LEMMA InsertedRows ==
  ASSUME NEW r \in RowIds, rows \in [RowIds -> Row], NEW k \in Kinds, NEW l \in Lanes
  PROVE  /\ Inserted(r, k, l) \in [RowIds -> Row]
         /\ Inserted(r, k, l)[r].status = "pending"
         /\ Inserted(r, k, l)[r].kind = k
         /\ Inserted(r, k, l)[r].attempts = 0
         /\ \A q \in RowIds \ {r} : Inserted(r, k, l)[q] = rows[q]
BY QueueAssumption DEF Inserted, Row, Lanes, Statuses

LEMMA MarkedRow ==
  ASSUME NEW row \in Row, NEW o \in {"taken", "nothing", "refused", "lost"}
  PROVE  /\ Marked(row, o) \in Row
         /\ Marked(row, o).kind = row.kind
         /\ Marked(row, o).status \in {"done", "dead", "pending"}
         /\ Marked(row, o).status = "done" <=> o \in {"taken", "nothing"}
         /\ Marked(row, o).status = "dead" => Marked(row, o).attempts = MaxAttempts
         /\ Marked(row, o).status = "pending" => Marked(row, o).attempts # MaxAttempts
         /\ Marked(row, o).status = "done" => Marked(row, o).attempts = row.attempts
<1>1. CASE o \in {"taken", "nothing"}
  <2>1. Marked(row, o) = [row EXCEPT !.status = "done"]
    BY <1>1 DEF Marked
  <2>. QED  BY <1>1, <2>1 DEF Row, Statuses
<1>2. CASE o \notin {"taken", "nothing"}
  <2>1. row.attempts \in Nat /\ row.attempts =< MaxAttempts /\ MaxAttempts \in Nat
    BY QueueAssumption DEF Row
  <2>2. CASE row.attempts + 1 >= MaxAttempts
    <3>1. Marked(row, o) = [row EXCEPT !.status = "dead", !.attempts = MaxAttempts, !.cooling = FALSE]
      BY <1>2, <2>2 DEF Marked
    <3>2. MaxAttempts \in 0 .. MaxAttempts
      BY <2>1
    <3>3. Marked(row, o) \in Row
      BY <3>1, <3>2 DEF Row, Statuses
    <3>. QED  BY <1>2, <3>1, <3>3 DEF Row, Statuses
  <2>3. CASE ~ (row.attempts + 1 >= MaxAttempts)
    <3>1. Marked(row, o) = [row EXCEPT !.status = "pending", !.attempts = row.attempts + 1, !.cooling = TRUE]
      BY <1>2, <2>3 DEF Marked
    <3>2. row.attempts + 1 \in 0 .. MaxAttempts /\ row.attempts + 1 # MaxAttempts
      BY <2>1, <2>3
    <3>. QED  BY <1>2, <3>1, <3>2 DEF Row, Statuses
  <2>. QED  BY <2>2, <2>3
<1>. QED  BY <1>1, <1>2

\* What a row may be told, two STOREs of which one failed included: some effect and an error.
Answers == {"taken", "nothing", "refused", "lost"}

LEMMA OutcomeNames == Outcomes \subseteq Answers
BY DEF Outcomes, Answers

LEMMA RearmedRows ==
  ASSUME NEW rs \in [RowIds -> Row]
  PROVE  /\ Rearmed(rs) \in [RowIds -> Row]
         /\ \A r \in RowIds :
              /\ rs[r].status # "sending" => Rearmed(rs)[r] = rs[r]
              /\ rs[r].status = "sending" => Rearmed(rs)[r] = [rs[r] EXCEPT !.status = "pending"]
              /\ Rearmed(rs)[r].status # "sending"
BY DEF Rearmed, Row, Statuses

-----------------------------------------------------------------------------
(* Nudging and starting a pass *)

\* The drain is asked for, or goes for one more pass.
Asked(rs) == Nudge(rs) \/ (batch = {} /\ StartPass(rs))

\* Either the running drain keeps what it holds, or an idle one claims a set
\* of ready rows.
LEMMA AskedClaims ==
  ASSUME NEW rs \in [RowIds -> Row], Asked(rs), TypeOK, HeldRows
  PROVE  \E S \in SUBSET Ready(rs) :
           /\ rows' = Claimed(rs, S)
           /\ \/ busy /\ S = {} /\ batch' = batch /\ busy' = busy
              \/ batch = {} /\ batch' = S /\ busy' = (S # {})
           /\ again' \in BOOLEAN
<1>1. CASE busy /\ Nudge(rs)
  <2>1. Claimed(rs, {}) = rs
    BY DEF Claimed
  <2>. QED  BY <1>1, <2>1 DEF Nudge
<1>2. CASE batch = {} /\ StartPass(rs)
  <2>1. PICK S \in Snapshots(rs) : /\ rows' = Claimed(rs, S) /\ batch' = S
                                   /\ busy' = (S # {}) /\ again' = FALSE
    BY <1>2 DEF StartPass
  <2>. QED  BY <1>2, <2>1, SnapshotIsReady
<1>3. CASE ~ busy /\ Nudge(rs)
  BY <1>2, <1>3 DEF Nudge, HeldRows
<1>. QED  BY <1>1, <1>2, <1>3 DEF Asked

\* Over a table that agrees with the drain's memory, asking leaves one that
\* does, and changes a row only by claiming it.
LEMMA AskedStep ==
  ASSUME NEW rs \in [RowIds -> Row], TypeOK, HeldRows, Asked(rs),
         \A r \in batch : rs[r].status = "sending",
         ~ WriteFaults => \A r \in RowIds : rs[r].status = "sending" => r \in batch
  PROVE  /\ rows' \in [RowIds -> Row]
         /\ busy' \in BOOLEAN /\ again' \in BOOLEAN
         /\ batch' \subseteq RowIds /\ calling \subseteq batch'
         /\ HeldRows' /\ SendingIsHeld'
         /\ \A r \in RowIds :
              \/ rows'[r] = rs[r]
              \/ rs[r].status = "pending" /\ rows'[r] = [rs[r] EXCEPT !.status = "sending"]
<1>1. PICK S \in SUBSET Ready(rs) :
        /\ rows' = Claimed(rs, S)
        /\ \/ busy /\ S = {} /\ batch' = batch /\ busy' = busy
           \/ batch = {} /\ batch' = S /\ busy' = (S # {})
        /\ again' \in BOOLEAN
  BY AskedClaims
<1>2. /\ rows' \in [RowIds -> Row]
      /\ \A r \in S : rows'[r] = [rs[r] EXCEPT !.status = "sending"]
      /\ \A r \in RowIds \ S : rows'[r] = rs[r]
  BY <1>1, ClaimedRows
<1>3. S \subseteq RowIds /\ \A r \in S : rs[r].status = "pending"
  BY DEF Ready
<1>4. ASSUME NEW r \in S  PROVE rows'[r].status = "sending"
  <2>1. rs[r] \in Row
    BY <1>3
  <2>2. [rs[r] EXCEPT !.status = "sending"].status = "sending"
    BY <2>1 DEF Row
  <2>. QED  BY <1>2, <2>2
<1>5. busy' \in BOOLEAN /\ batch' \subseteq RowIds /\ calling \subseteq batch'
  BY <1>1, <1>3 DEF TypeOK
<1>6. HeldRows'
  <2>1. CASE busy /\ S = {} /\ batch' = batch /\ busy' = busy
    BY <1>1, <1>2, <2>1 DEF HeldRows, TypeOK
  <2>2. CASE batch' = S /\ busy' = (S # {})
    BY <1>4, <2>2 DEF HeldRows
  <2>. QED  BY <1>1, <2>1, <2>2
<1>7. SendingIsHeld'
  <2>1. SUFFICES ASSUME ~ WriteFaults, NEW r \in RowIds
                 PROVE  (rows[r].status = "sending" <=> r \in batch)'
    BY DEF SendingIsHeld
  <2>2. CASE S = {} /\ batch' = batch
    BY <1>1, <1>2, <2>1, <2>2
  <2>3. CASE batch = {} /\ batch' = S
    BY <1>2, <1>4, <2>1, <2>3
  <2>. QED  BY <1>1, <2>2, <2>3
<1>. QED  BY <1>1, <1>2, <1>3, <1>5, <1>6, <1>7

\* What the invariant says of row r, when it is x and u tells whether its
\* inverse has run.
RowFits(r, x, u) ==
  /\ reached[r] /\ ~ doubtful[r] => x.status \in {"done", "pruned"}
  /\ u => x.status \in {"canceled", "dead", "pruned"}
  /\ /\ restarts = 0 /\ ~ WriteFaults
     /\ x.status \in {"canceled", "dead"} /\ x.kind # "send"
     => u
  /\ x.status = "dead" <=> x.attempts = MaxAttempts

Fits(rs, und) == \A r \in RowIds : RowFits(r, rs[r], und[r])

LEMMA InvFits == KnownOrDoubtful /\ InverseMatchesEnd <=> Fits(rows, undone)
BY DEF Fits, RowFits, KnownOrDoubtful, InverseMatchesEnd, IsIntent

LEMMA AskedKeeps ==
  ASSUME NEW rs \in [RowIds -> Row], TypeOK, HeldRows, Asked(rs),
         \A r \in batch : rs[r].status = "sending",
         ~ WriteFaults => \A r \in RowIds : rs[r].status = "sending" => r \in batch,
         UNCHANGED <<calling, restarts, reached, doubtful>>,
         undone' \in [RowIds -> BOOLEAN], Fits(rs, undone')
  PROVE  IInv'
<1>1. /\ rows' \in [RowIds -> Row]
      /\ busy' \in BOOLEAN /\ again' \in BOOLEAN
      /\ batch' \subseteq RowIds /\ calling \subseteq batch'
      /\ HeldRows' /\ SendingIsHeld'
      /\ \A r \in RowIds :
           \/ rows'[r] = rs[r]
           \/ rs[r].status = "pending" /\ rows'[r] = [rs[r] EXCEPT !.status = "sending"]
  BY AskedStep
<1>2. TypeOK'
  BY <1>1 DEF TypeOK
<1>3. ASSUME NEW r \in RowIds
      PROVE  RowFits(r, rows[r], undone[r])'
  <2>1. CASE rows'[r] = rs[r]
    BY <2>1 DEF Fits, RowFits
  <2>2. CASE rs[r].status = "pending" /\ rows'[r] = [rs[r] EXCEPT !.status = "sending"]
    <3>1. rs[r] \in Row
      OBVIOUS
    <3>2. rows'[r].status = "sending" /\ rows'[r].attempts = rs[r].attempts
      BY <2>2, <3>1 DEF Row
    <3>. QED  BY <2>2, <3>2 DEF Fits, RowFits
  <2>. QED  BY <1>1, <2>1, <2>2
<1>4. KnownOrDoubtful' /\ InverseMatchesEnd'
  BY <1>3 DEF RowFits, KnownOrDoubtful, InverseMatchesEnd, IsIntent
<1>. QED  BY <1>1, <1>2, <1>4 DEF IInv

-----------------------------------------------------------------------------
(* Steps that touch one row, settle rows, or reboot *)

LEMMA OneRowKeeps ==
  ASSUME IInv, NEW r \in RowIds, NEW x \in Row,
         rows' = [rows EXCEPT ![r] = x],
         UNCHANGED <<busy, batch, calling, restarts, seenVars>>, again' = again,
         rows[r].status # "sending", x.status # "sending",
         RowFits(r, x, undone[r])
  PROVE  IInv'
<1>. USE DEF IInv
<1>1. /\ rows' \in [RowIds -> Row]
      /\ rows'[r] = x
      /\ \A q \in RowIds \ {r} : rows'[q] = rows[q]
  BY DEF TypeOK
<1>2. TypeOK'
  BY <1>1 DEF TypeOK, seenVars
<1>3. HeldRows' /\ SendingIsHeld'
  BY <1>1 DEF HeldRows, SendingIsHeld, TypeOK
<1>4. Fits(rows, undone)
  BY InvFits
<1>5. ASSUME NEW q \in RowIds  PROVE RowFits(q, rows[q], undone[q])'
  BY <1>1, <1>4 DEF Fits, RowFits, seenVars
<1>6. KnownOrDoubtful' /\ InverseMatchesEnd'
  BY <1>5 DEF RowFits, KnownOrDoubtful, InverseMatchesEnd, IsIntent
<1>. QED  BY <1>2, <1>3, <1>6

\* Marking rows the drain holds.
LEMMA MarkedTable ==
  ASSUME IInv, NEW P \in SUBSET batch, NEW o \in [P -> Answers]
  PROVE  /\ MarkedRows(o) \in [RowIds -> Row]
         /\ \A r \in P :
              /\ MarkedRows(o)[r] = Marked(rows[r], o[r])
              /\ MarkedRows(o)[r].kind = rows[r].kind
              /\ MarkedRows(o)[r].status \in {"done", "dead", "pending"}
              /\ MarkedRows(o)[r].status = "done" <=> o[r] \in {"taken", "nothing"}
              /\ MarkedRows(o)[r].status = "dead" <=> MarkedRows(o)[r].attempts = MaxAttempts
         /\ \A r \in RowIds \ P : MarkedRows(o)[r] = rows[r]
<1>1. P \subseteq RowIds /\ DOMAIN o = P
  BY DEF IInv, TypeOK
<1>2. ASSUME NEW r \in P
      PROVE  /\ MarkedRows(o)[r] = Marked(rows[r], o[r])
             /\ rows[r] \in Row
             /\ o[r] \in {"taken", "nothing", "refused", "lost"}
             /\ rows[r].attempts # MaxAttempts
  <2>1. rows[r].status = "sending"
    BY DEF IInv, HeldRows
  <2>. QED  BY <1>1, <2>1 DEF MarkedRows, IInv, TypeOK, InverseMatchesEnd, Answers
<1>3. ASSUME NEW r \in P
      PROVE  /\ MarkedRows(o)[r] \in Row
             /\ MarkedRows(o)[r].kind = rows[r].kind
             /\ MarkedRows(o)[r].status \in {"done", "dead", "pending"}
             /\ MarkedRows(o)[r].status = "done" <=> o[r] \in {"taken", "nothing"}
             /\ MarkedRows(o)[r].status = "dead" <=> MarkedRows(o)[r].attempts = MaxAttempts
  BY <1>2, MarkedRow
<1>4. \A r \in RowIds \ P : MarkedRows(o)[r] = rows[r]
  BY <1>1 DEF MarkedRows
<1>5. MarkedRows(o) \in [RowIds -> Row]
  <2>1. \A r \in RowIds : MarkedRows(o)[r] \in Row
    BY <1>3, <1>4 DEF IInv, TypeOK
  <2>2. MarkedRows(o) = [r \in RowIds |-> MarkedRows(o)[r]]
    BY DEF MarkedRows
  <2>. QED  BY <2>1, <2>2
<1>. QED  BY <1>2, <1>3, <1>4, <1>5

\* Any reboot re-establishes the invariant, if the table it starts from fits.
LEMMA RebootKeeps ==
  ASSUME IInv, NEW rs \in [RowIds -> Row], Reboot(rs),
         reached' \in [RowIds -> BOOLEAN],
         doubtful' \in [RowIds -> BOOLEAN],
         undone' \in [RowIds -> BOOLEAN],
         \A r \in RowIds :
           /\ reached'[r] /\ ~ doubtful'[r] => rs[r].status \in {"done", "pruned"}
           /\ undone'[r] => rs[r].status \in {"canceled", "dead", "pruned"}
           /\ rs[r].status = "dead" <=> rs[r].attempts = MaxAttempts
  PROVE  IInv'
<1>1. /\ restarts' \in 0 .. MaxRestarts
      /\ restarts' # 0
      /\ rows' = Rearmed(rs)
      /\ busy' = FALSE /\ again' = FALSE /\ batch' = {} /\ calling' = {}
  BY QueueAssumption DEF Reboot, IInv, TypeOK
<1>2. /\ rows' \in [RowIds -> Row]
      /\ \A r \in RowIds :
           /\ rs[r].status # "sending" => rows'[r] = rs[r]
           /\ rs[r].status = "sending" => rows'[r] = [rs[r] EXCEPT !.status = "pending"]
           /\ rows'[r].status # "sending"
  BY <1>1, RearmedRows
<1>3. TypeOK'
  BY <1>1, <1>2 DEF TypeOK
<1>4. HeldRows' /\ SendingIsHeld'
  BY <1>1, <1>2 DEF HeldRows, SendingIsHeld
<1>5. ASSUME NEW r \in RowIds  PROVE RowFits(r, rows[r], undone[r])'
  <2>1. CASE rs[r].status # "sending"
    BY <1>1, <1>2, <2>1 DEF RowFits
  <2>2. CASE rs[r].status = "sending"
    <3>1. rs[r] \in Row
      OBVIOUS
    <3>2. rows'[r].status = "pending" /\ rows'[r].attempts = rs[r].attempts
      BY <1>2, <2>2, <3>1 DEF Row
    <3>. QED  BY <1>1, <2>2, <3>2 DEF RowFits
  <2>. QED  BY <2>1, <2>2
<1>6. KnownOrDoubtful' /\ InverseMatchesEnd'
  BY <1>5 DEF RowFits, KnownOrDoubtful, InverseMatchesEnd, IsIntent
<1>. QED  BY <1>3, <1>4, <1>6 DEF IInv

\* Marking cut short at row m still leaves a table that fits, for a process
\* that need not have run every inverse.
LEMMA CutShortTable ==
  ASSUME IInv, NEW o \in [calling -> Outcomes], NEW m, NEW parked \in BOOLEAN,
         CutShort(o, m, parked)
  PROVE  LET rs == MarkedBefore(o, m, parked) IN
         /\ rs \in [RowIds -> Row]
         /\ reached' \in [RowIds -> BOOLEAN]
         /\ doubtful' \in [RowIds -> BOOLEAN]
         /\ undone' \in [RowIds -> BOOLEAN]
         /\ \A r \in RowIds :
              /\ reached'[r] /\ ~ doubtful'[r] => rs[r].status \in {"done", "pruned"}
              /\ undone'[r] => rs[r].status \in {"canceled", "dead", "pruned"}
              /\ rs[r].status = "dead" <=> rs[r].attempts = MaxAttempts
<1>. DEFINE P  == {q \in calling : q < m \/ (parked /\ q = m)}
            oP == [r \in P |-> o[r]]
            oM == [r \in P \ {m} |-> o[r]]
            rs == MarkedBefore(o, m, parked)
<1>1. P \in SUBSET batch /\ oP \in [P -> Answers] /\ calling \subseteq RowIds
  BY OutcomeNames DEF IInv, TypeOK
<1>2. rs = MarkedRows(oP)
  BY DEF MarkedBefore
<1>3. /\ rs \in [RowIds -> Row]
      /\ \A r \in P :
           /\ rs[r] = Marked(rows[r], o[r])
           /\ rs[r].status \in {"done", "dead", "pending"}
           /\ rs[r].status = "done" <=> o[r] \in {"taken", "nothing"}
           /\ rs[r].status = "dead" <=> rs[r].attempts = MaxAttempts
      /\ \A r \in RowIds \ P : rs[r] = rows[r]
  <2>. HIDE DEF P, rs
  <2>1. \A r \in P : oP[r] = o[r]
    OBVIOUS
  <2>. HIDE DEF oP
  <2>. QED  BY <1>1, <1>2, <2>1, MarkedTable
<1>4. /\ undone' = [r \in RowIds |-> undone[r] \/ (r \in P \ {m} /\ IsIntent(r) /\ rs[r].status = "dead")]
      /\ reached' = [r \in RowIds |->
                      reached[r] \/ (r \in calling /\ o[r] \in {"taken", "lost"})]
      /\ doubtful' = [r \in RowIds |->
                      doubtful[r] \/ (/\ r \in calling
                                      /\ \/ o[r] = "lost"
                                         \/ o[r] = "taken" /\ r \notin P)]
  <2>1. undone' = Reverted(oM) /\ DOMAIN oM = P \ {m} /\ \A r \in P \ {m} : oM[r] = o[r]
    BY DEF CutShort
  <2>2. Reverted(oM) = [r \in RowIds |-> undone[r] \/ (r \in P \ {m} /\ IsIntent(r) /\ rs[r].status = "dead")]
    BY <1>3, <2>1 DEF Reverted
  <2>. QED  BY <2>1, <2>2 DEF CutShort
<1>5. /\ reached' \in [RowIds -> BOOLEAN]
      /\ doubtful' \in [RowIds -> BOOLEAN]
      /\ undone' \in [RowIds -> BOOLEAN]
  BY <1>4 DEF IInv, TypeOK
<1>6. ASSUME NEW r \in RowIds
      PROVE  /\ reached'[r] /\ ~ doubtful'[r] => rs[r].status \in {"done", "pruned"}
             /\ undone'[r] => rs[r].status \in {"canceled", "dead", "pruned"}
             /\ rs[r].status = "dead" <=> rs[r].attempts = MaxAttempts
  <2>. HIDE DEF P, rs
  <2>1. r \in calling => rows[r].status = "sending"
    BY DEF IInv, TypeOK, HeldRows
  <2>2. /\ reached[r] /\ ~ doubtful[r] => rows[r].status \in {"done", "pruned"}
        /\ undone[r] => rows[r].status \in {"canceled", "dead", "pruned"}
        /\ rows[r].status = "dead" <=> rows[r].attempts = MaxAttempts
    BY DEF IInv, KnownOrDoubtful, InverseMatchesEnd
  <2>3. r \in P => r \in calling
    BY DEF P
  <2>4. /\ undone'[r] = (undone[r] \/ (r \in P \ {m} /\ IsIntent(r) /\ rs[r].status = "dead"))
        /\ reached'[r] = (reached[r] \/ (r \in calling /\ o[r] \in {"taken", "lost"}))
        /\ doubtful'[r] = (doubtful[r] \/ (/\ r \in calling
                                          /\ \/ o[r] = "lost"
                                             \/ o[r] = "taken" /\ r \notin P))
    BY <1>4
  <2>5. CASE r \in P
    BY <1>3, <2>1, <2>2, <2>3, <2>4, <2>5
  <2>6. CASE r \notin P
    BY <1>3, <2>1, <2>2, <2>4, <2>6
  <2>. QED  BY <2>5, <2>6
<1>. QED  BY <1>3, <1>5, <1>6

-----------------------------------------------------------------------------
(* The invariant is inductive *)

LEMMA InitIInv == Init => IInv
<1>. SUFFICES ASSUME Init  PROVE IInv
  OBVIOUS
<1>1. \A r \in RowIds : rows[r] = NoRow
  BY DEF Init
<1>2. NoRow.status = "none" /\ NoRow.attempts = 0 /\ 0 # MaxAttempts
  BY QueueAssumption DEF NoRow
<1>3. TypeOK
  <2>1. restarts \in 0 .. MaxRestarts
    BY QueueAssumption DEF Init
  <2>2. rows \in [RowIds -> Row]
    BY NoRowType DEF Init
  <2>3. /\ reached \in [RowIds -> BOOLEAN]
        /\ doubtful \in [RowIds -> BOOLEAN]
        /\ undone \in [RowIds -> BOOLEAN]
    BY DEF Init
  <2>. QED  BY <2>1, <2>2, <2>3 DEF Init, TypeOK
<1>4. HeldRows /\ SendingIsHeld
  BY <1>1, <1>2 DEF Init, HeldRows, SendingIsHeld
<1>5. KnownOrDoubtful /\ InverseMatchesEnd
  BY <1>1, <1>2 DEF Init, KnownOrDoubtful, InverseMatchesEnd
<1>. QED  BY <1>3, <1>4, <1>5 DEF IInv

LEMMA EnqueueKeeps ==
  ASSUME IInv, NEW r \in RowIds, NEW k \in Kinds, NEW s \in BOOLEAN,
         EnqueueWindowed(r, k) \/ EnqueueNow(r, k) \/ EnqueueSend(r, s)
  PROVE  IInv'
<1>1. /\ rows \in [RowIds -> Row] /\ rows[r].status = "none"
      /\ Fits(rows, undone)
  BY InvFits DEF EnqueueWindowed, EnqueueNow, EnqueueSend, Fresh, IInv, TypeOK
<1>2. PICK j \in Kinds, l \in Lanes :
        /\ seenVars' = seenVars
        /\ UNCHANGED <<calling, restarts>>
        /\ \/ Nudge(Inserted(r, j, l))
           \/ rows' = Inserted(r, j, l) /\ UNCHANGED <<busy, again, batch>>
  BY DEF EnqueueWindowed, EnqueueNow, EnqueueSend, Lanes
<1>. DEFINE x == [kind |-> j, lane |-> l, status |-> "pending",
                  due |-> (l = "now"), cooling |-> FALSE, attempts |-> 0]
<1>3. x \in Row /\ x.status = "pending" /\ x.attempts = 0
  BY QueueAssumption DEF Row, Lanes, Statuses
<1>4. Inserted(r, j, l) = [rows EXCEPT ![r] = x]
  BY DEF Inserted
<1>5. RowFits(r, x, undone[r])
  BY <1>1, <1>3, QueueAssumption DEF Fits, RowFits
<1>. HIDE DEF x
<1>6. CASE rows' = Inserted(r, j, l) /\ UNCHANGED <<busy, again, batch>>
  BY <1>1, <1>2, <1>3, <1>4, <1>5, <1>6, OneRowKeeps
<1>7. CASE Nudge(Inserted(r, j, l))
  <2>. DEFINE rs == [rows EXCEPT ![r] = x]
  <2>1. /\ rs \in [RowIds -> Row]
        /\ rs[r] = x
        /\ \A q \in RowIds \ {r} : rs[q] = rows[q]
    BY <1>1, <1>3
  <2>. HIDE DEF rs
  <2>2. /\ \A q \in batch : rs[q].status = "sending"
        /\ ~ WriteFaults => \A q \in RowIds : rs[q].status = "sending" => q \in batch
    BY <1>1, <1>3, <2>1 DEF IInv, TypeOK, HeldRows, SendingIsHeld
  <2>3. Fits(rs, undone') /\ undone' \in [RowIds -> BOOLEAN]
    BY <1>1, <1>2, <1>5, <2>1 DEF Fits, seenVars, IInv, TypeOK
  <2>4. Asked(rs)
    BY <1>4, <1>7 DEF rs, Asked
  <2>. QED  BY <1>2, <2>1, <2>2, <2>3, <2>4, AskedKeeps DEF seenVars, IInv
<1>. QED  BY <1>2, <1>6, <1>7

LEMMA CancelKeeps ==
  ASSUME IInv, NEW r \in RowIds, Cancel(r)
  PROVE  IInv'
<1>. DEFINE rs == [rows EXCEPT ![r].status = "canceled"]
<1>1. /\ rows \in [RowIds -> Row] /\ rows[r].status = "pending"
      /\ Fits(rows, undone) /\ undone \in [RowIds -> BOOLEAN]
  BY InvFits DEF Cancel, IInv, TypeOK
<1>2. /\ rs \in [RowIds -> Row]
      /\ rs[r].status = "canceled" /\ rs[r].attempts = rows[r].attempts
      /\ rs[r].kind = rows[r].kind
      /\ \A q \in RowIds \ {r} : rs[q] = rows[q]
  BY <1>1 DEF Row, Statuses
<1>3. /\ undone' \in [RowIds -> BOOLEAN]
      /\ undone'[r] = (rows[r].kind # "send")
      /\ \A q \in RowIds \ {r} : undone'[q] = undone[q]
  BY <1>1 DEF Cancel, IsIntent
<1>4. Nudge(rs) /\ UNCHANGED <<calling, restarts, reached, doubtful>>
  BY DEF Cancel
<1>. HIDE DEF rs
<1>5. Fits(rs, undone')
  BY <1>1, <1>2, <1>3 DEF Fits, RowFits
<1>6. /\ \A q \in batch : rs[q].status = "sending"
      /\ ~ WriteFaults => \A q \in RowIds : rs[q].status = "sending" => q \in batch
  BY <1>1, <1>2 DEF IInv, TypeOK, HeldRows, SendingIsHeld
<1>. QED  BY <1>2, <1>3, <1>4, <1>5, <1>6, AskedKeeps DEF IInv, Asked

\* Time passing, a row pruned, a cancel whose inverse throws.
LEMMA RowStepKeeps ==
  ASSUME IInv, NEW r \in RowIds,
         DueElapses(r) \/ BackoffElapses(r) \/ Prune(r) \/ CancelThrows(r)
  PROVE  IInv'
<1>1. /\ rows \in [RowIds -> Row] /\ rows[r] \in Row
      /\ Fits(rows, undone)
  BY InvFits DEF IInv, TypeOK
<1>2. CASE DueElapses(r)
  <2>. DEFINE x == [rows[r] EXCEPT !.due = TRUE]
  <2>1. x \in Row /\ x.status = "pending" /\ x.attempts = rows[r].attempts
    BY <1>1, <1>2 DEF DueElapses, Row
  <2>2. rows' = [rows EXCEPT ![r] = x]
    BY <1>2 DEF DueElapses
  <2>. HIDE DEF x
  <2>3. RowFits(r, x, undone[r])
    BY <1>1, <1>2, <2>1 DEF Fits, RowFits, DueElapses
  <2>. QED  BY <1>2, <2>1, <2>2, <2>3, OneRowKeeps DEF DueElapses
<1>3. CASE BackoffElapses(r)
  <2>. DEFINE x == [rows[r] EXCEPT !.cooling = FALSE]
  <2>1. x \in Row /\ x.status = "pending" /\ x.attempts = rows[r].attempts
    BY <1>1, <1>3 DEF BackoffElapses, Row
  <2>2. rows' = [rows EXCEPT ![r] = x]
    BY <1>3 DEF BackoffElapses
  <2>. HIDE DEF x
  <2>3. RowFits(r, x, undone[r])
    BY <1>1, <1>3, <2>1 DEF Fits, RowFits, BackoffElapses
  <2>. QED  BY <1>3, <2>1, <2>2, <2>3, OneRowKeeps DEF BackoffElapses
<1>4. CASE Prune(r)
  <2>. DEFINE x == [NoRow EXCEPT !.status = "pruned"]
  <2>1. x \in Row /\ x.status = "pruned" /\ x.attempts = 0 /\ 0 # MaxAttempts
    <3>1. NoRow.attempts = 0 /\ 0 # MaxAttempts
      BY QueueAssumption DEF NoRow
    <3>. QED  BY <3>1, NoRowType DEF Row, Statuses
  <2>2. rows' = [rows EXCEPT ![r] = x]
    BY <1>4 DEF Prune
  <2>. HIDE DEF x
  <2>3. RowFits(r, x, undone[r])
    BY <2>1 DEF RowFits
  <2>. QED  BY <1>4, <2>1, <2>2, <2>3, OneRowKeeps DEF Prune, Settled
<1>5. CASE CancelThrows(r)
  <2>. DEFINE x == [rows[r] EXCEPT !.status = "canceled"]
  <2>1. /\ x \in Row /\ x.status = "canceled" /\ x.attempts = rows[r].attempts
        /\ rows[r].status = "pending" /\ WriteFaults
    BY <1>1, <1>5 DEF CancelThrows, Row, Statuses
  <2>2. rows' = [rows EXCEPT ![r] = x]
    BY <1>5 DEF CancelThrows
  <2>. HIDE DEF x
  <2>3. RowFits(r, x, undone[r])
    BY <1>1, <2>1 DEF Fits, RowFits
  <2>. QED  BY <1>5, <2>1, <2>2, <2>3, OneRowKeeps DEF CancelThrows
<1>. QED  BY <1>2, <1>3, <1>4, <1>5

\* A settling, for any answers.
LEMMA SettleKeeps ==
  ASSUME IInv, NEW o \in [calling -> Answers], Settle(o)
  PROVE  IInv'
<1>1. /\ rows' = MarkedRows(o) /\ undone' = Reverted(o)
      /\ batch' = batch \ calling /\ calling' = {}
      /\ UNCHANGED <<busy, again, restarts>>
      /\ calling \in SUBSET batch /\ calling \subseteq RowIds /\ DOMAIN o = calling
  BY DEF Settle, IInv, TypeOK
<1>2. /\ rows' \in [RowIds -> Row]
      /\ \A r \in calling :
           /\ rows'[r] = Marked(rows[r], o[r])
           /\ rows'[r].kind = rows[r].kind
           /\ rows'[r].status \in {"done", "dead", "pending"}
           /\ rows'[r].status = "done" <=> o[r] \in {"taken", "nothing"}
           /\ rows'[r].status = "dead" <=> rows'[r].attempts = MaxAttempts
      /\ \A r \in RowIds \ calling : rows'[r] = rows[r]
  BY <1>1, MarkedTable
<1>3. /\ undone' = [r \in RowIds |-> undone[r] \/ (/\ r \in calling
                                                  /\ rows[r].kind # "send"
                                                  /\ rows'[r].status = "dead")]
      /\ reached' = [r \in RowIds |->
                      reached[r] \/ (r \in calling /\ o[r] \in {"taken", "lost"})]
      /\ doubtful' = [r \in RowIds |-> doubtful[r] \/ (r \in calling /\ o[r] = "lost")]
  BY <1>1, <1>2 DEF Reverted, Settle, Observe, IsIntent
<1>4. TypeOK'
  <2>1. /\ undone' \in [RowIds -> BOOLEAN]
        /\ reached' \in [RowIds -> BOOLEAN]
        /\ doubtful' \in [RowIds -> BOOLEAN]
    BY <1>3 DEF IInv, TypeOK
  <2>. QED  BY <1>1, <1>2, <2>1 DEF IInv, TypeOK
<1>5. HeldRows' /\ SendingIsHeld'
  BY <1>1, <1>2 DEF IInv, TypeOK, HeldRows, SendingIsHeld
<1>6. ASSUME NEW r \in RowIds  PROVE RowFits(r, rows[r], undone[r])'
  <2>1. RowFits(r, rows[r], undone[r])
    BY InvFits DEF Fits, IInv
  <2>2. /\ undone'[r] = (undone[r] \/ (r \in calling /\ rows[r].kind # "send" /\ rows'[r].status = "dead"))
        /\ reached'[r] = (reached[r] \/ (r \in calling /\ o[r] \in {"taken", "lost"}))
        /\ doubtful'[r] = (doubtful[r] \/ (r \in calling /\ o[r] = "lost"))
    BY <1>3
  <2>3. CASE r \in calling
    <3>1. rows[r].status = "sending"
      BY <1>1, <2>3 DEF IInv, HeldRows
    <3>. QED  BY <1>1, <1>2, <2>1, <2>2, <2>3, <3>1 DEF RowFits
  <2>4. CASE r \notin calling
    BY <1>1, <1>2, <2>1, <2>2, <2>4 DEF RowFits
  <2>. QED  BY <2>3, <2>4
<1>7. KnownOrDoubtful' /\ InverseMatchesEnd'
  BY <1>6 DEF RowFits, KnownOrDoubtful, InverseMatchesEnd, IsIntent
<1>. QED  BY <1>4, <1>5, <1>7 DEF IInv

\* The runner's own steps.
LEMMA PassKeeps ==
  ASSUME IInv, Tick \/ FlagsBegin \/ RowBeginAny \/ PassEnds
  PROVE  IInv'
<1>1. /\ rows \in [RowIds -> Row] /\ Fits(rows, undone)
      /\ TypeOK /\ HeldRows
      /\ \A r \in batch : rows[r].status = "sending"
      /\ ~ WriteFaults => \A r \in RowIds : rows[r].status = "sending" => r \in batch
      /\ undone \in [RowIds -> BOOLEAN]
  BY InvFits DEF IInv, TypeOK, HeldRows, SendingIsHeld
<1>2. CASE Tick
  BY <1>1, <1>2, AskedKeeps DEF Tick, Asked, seenVars
<1>3. CASE FlagsBegin \/ RowBeginAny
  <2>1. /\ UNCHANGED <<rows, busy, again, batch, restarts, reached, doubtful, undone>>
        /\ calling' \subseteq batch
    BY <1>3 DEF FlagsBegin, FlagRows, RowBeginAny, RowBegin, seenVars
  <2>. QED  BY <2>1 DEF IInv, TypeOK, HeldRows, SendingIsHeld, KnownOrDoubtful,
                        InverseMatchesEnd, IsIntent
<1>4. CASE PassEnds /\ again
  BY <1>1, <1>4, AskedKeeps DEF PassEnds, Asked, seenVars
<1>5. CASE PassEnds /\ ~ again
  <2>1. /\ UNCHANGED <<rows, again, batch, calling, restarts, reached, doubtful, undone>>
        /\ busy' = FALSE /\ batch = {}
    BY <1>5 DEF PassEnds, seenVars
  <2>. QED  BY <2>1 DEF IInv, TypeOK, HeldRows, SendingIsHeld, KnownOrDoubtful,
                        InverseMatchesEnd, IsIntent
<1>. QED  BY <1>2, <1>3, <1>4, <1>5

LEMMA MarkThrowsKeeps ==
  ASSUME IInv, NEW o \in [calling -> Outcomes], NEW m, NEW parked \in BOOLEAN,
         MarkThrows(o, m, parked)
  PROVE  IInv'
<1>1. /\ rows' \in [RowIds -> Row]
      /\ reached' \in [RowIds -> BOOLEAN]
      /\ doubtful' \in [RowIds -> BOOLEAN]
      /\ undone' \in [RowIds -> BOOLEAN]
      /\ \A r \in RowIds :
           /\ reached'[r] /\ ~ doubtful'[r] => rows'[r].status \in {"done", "pruned"}
           /\ undone'[r] => rows'[r].status \in {"canceled", "dead", "pruned"}
           /\ rows'[r].status = "dead" <=> rows'[r].attempts = MaxAttempts
  BY CutShortTable DEF MarkThrows
<1>2. /\ WriteFaults /\ busy' = FALSE /\ batch' = {} /\ calling' = {}
      /\ UNCHANGED <<again, restarts>>
  BY DEF MarkThrows
<1>3. TypeOK'
  BY <1>1, <1>2 DEF IInv, TypeOK
<1>. QED  BY <1>1, <1>2, <1>3 DEF IInv, HeldRows, SendingIsHeld, KnownOrDoubtful,
                               InverseMatchesEnd

LEMMA CrashKeeps ==
  ASSUME IInv,
         \/ Crash
         \/ \E r \in RowIds : CrashInCancel(r)
         \/ \E o \in [calling -> Outcomes] : \E m \in calling : \E parked \in BOOLEAN :
              CrashInMarking(o, m, parked)
  PROVE  IInv'
<1>1. CASE Crash \/ \E r \in RowIds : CrashInCancel(r)
  <2>1. PICK took \in SUBSET calling :
          /\ reached' = [r \in RowIds |-> reached[r] \/ r \in took]
          /\ doubtful' = [r \in RowIds |-> doubtful[r] \/ r \in took]
          /\ undone' = undone
    BY <1>1 DEF Crash, CrashInCancel, Outstanding
  <2>2. /\ reached' \in [RowIds -> BOOLEAN]
        /\ doubtful' \in [RowIds -> BOOLEAN]
        /\ undone' \in [RowIds -> BOOLEAN]
        /\ rows \in [RowIds -> Row]
    BY <2>1 DEF IInv, TypeOK
  <2>3. ASSUME NEW r \in RowIds
        PROVE  /\ reached'[r] /\ ~ doubtful'[r] => rows[r].status \in {"done", "pruned"}
               /\ undone'[r] => rows[r].status \in {"canceled", "dead", "pruned"}
               /\ rows[r].status = "dead" <=> rows[r].attempts = MaxAttempts
    BY <2>1 DEF IInv, KnownOrDoubtful, InverseMatchesEnd
  <2>4. CASE Crash
    BY <2>2, <2>3, <2>4, RebootKeeps DEF Crash
  <2>5. CASE \E r \in RowIds : CrashInCancel(r)
    <3>1. PICK r \in RowIds : CrashInCancel(r)
      BY <2>5
    <3>. DEFINE rs == [rows EXCEPT ![r].status = "canceled"]
    <3>2. /\ rs \in [RowIds -> Row] /\ rows[r].status = "pending"
          /\ rs[r].status = "canceled" /\ rs[r].attempts = rows[r].attempts
          /\ \A q \in RowIds \ {r} : rs[q] = rows[q]
      BY <2>2, <3>1 DEF CrashInCancel, Row, Statuses
    <3>3. Reboot(rs)
      BY <3>1 DEF CrashInCancel
    <3>. HIDE DEF rs
    <3>4. ASSUME NEW q \in RowIds
          PROVE  /\ reached'[q] /\ ~ doubtful'[q] => rs[q].status \in {"done", "pruned"}
                 /\ undone'[q] => rs[q].status \in {"canceled", "dead", "pruned"}
                 /\ rs[q].status = "dead" <=> rs[q].attempts = MaxAttempts
      BY <2>3, <3>2
    <3>. QED  BY <2>2, <3>2, <3>3, <3>4, RebootKeeps
  <2>. QED  BY <1>1, <2>4, <2>5
<1>2. CASE \E o \in [calling -> Outcomes] : \E m \in calling : \E parked \in BOOLEAN :
             CrashInMarking(o, m, parked)
  <2>1. PICK o \in [calling -> Outcomes], m \in calling, parked \in BOOLEAN :
          CrashInMarking(o, m, parked)
    BY <1>2
  <2>. QED  BY <2>1, CutShortTable, RebootKeeps DEF CrashInMarking
<1>. QED  BY <1>1, <1>2

LEMMA StepIInv == IInv /\ [Next]_vars => IInv'
<1>. SUFFICES ASSUME IInv, [Next]_vars  PROVE IInv'
  OBVIOUS
<1>1. CASE Callback
  <2>1. CASE \E r \in RowIds, k \in Kinds : EnqueueWindowed(r, k) \/ EnqueueNow(r, k)
    BY <2>1, EnqueueKeeps
  <2>2. CASE \E r \in RowIds, s \in BOOLEAN : EnqueueSend(r, s)
    <3>1. PICK r \in RowIds, s \in BOOLEAN : EnqueueSend(r, s)
      BY <2>2
    <3>2. "send" \in Kinds
      BY <3>1 DEF EnqueueSend
    <3>. QED  BY <3>1, <3>2, EnqueueKeeps
  <2>3. CASE \E r \in RowIds : Cancel(r) \/ CancelThrows(r) \/ CrashInCancel(r) \/ Prune(r)
    BY <2>3, RowStepKeeps, CancelKeeps, CrashKeeps
  <2>4. CASE Tick
    BY <2>4, PassKeeps
  <2>. QED  BY <1>1, <2>1, <2>2, <2>3, <2>4 DEF Callback
<1>2. CASE \E r \in RowIds : DueElapses(r) \/ BackoffElapses(r)
  BY <1>2, RowStepKeeps
<1>3. CASE FlagsBegin \/ RowBeginAny \/ PassEnds
  BY <1>3, PassKeeps
<1>4. CASE SettleAny
  BY <1>4, SettleKeeps, OutcomeNames DEF SettleAny
<1>5. CASE CutShortAny
  BY <1>5, MarkThrowsKeeps, CrashKeeps DEF CutShortAny
<1>6. CASE Crash
  BY <1>6, CrashKeeps
<1>7. CASE UNCHANGED vars
  BY <1>7 DEF vars, queueVars, seenVars, IInv, TypeOK, HeldRows, SendingIsHeld,
              KnownOrDoubtful, InverseMatchesEnd, IsIntent
<1>. QED  BY <1>1, <1>2, <1>3, <1>4, <1>5, <1>6, <1>7 DEF Next

\* The invariant holds in every behaviour of the queue.
LEMMA Invariance == Spec => []IInv
BY InitIInv, StepIInv, PTL DEF Spec

-----------------------------------------------------------------------------
(* What follows from it *)

\* Every variable of the queue keeps its type: insertRow, claim, markDone,
\* markFailed, cancelOutbox and resetInflight only write legal rows.
THEOREM QueueTypes == Spec => []TypeOK
BY Invariance, PTL DEF IInv

\* A canceled action is not at the provider unless an attempt slipped
\* unnoticed: the pending->sending and pending->canceled flips exclude each
\* other.
THEOREM UndoOrRun == Spec => []NeverBothWin
<1>1. IInv => NeverBothWin
  BY DEF IInv, KnownOrDoubtful, NeverBothWin
<1>. QED  BY <1>1, Invariance, PTL

\* When no write fails, a `sending' row is one the running drain holds, so no
\* claimed action is dropped by a pass.
THEOREM NoRowIsLost == Spec => []SendingIsHeld
BY Invariance, PTL DEF IInv

\* An action's inverse runs on rows that ended canceled or dead and on no
\* other, and a row is dead exactly when its attempts are spent.
THEOREM InverseOnlyAtEnd == Spec => []InverseMatchesEnd
BY Invariance, PTL DEF IInv

-----------------------------------------------------------------------------
(* Steps *)

MayDoubt == LostReplies \/ WriteFaults \/ MaxRestarts > 0

Resting(r) == reached'[r] = reached[r] /\ doubtful'[r] = doubtful[r]

\* What one step may do to row r and to what is known of it.
RowStep(r) ==
  \/ rows'[r] = rows[r] /\ Resting(r)
  \/ rows[r].status = "none" /\ rows'[r].status \in Live /\ Resting(r)
  \/ /\ rows[r].status \in Live /\ rows'[r].status \in Live
     /\ Resting(r) \/ (MayDoubt /\ reached'[r] /\ doubtful'[r])
  \/ /\ rows[r].status \in Live /\ rows'[r].status = "done"
     /\ doubtful'[r] = doubtful[r] /\ (reached[r] => reached'[r])
  \/ rows[r].status \in Live /\ rows'[r].status = "canceled" /\ Resting(r)
  \/ /\ rows[r].status \in Live /\ rows'[r].status = "dead"
     /\ reached[r] => reached'[r]
     /\ doubtful[r] => doubtful'[r]
     /\ doubtful'[r] # doubtful[r] => MayDoubt
  \/ rows[r].status \in Settled /\ rows'[r].status = "pruned" /\ Resting(r)

\* A row of rs, or that row just claimed.
LEMMA AskedRow ==
  ASSUME NEW rs \in [RowIds -> Row], TypeOK, HeldRows, Asked(rs), NEW r \in RowIds
  PROVE  \/ rows'[r] = rs[r]
         \/ rs[r].status = "pending" /\ rows'[r].status = "sending"
<1>1. PICK S \in SUBSET Ready(rs) : rows' = Claimed(rs, S)
  BY AskedClaims
<1>2. /\ \A q \in S : rows'[q] = [rs[q] EXCEPT !.status = "sending"]
      /\ \A q \in RowIds \ S : rows'[q] = rs[q]
  BY <1>1, ClaimedRows
<1>3. CASE r \in S
  <2>1. rs[r] \in Row /\ rs[r].status = "pending"
    BY <1>3 DEF Ready
  <2>2. [rs[r] EXCEPT !.status = "sending"].status = "sending"
    BY <2>1 DEF Row
  <2>. QED  BY <1>2, <1>3, <2>1, <2>2
<1>. QED  BY <1>2, <1>3

LEMMA EnqueueRowStep ==
  ASSUME IInv, NEW r \in RowIds, NEW k \in Kinds, NEW s \in BOOLEAN,
         EnqueueWindowed(r, k) \/ EnqueueNow(r, k) \/ EnqueueSend(r, s),
         NEW q \in RowIds
  PROVE  RowStep(q)
<1>1. /\ rows \in [RowIds -> Row] /\ rows[r].status = "none"
      /\ TypeOK /\ HeldRows
  BY DEF EnqueueWindowed, EnqueueNow, EnqueueSend, Fresh, IInv, TypeOK
<1>2. PICK j \in Kinds, l \in Lanes :
        /\ seenVars' = seenVars
        /\ \/ Nudge(Inserted(r, j, l))
           \/ rows' = Inserted(r, j, l)
  BY DEF EnqueueWindowed, EnqueueNow, EnqueueSend, Lanes
<1>3. /\ Inserted(r, j, l) \in [RowIds -> Row]
      /\ Inserted(r, j, l)[r].status = "pending"
      /\ q # r => Inserted(r, j, l)[q] = rows[q]
  BY <1>1, InsertedRows
<1>4. \/ rows'[q] = Inserted(r, j, l)[q]
      \/ Inserted(r, j, l)[q].status = "pending" /\ rows'[q].status = "sending"
  BY <1>1, <1>2, <1>3, AskedRow DEF Asked
<1>5. Resting(q)
  BY <1>2 DEF Resting, seenVars
<1>. QED  BY <1>1, <1>3, <1>4, <1>5 DEF RowStep, Live

LEMMA CancelRowStep ==
  ASSUME IInv, NEW r \in RowIds, Cancel(r), NEW q \in RowIds
  PROVE  RowStep(q)
<1>. DEFINE rs == [rows EXCEPT ![r].status = "canceled"]
<1>1. /\ rs \in [RowIds -> Row] /\ rs[r].status = "canceled"
      /\ q # r => rs[q] = rows[q]
      /\ rows[r].status = "pending" /\ TypeOK /\ HeldRows
  BY DEF Cancel, IInv, TypeOK, Row, Statuses
<1>2. Asked(rs) /\ Resting(q)
  BY DEF Cancel, Asked, Resting
<1>. HIDE DEF rs
<1>3. rows'[q] = rs[q] \/ (rs[q].status = "pending" /\ rows'[q].status = "sending")
  BY <1>1, <1>2, AskedRow
<1>. QED  BY <1>1, <1>2, <1>3 DEF RowStep, Live

LEMMA OtherRowStep ==
  ASSUME IInv, NEW r \in RowIds,
         DueElapses(r) \/ BackoffElapses(r) \/ Prune(r) \/ CancelThrows(r),
         NEW q \in RowIds
  PROVE  RowStep(q)
<1>1. rows \in [RowIds -> Row] /\ rows[r] \in Row
  BY DEF IInv, TypeOK
<1>2. Resting(q)
  BY DEF DueElapses, BackoffElapses, Prune, CancelThrows, seenVars, Resting
<1>3. q # r => rows'[q] = rows[q]
  BY <1>1 DEF DueElapses, BackoffElapses, Prune, CancelThrows
<1>4. CASE DueElapses(r)
  <2>1. rows[r].status = "pending" /\ rows'[r].status = "pending"
    BY <1>1, <1>4 DEF DueElapses, Row
  <2>. QED  BY <1>2, <1>3, <2>1 DEF RowStep, Live
<1>5. CASE BackoffElapses(r)
  <2>1. rows[r].status = "pending" /\ rows'[r].status = "pending"
    BY <1>1, <1>5 DEF BackoffElapses, Row
  <2>. QED  BY <1>2, <1>3, <2>1 DEF RowStep, Live
<1>6. CASE Prune(r)
  <2>1. rows[r].status \in Settled /\ rows'[r].status = "pruned"
    BY <1>1, <1>6, NoRowType DEF Prune, Row
  <2>. QED  BY <1>2, <1>3, <2>1 DEF RowStep
<1>7. CASE CancelThrows(r)
  <2>1. rows[r].status = "pending" /\ rows'[r].status = "canceled"
    BY <1>1, <1>7 DEF CancelThrows, Row
  <2>. QED  BY <1>2, <1>3, <2>1 DEF RowStep, Live
<1>. QED  BY <1>4, <1>5, <1>6, <1>7

\* A row the drain holds, marked.
LEMMA MarkedRowStep ==
  ASSUME IInv, NEW P \in SUBSET calling, NEW o \in [P -> Outcomes], NEW r \in P
  PROVE  /\ rows[r].status = "sending"
         /\ \/ MarkedRows(o)[r].status = "done" /\ o[r] \in {"taken", "nothing"}
            \/ MarkedRows(o)[r].status \in {"dead", "pending"} /\ o[r] \in {"refused", "lost"}
         /\ o[r] = "lost" => LostReplies
<1>1. P \in SUBSET batch /\ rows[r].status = "sending"
  BY DEF IInv, TypeOK, HeldRows
<1>2. o \in [P -> Answers] /\ o[r] \in Answers /\ (o[r] = "lost" => LostReplies)
  BY DEF Outcomes, Answers
<1>. QED  BY <1>1, <1>2, MarkedTable DEF Answers

LEMMA SettleRowStep ==
  ASSUME IInv, SettleAny, NEW r \in RowIds
  PROVE  RowStep(r)
<1>1. PICK o \in [calling -> Outcomes] : Settle(o)
  BY DEF SettleAny
<1>2. /\ rows' = MarkedRows(o)
      /\ reached'[r] = (reached[r] \/ (r \in calling /\ o[r] \in {"taken", "lost"}))
      /\ doubtful'[r] = (doubtful[r] \/ (r \in calling /\ o[r] = "lost"))
      /\ reached[r] \in BOOLEAN /\ doubtful[r] \in BOOLEAN
  BY <1>1 DEF Settle, Observe, IInv, TypeOK
<1>3. CASE r \in calling
  <2>1. /\ rows[r].status = "sending"
        /\ \/ rows'[r].status = "done" /\ o[r] \in {"taken", "nothing"}
           \/ rows'[r].status \in {"dead", "pending"} /\ o[r] \in {"refused", "lost"}
        /\ o[r] = "lost" => LostReplies
    BY <1>2, <1>3, MarkedRowStep
  <2>. QED  BY <1>2, <1>3, <2>1 DEF RowStep, Resting, Live, MayDoubt
<1>4. CASE r \notin calling
  <2>1. rows'[r] = rows[r]
    BY <1>2, <1>4 DEF MarkedRows
  <2>. QED  BY <1>2, <1>4, <2>1 DEF RowStep, Resting
<1>. QED  BY <1>3, <1>4

LEMMA PassRowStep ==
  ASSUME IInv, Tick \/ FlagsBegin \/ RowBeginAny \/ PassEnds, NEW r \in RowIds
  PROVE  RowStep(r)
<1>1. TypeOK /\ HeldRows /\ rows \in [RowIds -> Row]
  BY DEF IInv, TypeOK
<1>2. Resting(r)
  BY DEF Tick, FlagsBegin, RowBeginAny, RowBegin, PassEnds, seenVars, Resting
<1>3. rows' = rows \/ Asked(rows)
  BY <1>1 DEF Tick, FlagsBegin, RowBeginAny, RowBegin, PassEnds, Asked
<1>. QED  BY <1>1, <1>2, <1>3, AskedRow DEF RowStep, Live

\* Marking cut short: the table it leaves.
LEMMA CutShortRowStep ==
  ASSUME IInv, NEW o \in [calling -> Outcomes], NEW m, NEW parked \in BOOLEAN,
         CutShort(o, m, parked), MayDoubt, NEW r \in RowIds
  PROVE  LET rs == MarkedBefore(o, m, parked) IN
         \/ rs[r] = rows[r] /\ (Resting(r) \/ (rows[r].status = "sending" /\ reached'[r] /\ doubtful'[r]))
         \/ /\ rows[r].status = "sending" /\ rs[r].status = "pending"
            /\ Resting(r) \/ (reached'[r] /\ doubtful'[r])
         \/ /\ rows[r].status = "sending" /\ rs[r].status = "done"
            /\ doubtful'[r] = doubtful[r] /\ (reached[r] => reached'[r])
         \/ /\ rows[r].status = "sending" /\ rs[r].status = "dead"
            /\ reached[r] => reached'[r]
            /\ doubtful[r] => doubtful'[r]
<1>. DEFINE P  == {q \in calling : q < m \/ (parked /\ q = m)}
            oP == [q \in P |-> o[q]]
            rs == MarkedBefore(o, m, parked)
<1>1. P \in SUBSET calling /\ oP \in [P -> Outcomes] /\ rs = MarkedRows(oP)
      /\ DOMAIN oP = P /\ \A q \in P : oP[q] = o[q]
  BY DEF MarkedBefore
<1>2. /\ reached'[r] = (reached[r] \/ (r \in calling /\ o[r] \in {"taken", "lost"}))
      /\ doubtful'[r] = (doubtful[r] \/ (/\ r \in calling
                                        /\ \/ o[r] = "lost"
                                           \/ o[r] = "taken" /\ r \notin P))
      /\ reached[r] \in BOOLEAN /\ doubtful[r] \in BOOLEAN
  BY DEF CutShort, IInv, TypeOK
<1>. HIDE DEF P, oP, rs
<1>3. CASE r \in P
  <2>1. /\ rows[r].status = "sending"
        /\ \/ rs[r].status = "done" /\ o[r] \in {"taken", "nothing"}
           \/ rs[r].status \in {"dead", "pending"} /\ o[r] \in {"refused", "lost"}
    <3>1. /\ rows[r].status = "sending"
          /\ \/ MarkedRows(oP)[r].status = "done" /\ oP[r] \in {"taken", "nothing"}
             \/ MarkedRows(oP)[r].status \in {"dead", "pending"} /\ oP[r] \in {"refused", "lost"}
      BY <1>1, <1>3, MarkedRowStep
    <3>2. MarkedRows(oP)[r] = rs[r] /\ oP[r] = o[r]
      BY <1>1, <1>3
    <3>. QED  BY <3>1, <3>2
  <2>2. r \in calling
    BY <1>1, <1>3
  <2>3. CASE o[r] \in {"taken", "nothing"}
    <3>1. /\ rs[r].status = "done" /\ doubtful'[r] = doubtful[r]
          /\ reached[r] => reached'[r]
      BY <1>2, <1>3, <2>1, <2>3
    <3>. QED  BY <2>1, <3>1 DEF rs
  <2>4. CASE o[r] = "refused"
    <3>1. rs[r].status \in {"dead", "pending"} /\ Resting(r)
      BY <1>2, <1>3, <2>1, <2>4 DEF Resting
    <3>. QED  BY <2>1, <3>1 DEF rs, Resting
  <2>5. CASE o[r] = "lost"
    <3>1. rs[r].status \in {"dead", "pending"} /\ reached'[r] /\ doubtful'[r]
      BY <1>2, <2>1, <2>2, <2>5
    <3>. QED  BY <2>1, <3>1 DEF rs
  <2>. QED  BY <2>1, <2>3, <2>4, <2>5
<1>4. CASE r \notin P
  <2>1. rs[r] = rows[r]
    BY <1>1, <1>4 DEF MarkedRows
  <2>2. r \in calling => rows[r].status = "sending"
    BY DEF IInv, TypeOK, HeldRows
  <2>3. CASE r \in calling /\ o[r] \in {"taken", "lost"}
    BY <1>2, <1>4, <2>1, <2>2, <2>3 DEF rs
  <2>4. CASE ~ (r \in calling /\ o[r] \in {"taken", "lost"})
    BY <1>2, <1>4, <2>1, <2>4 DEF Resting, rs
  <2>. QED  BY <2>3, <2>4
<1>. QED  BY <1>3, <1>4

LEMMA RebootRow ==
  ASSUME IInv, NEW rs \in [RowIds -> Row], Reboot(rs), NEW r \in RowIds
  PROVE  /\ MayDoubt
         /\ \/ rows'[r] = rs[r]
            \/ rs[r].status = "sending" /\ rows'[r].status = "pending"
<1>1. MaxRestarts > 0 /\ rows' = Rearmed(rs)
  BY QueueAssumption DEF Reboot, IInv, TypeOK
<1>2. rs[r].status = "sending" => [rs[r] EXCEPT !.status = "pending"].status = "pending"
  BY DEF Row
<1>. QED  BY <1>1, <1>2, RearmedRows DEF MayDoubt

LEMMA FaultRowStep ==
  ASSUME IInv, CutShortAny, NEW r \in RowIds
  PROVE  RowStep(r)
<1>1. PICK o \in [calling -> Outcomes], m \in calling, parked \in BOOLEAN :
        MarkThrows(o, m, parked) \/ CrashInMarking(o, m, parked)
  BY DEF CutShortAny
<1>. DEFINE rs == MarkedBefore(o, m, parked)
<1>2. rs \in [RowIds -> Row] /\ CutShort(o, m, parked)
  BY <1>1, CutShortTable DEF MarkThrows, CrashInMarking
<1>3. /\ MayDoubt
      /\ rows'[r] = rs[r] \/ (rs[r].status = "sending" /\ rows'[r].status = "pending")
  <2>1. CASE MarkThrows(o, m, parked)
    BY <2>1 DEF MarkThrows, MayDoubt
  <2>2. CASE CrashInMarking(o, m, parked)
    BY <1>2, <2>2, RebootRow DEF CrashInMarking
  <2>. QED  BY <1>1, <2>1, <2>2
<1>4. \/ rs[r] = rows[r] /\ (Resting(r) \/ (rows[r].status = "sending" /\ reached'[r] /\ doubtful'[r]))
      \/ /\ rows[r].status = "sending" /\ rs[r].status = "pending"
         /\ Resting(r) \/ (reached'[r] /\ doubtful'[r])
      \/ /\ rows[r].status = "sending" /\ rs[r].status = "done"
         /\ doubtful'[r] = doubtful[r] /\ (reached[r] => reached'[r])
      \/ /\ rows[r].status = "sending" /\ rs[r].status = "dead"
         /\ reached[r] => reached'[r]
         /\ doubtful[r] => doubtful'[r]
  BY <1>2, <1>3, CutShortRowStep
<1>. HIDE DEF rs
<1>. QED  BY <1>3, <1>4 DEF RowStep, Live

LEMMA CrashRowStep ==
  ASSUME IInv, Crash \/ \E q \in RowIds : CrashInCancel(q), NEW r \in RowIds
  PROVE  RowStep(r)
<1>1. PICK took \in SUBSET calling :
        /\ reached' = [q \in RowIds |-> reached[q] \/ q \in took]
        /\ doubtful' = [q \in RowIds |-> doubtful[q] \/ q \in took]
  BY DEF Crash, CrashInCancel, Outstanding
<1>2. /\ rows \in [RowIds -> Row] /\ reached[r] \in BOOLEAN /\ doubtful[r] \in BOOLEAN
      /\ r \in took => rows[r].status = "sending"
  BY <1>1 DEF IInv, TypeOK, HeldRows
<1>3. \/ Resting(r)
      \/ rows[r].status = "sending" /\ reached'[r] /\ doubtful'[r]
  BY <1>1, <1>2 DEF Resting
<1>4. CASE Crash
  <2>1. MayDoubt /\ (rows'[r] = rows[r] \/ (rows[r].status = "sending" /\ rows'[r].status = "pending"))
    BY <1>2, <1>4, RebootRow DEF Crash
  <2>. QED  BY <1>3, <2>1 DEF RowStep, Live
<1>5. CASE \E q \in RowIds : CrashInCancel(q)
  <2>1. PICK q \in RowIds : CrashInCancel(q)
    BY <1>5
  <2>. DEFINE rs == [rows EXCEPT ![q].status = "canceled"]
  <2>2. /\ rs \in [RowIds -> Row] /\ rows[q].status = "pending"
        /\ rs[q].status = "canceled" /\ (r # q => rs[r] = rows[r])
        /\ Reboot(rs)
    BY <1>2, <2>1 DEF CrashInCancel, Row, Statuses
  <2>. HIDE DEF rs
  <2>3. MayDoubt /\ (rows'[r] = rs[r] \/ (rs[r].status = "sending" /\ rows'[r].status = "pending"))
    BY <2>2, RebootRow
  <2>. QED  BY <1>3, <2>2, <2>3 DEF RowStep, Live
<1>. QED  BY <1>4, <1>5

LEMMA EveryStep ==
  ASSUME IInv, [Next]_vars, NEW r \in RowIds
  PROVE  RowStep(r)
<1>1. CASE Callback
  <2>1. CASE \E q \in RowIds, k \in Kinds : EnqueueWindowed(q, k) \/ EnqueueNow(q, k)
    BY <2>1, EnqueueRowStep
  <2>2. CASE \E q \in RowIds, s \in BOOLEAN : EnqueueSend(q, s)
    <3>1. PICK q \in RowIds, s \in BOOLEAN : EnqueueSend(q, s)
      BY <2>2
    <3>2. "send" \in Kinds
      BY <3>1 DEF EnqueueSend
    <3>. QED  BY <3>1, <3>2, EnqueueRowStep
  <2>3. CASE \E q \in RowIds : Cancel(q) \/ CancelThrows(q) \/ CrashInCancel(q) \/ Prune(q)
    BY <2>3, OtherRowStep, CancelRowStep, CrashRowStep
  <2>4. CASE Tick
    BY <2>4, PassRowStep
  <2>. QED  BY <1>1, <2>1, <2>2, <2>3, <2>4 DEF Callback
<1>2. CASE \E q \in RowIds : DueElapses(q) \/ BackoffElapses(q)
  BY <1>2, OtherRowStep
<1>3. CASE FlagsBegin \/ RowBeginAny \/ PassEnds
  BY <1>3, PassRowStep
<1>4. CASE SettleAny
  BY <1>4, SettleRowStep
<1>5. CASE CutShortAny
  BY <1>5, FaultRowStep
<1>6. CASE Crash
  BY <1>6, CrashRowStep
<1>7. CASE UNCHANGED vars
  BY <1>7 DEF vars, queueVars, seenVars, RowStep, Resting
<1>. QED  BY <1>1, <1>2, <1>3, <1>4, <1>5, <1>6, <1>7 DEF Next

\* A settled row never changes again, except to be pruned: no late markDone,
\* markFailed, cancelOutbox or resetInflight overwrites how a row ended.
THEOREM NothingReopens == Spec => SettledIsFinal
<1>1. ASSUME IInv, [Next]_vars, NEW r \in RowIds, rows[r].status \in Settled \cup {"pruned"}
      PROVE  rows'[r] = rows[r] \/ rows'[r].status = "pruned"
  BY <1>1, EveryStep DEF RowStep, Live, Settled
<1>2. IInv /\ [Next]_vars =>
        [\A r \in RowIds : rows[r].status \in Settled \cup {"pruned"} =>
            rows'[r] = rows[r] \/ rows'[r].status = "pruned"]_vars
  BY <1>1
<1>. QED  BY <1>2, Invariance, PTL DEF Spec, SettledIsFinal

-----------------------------------------------------------------------------
(* The queue implements the undo contract *)

LEMMA OutcomeOfStatus ==
  ASSUME NEW s
  PROVE  /\ s = "none" => OutcomeOf(s) = "none"
         /\ s \in Live => OutcomeOf(s) = "open"
         /\ s = "done" => OutcomeOf(s) = "committed"
         /\ s = "canceled" => OutcomeOf(s) = "undone"
         /\ s = "dead" => OutcomeOf(s) = "failed"
         /\ s = "pruned" => OutcomeOf(s) = "forgotten"
BY DEF OutcomeOf, Live

LEMMA ContractStarts == Init => Contract!ContractInit
BY OutcomeOfStatus DEF Init, Contract!ContractInit, outcomes, NoRow

LEMMA ContractSteps ==
  ASSUME IInv, IInv', [Next]_vars
  PROVE  [Contract!ContractNext]_(Contract!contractVars)
<1>1. ASSUME NEW r \in RowIds
      PROVE  \/ Contract!Stays(r) \/ Contract!Opens(r) \/ Contract!Commits(r)
             \/ Contract!Undoes(r) \/ Contract!Fails(r) \/ Contract!Slips(r)
             \/ Contract!Forgets(r)
  <2>. USE DEF Contract!Same, Resting
  <2>1. outcomes[r] = OutcomeOf(rows[r].status) /\ outcomes'[r] = OutcomeOf(rows'[r].status)
    BY DEF outcomes
  <2>2. /\ reached[r] /\ ~ doubtful[r] => rows[r].status \in {"done", "pruned"}
        /\ reached'[r] /\ ~ doubtful'[r] => rows'[r].status \in {"done", "pruned"}
    BY DEF IInv, KnownOrDoubtful
  <2>3. RowStep(r)
    BY EveryStep
  <2>4. CASE rows'[r] = rows[r] /\ Resting(r)
    BY <2>1, <2>4 DEF Contract!Stays
  <2>5. CASE rows[r].status = "none" /\ rows'[r].status \in Live /\ Resting(r)
    BY <2>1, <2>5, OutcomeOfStatus DEF Contract!Opens
  <2>6. CASE rows[r].status \in Live /\ rows'[r].status \in Live /\ Resting(r)
    BY <2>1, <2>6, OutcomeOfStatus DEF Contract!Stays
  <2>7. CASE /\ rows[r].status \in Live /\ rows'[r].status \in Live
             /\ MayDoubt /\ reached'[r] /\ doubtful'[r]
    BY <2>1, <2>7, OutcomeOfStatus DEF Contract!Slips, MayDoubt
  <2>8. CASE /\ rows[r].status \in Live /\ rows'[r].status = "done"
             /\ doubtful'[r] = doubtful[r] /\ (reached[r] => reached'[r])
    BY <2>1, <2>8, OutcomeOfStatus DEF Contract!Commits
  <2>9. CASE rows[r].status \in Live /\ rows'[r].status = "canceled" /\ Resting(r)
    BY <2>1, <2>2, <2>9, OutcomeOfStatus DEF Contract!Undoes, Live
  <2>10. CASE /\ rows[r].status \in Live /\ rows'[r].status = "dead"
              /\ reached[r] => reached'[r]
              /\ doubtful[r] => doubtful'[r]
              /\ doubtful'[r] # doubtful[r] => MayDoubt
    BY <2>1, <2>2, <2>10, OutcomeOfStatus DEF Contract!Fails, MayDoubt
  <2>11. CASE rows[r].status \in Settled /\ rows'[r].status = "pruned" /\ Resting(r)
    BY <2>1, <2>11, OutcomeOfStatus DEF Contract!Forgets, Contract!Ended, Settled
  <2>. QED  BY <2>3, <2>4, <2>5, <2>6, <2>7, <2>8, <2>9, <2>10, <2>11 DEF RowStep
<1>. QED  BY <1>1 DEF Contract!ContractNext

\* The outbox keeps its promise of every queued action: it ends once and for
\* all, and an undone or failed one is not at the provider unless an attempt
\* slipped through unnoticed.
THEOREM QueueKeepsContract == Spec => ImplementsContract
BY Invariance, ContractStarts, ContractSteps, PTL
   DEF Spec, ImplementsContract, Contract!ContractSpec

-----------------------------------------------------------------------------
(* Nudges *)

\* A row that is due at once stays due, and only a failed attempt cools one.
Prompt(rs) ==
  \A r \in RowIds : /\ rs[r].lane = "now" /\ rs[r].status \in Live => rs[r].due
                    /\ rs[r].attempts = 0 => ~ rs[r].cooling

\* The rows a nudge was for that no pass has picked up.
Waiting(rs) ==
  {r \in RowIds : rs[r].lane = "now" /\ rs[r].status = "pending" /\ rs[r].attempts = 0}

\* While some wait, the running drain knows that it is to go round again.
Unhindered == restarts = 0 /\ ~ WriteFaults /\ Batch >= MaxRows
NudgeInv == Unhindered => Prompt(rows) /\ (Waiting(rows) # {} => busy /\ again)

\* A queue that fits one batch is claimed whole.
LEMMA ClaimsAll ==
  ASSUME NEW rs, NEW S \in Snapshots(rs), Batch >= MaxRows
  PROVE  S = Ready(rs)
<1>1. IsFiniteSet(RowIds) /\ Cardinality(RowIds) = MaxRows /\ MaxRows \in Nat /\ Batch \in Nat
  <2>1. 1 \in Int /\ MaxRows \in Int /\ MaxRows >= 1 /\ Batch \in Nat
    BY QueueAssumption
  <2>. QED  BY <2>1, FS_Interval DEF RowIds
<1>2. Ready(rs) \subseteq RowIds
  BY DEF Ready
<1>3. IsFiniteSet(Ready(rs)) /\ Cardinality(Ready(rs)) <= MaxRows
  BY <1>1, <1>2, FS_Subset
<1>4. Cardinality(Ready(rs)) \in Nat
  BY <1>3, FS_CardinalityType
<1>5. Cardinality(Ready(rs)) <= Batch
  BY <1>1, <1>3, <1>4
<1>. QED  BY <1>5 DEF Snapshots

\* So asking for a pass leaves no row waiting that is not asked for.
LEMMA AskedPrompt ==
  ASSUME NEW rs \in [RowIds -> Row], Asked(rs), Prompt(rs), Batch >= MaxRows
  PROVE  Prompt(rows') /\ (Waiting(rows') # {} => busy' /\ again')
<1>1. CASE rows' = rs /\ busy' /\ again'
  BY <1>1
<1>2. CASE StartPass(rs)
  <2>1. PICK S \in Snapshots(rs) : rows' = Claimed(rs, S)
    BY <1>2 DEF StartPass
  <2>2. S = Ready(rs)
    BY <2>1, ClaimsAll
  <2>3. /\ \A r \in S : rows'[r] = [rs[r] EXCEPT !.status = "sending"]
        /\ \A r \in RowIds \ S : rows'[r] = rs[r]
    BY <2>1, <2>2, ClaimedRows
  <2>4. \A r \in S : /\ rows'[r].status = "sending" /\ rows'[r].lane = rs[r].lane /\ rows'[r].due = rs[r].due
                     /\ rows'[r].attempts = rs[r].attempts /\ rows'[r].cooling = rs[r].cooling
                     /\ rs[r].status = "pending"
    <3>1. \A r \in S : rs[r] \in Row /\ rs[r].status = "pending"
      BY <2>2 DEF Ready
    <3>. QED  BY <2>3, <3>1 DEF Row
  <2>5. Prompt(rows')
    BY <2>3, <2>4 DEF Prompt, Live
  <2>6. Waiting(rows') = {}
    BY <2>2, <2>3, <2>4 DEF Prompt, Waiting, Ready, Live
  <2>. QED  BY <2>5, <2>6
<1>. QED  BY <1>1, <1>2 DEF Asked, Nudge

\* Rows that change one at a time, with nothing more to wait for.
LEMMA QuietPrompt ==
  ASSUME NudgeInv, IInv, UNCHANGED <<busy, again, restarts>>,
         \A r \in RowIds :
           \/ rows'[r] = rows[r]
           \/ /\ rows'[r].lane = "now" /\ rows'[r].status \in Live => rows'[r].due
              /\ rows'[r].attempts = 0 => ~ rows'[r].cooling
              /\ r \in Waiting(rows) \/ ~ (rows'[r].lane = "now" /\ rows'[r].status = "pending" /\ rows'[r].attempts = 0)
  PROVE  NudgeInv'
<1>. SUFFICES ASSUME Unhindered PROVE NudgeInv'
  BY DEF NudgeInv, Unhindered
<1>1. Prompt(rows) /\ (Waiting(rows) # {} => busy /\ again)
  BY DEF NudgeInv
<1>2. Prompt(rows')
  BY <1>1 DEF Prompt
<1>3. Waiting(rows') \subseteq Waiting(rows)
  BY DEF Waiting
<1>. QED  BY <1>1, <1>2, <1>3 DEF NudgeInv

LEMMA EnqueueNudges ==
  ASSUME NudgeInv, IInv, NEW r \in RowIds, NEW k \in Kinds, NEW s \in BOOLEAN,
         EnqueueWindowed(r, k) \/ EnqueueNow(r, k) \/ EnqueueSend(r, s)
  PROVE  NudgeInv'
<1>1. rows \in [RowIds -> Row] /\ restarts' = restarts
  BY DEF IInv, TypeOK, EnqueueWindowed, EnqueueNow, EnqueueSend
<1>2. PICK j \in Kinds, l \in Lanes :
        \/ Nudge(Inserted(r, j, l))
        \/ l # "now" /\ rows' = Inserted(r, j, l) /\ UNCHANGED <<busy, again>>
  BY DEF EnqueueWindowed, EnqueueNow, EnqueueSend, Lanes
<1>3. PICK row : row = [kind |-> j, lane |-> l, status |-> "pending",
                       due |-> (l = "now"), cooling |-> FALSE, attempts |-> 0]
  OBVIOUS
<1>4. PICK rs : rs = Inserted(r, j, l)
  OBVIOUS
<1>5. rs \in [RowIds -> Row] /\ rs[r] = row /\ \A q \in RowIds \ {r} : rs[q] = rows[q]
  BY <1>1, <1>3, <1>4, InsertedRows DEF Inserted
<1>6. row.lane = l /\ (l = "now" => row.due) /\ ~ row.cooling /\ row.attempts = 0
  BY <1>3
<1>7. CASE Nudge(rs)
  <2>1. Prompt(rows) => Prompt(rs)
    BY <1>5, <1>6 DEF Prompt
  <2>. QED  BY <1>1, <1>5, <1>7, <2>1, AskedPrompt DEF NudgeInv, Unhindered, Asked
<1>8. CASE l # "now" /\ rows' = rs /\ UNCHANGED <<busy, again>>
  BY <1>1, <1>5, <1>6, <1>8, QuietPrompt
<1>. QED  BY <1>2, <1>4, <1>7, <1>8

LEMMA CancelNudges == ASSUME NudgeInv, IInv, NEW r \in RowIds, Cancel(r) PROVE NudgeInv'
<1>1. rows \in [RowIds -> Row] /\ restarts' = restarts
  BY DEF IInv, TypeOK, Cancel
<1>2. PICK rs : rs = [rows EXCEPT ![r].status = "canceled"]
  OBVIOUS
<1>3. /\ rs \in [RowIds -> Row] /\ rs[r].status = "canceled" /\ \A q \in RowIds \ {r} : rs[q] = rows[q]
      /\ rs[r].attempts = rows[r].attempts /\ rs[r].cooling = rows[r].cooling
  BY <1>1, <1>2 DEF Row, Statuses
<1>4. Asked(rs)
  BY <1>2 DEF Cancel, Asked
<1>5. Prompt(rows) => Prompt(rs)
  BY <1>3 DEF Prompt, Live
<1>. QED  BY <1>1, <1>3, <1>4, <1>5, AskedPrompt DEF NudgeInv, Unhindered

LEMMA RowNudges ==
  ASSUME NudgeInv, IInv, NEW r \in RowIds, DueElapses(r) \/ BackoffElapses(r) \/ Prune(r)
  PROVE  NudgeInv'
<1>1. /\ rows \in [RowIds -> Row] /\ rows[r] \in Row
      /\ UNCHANGED <<busy, again, restarts>>
      /\ \A q \in RowIds \ {r} : rows'[q] = rows[q]
  BY DEF IInv, TypeOK, DueElapses, BackoffElapses, Prune
<1>2. CASE DueElapses(r)
  <2>1. rows'[r] = [rows[r] EXCEPT !.due = TRUE]
    BY <1>1, <1>2 DEF DueElapses
  <2>2. /\ rows'[r].due /\ rows'[r].lane = rows[r].lane /\ rows'[r].status = rows[r].status
        /\ rows'[r].attempts = rows[r].attempts /\ rows'[r].cooling = rows[r].cooling
    BY <1>1, <2>1 DEF Row
  <2>3. Unhindered => Prompt(rows)
    BY DEF NudgeInv
  <2>4. CASE Unhindered
    <3>1. \A q \in RowIds :
           \/ rows'[q] = rows[q]
           \/ /\ rows'[q].lane = "now" /\ rows'[q].status \in Live => rows'[q].due
              /\ rows'[q].attempts = 0 => ~ rows'[q].cooling
              /\ q \in Waiting(rows) \/ ~ (rows'[q].lane = "now" /\ rows'[q].status = "pending" /\ rows'[q].attempts = 0)
      BY <1>1, <2>2, <2>3, <2>4 DEF Prompt, Waiting
    <3>. QED  BY <1>1, <3>1, QuietPrompt
  <2>. QED  BY <1>1, <2>4 DEF NudgeInv, Unhindered
<1>3. CASE BackoffElapses(r)
  <2>1. rows'[r] = [rows[r] EXCEPT !.cooling = FALSE]
    BY <1>1, <1>3 DEF BackoffElapses
  <2>2. /\ ~ rows'[r].cooling /\ rows'[r].lane = rows[r].lane /\ rows'[r].status = rows[r].status
        /\ rows'[r].attempts = rows[r].attempts /\ rows'[r].due = rows[r].due
    BY <1>1, <2>1 DEF Row
  <2>3. Unhindered => Prompt(rows)
    BY DEF NudgeInv
  <2>4. CASE Unhindered
    <3>1. \A q \in RowIds :
           \/ rows'[q] = rows[q]
           \/ /\ rows'[q].lane = "now" /\ rows'[q].status \in Live => rows'[q].due
              /\ rows'[q].attempts = 0 => ~ rows'[q].cooling
              /\ q \in Waiting(rows) \/ ~ (rows'[q].lane = "now" /\ rows'[q].status = "pending" /\ rows'[q].attempts = 0)
      BY <1>1, <2>2, <2>3, <2>4 DEF Prompt, Waiting
    <3>. QED  BY <1>1, <3>1, QuietPrompt
  <2>. QED  BY <1>1, <2>4 DEF NudgeInv, Unhindered
<1>4. CASE Prune(r)
  <2>1. rows'[r].status = "pruned" /\ ~ rows'[r].cooling
    BY <1>1, <1>4 DEF Prune, NoRow
  <2>2. \A q \in RowIds :
         \/ rows'[q] = rows[q]
         \/ /\ rows'[q].lane = "now" /\ rows'[q].status \in Live => rows'[q].due
            /\ rows'[q].attempts = 0 => ~ rows'[q].cooling
            /\ q \in Waiting(rows) \/ ~ (rows'[q].lane = "now" /\ rows'[q].status = "pending" /\ rows'[q].attempts = 0)
    BY <1>1, <2>1 DEF Live
  <2>. QED  BY <1>1, <2>2, QuietPrompt
<1>. QED  BY <1>2, <1>3, <1>4

LEMMA MarkedPrompt ==
  ASSUME NEW row \in Row, NEW o, row.attempts = 0 => ~ row.cooling
  PROVE  /\ Marked(row, o).lane = row.lane /\ Marked(row, o).due = row.due
         /\ Marked(row, o).attempts = 0 => ~ Marked(row, o).cooling
         /\ Marked(row, o).status = "pending" => Marked(row, o).attempts # 0
<1>1. row.attempts \in Nat /\ MaxAttempts \in Nat \ {0}
  BY QueueAssumption DEF Row
<1>2. PICK n \in Nat : n = row.attempts + 1 /\ n # 0
  BY <1>1
<1>3. CASE o \in {"taken", "nothing"}
  <2>1. PICK q : q = [row EXCEPT !.status = "done"]
    OBVIOUS
  <2>2. /\ q.status = "done" /\ q.lane = row.lane /\ q.due = row.due
        /\ q.attempts = row.attempts /\ q.cooling = row.cooling
    BY <2>1 DEF Row
  <2>3. Marked(row, o) = q
    BY <1>3, <2>1 DEF Marked
  <2>. QED  BY <2>2, <2>3
<1>4. CASE o \notin {"taken", "nothing"} /\ n >= MaxAttempts
  <2>1. PICK q : q = [row EXCEPT !.status = "dead", !.attempts = MaxAttempts, !.cooling = FALSE]
    OBVIOUS
  <2>2. q.status = "dead" /\ q.lane = row.lane /\ q.due = row.due /\ ~ q.cooling
    BY <2>1 DEF Row
  <2>3. Marked(row, o) = q
    BY <1>2, <1>4, <2>1 DEF Marked
  <2>. QED  BY <2>2, <2>3
<1>5. CASE o \notin {"taken", "nothing"} /\ ~ (n >= MaxAttempts)
  <2>1. PICK q : q = [row EXCEPT !.status = "pending", !.attempts = n, !.cooling = TRUE]
    OBVIOUS
  <2>2. q.attempts = n /\ q.lane = row.lane /\ q.due = row.due
    BY <2>1 DEF Row
  <2>3. Marked(row, o) = q
    BY <1>2, <1>5, <2>1 DEF Marked
  <2>. QED  BY <1>2, <2>2, <2>3
<1>. QED  BY <1>3, <1>4, <1>5

LEMMA SettleNudges ==
  ASSUME NudgeInv, IInv, NEW o \in [calling -> Answers], Settle(o)
  PROVE  NudgeInv'
<1>1. /\ rows \in [RowIds -> Row] /\ rows' = MarkedRows(o) /\ UNCHANGED <<busy, again, restarts>>
      /\ \A r \in calling : r \in RowIds /\ rows[r].status = "sending"
  BY DEF Settle, IInv, TypeOK, HeldRows
<1>2. \A r \in RowIds : rows'[r] = IF r \in calling THEN Marked(rows[r], o[r]) ELSE rows[r]
  BY <1>1 DEF MarkedRows
<1>3. CASE Unhindered
  <2>1. ASSUME NEW r \in calling
        PROVE  /\ rows'[r].lane = "now" => rows'[r].due
               /\ rows'[r].attempts = 0 => ~ rows'[r].cooling
               /\ rows'[r].status = "pending" => rows'[r].attempts # 0
    <3>1. rows[r] \in Row /\ (rows[r].lane = "now" => rows[r].due) /\ (rows[r].attempts = 0 => ~ rows[r].cooling)
      BY <1>1, <1>3 DEF NudgeInv, Prompt, Live
    <3>. QED  BY <1>1, <1>2, <3>1, MarkedPrompt
  <2>. QED  BY <1>1, <1>2, <2>1, QuietPrompt
<1>. QED  BY <1>1, <1>3 DEF NudgeInv, Unhindered

LEMMA PassNudges ==
  ASSUME NudgeInv, IInv, Tick \/ FlagsBegin \/ RowBeginAny \/ PassEnds
  PROVE  NudgeInv'
<1>1. rows \in [RowIds -> Row] /\ restarts' = restarts
  BY DEF IInv, TypeOK, Tick, FlagsBegin, RowBeginAny, RowBegin, PassEnds
<1>2. CASE Tick \/ (PassEnds /\ again)
  <2>1. Asked(rows)
    BY <1>2 DEF Tick, PassEnds, Asked
  <2>. QED  BY <1>1, <2>1, AskedPrompt DEF NudgeInv, Unhindered
<1>3. CASE FlagsBegin \/ RowBeginAny
  <2>1. UNCHANGED <<rows, busy, again, restarts>>
    BY <1>3 DEF FlagsBegin, RowBeginAny, RowBegin
  <2>. QED  BY <2>1, QuietPrompt
<1>4. CASE PassEnds /\ ~ again
  <2>1. UNCHANGED <<rows, again, restarts>>
    BY <1>4 DEF PassEnds
  <2>. QED  BY <1>4, <2>1 DEF NudgeInv, Unhindered
<1>. QED  BY <1>2, <1>3, <1>4

\* A step after which the queue is no longer unhindered.
LEMMA FaultNudges ==
  ASSUME IInv, restarts' = restarts + 1 \/ WriteFaults
  PROVE  NudgeInv'
<1>1. restarts \in Nat
  BY QueueAssumption DEF IInv, TypeOK
<1>. QED  BY <1>1 DEF NudgeInv, Unhindered

LEMMA StepNudges == IInv /\ NudgeInv /\ [Next]_vars => NudgeInv'
<1>. SUFFICES ASSUME IInv, NudgeInv, [Next]_vars  PROVE NudgeInv'
  OBVIOUS
<1>1. CASE Callback
  <2>1. CASE \E r \in RowIds, k \in Kinds : EnqueueWindowed(r, k) \/ EnqueueNow(r, k)
    BY <2>1, EnqueueNudges
  <2>2. CASE \E r \in RowIds, s \in BOOLEAN : EnqueueSend(r, s)
    <3>1. PICK r \in RowIds, s \in BOOLEAN : EnqueueSend(r, s)
      BY <2>2
    <3>2. "send" \in Kinds
      BY <3>1 DEF EnqueueSend
    <3>. QED  BY <3>1, <3>2, EnqueueNudges
  <2>3. CASE \E r \in RowIds : Cancel(r) \/ Prune(r)
    BY <2>3, CancelNudges, RowNudges
  <2>4. CASE \E r \in RowIds : CancelThrows(r) \/ CrashInCancel(r)
    BY <2>4, FaultNudges DEF CancelThrows, CrashInCancel, Reboot
  <2>5. CASE Tick
    BY <2>5, PassNudges
  <2>. QED  BY <1>1, <2>1, <2>2, <2>3, <2>4, <2>5 DEF Callback
<1>2. CASE \E r \in RowIds : DueElapses(r) \/ BackoffElapses(r)
  BY <1>2, RowNudges
<1>3. CASE FlagsBegin \/ RowBeginAny \/ PassEnds
  BY <1>3, PassNudges
<1>4. CASE SettleAny
  BY <1>4, SettleNudges, OutcomeNames DEF SettleAny
<1>5. CASE CutShortAny \/ Crash
  BY <1>5, FaultNudges DEF CutShortAny, MarkThrows, CrashInMarking, Crash, Reboot
<1>6. CASE UNCHANGED vars
  BY <1>6, QuietPrompt DEF vars, queueVars
<1>. QED  BY <1>1, <1>2, <1>3, <1>4, <1>5, <1>6 DEF Next

LEMMA InitNudges == Init => NudgeInv
<1>. SUFFICES ASSUME Init PROVE NudgeInv
  OBVIOUS
<1>1. \A r \in RowIds : rows[r].status = "none" /\ ~ rows[r].cooling
  BY DEF Init, NoRow
<1>. QED  BY <1>1 DEF NudgeInv, Prompt, Waiting, Live

LEMMA NudgesHeard == NudgeInv => NudgeHonoured
BY DEF NudgeInv, NudgeHonoured, Unhindered, Waiting

\* A nudge that finds the drain busy is not lost: when the drain ends, every
\* row that was due at once has been picked up, short of a crash or a failed
\* write, and as long as one batch takes the queue.
THEOREM NudgesAreHonoured == Spec => []NudgeHonoured
BY InitNudges, NudgesHeard, StepNudges, Invariance, PTL DEF Spec

-----------------------------------------------------------------------------
(* Stacked toggles.  Of the toggles of a flag that stand, the newest has   *)
(* its value, and each that is still to land remembers the value of the    *)
(* one below it, so that whichever goes, the rest stand as if it had never *)
(* been there.                                                             *)

Standing(m, f) ==
  {r \in ForMsg(m) : f \in DOMAIN payload[r].set /\ rows[r].status \in Live \cup {"done"}}

Below(S, x) == {q \in S : q < x}
Above(S, x) == {q \in S : q > x}

\* The value that the toggles in S leave a flag with.
Top(pl, S, f) == IF S = {} THEN FALSE ELSE pl[Max(S)].set[f]

Stacked(fl, pl, S, L, m, f) ==
  /\ fl[m][f] = Top(pl, S, f)
  /\ \A x \in S \cap L : pl[x].prev[f] = Top(pl, Below(S, x), f)

\* A non-empty set of natural numbers has a least member.
LEMMA LeastNatural ==
  ASSUME NEW S \in SUBSET Nat, S # {}
  PROVE  \E x \in S : \A y \in S : x <= y
<1>1. \E x \in S : \A y \in S : ~ (<<y, x>> \in OpToRel(<, Nat))
  BY NatLessThanWellFounded, WFMin
<1>2. PICK x \in S : \A y \in S : ~ (<<y, x>> \in OpToRel(<, Nat))
  BY <1>1
<1>3. \A y \in S : ~ (y < x)
  BY <1>2 DEF OpToRel
<1>. QED  BY <1>3

LEMMA RowNumbers == RowIds \subseteq Nat
BY QueueAssumption DEF RowIds

\* A set of rows has a newest: the least of the distances from MaxRows.
LEMMA NewestRow ==
  ASSUME NEW S \in SUBSET RowIds, S # {}
  PROVE  /\ Max(S) \in S /\ \A y \in S : y <= Max(S)
         /\ \A x \in S : (\A y \in S : y <= x) => Max(S) = x
<1>. DEFINE Gaps == {MaxRows - y : y \in S}
<1>1. MaxRows \in Nat /\ \A y \in S : y \in Nat /\ y <= MaxRows /\ MaxRows - y \in Nat
  BY QueueAssumption DEF RowIds
<1>2. Gaps \in SUBSET Nat /\ Gaps # {}
  BY <1>1
<1>3. PICK g \in Gaps : \A h \in Gaps : g <= h
  BY <1>2, LeastNatural
<1>4. PICK x \in S : g = MaxRows - x
  OBVIOUS
<1>5. \A y \in S : MaxRows - x <= MaxRows - y
  BY <1>3, <1>4
<1>6. \A y \in S : x >= y
  BY <1>1, <1>5
<1>7. Max(S) \in S /\ \A y \in S : Max(S) >= y
  BY <1>6 DEF Max
<1>. QED  BY <1>1, <1>7

\* What has the same newest row has the same value.
LEMMA TopSame ==
  ASSUME NEW S \in SUBSET RowIds, NEW T \in SUBSET S, NEW y \in T, \A x \in S \ T : x < y,
         NEW pl, NEW f
  PROVE  Top(pl, S, f) = Top(pl, T, f)
<1>1. T \in SUBSET RowIds /\ T # {} /\ RowIds \subseteq Nat
  BY RowNumbers
<1>2. PICK z \in T : \A x \in T : x <= z
  BY <1>1, NewestRow
<1>3. \A x \in S : x <= z
  BY <1>1, <1>2
<1>4. Top(pl, T, f) = pl[z].set[f]
  BY <1>1, <1>2, NewestRow DEF Top
<1>5. Top(pl, S, f) = pl[z].set[f]
  BY <1>2, <1>3, NewestRow DEF Top
<1>. QED  BY <1>4, <1>5

LEMMA TopNext ==
  ASSUME NEW S \in SUBSET RowIds, NEW pl, NEW ql, NEW f,
         \A x \in S : ql[x].set = pl[x].set
  PROVE  Top(ql, S, f) = Top(pl, S, f)
BY NewestRow DEF Top

\* A toggle that goes leaves its value to the first newer one, if that is still to land;
\* with none newer the flag takes the older value.
LEMMA StackDrops ==
  ASSUME NEW S \in SUBSET RowIds, NEW L, NEW r \in S \cap L, NEW m, NEW f,
         NEW fl, NEW pl, NEW fl2, NEW pl2,
         Stacked(fl, pl, S, L, m, f),
         \A q \in S : pl2[q].set = pl[q].set,
         fl2[m][f] = IF Above(S, r) = {} /\ fl[m][f] = pl[r].set[f] THEN pl[r].prev[f] ELSE fl[m][f],
         \A q \in S \cap L : pl2[q].prev[f] = IF q \in Above(S, r) /\ (\A x \in Above(S, r) : q <= x)
                                              THEN pl[r].prev[f] ELSE pl[q].prev[f]
  PROVE  Stacked(fl2, pl2, S \ {r}, L, m, f)
<1>. DEFINE T == S \ {r}
            N == Above(S, r)
<1>1. /\ T \in SUBSET RowIds /\ r \notin T /\ RowIds \subseteq Nat
      /\ \A x \in S : Below(S, x) \in SUBSET S /\ Below(T, x) \in SUBSET T
      /\ r \in RowIds
      /\ N \in SUBSET S /\ N = {q \in S : q > r}
  BY RowNumbers DEF Below, Above
<1>2. pl[r].prev[f] = Top(pl, Below(S, r), f) /\ fl[m][f] = Top(pl, S, f)
  BY DEF Stacked
<1>3. \A U \in SUBSET S : Top(pl2, U, f) = Top(pl, U, f)
  BY TopNext
<1>4. fl2[m][f] = Top(pl, T, f)
  <2>1. CASE N = {}
    <3>1. \A x \in S : x <= r
      BY <1>1, <2>1
    <3>2. Top(pl, S, f) = pl[r].set[f]
      <4>1. r \in S
        OBVIOUS
      <4>. QED  BY <3>1, <4>1, NewestRow DEF Top
    <3>3. Below(S, r) = T
      <4>1. \A x \in S : x \in Nat /\ r \in Nat
        BY <1>1
      <4>2. \A x \in S : x < r <=> x # r
        BY <3>1, <4>1
      <4>. QED  BY <4>2 DEF Below
    <3>. QED  BY <1>2, <2>1, <3>2, <3>3
  <2>2. CASE N # {}
    <3>1. PICK y \in N : TRUE
      BY <2>2
    <3>2. y \in T /\ \A x \in S \ T : x < y
      BY <1>1, <3>1
    <3>3. Top(pl, S, f) = Top(pl, T, f)
      BY <3>2, TopSame
    <3>. QED  BY <1>2, <2>2, <3>3
  <2>. QED  BY <2>1, <2>2
<1>5. ASSUME NEW x \in T \cap L  PROVE pl2[x].prev[f] = Top(pl, Below(T, x), f)
  <2>1. x \in S \cap L /\ pl[x].prev[f] = Top(pl, Below(S, x), f) /\ x \in Nat /\ r \in Nat
    BY <1>1 DEF Stacked
  <2>2. CASE x < r
    <3>1. x \notin N /\ Below(T, x) = Below(S, x)
      BY <1>1, <2>1, <2>2 DEF Below
    <3>. QED  BY <2>1, <3>1
  <2>3. CASE x > r /\ \A y \in N : x <= y
    <3>1. x \in N
      BY <1>1, <2>1, <2>3
    <3>2. \A y \in S : y \in Nat /\ (y # r => (y < x <=> y < r))
      <4>1. \A y \in S : y \in Nat
        BY <1>1
      <4>. QED  BY <1>1, <2>1, <2>3, <4>1
    <3>3. \A y \in S : r \in Nat /\ ~ (r < r)
      BY <2>1
    <3>4. Below(T, x) = Below(S, r)
      BY <3>2, <3>3 DEF Below
    <3>. QED  BY <1>2, <2>1, <2>3, <3>1, <3>4
  <2>4. CASE x > r /\ ~ \A y \in N : x <= y
    <3>1. PICK y \in N : ~ (x <= y)
      BY <2>4
    <3>. DEFINE U == Below(S, x)
                V == Below(T, x)
    <3>2. y \in S /\ y > r /\ y \in Nat /\ y < x /\ y # r
      <4>1. y \in S /\ y > r
        BY <1>1, <3>1
      <4>2. y \in Nat /\ r \in Nat /\ x \in Nat
        BY <1>1, <2>1, <4>1
      <4>. QED  BY <3>1, <4>1, <4>2
    <3>3. y \in V /\ V \in SUBSET U /\ U \in SUBSET RowIds /\ \A z \in U \ V : z = r
      BY <1>1, <3>2 DEF Below
    <3>4. \A z \in U \ V : z < y
      BY <2>1, <3>2, <3>3
    <3>. HIDE DEF U, V
    <3>5. Top(pl, U, f) = Top(pl, V, f)
      BY <3>3, <3>4, TopSame
    <3>. QED  BY <2>1, <2>4, <3>5 DEF U, V
  <2>. QED  BY <1>1, <2>1, <2>2, <2>3, <2>4
<1>6. ASSUME NEW x \in T  PROVE Below(T, x) \in SUBSET S
  BY DEF Below
<1>. QED  BY <1>3, <1>4, <1>5, <1>6 DEF Stacked

\* A toggle on top of all that stand remembers the flag as it was.
LEMMA StackGrows ==
  ASSUME NEW S \in SUBSET RowIds, NEW L, NEW r \in RowIds, \A q \in S : q < r, NEW m, NEW f,
         NEW fl, NEW pl, NEW fl2, NEW pl2, NEW K, K \subseteq L \cup {r},
         Stacked(fl, pl, S, L, m, f),
         \A q \in S : pl2[q].set = pl[q].set /\ pl2[q].prev = pl[q].prev,
         fl2[m][f] = pl2[r].set[f], pl2[r].prev[f] = fl[m][f]
  PROVE  Stacked(fl2, pl2, S \cup {r}, K, m, f)
<1>. DEFINE T == S \cup {r}
<1>1. T \in SUBSET RowIds /\ RowIds \subseteq Nat /\ r \notin S
  <2>1. RowIds \subseteq Nat /\ r \in Nat
    BY RowNumbers
  <2>2. ~ (r < r)
    BY <2>1
  <2>. QED  BY <2>1, <2>2
<1>2. \A x \in T : x <= r
  BY <1>1
<1>3. Top(pl2, T, f) = pl2[r].set[f]
  BY <1>1, <1>2, NewestRow DEF Top
<1>4. \A U \in SUBSET S : Top(pl2, U, f) = Top(pl, U, f)
  BY TopNext
<1>5. Below(T, r) = S
  BY <1>1 DEF Below
<1>6. \A x \in S : Below(T, x) = Below(S, x) /\ Below(S, x) \in SUBSET S
  BY <1>1 DEF Below
<1>7. ASSUME NEW x \in T \cap K  PROVE pl2[x].prev[f] = Top(pl2, Below(T, x), f)
  <2>1. CASE x = r
    BY <1>4, <1>5, <2>1 DEF Stacked
  <2>2. CASE x # r
    <3>1. x \in S \cap L
      BY <2>2
    <3>2. pl2[x].prev = pl[x].prev /\ pl[x].prev[f] = Top(pl, Below(S, x), f)
      BY <3>1 DEF Stacked
    <3>. QED  BY <1>4, <1>6, <3>1, <3>2
  <2>. QED  BY <2>1, <2>2
<1>. QED  BY <1>3, <1>7 DEF Stacked

\* Nothing changes for a flag whose toggles and value do not.
LEMMA StackStays ==
  ASSUME NEW S \in SUBSET RowIds, NEW L, NEW m, NEW f, NEW fl, NEW pl, NEW fl2, NEW pl2, NEW K,
         S \cap K \subseteq L, Stacked(fl, pl, S, L, m, f),
         \A q \in S : pl2[q].set = pl[q].set,
         \A q \in S \cap K : pl2[q].prev[f] = pl[q].prev[f],
         fl2[m][f] = fl[m][f]
  PROVE  Stacked(fl2, pl2, S, K, m, f)
<1>1. \A U \in SUBSET S : Top(pl2, U, f) = Top(pl, U, f)
  BY TopNext
<1>2. \A x : Below(S, x) \in SUBSET S
  BY DEF Below
<1>. QED  BY <1>1, <1>2 DEF Stacked

-----------------------------------------------------------------------------
(* Inverses *)

PayloadFields == {"msg", "from", "dest", "added", "wasDeleted", "set", "prev"}
IsPayload(p) == p = [k \in PayloadFields |-> p[k]]

MailFields == {"maps", "tomb", "flag", "payload"}
IsMail(mail) == mail = [k \in MailFields |-> mail[k]]

PayloadsFit(pl) ==
  /\ pl = [r \in RowIds |-> pl[r]]
  /\ \A r \in RowIds : IsPayload(pl[r]) /\ DOMAIN pl[r].prev = DOMAIN pl[r].set

FlagsFit(fl) == fl = [m \in Msgs |-> fl[m]]

\* A mailbox that reverts have made of the one there is.
Comes(mail) ==
  /\ IsMail(mail) /\ FlagsFit(mail.flag) /\ PayloadsFit(mail.payload)
  /\ \A r \in RowIds : mail.payload[r].msg = payload[r].msg /\ mail.payload[r].set = payload[r].set

LEMMA PayloadWith ==
  ASSUME NEW p, IsPayload(p), NEW v, DOMAIN v = DOMAIN p.set
  PROVE  LET q == [p EXCEPT !.prev = v] IN
         /\ IsPayload(q) /\ q.prev = v /\ q.set = p.set /\ q.msg = p.msg
         /\ DOMAIN q.prev = DOMAIN q.set
BY DEF IsPayload, PayloadFields

LEMMA MailWith ==
  ASSUME NEW mail, IsMail(mail), NEW v, NEW w
  PROVE  LET new == [mail EXCEPT !.flag = v, !.payload = w] IN
         IsMail(new) /\ new.flag = v /\ new.payload = w
BY DEF IsMail, MailFields

\* The inverses of deletes and moves leave flags and payloads alone.
LEMMA OtherReverts ==
  ASSUME NEW mail, Comes(mail), NEW r \in RowIds, rows[r].kind # "flags"
  PROVE  LET new == RevertIntent(mail, r) IN
         Comes(new) /\ new.flag = mail.flag /\ new.payload = mail.payload
<1>. DEFINE new == RevertIntent(mail, r)
<1>1. \/ new = mail
      \/ \E v : new = [mail EXCEPT !.maps = v]
      \/ \E v : new = [mail EXCEPT !.tomb = v]
  <2>1. CASE rows[r].kind = "delete"
    BY <2>1 DEF RevertIntent, RevertDelete
  <2>2. CASE rows[r].kind \in {"archive", "move"}
    BY <2>2 DEF RevertIntent, RevertMove
  <2>3. CASE rows[r].kind \notin {"delete", "archive", "move"}
    BY <2>3 DEF RevertIntent
  <2>. QED  BY <2>1, <2>2, <2>3
<1>2. IsMail(new) /\ new.flag = mail.flag /\ new.payload = mail.payload
  <2>1. IsMail(mail)
    BY DEF Comes
  <2>2. CASE new = mail
    BY <2>1, <2>2
  <2>3. CASE \E v : new = [mail EXCEPT !.maps = v]
    BY <2>1, <2>3 DEF IsMail, MailFields
  <2>4. CASE \E v : new = [mail EXCEPT !.tomb = v]
    BY <2>1, <2>4 DEF IsMail, MailFields
  <2>. QED  BY <1>1, <2>2, <2>3, <2>4
<1>. QED  BY <1>2 DEF Comes

\* The inverse of a flags row.
LEMMA FlagReverts ==
  ASSUME NEW mail, Comes(mail), NEW r \in RowIds, rows[r].kind = "flags"
  PROVE  LET new == RevertIntent(mail, r)
             msg == payload[r].msg
             mine == DOMAIN payload[r].set
             prev == mail.payload[r].prev
         IN /\ Comes(new)
            /\ \A m \in Msgs, f \in Flags :
                 new.flag[m][f] = IF m = msg /\ f \in mine /\ Restores(mail, r, f)
                                  THEN prev[f] ELSE mail.flag[m][f]
            /\ \A q \in RowIds, f \in Flags :
                 f \in DOMAIN payload[q].set =>
                   new.payload[q].prev[f] = IF f \in mine /\ q \in Heirs(r, f)
                                            THEN prev[f] ELSE mail.payload[q].prev[f]
<1>. DEFINE new == RevertIntent(mail, r)
            msg == payload[r].msg
            mine == DOMAIN payload[r].set
            prev == mail.payload[r].prev
            fl == [mail.flag EXCEPT ![msg] = [f \in Flags |-> IF f \in mine /\ Restores(mail, r, f)
                                                              THEN prev[f] ELSE mail.flag[msg][f]]]
            v(q) == [f \in DOMAIN mail.payload[q].prev |->
                       IF f \in mine /\ q \in Heirs(r, f) THEN prev[f] ELSE mail.payload[q].prev[f]]
            pl == [q \in RowIds |-> [mail.payload[q] EXCEPT !.prev = v(q)]]
<1>1. new = [mail EXCEPT !.flag = fl, !.payload = pl]
  BY DEF RevertIntent, RevertFlags
<1>2. IsMail(new) /\ new.flag = fl /\ new.payload = pl
  <2>1. IsMail(mail)
    BY DEF Comes
  <2>. HIDE DEF new, fl, pl
  <2>. QED  BY <1>1, <2>1 DEF IsMail, MailFields
<1>3. FlagsFit(fl)
  BY DEF Comes, FlagsFit
<1>4. ASSUME NEW m \in Msgs, NEW f \in Flags
      PROVE  fl[m][f] = IF m = msg /\ f \in mine /\ Restores(mail, r, f)
                        THEN prev[f] ELSE mail.flag[m][f]
  <2>1. DOMAIN mail.flag = Msgs
    BY DEF Comes, FlagsFit
  <2>. QED  BY <2>1
<1>5. ASSUME NEW q \in RowIds
      PROVE  /\ IsPayload(pl[q]) /\ pl[q].prev = v(q) /\ pl[q].set = payload[q].set
             /\ pl[q].msg = payload[q].msg /\ DOMAIN pl[q].prev = DOMAIN pl[q].set
             /\ DOMAIN v(q) = DOMAIN payload[q].set
  <2>1. /\ IsPayload(mail.payload[q]) /\ DOMAIN mail.payload[q].prev = DOMAIN mail.payload[q].set
        /\ mail.payload[q].set = payload[q].set /\ mail.payload[q].msg = payload[q].msg
    BY DEF Comes, PayloadsFit
  <2>2. pl[q] = [mail.payload[q] EXCEPT !.prev = v(q)] /\ DOMAIN v(q) = DOMAIN mail.payload[q].prev
    OBVIOUS
  <2>. HIDE DEF v, pl
  <2>. QED  BY <2>1, <2>2, PayloadWith
<1>6. ASSUME NEW q \in RowIds, NEW f \in Flags, f \in DOMAIN payload[q].set
      PROVE  pl[q].prev[f] = IF f \in mine /\ q \in Heirs(r, f) THEN prev[f] ELSE mail.payload[q].prev[f]
  <2>1. f \in DOMAIN mail.payload[q].prev
    BY <1>5, <1>6
  <2>2. v(q)[f] = IF f \in mine /\ q \in Heirs(r, f) THEN prev[f] ELSE mail.payload[q].prev[f]
    BY <2>1
  <2>. HIDE DEF v, pl
  <2>. QED  BY <1>5, <2>2
<1>7. pl = [q \in RowIds |-> pl[q]]
  OBVIOUS
<1>. HIDE DEF new, fl, pl, v
<1>8. Comes(new)
  BY <1>2, <1>3, <1>5, <1>7 DEF Comes, PayloadsFit
<1>. QED  BY <1>2, <1>4, <1>6, <1>8 DEF new

-----------------------------------------------------------------------------
(* Rows go one after the other *)

\* Rows come in order, and only toggles set flags.
RowsFit ==
  /\ \A q, r \in RowIds : q < r /\ rows[q].status = "none" => rows[r].status = "none"
  /\ \A r \in RowIds : rows[r].kind # "flags" => DOMAIN payload[r].set = {}

LEMMA StandingFacts ==
  ASSUME RowsFit, NEW m, NEW f
  PROVE  /\ Standing(m, f) \in SUBSET RowIds
         /\ \A r \in Standing(m, f) : rows[r].kind = "flags" /\ payload[r].msg = m /\ f \in DOMAIN payload[r].set
         /\ \A r \in RowIds : rows[r].kind = "flags" /\ payload[r].msg = m /\ f \in DOMAIN payload[r].set =>
              NewerToggles(r, f) = {q \in Standing(m, f) : q > r}
BY DEF Standing, ForMsg, RowsFit, NewerToggles

\* The inverse of row r takes it from what stands of the stack.
LEMMA RevertStep ==
  ASSUME RowsFit, NEW mail, Comes(mail), NEW r \in RowIds, rows[r].status \in Live,
         NEW m \in Msgs, NEW f \in Flags,
         NEW S \in SUBSET Standing(m, f), \A q \in Standing(m, f) : q >= r => q \in S,
         Stacked(mail.flag, mail.payload, S, LiveRows(m), m, f)
  PROVE  LET new == RevertIntent(mail, r) IN
         Comes(new) /\ Stacked(new.flag, new.payload, S \ {r}, LiveRows(m), m, f)
<1>. DEFINE new == RevertIntent(mail, r)
            L == LiveRows(m)
            N == NewerToggles(r, f)
<1>1. /\ S \in SUBSET RowIds
      /\ \A q \in S : rows[q].kind = "flags" /\ payload[q].msg = m /\ f \in DOMAIN payload[q].set
  BY StandingFacts
<1>2. CASE rows[r].kind # "flags"
  <2>1. Comes(new) /\ new.flag = mail.flag /\ new.payload = mail.payload
    BY <1>2, OtherReverts
  <2>2. S \ {r} = S
    BY <1>1, <1>2
  <2>. QED  BY <2>1, <2>2
<1>3. CASE rows[r].kind = "flags"
  <2>1. /\ Comes(new)
        /\ new.flag[m][f] = IF m = payload[r].msg /\ f \in DOMAIN payload[r].set /\ Restores(mail, r, f)
                            THEN mail.payload[r].prev[f] ELSE mail.flag[m][f]
        /\ \A q \in S :
             new.payload[q].prev[f] = IF f \in DOMAIN payload[r].set /\ q \in Heirs(r, f)
                                      THEN mail.payload[r].prev[f] ELSE mail.payload[q].prev[f]
    <3>. HIDE DEF new
    <3>. QED  BY <1>1, <1>3, FlagReverts DEF new
  <2>2. \A q \in S : new.payload[q].set = mail.payload[q].set
    BY <1>1, <2>1 DEF Comes
  <2>. HIDE DEF new
  <2>3. CASE payload[r].msg = m /\ f \in DOMAIN payload[r].set
    <3>1. N = {q \in Standing(m, f) : q > r}
      <4>. HIDE DEF N
      <4>. QED  BY <1>3, <2>3, StandingFacts DEF N
    <3>2. r \in Standing(m, f) /\ r \in L
      BY <1>3, <2>3 DEF Standing, ForMsg, LiveRows
    <3>3. \A q \in Standing(m, f) : q \in Nat /\ (q > r => q \in S)
      <4>1. Standing(m, f) \subseteq Nat /\ r \in Nat
        BY RowNumbers DEF Standing, ForMsg
      <4>2. \A q \in Standing(m, f) : q > r => q >= r
        BY <4>1
      <4>. QED  BY <4>1, <4>2
    <3>4. r \in S
      BY <3>2, RowNumbers
    <3>. HIDE DEF N
    <3>5. r \in S \cap L /\ N = Above(S, r)
      BY <3>1, <3>2, <3>3, <3>4 DEF Above
    <3>. USE DEF N
    <3>6. new.flag[m][f] = IF Above(S, r) = {} /\ mail.flag[m][f] = mail.payload[r].set[f]
                           THEN mail.payload[r].prev[f] ELSE mail.flag[m][f]
      BY <2>1, <2>3, <3>5 DEF Restores, Comes
    <3>7. \A q \in S \cap L : new.payload[q].prev[f] = IF q \in Above(S, r) /\ (\A x \in Above(S, r) : q <= x)
                                                        THEN mail.payload[r].prev[f]
                                                        ELSE mail.payload[q].prev[f]
      <4>1. \A q \in L : rows[q].status # "done"
        BY DEF LiveRows, Live
      <4>. QED  BY <2>1, <2>3, <3>5, <4>1 DEF Heirs
    <3>. HIDE DEF L, N
    <3>8. Stacked(mail.flag, mail.payload, S, L, m, f)
      BY DEF L
    <3>9. Stacked(new.flag, new.payload, S \ {r}, L, m, f)
      BY <1>1, <2>2, <3>5, <3>6, <3>7, <3>8, StackDrops
    <3>. QED  BY <2>1, <3>9 DEF L, new
  <2>4. CASE ~ (payload[r].msg = m /\ f \in DOMAIN payload[r].set)
    <3>1. S \ {r} = S
      BY <1>1, <2>4
    <3>2. new.flag[m][f] = mail.flag[m][f]
      BY <2>1, <2>4
    <3>3. \A q \in S : new.payload[q].prev[f] = mail.payload[q].prev[f]
      BY <1>1, <2>1, <2>4 DEF Heirs, NewerToggles, ForMsg
    <3>4. Stacked(new.flag, new.payload, S, L, m, f)
      BY <1>1, <2>2, <3>2, <3>3, StackStays
    <3>. QED  BY <2>1, <3>1, <3>4 DEF new
  <2>. QED  BY <2>3, <2>4
<1>. QED  BY <1>2, <1>3

\* The inverses in turn: what there is after the rows up to n.
Turns(u, k, mail, S) ==
  u = [n \in 0 .. k |-> IF n = 0 THEN mail ELSE IF n \in S THEN RevertIntent(u[n - 1], n) ELSE u[n - 1]]

LEMMA TurnsExist ==
  ASSUME NEW mail, NEW S
  PROVE  \E u : Turns(u, MaxRows, mail, S)
<1>. DEFINE Bad == {k \in 0 .. MaxRows : ~ \E u : Turns(u, k, mail, S)}
<1>1. MaxRows \in Nat
  BY QueueAssumption
<1>2. SUFFICES ASSUME Bad # {}  PROVE FALSE
  BY <1>1
<1>3. Bad \in SUBSET Nat
  BY <1>1
<1>4. PICK k \in Bad : \A j \in Bad : k <= j
  <2>. HIDE DEF Bad
  <2>. QED  BY <1>2, <1>3, LeastNatural
<1>5. k \in Nat /\ k <= MaxRows /\ ~ \E u : Turns(u, k, mail, S)
  BY <1>1
<1>6. CASE k = 0
  <2>. DEFINE u == [n \in 0 .. 0 |-> mail]
  <2>1. Turns(u, 0, mail, S)
    BY DEF Turns
  <2>. QED  BY <1>5, <1>6, <2>1
<1>7. CASE k # 0
  <2>. DEFINE j == k - 1
  <2>1. j \in Nat /\ k = j + 1 /\ j <= MaxRows /\ ~ (k <= j)
    BY <1>1, <1>5, <1>7
  <2>2. j \notin Bad
    BY <1>4, <1>5, <2>1
  <2>3. PICK u : Turns(u, j, mail, S)
    BY <1>1, <2>1, <2>2
  <2>. DEFINE w == [n \in 0 .. k |-> IF n = k THEN IF k \in S THEN RevertIntent(u[j], k) ELSE u[j]
                                    ELSE u[n]]
  <2>4. \A n \in 0 .. j : n \in 0 .. k /\ n # k /\ w[n] = u[n]
    BY <1>5, <2>1
  <2>5. ASSUME NEW n \in 0 .. k
        PROVE  w[n] = IF n = 0 THEN mail ELSE IF n \in S THEN RevertIntent(w[n - 1], n) ELSE w[n - 1]
    <3>1. CASE n = k
      <4>1. w[k] = IF k \in S THEN RevertIntent(u[j], k) ELSE u[j]
        BY <1>5
      <4>2. w[k - 1] = u[j]
        BY <1>5, <2>1, <2>4
      <4>. HIDE DEF w
      <4>. QED  BY <1>7, <3>1, <4>1, <4>2
    <3>2. CASE n # k /\ n # 0
      <4>1. n \in 0 .. j /\ n - 1 \in 0 .. j
        BY <1>5, <2>1, <3>2
      <4>2. w[n] = u[n] /\ w[n - 1] = u[n - 1]
        BY <2>4, <4>1
      <4>3. u[n] = IF n \in S THEN RevertIntent(u[n - 1], n) ELSE u[n - 1]
        BY <2>3, <3>2, <4>1 DEF Turns
      <4>. HIDE DEF w
      <4>. QED  BY <3>2, <4>2, <4>3
    <3>3. CASE n # k /\ n = 0
      <4>1. 0 \in 0 .. j /\ w[0] = u[0]
        BY <2>1, <2>4
      <4>2. u[0] = mail
        BY <2>3, <4>1 DEF Turns
      <4>. HIDE DEF w
      <4>. QED  BY <3>3, <4>1, <4>2
    <3>. QED  BY <3>1, <3>2, <3>3
  <2>6. w = [n \in 0 .. k |-> w[n]]
    OBVIOUS
  <2>. HIDE DEF w
  <2>7. Turns(w, k, mail, S)
    BY <2>5, <2>6 DEF Turns
  <2>. QED  BY <1>5, <2>7
<1>. QED  BY <1>6, <1>7

LEMMA AllTurns ==
  ASSUME NEW mail, NEW S
  PROVE  \E u : RevertAll(mail, S) = u[MaxRows] /\ Turns(u, MaxRows, mail, S)
<1>. DEFINE u == CHOOSE u : Turns(u, MaxRows, mail, S)
<1>1. Turns(u, MaxRows, mail, S)
  BY TurnsExist
<1>2. RevertAll(mail, S) = u[MaxRows]
  BY DEF RevertAll, Turns
<1>. QED  BY <1>1, <1>2

-----------------------------------------------------------------------------
(* What a step does to the rows *)

\* Row q goes on: it does not end, nor does its inverse run.
Calm(q) ==
  /\ rows'[q].kind = rows[q].kind /\ undone'[q] = undone[q]
  /\ \/ rows'[q].status = rows[q].status
     \/ rows[q].status \in Live /\ rows'[q].status \in Live

\* A table of rows, or one with some just claimed.
LEMMA AskedCalm ==
  ASSUME NEW rs \in [RowIds -> Row], TypeOK, HeldRows, Asked(rs), NEW r \in RowIds
  PROVE  /\ rows'[r].kind = rs[r].kind
         /\ \/ rows'[r].status = rs[r].status
            \/ rs[r].status = "pending" /\ rows'[r].status = "sending"
<1>1. PICK S \in SUBSET Ready(rs) : rows' = Claimed(rs, S)
  BY AskedClaims
<1>2. /\ \A q \in S : rows'[q] = [rs[q] EXCEPT !.status = "sending"]
      /\ \A q \in RowIds \ S : rows'[q] = rs[q]
  BY <1>1, ClaimedRows
<1>3. CASE r \in S
  <2>1. rs[r] \in Row /\ rs[r].status = "pending"
    BY <1>3 DEF Ready
  <2>2. [rs[r] EXCEPT !.status = "sending"].status = "sending" /\ [rs[r] EXCEPT !.status = "sending"].kind = rs[r].kind
    BY <2>1 DEF Row
  <2>. QED  BY <1>2, <1>3, <2>1, <2>2
<1>. QED  BY <1>2, <1>3

LEMMA QuietRows ==
  ASSUME IInv, NEW r \in RowIds,
         \/ Tick \/ PassEnds \/ FlagsBegin
         \/ \E q \in RowIds : DueElapses(q) \/ BackoffElapses(q) \/ RowBegin(q)
  PROVE  Calm(r)
<1>1. TypeOK /\ HeldRows /\ rows \in [RowIds -> Row]
  BY DEF IInv, TypeOK
<1>2. undone' = undone
  BY DEF Tick, PassEnds, FlagsBegin, DueElapses, BackoffElapses, RowBegin, seenVars
<1>3. CASE \E q \in RowIds : DueElapses(q) \/ BackoffElapses(q)
  <2>1. PICK q \in RowIds : DueElapses(q) \/ BackoffElapses(q)
    BY <1>3
  <2>2. rows' = [rows EXCEPT ![q].due = TRUE] \/ rows' = [rows EXCEPT ![q].cooling = FALSE]
    BY <2>1 DEF DueElapses, BackoffElapses
  <2>3. rows'[r].kind = rows[r].kind /\ rows'[r].status = rows[r].status
    BY <1>1, <2>2 DEF Row
  <2>. QED  BY <1>2, <2>3 DEF Calm
<1>4. CASE rows' = rows \/ Asked(rows)
  BY <1>1, <1>2, <1>4, AskedCalm DEF Calm, Live
<1>. QED  BY <1>3, <1>4 DEF Tick, PassEnds, FlagsBegin, RowBegin, Asked

LEMMA RebootCalm ==
  ASSUME NEW rs \in [RowIds -> Row], Reboot(rs), NEW r \in RowIds
  PROVE  /\ rows'[r].kind = rs[r].kind
         /\ \/ rows'[r].status = rs[r].status
            \/ rs[r].status = "sending" /\ rows'[r].status = "pending"
<1>1. rs[r] \in Row /\ rows' = Rearmed(rs)
  BY DEF Reboot
<1>2. /\ [rs[r] EXCEPT !.status = "pending"].status = "pending"
      /\ [rs[r] EXCEPT !.status = "pending"].kind = rs[r].kind
  BY <1>1 DEF Row
<1>. QED  BY <1>1, <1>2, RearmedRows

LEMMA InsertedRow ==
  ASSUME IInv, NEW r \in RowIds, NEW k \in {"delete", "archive", "move", "flags"},
         NEW w \in BOOLEAN, Insert(r, k, w)
  PROVE  /\ Fresh(r) /\ rows'[r].kind = k /\ rows'[r].status \in Live
         /\ undone' = undone
         /\ \A q \in RowIds \ {r} : Calm(q)
         /\ \/ EnqueueWindowed(r, k) \/ EnqueueNow(r, k)
<1>1. TypeOK /\ HeldRows /\ rows \in [RowIds -> Row]
  BY DEF IInv, TypeOK
<1>2. PICK l \in Lanes :
        /\ Fresh(r) /\ k \in Kinds /\ undone' = undone
        /\ Nudge(Inserted(r, k, l)) \/ rows' = Inserted(r, k, l)
  BY DEF Insert, EnqueueWindowed, EnqueueNow, Lanes, seenVars
<1>. DEFINE rs == Inserted(r, k, l)
<1>3. /\ rs \in [RowIds -> Row] /\ rs[r].status = "pending" /\ rs[r].kind = k
      /\ \A q \in RowIds \ {r} : rs[q] = rows[q]
  BY <1>1, <1>2, InsertedRows
<1>. HIDE DEF rs
<1>4. ASSUME NEW q \in RowIds
      PROVE  /\ rows'[q].kind = rs[q].kind
             /\ \/ rows'[q].status = rs[q].status
                \/ rs[q].status = "pending" /\ rows'[q].status = "sending"
  <2>1. CASE Asked(rs)
    BY <1>1, <1>3, <2>1, AskedCalm
  <2>2. CASE rows' = rs
    BY <2>2
  <2>. QED  BY <1>2, <2>1, <2>2 DEF rs, Asked
<1>5. \A q \in RowIds \ {r} : Calm(q)
  BY <1>2, <1>3, <1>4 DEF Calm, Live
<1>. QED  BY <1>2, <1>3, <1>4, <1>5 DEF Live, Insert

LEMMA CanceledRow ==
  ASSUME IInv, NEW r \in RowIds, rows[r].status = "pending",
         \/ Cancel(r)
         \/ Reboot([rows EXCEPT ![r].status = "canceled"]) /\ undone' = undone
  PROVE  /\ rows'[r].kind = rows[r].kind /\ rows'[r].status = "canceled"
         /\ \A q \in RowIds \ {r} : Calm(q)
<1>. DEFINE rs == [rows EXCEPT ![r].status = "canceled"]
<1>1. /\ TypeOK /\ HeldRows /\ undone \in [RowIds -> BOOLEAN]
      /\ rs \in [RowIds -> Row] /\ rs[r].status = "canceled" /\ rs[r].kind = rows[r].kind
      /\ \A q \in RowIds \ {r} : rs[q] = rows[q]
  BY DEF IInv, TypeOK, Row, Statuses
<1>2. \A q \in RowIds \ {r} : undone'[q] = undone[q]
  BY <1>1 DEF Cancel
<1>3. Asked(rs) \/ Reboot(rs)
  BY DEF Cancel, Asked
<1>. HIDE DEF rs
<1>4. ASSUME NEW q \in RowIds
      PROVE  /\ rows'[q].kind = rs[q].kind
             /\ \/ rows'[q].status = rs[q].status
                \/ rs[q].status \in Live /\ rows'[q].status \in Live
  BY <1>1, <1>3, AskedCalm, RebootCalm DEF Live
<1>. QED  BY <1>1, <1>2, <1>4 DEF Calm, Live

LEMMA SettledRows ==
  ASSUME IInv, NEW o \in [calling -> Answers], Settle(o)
  PROVE  /\ DeadRows(o) \in SUBSET RowIds
         /\ \A r \in DeadRows(o) : /\ rows[r].status \in Live /\ rows'[r].status = "dead"
                                   /\ rows'[r].kind = rows[r].kind
         /\ \A r \in RowIds \ DeadRows(o) :
              \/ Calm(r)
              \/ /\ rows[r].status \in Live /\ rows'[r].status = "done"
                 /\ rows'[r].kind = rows[r].kind /\ undone'[r] = undone[r]
<1>1. /\ rows' = MarkedRows(o) /\ undone' = Reverted(o) /\ DOMAIN o = calling
      /\ calling \in SUBSET batch /\ calling \subseteq RowIds
      /\ undone \in [RowIds -> BOOLEAN]
  BY DEF Settle, IInv, TypeOK
<1>2. /\ \A r \in calling : /\ rows'[r] = Marked(rows[r], o[r]) /\ rows'[r].kind = rows[r].kind
                            /\ rows'[r].status \in {"done", "dead", "pending"}
      /\ \A r \in RowIds \ calling : rows'[r] = rows[r]
  BY <1>1, MarkedTable
<1>3. \A r \in calling : rows[r].status = "sending"
  BY <1>1 DEF IInv, HeldRows
<1>4. \A r \in RowIds : r \in DeadRows(o) <=> r \in calling /\ rows'[r].status = "dead"
  BY <1>1, <1>2 DEF DeadRows
<1>5. DeadRows(o) \in SUBSET calling
  BY <1>1 DEF DeadRows
<1>6. \A r \in RowIds \ DeadRows(o) : undone'[r] = undone[r]
  BY <1>1, <1>2, <1>4 DEF Reverted
<1>. QED  BY <1>1, <1>2, <1>3, <1>4, <1>5, <1>6 DEF Calm, Live

-----------------------------------------------------------------------------
(* The invariant of the mailbox *)

\* The toggles of every flag are stacked, on the messages none of whose
\* inverses a crash has swallowed.
StacksFit ==
  \A m \in Msgs : AllInverted(m) =>
    \A f \in Flags : Stacked(flag, payload, Standing(m, f), LiveRows(m), m, f)

MailInv == IInv /\ RowsFit /\ FlagsFit(flag) /\ PayloadsFit(payload) /\ StacksFit

LEMMA MailStarts == MailInit => MailInv
<1>. SUFFICES ASSUME MailInit  PROVE MailInv
  OBVIOUS
<1>1. IInv
  BY InitIInv DEF MailInit
<1>2. \A r \in RowIds : rows[r].status = "none" /\ rows[r].kind = "none"
  BY DEF MailInit, Init, NoRow
<1>3. \A r \in RowIds : payload[r] = Payload(CHOOSE m \in Msgs : TRUE)
  BY DEF MailInit
<1>4. \A m : LET p == Payload(m) IN IsPayload(p) /\ p.set = NoFlags /\ p.prev = NoFlags
  BY DEF Payload, IsPayload, PayloadFields
<1>5. RowsFit
  BY <1>2, <1>3, <1>4 DEF RowsFit, NoFlags
<1>6. FlagsFit(flag) /\ \A m \in Msgs, f \in Flags : flag[m][f] = FALSE
  BY DEF MailInit, FlagsFit
<1>7. PayloadsFit(payload)
  <2>1. payload = [r \in RowIds |-> payload[r]]
    BY DEF MailInit
  <2>. QED  BY <1>3, <1>4, <2>1 DEF PayloadsFit
<1>8. ASSUME NEW m \in Msgs, NEW f \in Flags
      PROVE  Stacked(flag, payload, Standing(m, f), LiveRows(m), m, f)
  <2>1. Standing(m, f) = {}
    BY <1>2 DEF Standing, ForMsg
  <2>. QED  BY <1>6, <2>1 DEF Stacked, Top
<1>. QED  BY <1>1, <1>5, <1>6, <1>7, <1>8 DEF MailInv, StacksFit

LEMMA MailComes == MailInv => Comes(Mail)
BY DEF MailInv, Comes, Mail, IsMail, MailFields

\* Rows end, and the inverses there are to run leave what stands stacked.
LEMMA EndsKeep ==
  ASSUME MailInv, IInv', NEW D \in SUBSET RowIds,
         \A r \in D : /\ rows[r].status \in Live /\ rows'[r].status \in {"canceled", "dead"}
                      /\ rows'[r].kind = rows[r].kind,
         \A r \in RowIds \ D :
           \/ Calm(r)
           \/ /\ rows[r].status \in Live /\ rows'[r].status = "done"
              /\ rows'[r].kind = rows[r].kind /\ undone'[r] = undone[r],
         NEW mail, Comes(mail), flag' = mail.flag, payload' = mail.payload,
         \A m \in Msgs, f \in Flags : AllInverted(m) /\ AllInverted(m)' =>
           Stacked(mail.flag, mail.payload, Standing(m, f) \ D, LiveRows(m), m, f)
  PROVE  MailInv'
<1>1. \A r \in RowIds : payload'[r].msg = payload[r].msg /\ payload'[r].set = payload[r].set
  BY DEF Comes
<1>2. FlagsFit(flag)' /\ PayloadsFit(payload)'
  BY DEF Comes, FlagsFit, PayloadsFit
<1>3. \A r \in RowIds :
        /\ rows'[r].kind = rows[r].kind
        /\ rows'[r].status = "none" <=> rows[r].status = "none"
  BY DEF Calm, Live
<1>4. RowsFit'
  BY <1>1, <1>3 DEF MailInv, RowsFit
<1>5. ASSUME NEW m \in Msgs, AllInverted(m)', NEW f \in Flags
      PROVE  Stacked(flag, payload, Standing(m, f), LiveRows(m), m, f)'
  <2>1. AllInverted(m)
    <3>1. ASSUME NEW r \in ForMsg(m), rows[r].status \in {"canceled", "dead"}  PROVE undone[r]
      <4>1. r \in RowIds \ D /\ rows[r].kind # "none" /\ payload[r].msg = m
        BY <3>1 DEF ForMsg, Live
      <4>2. Calm(r)
        BY <3>1, <4>1 DEF Live
      <4>3. rows'[r].status = rows[r].status /\ undone'[r] = undone[r] /\ r \in ForMsg(m)'
        BY <1>1, <1>3, <3>1, <4>1, <4>2 DEF Calm, Live, ForMsg
      <4>. QED  BY <1>5, <3>1, <4>3 DEF AllInverted
    <3>. QED  BY <3>1 DEF AllInverted
  <2>2. Stacked(mail.flag, mail.payload, Standing(m, f) \ D, LiveRows(m), m, f)
    BY <1>5, <2>1
  <2>3. \A r \in RowIds : r \in ForMsg(m)' <=> r \in ForMsg(m)
    BY <1>1, <1>3 DEF ForMsg
  <2>4. \A r \in RowIds :
          /\ rows'[r].status \in Live => rows[r].status \in Live
          /\ rows'[r].status \in Live \cup {"done"} <=> rows[r].status \in Live \cup {"done"} /\ r \notin D
    BY DEF Calm, Live
  <2>5. Standing(m, f)' = Standing(m, f) \ D
    <3>1. \A r \in RowIds : r \in Standing(m, f)' <=> r \in Standing(m, f) \ D
      BY <1>1, <2>3, <2>4 DEF Standing
    <3>2. Standing(m, f)' \subseteq RowIds /\ Standing(m, f) \subseteq RowIds
      BY DEF Standing, ForMsg
    <3>. QED  BY <3>1, <3>2
  <2>6. LiveRows(m)' \subseteq LiveRows(m)
    BY <2>3, <2>4 DEF LiveRows, ForMsg
  <2>7. Standing(m, f) \ D \in SUBSET RowIds
    BY DEF Standing, ForMsg
  <2>8. Stacked(mail.flag, mail.payload, Standing(m, f) \ D, LiveRows(m)', m, f)
    BY <2>2, <2>6 DEF Stacked
  <2>9. Stacked(flag', payload', Standing(m, f)', LiveRows(m)', m, f)
    BY <2>5, <2>8
  <2>. QED  BY <2>9 DEF Stacked, Top, Below
<1>. QED  BY <1>2, <1>4, <1>5 DEF MailInv, StacksFit

\* A row inserted: a toggle on top, or no toggle at all.
LEMMA InsertKeeps ==
  ASSUME MailInv, NEW r \in RowIds, NEW msg \in Msgs,
         NEW k \in {"delete", "archive", "move", "flags"}, NEW w \in BOOLEAN, Insert(r, k, w),
         NEW p, IsPayload(p), p.msg = msg, DOMAIN p.prev = DOMAIN p.set,
         k # "flags" => DOMAIN p.set = {},
         payload' = [payload EXCEPT ![r] = p], FlagsFit(flag'),
         \A m \in Msgs, f \in Flags :
           flag'[m][f] = IF m = msg /\ f \in DOMAIN p.set THEN p.set[f] ELSE flag[m][f],
         \A f \in Flags : f \in DOMAIN p.set => p.prev[f] = flag[msg][f]
  PROVE  MailInv'
<1>1. /\ Fresh(r) /\ rows'[r].kind = k /\ rows'[r].status \in Live
      /\ undone' = undone
      /\ \A q \in RowIds \ {r} : Calm(q)
      /\ EnqueueWindowed(r, k) \/ EnqueueNow(r, k)
  BY InsertedRow DEF MailInv
<1>2. IInv'
  <2>1. k \in Kinds
    BY <1>1 DEF EnqueueWindowed, EnqueueNow
  <2>. QED  BY <1>1, <2>1, EnqueueKeeps DEF MailInv
<1>3. /\ payload'[r] = p /\ \A q \in RowIds \ {r} : payload'[q] = payload[q]
      /\ payload' = [q \in RowIds |-> payload'[q]]
  BY DEF MailInv, PayloadsFit
<1>4. PayloadsFit(payload)' /\ FlagsFit(flag)'
  BY <1>3 DEF MailInv, PayloadsFit, FlagsFit
<1>5. \A q \in RowIds : rows[q].status # "none" => q < r
  <2>1. rows[r].status = "none"
    BY <1>1 DEF Fresh
  <2>2. \A q \in RowIds : r < q => rows[q].status = "none"
    BY <2>1 DEF MailInv, RowsFit
  <2>3. \A q \in RowIds : q \in Nat /\ r \in Nat
    BY RowNumbers
  <2>4. \A q \in RowIds : q < r \/ q = r \/ r < q
    BY <2>3
  <2>. QED  BY <2>1, <2>2, <2>4
<1>6. RowsFit'
  <2>1. \A q, x \in RowIds : q < x /\ rows'[q].status = "none" => rows'[x].status = "none"
    <3>1. SUFFICES ASSUME NEW q \in RowIds, NEW x \in RowIds, q < x, rows'[q].status = "none"
                   PROVE  rows'[x].status = "none"
      OBVIOUS
    <3>2. q # r /\ rows[q].status = "none"
      BY <1>1, <3>1 DEF Calm, Live
    <3>3. rows[x].status = "none"
      BY <3>1, <3>2 DEF MailInv, RowsFit
    <3>4. x # r
      <4>1. ~ (q < r)
        BY <1>1, <3>2 DEF Fresh
      <4>. QED  BY <3>1, <4>1
    <3>. QED  BY <1>1, <3>3, <3>4 DEF Calm, Live
  <2>2. \A q \in RowIds : rows'[q].kind # "flags" => DOMAIN payload'[q].set = {}
    BY <1>1, <1>3 DEF MailInv, RowsFit, Calm
  <2>. QED  BY <2>1, <2>2 DEF RowsFit
<1>7. ASSUME NEW m \in Msgs, AllInverted(m)', NEW f \in Flags
      PROVE  Stacked(flag, payload, Standing(m, f), LiveRows(m), m, f)'
  <2>1. rows[r].status = "none" /\ r \notin Standing(m, f) /\ r \notin LiveRows(m)
    BY <1>1 DEF Fresh, Standing, LiveRows, Live
  <2>2. \A q \in RowIds \ {r} :
          /\ q \in ForMsg(m)' <=> q \in ForMsg(m)
          /\ q \in Standing(m, f)' <=> q \in Standing(m, f)
          /\ q \in LiveRows(m)' <=> q \in LiveRows(m)
    BY <1>1, <1>3 DEF Standing, LiveRows, ForMsg, Calm, Live
  <2>3. /\ Standing(m, f) \subseteq RowIds /\ Standing(m, f)' \subseteq RowIds
        /\ LiveRows(m)' \subseteq RowIds
    BY DEF Standing, LiveRows, ForMsg
  <2>4. AllInverted(m)
    <3>1. ASSUME NEW q \in ForMsg(m), rows[q].status \in {"canceled", "dead"}  PROVE undone[q]
      <4>1. q \in RowIds \ {r}
        BY <2>1, <3>1 DEF ForMsg
      <4>2. rows'[q].status = rows[q].status /\ q \in ForMsg(m)'
        BY <1>1, <2>2, <3>1, <4>1 DEF Calm, Live
      <4>. QED  BY <1>1, <1>7, <3>1, <4>2 DEF AllInverted
    <3>. QED  BY <3>1 DEF AllInverted
  <2>5. Stacked(flag, payload, Standing(m, f), LiveRows(m), m, f)
    BY <2>4 DEF MailInv, StacksFit
  <2>6. \A q \in Standing(m, f) : q # r /\ q < r /\ payload'[q] = payload[q]
    BY <1>3, <1>5, <2>1, <2>3 DEF Standing, Live
  <2>7. CASE m = msg /\ f \in DOMAIN p.set
    <3>1. r \in Standing(m, f)'
      BY <1>1, <1>3, <2>7 DEF Standing, ForMsg
    <3>2. Standing(m, f)' = Standing(m, f) \cup {r} /\ LiveRows(m)' \subseteq LiveRows(m) \cup {r}
      BY <2>2, <2>3, <3>1
    <3>3. flag'[m][f] = payload'[r].set[f] /\ payload'[r].prev[f] = flag[m][f]
      BY <1>3, <2>7
    <3>4. /\ \A q \in Standing(m, f) : q < r
          /\ \A q \in Standing(m, f) : payload'[q].set = payload[q].set /\ payload'[q].prev = payload[q].prev
          /\ Standing(m, f) \in SUBSET RowIds
      BY <2>3, <2>6
    <3>. DEFINE S == Standing(m, f)
                L == LiveRows(m)
                K == LiveRows(m)'
                fl2 == flag'
                pl2 == payload'
    <3>5. Stacked(fl2, pl2, S \cup {r}, K, m, f)
      <4>1. Stacked(flag, payload, S, L, m, f) /\ K \subseteq L \cup {r} /\ S \in SUBSET RowIds
        BY <2>5, <3>2, <3>4
      <4>2. fl2[m][f] = pl2[r].set[f] /\ pl2[r].prev[f] = flag[m][f]
        BY <3>3
      <4>3. \A q \in S : q < r
        BY <3>4
      <4>4. \A q \in S : pl2[q].set = payload[q].set /\ pl2[q].prev = payload[q].prev
        BY <3>4
      <4>. HIDE DEF S, L, K, fl2, pl2
      <4>. QED  BY <4>1, <4>2, <4>3, <4>4, StackGrows
    <3>6. Stacked(flag', payload', Standing(m, f)', LiveRows(m)', m, f)
      BY <3>2, <3>5
    <3>. QED  BY <3>6 DEF Stacked, Top, Below
  <2>8. CASE ~ (m = msg /\ f \in DOMAIN p.set)
    <3>1. r \notin Standing(m, f)'
      BY <1>3, <2>8 DEF Standing, ForMsg
    <3>2. Standing(m, f)' = Standing(m, f)
      <4>1. \A q \in RowIds : q \in Standing(m, f)' <=> q \in Standing(m, f)
        BY <2>1, <2>2, <3>1
      <4>. QED  BY <2>3, <4>1
    <3>3. flag'[m][f] = flag[m][f]
      BY <2>8
    <3>. DEFINE S == Standing(m, f)
                L == LiveRows(m)
                K == LiveRows(m)'
                fl2 == flag'
                pl2 == payload'
    <3>4. Stacked(fl2, pl2, S, K, m, f)
      <4>1. Stacked(flag, payload, S, L, m, f) /\ S \in SUBSET RowIds /\ fl2[m][f] = flag[m][f]
        BY <2>3, <2>5, <3>3
      <4>2. S \cap K \subseteq L
        BY <2>1, <2>2, <2>3
      <4>3. \A q \in S : pl2[q].set = payload[q].set
        BY <2>6
      <4>4. \A q \in S \cap K : pl2[q].prev[f] = payload[q].prev[f]
        BY <2>6
      <4>. HIDE DEF S, L, K, fl2, pl2
      <4>. QED  BY <4>1, <4>2, <4>3, <4>4, StackStays
    <3>5. Stacked(flag', payload', Standing(m, f)', LiveRows(m)', m, f)
      BY <3>2, <3>4
    <3>. QED  BY <3>5 DEF Stacked, Top, Below
  <2>. QED  BY <2>7, <2>8
<1>. QED  BY <1>2, <1>4, <1>6, <1>7 DEF MailInv, StacksFit

LEMMA RevertComes ==
  ASSUME NEW mail, Comes(mail), NEW r \in RowIds
  PROVE  Comes(RevertIntent(mail, r))
BY OtherReverts, FlagReverts

\* The inverses in turn take their rows from every stack.
LEMMA RevertsInTurn ==
  ASSUME RowsFit, Comes(Mail), NEW D \in SUBSET RowIds, \A r \in D : rows[r].status \in Live
  PROVE  LET mail == RevertAll(Mail, D) IN
         /\ Comes(mail)
         /\ \A m \in Msgs, f \in Flags :
              Stacked(flag, payload, Standing(m, f), LiveRows(m), m, f) =>
              Stacked(mail.flag, mail.payload, Standing(m, f) \ D, LiveRows(m), m, f)
<1>. DEFINE Rest(m, f, n) == Standing(m, f) \ {q \in D : q <= n}
<1>1. PICK u : RevertAll(Mail, D) = u[MaxRows] /\ Turns(u, MaxRows, Mail, D)
  BY AllTurns
<1>. DEFINE Good(n) == /\ Comes(u[n])
                       /\ \A m \in Msgs, f \in Flags :
                            Stacked(flag, payload, Standing(m, f), LiveRows(m), m, f) =>
                            Stacked(u[n].flag, u[n].payload, Rest(m, f, n), LiveRows(m), m, f)
            Bad == {n \in 0 .. MaxRows : ~ Good(n)}
<1>2. MaxRows \in Nat /\ RowIds \subseteq Nat /\ \A q \in RowIds : q > 0 /\ q <= MaxRows
  BY QueueAssumption DEF RowIds
<1>3. \A m, f : Standing(m, f) \in SUBSET RowIds
  BY DEF Standing, ForMsg
<1>4. /\ u[0] = Mail
      /\ \A n \in 1 .. MaxRows : u[n] = IF n \in D THEN RevertIntent(u[n - 1], n) ELSE u[n - 1]
  BY <1>1, <1>2 DEF Turns
<1>5. Good(0)
  <2>1. \A m, f : Rest(m, f, 0) = Standing(m, f)
    <3>1. \A q \in D : ~ (q <= 0)
      BY <1>2
    <3>. QED  BY <3>1
  <2>2. Mail.flag = flag /\ Mail.payload = payload
    BY DEF Mail
  <2>. HIDE DEF Rest
  <2>. QED  BY <1>4, <2>1, <2>2
<1>6. ASSUME NEW n \in 1 .. MaxRows, Good(n - 1)  PROVE Good(n)
  <2>1. n \in RowIds /\ n \in Nat /\ n - 1 \in Nat
    BY <1>2 DEF RowIds
  <2>2. \A q \in D : q <= n <=> q <= n - 1 \/ q = n
    BY <1>2, <2>1
  <2>3. CASE n \in D
    <3>1. u[n] = RevertIntent(u[n - 1], n) /\ Comes(u[n - 1]) /\ rows[n].status \in Live
      BY <1>4, <1>6, <2>3
    <3>2. Comes(u[n])
      BY <2>1, <3>1, RevertComes
    <3>3. ASSUME NEW m \in Msgs, NEW f \in Flags,
                 Stacked(flag, payload, Standing(m, f), LiveRows(m), m, f)
          PROVE  Stacked(u[n].flag, u[n].payload, Rest(m, f, n), LiveRows(m), m, f)
      <4>1. Rest(m, f, n) = Rest(m, f, n - 1) \ {n}
        BY <2>2, <2>3
      <4>2. Rest(m, f, n - 1) \in SUBSET Standing(m, f)
        OBVIOUS
      <4>3. \A q \in Standing(m, f) : q >= n => q \in Rest(m, f, n - 1)
        <5>1. \A q \in Standing(m, f) : q \in Nat
          BY <1>2, <1>3
        <5>2. \A q \in Nat : q >= n => ~ (q <= n - 1)
          BY <2>1
        <5>. QED  BY <5>1, <5>2
      <4>4. Stacked(u[n - 1].flag, u[n - 1].payload, Rest(m, f, n - 1), LiveRows(m), m, f)
        BY <1>6, <3>3
      <4>. HIDE DEF Rest
      <4>5. Stacked(u[n].flag, u[n].payload, Rest(m, f, n - 1) \ {n}, LiveRows(m), m, f)
        BY <2>1, <3>1, <4>2, <4>3, <4>4, RevertStep
      <4>. QED  BY <4>1, <4>5
    <3>. QED  BY <3>2, <3>3
  <2>4. CASE n \notin D
    <3>1. u[n] = u[n - 1]
      BY <1>4, <2>4
    <3>2. \A m, f : Rest(m, f, n) = Rest(m, f, n - 1)
      BY <2>2, <2>4
    <3>. HIDE DEF Rest
    <3>. QED  BY <1>6, <3>1, <3>2
  <2>. QED  BY <2>3, <2>4
<1>7. Bad = {}
  <2>1. SUFFICES ASSUME Bad # {}  PROVE FALSE
    OBVIOUS
  <2>2. Bad \in SUBSET Nat
    BY <1>2
  <2>3. PICK n \in Bad : \A x \in Bad : n <= x
    <3>. HIDE DEF Bad
    <3>. QED  BY <2>1, <2>2, LeastNatural
  <2>. HIDE DEF Good
  <2>4. n # 0 /\ n \in 1 .. MaxRows /\ n - 1 \in 0 .. MaxRows /\ ~ (n <= n - 1)
    BY <1>2, <1>5, <2>3
  <2>5. Good(n - 1)
    BY <2>3, <2>4
  <2>. QED  BY <1>6, <2>3, <2>4, <2>5
<1>8. Good(MaxRows)
  <2>. HIDE DEF Good
  <2>. QED  BY <1>2, <1>7
<1>9. \A m, f : Rest(m, f, MaxRows) = Standing(m, f) \ D
  BY <1>2
<1>. HIDE DEF Rest
<1>. QED  BY <1>1, <1>8, <1>9

-----------------------------------------------------------------------------
(* The invariant of the mailbox is inductive *)

LEMMA DeleteKeeps ==
  ASSUME MailInv, NEW r \in RowIds, NEW m \in Msgs, NEW w \in BOOLEAN,
         \/ Delete(r, m, w) \/ Archive(r, m, w) \/ RuleSpam(r, m)
         \/ \E dest \in {"junk", "inbox"} : Move(r, m, dest)
  PROVE  MailInv'
<1>1. \E k \in {"delete", "archive", "move"}, x \in BOOLEAN :
        /\ Insert(r, k, x)
        /\ \E p : /\ payload' = [payload EXCEPT ![r] = p] /\ flag' = flag
                  /\ IsPayload(p) /\ p.msg = m /\ p.set = NoFlags /\ p.prev = NoFlags
  <2>1. CASE Delete(r, m, w)
    <3>1. /\ Insert(r, "delete", w) /\ flag' = flag
          /\ payload' = [payload EXCEPT ![r] = [Payload(m) EXCEPT !.wasDeleted = tomb[m]]]
      BY <2>1 DEF Delete
    <3>. DEFINE p == [Payload(m) EXCEPT !.wasDeleted = tomb[m]]
    <3>2. IsPayload(p) /\ p.msg = m /\ p.set = NoFlags /\ p.prev = NoFlags
      BY DEF Payload, IsPayload, PayloadFields
    <3>. HIDE DEF p
    <3>3. Insert(r, "delete", w) /\ flag' = flag /\ payload' = [payload EXCEPT ![r] = p]
      BY <3>1 DEF p
    <3>. QED  BY <3>2, <3>3
  <2>2. ASSUME NEW k \in {"archive", "move"}, NEW x \in BOOLEAN, NEW from, NEW dest,
               Insert(r, k, x), Relocate(r, m, from, dest)
        PROVE  \E p : /\ payload' = [payload EXCEPT ![r] = p] /\ flag' = flag
                      /\ IsPayload(p) /\ p.msg = m /\ p.set = NoFlags /\ p.prev = NoFlags
    <3>1. PICK a, b, c :
            payload' = [payload EXCEPT ![r] = [Payload(m) EXCEPT !.from = a, !.dest = b, !.added = c]]
      BY <2>2 DEF Relocate
    <3>2. flag' = flag
      BY <2>2 DEF Relocate
    <3>. DEFINE p == [Payload(m) EXCEPT !.from = a, !.dest = b, !.added = c]
    <3>3. IsPayload(p) /\ p.msg = m /\ p.set = NoFlags /\ p.prev = NoFlags
      BY DEF Payload, IsPayload, PayloadFields
    <3>. HIDE DEF p
    <3>4. payload' = [payload EXCEPT ![r] = p]
      BY <3>1 DEF p
    <3>. QED  BY <3>2, <3>3, <3>4
  <2>3. CASE Archive(r, m, w)
    BY <2>2, <2>3 DEF Archive
  <2>4. CASE RuleSpam(r, m)
    BY <2>2, <2>4 DEF RuleSpam
  <2>5. CASE \E dest \in {"junk", "inbox"} : Move(r, m, dest)
    <3>1. PICK dest, from : Insert(r, "move", TRUE) /\ Relocate(r, m, from, dest)
      BY <2>5 DEF Move
    <3>. QED  BY <2>2, <3>1
  <2>. QED  BY <2>1, <2>3, <2>4, <2>5
<1>2. PICK k \in {"delete", "archive", "move"}, x \in BOOLEAN :
        /\ Insert(r, k, x)
        /\ \E p : /\ payload' = [payload EXCEPT ![r] = p] /\ flag' = flag
                  /\ IsPayload(p) /\ p.msg = m /\ p.set = NoFlags /\ p.prev = NoFlags
  BY <1>1
<1>3. PICK p : /\ payload' = [payload EXCEPT ![r] = p] /\ flag' = flag
               /\ IsPayload(p) /\ p.msg = m /\ p.set = NoFlags /\ p.prev = NoFlags
  BY <1>2
<1>4. FlagsFit(flag') /\ DOMAIN NoFlags = {}
  BY <1>3 DEF MailInv, FlagsFit, NoFlags
<1>5. /\ DOMAIN p.set = {} /\ DOMAIN p.prev = DOMAIN p.set
      /\ \A y \in Msgs, f \in Flags :
           flag'[y][f] = IF y = m /\ f \in DOMAIN p.set THEN p.set[f] ELSE flag[y][f]
      /\ \A f \in Flags : f \in DOMAIN p.set => p.prev[f] = flag[m][f]
  BY <1>3, <1>4
<1>6. k \in {"delete", "archive", "move", "flags"} /\ Insert(r, k, x)
  BY <1>2
<1>. QED  BY <1>3, <1>4, <1>5, <1>6, InsertKeeps

LEMMA ToggleKeeps ==
  ASSUME MailInv, NEW r \in RowIds, NEW m \in Msgs, NEW set \in FlagSets, Toggle(r, m, set)
  PROVE  MailInv'
<1>. DEFINE prev == [f \in DOMAIN set |-> flag[m][f]]
            p == [Payload(m) EXCEPT !.set = set, !.prev = prev]
<1>1. /\ Insert(r, "flags", FALSE) /\ payload' = [payload EXCEPT ![r] = p]
      /\ flag' = [flag EXCEPT ![m] = [f \in Flags |-> IF f \in DOMAIN set THEN set[f] ELSE flag[m][f]]]
  BY DEF Toggle
<1>2. DOMAIN prev = DOMAIN set /\ \A f \in DOMAIN set : prev[f] = flag[m][f]
  OBVIOUS
<1>3. FlagsFit(flag')
  BY <1>1 DEF MailInv, FlagsFit
<1>4. \A x \in Msgs, f \in Flags :
        flag'[x][f] = IF x = m /\ f \in DOMAIN set THEN set[f] ELSE flag[x][f]
  BY <1>1 DEF MailInv, FlagsFit
<1>. HIDE DEF prev
<1>5. IsPayload(p) /\ p.msg = m /\ p.set = set /\ p.prev = prev
  BY DEF Payload, IsPayload, PayloadFields
<1>. HIDE DEF p
<1>6. DOMAIN p.prev = DOMAIN p.set /\ \A f \in Flags : f \in DOMAIN p.set => p.prev[f] = flag[m][f]
  BY <1>2, <1>5
<1>7. \A x \in Msgs, f \in Flags :
        flag'[x][f] = IF x = m /\ f \in DOMAIN p.set THEN p.set[f] ELSE flag[x][f]
  BY <1>4, <1>5
<1>. QED  BY <1>1, <1>3, <1>5, <1>6, <1>7, InsertKeeps

\* No row ends and no payload changes.
LEMMA CalmKeeps ==
  ASSUME MailInv, IInv', \A r \in RowIds : Calm(r), UNCHANGED <<flag, payload>>
  PROVE  MailInv'
<1>1. Comes(Mail) /\ Mail.flag = flag /\ Mail.payload = payload
  BY MailComes DEF Mail
<1>2. \A m \in Msgs, f \in Flags : AllInverted(m) =>
        Stacked(flag, payload, Standing(m, f) \ {}, LiveRows(m), m, f)
  <2>1. \A m, f : Standing(m, f) \ {} = Standing(m, f)
    OBVIOUS
  <2>. QED  BY <2>1 DEF MailInv, StacksFit
<1>3. flag' = Mail.flag /\ payload' = Mail.payload
  BY <1>1
<1>. QED  BY <1>1, <1>2, <1>3, EndsKeep

LEMMA QuietKeeps ==
  ASSUME MailInv, UNCHANGED <<flag, payload>>,
         \/ Tick \/ PassEnds \/ FlagsBegin
         \/ \E r \in RowIds : DueElapses(r) \/ BackoffElapses(r) \/ RowBegin(r)
  PROVE  MailInv'
<1>1. IInv'
  BY PassKeeps, RowStepKeeps DEF MailInv, RowBeginAny
<1>2. \A r \in RowIds : Calm(r)
  BY QuietRows DEF MailInv
<1>. QED  BY <1>1, <1>2, CalmKeeps

LEMMA CancelIntentKeeps ==
  ASSUME MailInv, NEW r \in RowIds, CancelIntent(r)
  PROVE  MailInv'
<1>. DEFINE mail == RevertIntent(Mail, r)
<1>1. /\ Cancel(r) /\ rows[r].status = "pending" /\ rows[r].status \in Live
      /\ flag' = mail.flag /\ payload' = mail.payload
  BY DEF CancelIntent, Becomes, Cancel, Live
<1>2. IInv'
  BY <1>1, CancelKeeps DEF MailInv
<1>3. /\ rows'[r].kind = rows[r].kind /\ rows'[r].status = "canceled"
      /\ \A q \in RowIds \ {r} : Calm(q)
  BY <1>1, CanceledRow DEF MailInv
<1>4. Comes(Mail) /\ Comes(mail) /\ Mail.flag = flag /\ Mail.payload = payload
  BY MailComes, RevertComes DEF Mail
<1>5. \A m \in Msgs, f \in Flags : AllInverted(m) =>
        Stacked(mail.flag, mail.payload, Standing(m, f) \ {r}, LiveRows(m), m, f)
  <2>1. SUFFICES ASSUME NEW m \in Msgs, NEW f \in Flags, AllInverted(m)
                 PROVE  Stacked(mail.flag, mail.payload, Standing(m, f) \ {r}, LiveRows(m), m, f)
    OBVIOUS
  <2>2. Stacked(Mail.flag, Mail.payload, Standing(m, f), LiveRows(m), m, f)
    BY <1>4, <2>1 DEF MailInv, StacksFit
  <2>3. RowsFit
    BY DEF MailInv
  <2>. QED  BY <1>1, <1>4, <2>2, <2>3, RevertStep
<1>. HIDE DEF mail
<1>6. \A q \in {r} : /\ rows[q].status \in Live /\ rows'[q].status \in {"canceled", "dead"}
                     /\ rows'[q].kind = rows[q].kind
  BY <1>1, <1>3
<1>. QED  BY <1>1, <1>2, <1>3, <1>4, <1>5, <1>6, EndsKeep

\* Rows settle and the inverses of the dead ones run in turn.
LEMMA SettledMailKeeps ==
  ASSUME MailInv, NEW o \in [calling -> Answers], Settle(o),
         NEW mail, Comes(mail), flag' = mail.flag, payload' = mail.payload,
         \A m \in Msgs, f \in Flags :
           Stacked(flag, payload, Standing(m, f), LiveRows(m), m, f) =>
           Stacked(mail.flag, mail.payload, Standing(m, f) \ DeadRows(o), LiveRows(m), m, f)
  PROVE  MailInv'
<1>. DEFINE D == DeadRows(o)
<1>1. IInv'
  BY SettleKeeps DEF MailInv
<1>2. /\ D \in SUBSET RowIds
      /\ \A r \in D : /\ rows[r].status \in Live /\ rows'[r].status = "dead"
                      /\ rows'[r].kind = rows[r].kind
      /\ \A r \in RowIds \ D :
           \/ Calm(r)
           \/ /\ rows[r].status \in Live /\ rows'[r].status = "done"
              /\ rows'[r].kind = rows[r].kind /\ undone'[r] = undone[r]
  BY SettledRows DEF MailInv
<1>3. \A m \in Msgs, f \in Flags : AllInverted(m) =>
        Stacked(mail.flag, mail.payload, Standing(m, f) \ D, LiveRows(m), m, f)
  BY DEF MailInv, StacksFit
<1>. HIDE DEF D
<1>. QED  BY <1>1, <1>2, <1>3, EndsKeep

LEMMA SettleFlagsKeeps ==
  ASSUME MailInv, SettleFlags
  PROVE  MailInv'
<1>1. PICK res \in StoreResults :
        LET o == [r \in calling |-> FlagsOutcome(res, r)] IN
        Settle(o) /\ Becomes(RevertAll(Mail, DeadRows(o)))
  BY DEF SettleFlags
<1>. DEFINE o == [r \in calling |-> FlagsOutcome(res, r)]
            mail == RevertAll(Mail, DeadRows(o))
<1>2. Settle(o) /\ flag' = mail.flag /\ payload' = mail.payload
  BY <1>1 DEF Becomes
<1>3. o \in [calling -> Answers]
  BY DEF FlagsOutcome, Answers
<1>. HIDE DEF o
<1>4. DeadRows(o) \in SUBSET RowIds /\ \A r \in DeadRows(o) : rows[r].status \in Live
  BY <1>2, <1>3, SettledRows DEF MailInv
<1>5. RowsFit /\ Comes(Mail)
  BY MailComes DEF MailInv
<1>6. /\ Comes(mail)
      /\ \A m \in Msgs, f \in Flags :
           Stacked(flag, payload, Standing(m, f), LiveRows(m), m, f) =>
           Stacked(mail.flag, mail.payload, Standing(m, f) \ DeadRows(o), LiveRows(m), m, f)
  BY <1>4, <1>5, RevertsInTurn
<1>. HIDE DEF mail
<1>. QED  BY <1>2, <1>3, <1>6, SettledMailKeeps

LEMMA SettleRowKeeps ==
  ASSUME MailInv, NEW r \in RowIds, NEW a \in Outcomes, SettleRow(r, a)
  PROVE  MailInv'
<1>. DEFINE o == [q \in {r} |-> a]
            mail == IF Marked(rows[r], a).status = "dead" THEN RevertIntent(Mail, r) ELSE Mail
<1>1. /\ calling = {r} /\ Settle(o)
      /\ flag' = mail.flag /\ payload' = mail.payload
  BY DEF SettleRow, Becomes, Mail
<1>2. o \in [calling -> Answers]
  BY <1>1, OutcomeNames
<1>3. RowsFit /\ Comes(Mail) /\ Mail.flag = flag /\ Mail.payload = payload
  BY MailComes DEF MailInv, Mail
<1>4. Comes(mail)
  BY <1>3, RevertComes
<1>5. DeadRows(o) = IF Marked(rows[r], a).status = "dead" THEN {r} ELSE {}
  BY DEF DeadRows
<1>6. ASSUME NEW m \in Msgs, NEW f \in Flags,
             Stacked(flag, payload, Standing(m, f), LiveRows(m), m, f)
      PROVE  Stacked(mail.flag, mail.payload, Standing(m, f) \ DeadRows(o), LiveRows(m), m, f)
  <2>1. CASE Marked(rows[r], a).status = "dead"
    <3>1. rows[r].status \in Live
      <4>1. rows[r].status = "sending"
        BY <1>1 DEF MailInv, IInv, TypeOK, HeldRows
      <4>. QED  BY <4>1 DEF Live
    <3>2. Stacked(Mail.flag, Mail.payload, Standing(m, f), LiveRows(m), m, f)
      BY <1>3, <1>6
    <3>3. mail = RevertIntent(Mail, r) /\ DeadRows(o) = {r}
      BY <1>5, <2>1
    <3>. HIDE DEF mail
    <3>. QED  BY <1>3, <3>1, <3>2, <3>3, RevertStep
  <2>2. CASE Marked(rows[r], a).status # "dead"
    <3>1. mail = Mail /\ Standing(m, f) \ DeadRows(o) = Standing(m, f)
      BY <1>5, <2>2
    <3>. HIDE DEF mail
    <3>. QED  BY <1>3, <1>6, <3>1
  <2>. QED  BY <2>1, <2>2
<1>. HIDE DEF o, mail
<1>. QED  BY <1>1, <1>2, <1>4, <1>6, SettledMailKeeps

\* The process dies: what it was told of the provider is lost, the queue is not.
LEMMA SlippedIsOutstanding ==
  ASSUME NEW srv, Slipped(srv)
  PROVE  Outstanding
BY DEF Slipped, Outstanding

LEMMA CrashMailKeeps ==
  ASSUME MailInv, CrashMail
  PROVE  MailInv'
<1>1. Reboot(rows) /\ Outstanding /\ UNCHANGED <<flag, payload>>
  BY SlippedIsOutstanding DEF CrashMail
<1>2. IInv'
  BY <1>1, CrashKeeps DEF MailInv, Crash
<1>3. \A r \in RowIds : Calm(r)
  <2>1. rows \in [RowIds -> Row] /\ undone' = undone
    BY <1>1 DEF MailInv, IInv, TypeOK, Outstanding
  <2>. QED  BY <1>1, <2>1, RebootCalm DEF Calm, Live
<1>. QED  BY <1>1, <1>2, <1>3, CalmKeeps

\* A crash that swallows a toggle's inverse takes its message out of account.
LEMMA CrashInUndoKeeps ==
  ASSUME MailInv, NEW r \in RowIds, CrashInUndo(r)
  PROVE  MailInv'
<1>1. /\ rows[r].status = "pending" /\ rows[r].status \in Live
      /\ Reboot([rows EXCEPT ![r].status = "canceled"])
      /\ Outstanding /\ undone' = undone /\ UNCHANGED <<flag, payload>>
  BY SlippedIsOutstanding DEF CrashInUndo, Outstanding, Live
<1>2. IInv'
  BY <1>1, CrashKeeps DEF MailInv, CrashInCancel
<1>3. /\ rows'[r].kind = rows[r].kind /\ rows'[r].status = "canceled"
      /\ \A q \in RowIds \ {r} : Calm(q)
  BY <1>1, CanceledRow DEF MailInv
<1>4. ~ undone'[r]
  BY <1>1 DEF MailInv, IInv, InverseMatchesEnd
<1>5. Comes(Mail) /\ flag' = Mail.flag /\ payload' = Mail.payload /\ Mail.flag = flag /\ Mail.payload = payload
  BY <1>1, MailComes DEF Mail
<1>6. ASSUME NEW m \in Msgs, NEW f \in Flags, AllInverted(m), AllInverted(m)'
      PROVE  Stacked(flag, payload, Standing(m, f) \ {r}, LiveRows(m), m, f)
  <2>1. r \notin ForMsg(m)
    <3>1. r \notin ForMsg(m)'
      BY <1>3, <1>4, <1>6 DEF AllInverted
    <3>. QED  BY <1>1, <1>3, <3>1 DEF ForMsg
  <2>2. Standing(m, f) \ {r} = Standing(m, f)
    BY <2>1 DEF Standing
  <2>. QED  BY <1>6, <2>2 DEF MailInv, StacksFit
<1>7. \A q \in {r} : /\ rows[q].status \in Live /\ rows'[q].status \in {"canceled", "dead"}
                     /\ rows'[q].kind = rows[q].kind
  BY <1>1, <1>3
<1>. QED  BY <1>2, <1>3, <1>5, <1>6, <1>7, EndsKeep

LEMMA MailSteps == MailInv /\ [MailNext]_allVars => MailInv'
<1>. SUFFICES ASSUME MailInv, [MailNext]_allVars  PROVE MailInv'
  OBVIOUS
<1>1. CASE MailCallback
  <2>1. CASE \E r \in RowIds, m \in Msgs :
               \/ \E w \in BOOLEAN : Delete(r, m, w) \/ Archive(r, m, w)
               \/ \E dest \in {"junk", "inbox"} : Move(r, m, dest)
               \/ RuleSpam(r, m)
    BY <2>1, DeleteKeeps
  <2>2. CASE \E r \in RowIds, m \in Msgs : \E set \in FlagSets : Toggle(r, m, set)
    BY <2>2, ToggleKeeps
  <2>3. CASE \E r \in RowIds : CancelIntent(r) \/ CrashInUndo(r)
    BY <2>3, CancelIntentKeeps, CrashInUndoKeeps
  <2>4. CASE Quietly(Tick)
    BY <2>4, QuietKeeps DEF Quietly, mailVars
  <2>. QED  BY <1>1, <2>1, <2>2, <2>3, <2>4 DEF MailCallback
<1>2. CASE \/ \E r \in RowIds : Quietly(DueElapses(r)) \/ Quietly(BackoffElapses(r))
           \/ Quietly(PassEnds)
  BY <1>2, QuietKeeps DEF Quietly, mailVars
<1>3. CASE BeginFlags \/ \E r \in RowIds : BeginRow(r)
  BY <1>3, QuietKeeps DEF BeginFlags, BeginRow
<1>4. CASE SettleFlags
  BY <1>4, SettleFlagsKeeps
<1>5. CASE \E r \in RowIds, a \in Outcomes : SettleRow(r, a)
  BY <1>5, SettleRowKeeps
<1>6. CASE CrashMail
  BY <1>6, CrashMailKeeps
<1>7. CASE UNCHANGED allVars
  <2>1. UNCHANGED vars /\ UNCHANGED <<flag, payload>>
    BY <1>7 DEF allVars, mailVars
  <2>2. IInv'
    BY <2>1, StepIInv DEF MailInv
  <2>3. \A r \in RowIds : Calm(r)
    BY <2>1 DEF vars, queueVars, seenVars, Calm
  <2>. QED  BY <2>1, <2>2, <2>3, CalmKeeps
<1>. QED  BY <1>1, <1>2, <1>3, <1>4, <1>5, <1>6, <1>7 DEF MailNext

LEMMA MailInvariance == MailFairSpec => []MailInv
BY MailStarts, MailSteps, PTL DEF MailFairSpec, MailSpec

\* Whatever toggles of a message are made, undone and fail, in whatever order
\* and however often they are retried, every flag has the value of the newest
\* toggle that stands: revertFlags' inheritance of the older value down any
\* stack.
THEOREM TogglesUnwind == MailFairSpec => []NewestStandingToggleRules
<1>1. MailInv => NewestStandingToggleRules
  <2>. SUFFICES ASSUME MailInv, NEW m \in Msgs, AllInverted(m), NEW f \in Flags
                PROVE  LET standing == {r \in ForMsg(m) : /\ f \in DOMAIN payload[r].set
                                                         /\ rows[r].status \in Live \cup {"done"}}
                       IN flag[m][f] = IF standing = {} THEN FALSE ELSE payload[Max(standing)].set[f]
    BY DEF NewestStandingToggleRules
  <2>1. flag[m][f] = Top(payload, Standing(m, f), f)
    BY DEF MailInv, StacksFit, Stacked
  <2>. QED  BY <2>1 DEF Top, Standing
<1>. QED  BY <1>1, MailInvariance, PTL

\* What the rows do is a step of the queue, or a settling whose rows may learn of a STORE
\* that succeeded and another that failed.
LEMMA MailQueueSteps ==
  ASSUME [MailNext]_allVars
  PROVE  [Next]_vars \/ \E o \in [calling -> Answers] : Settle(o)
<1>1. CASE MailCallback
  <2>1. CASE Yielded /\ \E r \in RowIds : \E k, w : Insert(r, k, w)
    BY <2>1 DEF Insert, EnqueueWindowed, EnqueueNow, Next, Callback
  <2>2. CASE Yielded /\ \E r \in RowIds : CancelIntent(r)
    BY <2>2 DEF CancelIntent, Next, Callback
  <2>3. CASE Yielded /\ \E r \in RowIds : CrashInUndo(r)
    BY <2>3, SlippedIsOutstanding DEF CrashInUndo, CrashInCancel, Next, Callback
  <2>4. CASE Yielded /\ Quietly(Tick)
    BY <2>4 DEF Quietly, Next, Callback
  <2>. QED  BY <1>1, <2>1, <2>2, <2>3, <2>4
            DEF MailCallback, Delete, Archive, Move, RuleSpam, Toggle
<1>2. CASE \/ \E r \in RowIds : Quietly(DueElapses(r)) \/ Quietly(BackoffElapses(r))
           \/ Quietly(PassEnds)
  BY <1>2 DEF Quietly, Next
<1>3. CASE BeginFlags \/ \E r \in RowIds : BeginRow(r)
  BY <1>3 DEF BeginFlags, BeginRow, RowBeginAny, Next
<1>4. CASE SettleFlags
  <2>1. PICK res \in StoreResults : Settle([r \in calling |-> FlagsOutcome(res, r)])
    BY <1>4 DEF SettleFlags
  <2>2. [r \in calling |-> FlagsOutcome(res, r)] \in [calling -> Answers]
    BY DEF FlagsOutcome, Answers
  <2>. QED  BY <2>1, <2>2
<1>5. CASE \E r \in RowIds, a \in Outcomes : SettleRow(r, a)
  <2>1. PICK r \in RowIds, a \in Outcomes : calling = {r} /\ Settle([q \in {r} |-> a])
    BY <1>5 DEF SettleRow
  <2>. QED  BY <2>1, OutcomeNames
<1>6. CASE CrashMail
  BY <1>6, SlippedIsOutstanding DEF CrashMail, Crash, Next
<1>7. CASE UNCHANGED allVars
  BY <1>7 DEF allVars
<1>. QED  BY <1>1, <1>2, <1>3, <1>4, <1>5, <1>6, <1>7 DEF MailNext

LEMMA MailNudges == IInv /\ NudgeInv /\ [MailNext]_allVars => NudgeInv'
BY MailQueueSteps, StepNudges, SettleNudges

\* The queue whose rows act on the mailbox keeps what the queue alone keeps:
\* no row is lost, undo and the runner never both win, inverses run at the end
\* and no nudge is forgotten.
THEOREM MailboxKeepsQueue ==
  MailFairSpec => [](SendingIsHeld /\ NeverBothWin /\ InverseMatchesEnd /\ NudgeHonoured)
<1>1. MailInit => NudgeInv
  BY InitNudges DEF MailInit
<1>2. MailInv => IInv /\ SendingIsHeld /\ NeverBothWin /\ InverseMatchesEnd
  BY DEF MailInv, IInv, KnownOrDoubtful, NeverBothWin
<1>. QED  BY <1>1, <1>2, MailInvariance, MailNudges, NudgesHeard, PTL DEF MailFairSpec, MailSpec

-----------------------------------------------------------------------------
(* Where mail is.  As long as one relocation at a time acts on a message   *)
(* whose UID is known, the row that is live knows where it takes it from,  *)
(* the mailbox shows what the row will bring about, and with none live     *)
(* both have it in the same folder.                                        *)

Roles == {"inbox", "archive", "junk", "trash"}

\* Every place is a folder, and the provider's UIDs are numbers above NoUid.
IsPlace(mp) == mp = Mapping(mp.folder, mp.uid) /\ mp.folder \in Roles

IsCopy(c) == c = [folder |-> c.folder, uid |-> c.uid, flags |-> c.flags] /\ c.uid \in Nat \ {0}

PlacesFit ==
  /\ maps = [m \in Msgs |-> maps[m]] /\ \A m \in Msgs : \A mp \in maps[m] : IsPlace(mp)
  /\ tomb = [m \in Msgs |-> tomb[m]]
  /\ tangled = [m \in Msgs |-> tangled[m]]
  /\ server = [m \in Msgs |-> server[m]] /\ \A m \in Msgs : IsCopy(server[m])
  /\ aim = [r \in RowIds |-> aim[r]]
  /\ \A r \in RowIds :
       /\ rows[r].kind # "flags" => aim[r].folder \in Roles
       /\ payload[r].dest \in Roles /\ \A mp \in payload[r].from : IsPlace(mp)

\* A row that was inserted is an action on a message.
KindsFit ==
  \A r \in RowIds :
    IF rows[r].status = "none" THEN rows[r].kind = "none"
    ELSE rows[r].kind \in {"delete", "archive", "move", "flags"} /\ payload[r].msg \in Msgs

\* The runner makes a batch of STOREs, or one other call.
CallsFit == calling = FlagRows(calling) \/ \E r \in calling : calling = {r} /\ rows[r].kind # "flags"

Home(m) == Mapping(server[m].folder, server[m].uid)

Movers(m) == {r \in LiveRows(m) : Relocates(r)}

Rests(m) ==
  /\ maps[m] \in {{Home(m)}, {Mapping(server[m].folder, NoUid)}}
  /\ tomb[m] => server[m].folder = "trash" \/ "trash" \notin Folders

Goes(r, mp) == DestOf(r) \in Folders /\ mp.folder # DestOf(r)

\* Row r is to take m from mp, or did in an attempt that slipped.
Leaving(m, r, mp) ==
  /\ mp.uid # NoUid
  /\ Home(m) = mp \/ (doubtful[r] /\ Goes(r, mp) /\ server[m].folder = DestOf(r))
  /\ r \in calling => aim[r] = IF Goes(r, mp) THEN OnServer(mp) ELSE Nowhere

Deleting(m, r) ==
  /\ rows[r].kind = "delete" /\ tomb[m]
  /\ \E mp \in maps[m] : /\ maps[m] = {mp} /\ Leaving(m, r, mp)
                         /\ payload[r].wasDeleted => mp.folder = "trash" \/ "trash" \notin Folders

Moving(m, r) ==
  /\ rows[r].kind \in {"archive", "move"}
  /\ payload[r].added /\ maps[m] = {Mapping(payload[r].dest, NoUid)}
  /\ tomb[m] => "trash" \notin Folders
  /\ \E mp \in payload[r].from : payload[r].from = {mp} /\ Leaving(m, r, mp) /\ Goes(r, mp)

\* Nothing to move.
Staying(m, r) ==
  /\ rows[r].kind \in {"archive", "move"} /\ payload[r].from = {} /\ Rests(m)
  /\ r \in calling => aim[r] = Nowhere

Placing(m) ==
  /\ Movers(m) = {} => Rests(m)
  /\ \A r \in Movers(m) : Movers(m) = {r} /\ (Deleting(m, r) \/ Moving(m, r) \/ Staying(m, r))

\* What FolderConverges asks of a message's past.
Plain(m) == ~ tangled[m] /\ AllInverted(m) /\ NoDoubtfulLoss(m)

FolderInv ==
  /\ MailInv /\ PlacesFit /\ KindsFit /\ CallsFit
  /\ \A m \in Msgs \ Detached : Plain(m) => Placing(m)

-----------------------------------------------------------------------------
(* What lasts *)

LEMMA PlaceIs ==
  ASSUME NEW a, NEW b
  PROVE  LET mp == Mapping(a, b) IN mp.folder = a /\ mp.uid = b /\ mp = Mapping(mp.folder, mp.uid)
BY DEF Mapping

LEMMA HomeAt ==
  ASSUME NEW m, NEW mp, IsPlace(mp)
  PROVE  Home(m) = mp <=> server[m].folder = mp.folder /\ server[m].uid = mp.uid
BY DEF Home, IsPlace, Mapping

\* Row q keeps how it ended.
EndLasts(q) ==
  rows[q].status \in {"canceled", "dead"} =>
    /\ rows'[q].status = rows[q].status /\ rows'[q].kind = rows[q].kind
    /\ undone'[q] = undone[q] /\ (doubtful[q] => doubtful'[q])

\* What is not plain stays so.
LEMMA PlainBefore ==
  ASSUME NEW m, Plain(m)', tangled[m] => tangled'[m],
         \A q \in ForMsg(m) : EndLasts(q) /\ (rows[q].status \in {"canceled", "dead"} => payload'[q].msg = payload[q].msg)
  PROVE  Plain(m)
<1>1. \A q \in ForMsg(m) : rows[q].status \in {"canceled", "dead"} => q \in ForMsg(m)'
  BY DEF EndLasts, ForMsg
<1>2. AllInverted(m)
  BY <1>1 DEF Plain, AllInverted, EndLasts
<1>3. NoDoubtfulLoss(m)
  BY <1>1 DEF Plain, NoDoubtfulLoss, EndLasts
<1>. QED  BY <1>2, <1>3 DEF Plain

\* A step that does nothing to where m is.
LEMMA PlacingStays ==
  ASSUME NEW m, Placing(m), Movers(m)' = Movers(m),
         maps'[m] = maps[m], tomb'[m] = tomb[m],
         server'[m].folder = server[m].folder, server'[m].uid = server[m].uid,
         \A r \in Movers(m) :
           /\ rows'[r].kind = rows[r].kind /\ (doubtful[r] => doubtful'[r])
           /\ payload'[r].from = payload[r].from /\ payload'[r].dest = payload[r].dest
           /\ payload'[r].added = payload[r].added /\ payload'[r].wasDeleted = payload[r].wasDeleted
           /\ r \in calling' => r \in calling /\ aim'[r] = aim[r]
  PROVE  Placing(m)'
<1>1. Home(m)' = Home(m)
  BY DEF Home
<1>2. Rests(m)' <=> Rests(m)
  BY <1>1 DEF Rests
<1>3. ASSUME NEW r \in Movers(m)
      PROVE  /\ DestOf(r)' = DestOf(r)
             /\ \A mp : Goes(r, mp)' = Goes(r, mp)
             /\ \A mp : Leaving(m, r, mp) => Leaving(m, r, mp)'
  <2>1. DestOf(r)' = DestOf(r)
    BY DEF DestOf
  <2>2. ASSUME NEW mp  PROVE Goes(r, mp)' = Goes(r, mp)
    BY <2>1 DEF Goes
  <2>3. ASSUME NEW mp, Leaving(m, r, mp)  PROVE Leaving(m, r, mp)'
    BY <1>1, <2>1, <2>2, <2>3 DEF Leaving
  <2>. QED  BY <2>1, <2>2, <2>3
<1>4. ASSUME NEW r \in Movers(m)
      PROVE  /\ Deleting(m, r) => Deleting(m, r)'
             /\ Moving(m, r) => Moving(m, r)'
             /\ Staying(m, r) => Staying(m, r)'
  <2>1. Deleting(m, r) => Deleting(m, r)'
    BY <1>3 DEF Deleting
  <2>2. Moving(m, r) => Moving(m, r)'
    BY <1>3 DEF Moving
  <2>3. Staying(m, r) => Staying(m, r)'
    BY <1>2 DEF Staying
  <2>. QED  BY <2>1, <2>2, <2>3
<1>. QED  BY <1>2, <1>4 DEF Placing

LEMMA MoversSame ==
  ASSUME NEW m, \A q \in RowIds : q \in Movers(m)' <=> q \in Movers(m)
  PROVE  Movers(m)' = Movers(m)
<1>1. Movers(m)' \subseteq RowIds /\ Movers(m) \subseteq RowIds
  BY DEF Movers, LiveRows, ForMsg
<1>. QED  BY <1>1

\* Row q's effect on where its message is.
SamePlaces(q) ==
  /\ payload'[q].msg = payload[q].msg /\ payload'[q].from = payload[q].from
  /\ payload'[q].dest = payload[q].dest /\ payload'[q].added = payload[q].added
  /\ payload'[q].wasDeleted = payload[q].wasDeleted

\* Row q goes on as it was, or ended already.
Lasting(q) ==
  /\ rows'[q].kind = rows[q].kind
  /\ rows'[q].status \in Live <=> rows[q].status \in Live
  /\ EndLasts(q) /\ SamePlaces(q) /\ (doubtful[q] => doubtful'[q])

LEMMA CalmLasts ==
  ASSUME NEW q, Calm(q), SamePlaces(q), doubtful[q] => doubtful'[q]
  PROVE  Lasting(q)
BY DEF Calm, Lasting, EndLasts, Live

\* A message none of whose rows does more than go on.
LEMMA Untouched ==
  ASSUME FolderInv, NEW m \in Msgs \ Detached, Plain(m)', tangled[m] => tangled'[m],
         maps'[m] = maps[m], tomb'[m] = tomb[m],
         server'[m].folder = server[m].folder, server'[m].uid = server[m].uid,
         NEW S \in SUBSET RowIds, \A q \in RowIds \ S : Lasting(q),
         \A q \in S : q \notin Movers(m) /\ q \notin Movers(m)',
         \A q \in S : q \in ForMsg(m) => EndLasts(q) /\ payload'[q].msg = payload[q].msg,
         \A r \in Movers(m) : r \in calling' => r \in calling /\ aim'[r] = aim[r]
  PROVE  Placing(m)'
<1>1. Plain(m)
  <2>1. ASSUME NEW q \in ForMsg(m)
        PROVE  EndLasts(q) /\ payload'[q].msg = payload[q].msg
    <3>1. q \in RowIds
      BY DEF ForMsg
    <3>. QED  BY <3>1 DEF Lasting, SamePlaces
  <2>. QED  BY <2>1, PlainBefore
<1>2. Placing(m)
  BY <1>1 DEF FolderInv
<1>3. Movers(m)' = Movers(m)
  <2>1. \A q \in RowIds : q \in Movers(m)' <=> q \in Movers(m)
    BY DEF Movers, LiveRows, ForMsg, Relocates, Lasting, SamePlaces
  <2>. QED  BY <2>1, MoversSame
<1>4. \A r \in Movers(m) : r \in RowIds \ S
  BY DEF Movers, LiveRows, ForMsg
<1>5. \A r \in Movers(m) :
        /\ rows'[r].kind = rows[r].kind /\ (doubtful[r] => doubtful'[r])
        /\ payload'[r].from = payload[r].from /\ payload'[r].dest = payload[r].dest
        /\ payload'[r].added = payload[r].added /\ payload'[r].wasDeleted = payload[r].wasDeleted
  BY <1>4 DEF Lasting, SamePlaces
<1>. QED  BY <1>2, <1>3, <1>5, PlacingStays

LEMMA KindsKept ==
  ASSUME KindsFit,
         \A q \in RowIds : /\ rows'[q].kind = rows[q].kind /\ payload'[q].msg = payload[q].msg
                           /\ rows'[q].status = "none" <=> rows[q].status = "none"
  PROVE  KindsFit'
BY DEF KindsFit

LEMMA CallsKept ==
  ASSUME CallsFit, IInv, \A q \in RowIds : rows'[q].kind = rows[q].kind, calling' \in {calling, {}}
  PROVE  CallsFit'
<1>1. calling \subseteq RowIds
  BY DEF IInv, TypeOK
<1>2. CASE calling' = {}
  BY <1>2 DEF CallsFit, FlagRows
<1>3. CASE calling' = calling
  BY <1>1, <1>3 DEF CallsFit, FlagRows
<1>. QED  BY <1>2, <1>3

-----------------------------------------------------------------------------
(* Where a row's call goes *)

LEMMA AimGiven ==
  ASSUME NEW r \in RowIds, NEW m, m \notin Detached, payload[r].msg = m, NEW mp, mp.uid # NoUid,
         \/ rows[r].kind = "delete" /\ maps[m] = {mp}
         \/ rows[r].kind \in {"archive", "move"} /\ payload[r].from = {mp} /\ DestOf(r) \in Folders
  PROVE  \A a \in AimsOf(r) : a = IF Goes(r, mp) THEN OnServer(mp) ELSE Nowhere
<1>1. /\ OnServer(mp).kind = "server" /\ OnServer(mp).folder = mp.folder
      /\ Nowhere.kind = "none"
  BY DEF OnServer, Nowhere
<1>2. CASE rows[r].kind = "delete"
  <2>1. Placements(m) = {OnServer(mp)}
    BY <1>2 DEF Placements
  <2>2. DestOf(r) = "trash" /\ Relocates(r)
    BY <1>2 DEF DestOf, Relocates
  <2>. QED  BY <1>1, <1>2, <2>1, <2>2 DEF AimsOf, Goes
<1>3. CASE rows[r].kind \in {"archive", "move"}
  <2>1. MovePlacements(r) = {OnServer(mp)}
    BY <1>3 DEF MovePlacements
  <2>2. Relocates(r)
    BY <1>3 DEF Relocates
  <2>. QED  BY <1>1, <1>3, <2>1, <2>2 DEF AimsOf, Goes
<1>. QED  BY <1>2, <1>3

LEMMA AimNone ==
  ASSUME NEW r \in RowIds, rows[r].kind \in {"archive", "move"}, payload[r].from = {}
  PROVE  \A a \in AimsOf(r) : a = Nowhere
BY DEF AimsOf, MovePlacements, Nowhere

LEMMA AimsFit ==
  ASSUME PlacesFit, NEW r \in RowIds, rows[r].kind # "flags", payload[r].msg \in Msgs
  PROVE  \A a \in AimsOf(r) : a.folder \in Roles
<1>1. Nowhere.folder \in Roles /\ OnlyHere.folder \in Roles
  BY DEF Nowhere, OnlyHere, Roles
<1>2. \A mp : OnServer(mp).folder = mp.folder
  BY DEF OnServer
<1>3. \A a \in Placements(payload[r].msg) : a.folder \in Roles
  BY <1>1, <1>2 DEF Placements, PlacesFit, IsPlace
<1>4. \A a \in MovePlacements(r) : a.folder \in Roles
  BY <1>1, <1>2 DEF MovePlacements, PlacesFit, IsPlace
<1>. QED  BY <1>1, <1>3, <1>4 DEF AimsOf

-----------------------------------------------------------------------------
(* Steps that move nothing *)

LEMMA AimsKept ==
  ASSUME PlacesFit, \A q \in RowIds : rows'[q].kind = rows[q].kind \/ rows[q].kind = "none",
         UNCHANGED <<maps, tomb, tangled, server, aim>>,
         \A q \in RowIds : payload'[q].dest \in Roles /\ \A mp \in payload'[q].from : IsPlace(mp)
  PROVE  PlacesFit'
BY DEF PlacesFit, IsPlace, IsCopy

LEMMA CalmPlaces ==
  ASSUME FolderInv, MailInv', PlacesFit', CallsFit', \A q \in RowIds : Calm(q),
         \A q \in RowIds : doubtful[q] => doubtful'[q],
         UNCHANGED <<maps, tomb, payload, server, tangled>>,
         \A r \in RowIds : Relocates(r) /\ r \in calling' => r \in calling /\ aim'[r] = aim[r]
  PROVE  FolderInv'
<1>1. \A q \in RowIds : Lasting(q)
  <2>1. \A q \in RowIds : SamePlaces(q)
    BY DEF SamePlaces
  <2>. QED  BY <2>1, CalmLasts
<1>2. KindsFit'
  <2>1. \A q \in RowIds : rows'[q].kind = rows[q].kind
                          /\ (rows'[q].status = "none" <=> rows[q].status = "none")
    BY DEF Calm, Live
  <2>. QED  BY <2>1, KindsKept DEF FolderInv
<1>3. ASSUME NEW m \in Msgs \ Detached', Plain(m)'  PROVE Placing(m)'
  <2>1. m \in Msgs \ Detached
    BY <1>3 DEF Detached
  <2>2. \A r \in Movers(m) : r \in calling' => r \in calling /\ aim'[r] = aim[r]
    BY DEF Movers, LiveRows, ForMsg
  <2>. DEFINE S == {}
  <2>3. S \in SUBSET RowIds /\ (\A q \in RowIds \ S : Lasting(q)) /\ \A q : q \notin S
    BY <1>1
  <2>4. /\ tangled[m] => tangled'[m]
        /\ maps'[m] = maps[m] /\ tomb'[m] = tomb[m]
        /\ server'[m].folder = server[m].folder /\ server'[m].uid = server[m].uid
    OBVIOUS
  <2>. HIDE DEF S
  <2>. QED  BY <1>3, <2>1, <2>2, <2>3, <2>4, Untouched
<1>. QED  BY <1>2, <1>3 DEF FolderInv

LEMMA QuietPlaces ==
  ASSUME FolderInv, UNCHANGED mailVars,
         \/ Tick \/ PassEnds \/ \E r \in RowIds : DueElapses(r) \/ BackoffElapses(r)
         \/ UNCHANGED vars
  PROVE  FolderInv'
<1>1. MailInv'
  <2>1. UNCHANGED <<flag, payload>>
    BY DEF mailVars
  <2>2. CASE UNCHANGED vars
    <3>1. UNCHANGED allVars
      BY <2>2 DEF allVars
    <3>. QED  BY <3>1, MailSteps DEF FolderInv
  <2>. QED  BY <2>1, <2>2, QuietKeeps DEF FolderInv
<1>2. \A q \in RowIds : Calm(q)
  <2>1. CASE UNCHANGED vars
    BY <2>1 DEF vars, queueVars, seenVars, Calm
  <2>. QED  BY <2>1, QuietRows DEF FolderInv, MailInv
<1>3. calling' = calling /\ doubtful' = doubtful
  BY DEF Tick, PassEnds, DueElapses, BackoffElapses, vars, queueVars, seenVars
<1>4. UNCHANGED <<maps, tomb, payload, aim, server, tangled>>
  BY DEF mailVars
<1>5. CallsFit'
  BY <1>2, <1>3, CallsKept DEF FolderInv, MailInv, Calm
<1>6. PlacesFit'
  <2>1. \A q \in RowIds : payload'[q].dest \in Roles /\ \A mp \in payload'[q].from : IsPlace(mp)
    BY <1>4 DEF FolderInv, PlacesFit
  <2>. QED  BY <1>2, <1>4, <2>1, AimsKept DEF FolderInv, Calm
<1>. QED  BY <1>1, <1>2, <1>3, <1>4, <1>5, <1>6, CalmPlaces

LEMMA BeginFlagsPlaces ==
  ASSUME FolderInv, BeginFlags
  PROVE  FolderInv'
<1>1. MailInv'
  BY QuietKeeps DEF FolderInv, BeginFlags
<1>2. /\ FlagsBegin /\ rows' = rows /\ calling' = FlagRows(batch) /\ doubtful' = doubtful
      /\ UNCHANGED <<maps, tomb, payload, server, tangled>>
  BY DEF BeginFlags, FlagsBegin, seenVars
<1>3. \A q \in RowIds : Calm(q)
  BY <1>2, QuietRows DEF FolderInv, MailInv
<1>4. CallsFit'
  BY <1>2 DEF CallsFit, FlagRows
<1>5. PICK a : aim' = [r \in RowIds |-> IF r \in FlagRows(batch) THEN a[r] ELSE aim[r]]
  BY DEF BeginFlags
<1>6. \A r \in RowIds : rows[r].kind # "flags" => aim'[r] = aim[r] /\ r \notin calling'
  BY <1>2, <1>5 DEF FlagRows
<1>7. PlacesFit'
  <2>1. aim' = [r \in RowIds |-> aim'[r]]
    BY <1>5
  <2>. QED  BY <1>2, <1>6, <2>1 DEF FolderInv, PlacesFit, IsPlace, IsCopy
<1>8. \A r \in RowIds : ~ (Relocates(r) /\ r \in calling')
  BY <1>6 DEF Relocates
<1>. QED  BY <1>1, <1>2, <1>3, <1>4, <1>7, <1>8, CalmPlaces

LEMMA BeginRowPlaces ==
  ASSUME FolderInv, NEW r \in RowIds, BeginRow(r)
  PROVE  FolderInv'
<1>1. MailInv'
  BY QuietKeeps DEF FolderInv, BeginRow
<1>2. /\ RowBegin(r) /\ rows' = rows /\ calling = {} /\ calling' = {r} /\ doubtful' = doubtful
      /\ UNCHANGED <<maps, tomb, payload, server, tangled>>
      /\ r \in batch /\ rows[r].kind # "flags" /\ rows[r].status # "none"
  <2>1. r \in batch /\ FlagRows(batch) = {}
    BY DEF BeginRow, RowBegin
  <2>2. rows[r].status = "sending"
    BY <2>1 DEF FolderInv, MailInv, IInv, HeldRows
  <2>. QED  BY <2>1, <2>2 DEF BeginRow, RowBegin, seenVars, FlagRows
<1>3. \A q \in RowIds : Calm(q)
  BY <1>2, QuietRows DEF FolderInv, MailInv
<1>4. CallsFit'
  BY <1>2 DEF CallsFit
<1>5. PICK a \in AimsOf(r) : aim' = [aim EXCEPT ![r] = a]
  BY DEF BeginRow
<1>6. /\ aim' = [q \in RowIds |-> aim'[q]] /\ aim'[r] = a
      /\ \A q \in RowIds \ {r} : aim'[q] = aim[q]
  BY <1>5 DEF FolderInv, PlacesFit
<1>7. a.folder \in Roles
  BY <1>2, AimsFit DEF FolderInv, KindsFit
<1>8. PlacesFit'
  BY <1>2, <1>6, <1>7 DEF FolderInv, PlacesFit, IsPlace, IsCopy
<1>9. KindsFit'
  BY <1>2 DEF FolderInv, KindsFit
<1>10. ASSUME NEW m \in Msgs \ Detached', Plain(m)'  PROVE Placing(m)'
  <2>1. m \in Msgs \ Detached
    BY <1>2, <1>10 DEF Detached
  <2>2. \A q \in RowIds : Lasting(q)
    <3>1. \A q \in RowIds : SamePlaces(q)
      BY <1>2 DEF SamePlaces
    <3>. QED  BY <1>2, <1>3, <3>1, CalmLasts
  <2>3. CASE r \notin Movers(m)
    <3>1. \A q \in Movers(m) : q \notin calling'
      BY <1>2, <2>3
    <3>2. \A q \in RowIds \ {} : Lasting(q)
      BY <2>2
    <3>. QED  BY <1>2, <1>10, <2>1, <3>1, <3>2, Untouched
  <2>4. CASE r \in Movers(m)
    <3>1. Plain(m)
      <4>1. \A q \in ForMsg(m) : q \in RowIds
        BY DEF ForMsg
      <4>. QED  BY <1>2, <1>10, <2>2, <4>1, PlainBefore DEF Lasting
    <3>2. Movers(m)' = Movers(m)
      BY <1>2 DEF Movers, LiveRows, ForMsg, Relocates
    <3>3. Movers(m) = {r} /\ (Deleting(m, r) \/ Moving(m, r) \/ Staying(m, r))
      BY <2>1, <2>4, <3>1 DEF FolderInv, Placing
    <3>4. payload[r].msg = m
      BY <2>4 DEF Movers, LiveRows, ForMsg
    <3>5. \A mp : /\ Home(m)' = Home(m) /\ DestOf(r)' = DestOf(r) /\ (Goes(r, mp)' <=> Goes(r, mp))
      BY <1>2 DEF Home, DestOf, Goes
    <3>6. ASSUME NEW mp, Leaving(m, r, mp), a = IF Goes(r, mp) THEN OnServer(mp) ELSE Nowhere
          PROVE  Leaving(m, r, mp)'
      BY <1>2, <1>6, <3>5, <3>6 DEF Leaving, OnServer
    <3>7. CASE Deleting(m, r)
      <4>1. PICK mp \in maps[m] : /\ maps[m] = {mp} /\ Leaving(m, r, mp)
                                  /\ payload[r].wasDeleted => mp.folder = "trash" \/ "trash" \notin Folders
        BY <3>7 DEF Deleting
      <4>2. a = IF Goes(r, mp) THEN OnServer(mp) ELSE Nowhere
        BY <2>1, <3>4, <3>7, <4>1, AimGiven DEF Deleting, Leaving
      <4>3. Leaving(m, r, mp)'
        BY <3>6, <4>1, <4>2
      <4>4. Deleting(m, r)'
        BY <1>2, <3>7, <4>1, <4>3 DEF Deleting
      <4>. QED  BY <3>2, <3>3, <4>4 DEF Placing
    <3>8. CASE Moving(m, r)
      <4>1. PICK mp \in payload[r].from : payload[r].from = {mp} /\ Leaving(m, r, mp) /\ Goes(r, mp)
        BY <3>8 DEF Moving
      <4>2. a = IF Goes(r, mp) THEN OnServer(mp) ELSE Nowhere
        <5>1. DestOf(r) \in Folders /\ mp.uid # NoUid /\ rows[r].kind \in {"archive", "move"}
          BY <3>8, <4>1 DEF Goes, Leaving, Moving
        <5>. QED  BY <2>1, <3>4, <4>1, <5>1, AimGiven
      <4>3. Leaving(m, r, mp)'
        BY <3>6, <4>1, <4>2
      <4>4. Moving(m, r)'
        BY <1>2, <3>5, <3>8, <4>1, <4>3 DEF Moving
      <4>. QED  BY <3>2, <3>3, <4>4 DEF Placing
    <3>9. CASE Staying(m, r)
      <4>1. a = Nowhere
        BY <3>9, AimNone DEF Staying
      <4>2. Staying(m, r)'
        BY <1>2, <1>6, <3>5, <3>9, <4>1 DEF Staying, Rests, Nowhere
      <4>. QED  BY <3>2, <3>3, <4>2 DEF Placing
    <3>. QED  BY <3>3, <3>7, <3>8, <3>9
  <2>. QED  BY <2>3, <2>4
<1>. QED  BY <1>1, <1>4, <1>8, <1>9, <1>10 DEF FolderInv

-----------------------------------------------------------------------------
(* Enqueueing *)

\* Row r is inserted with payload p.
LEMMA InsertLasts ==
  ASSUME FolderInv, NEW r \in RowIds, NEW k \in {"delete", "archive", "move", "flags"},
         NEW w \in BOOLEAN, Insert(r, k, w), NEW p, payload' = [payload EXCEPT ![r] = p]
  PROVE  /\ rows[r].status = "none" /\ rows'[r].kind = k /\ rows'[r].status \in Live
         /\ payload'[r] = p /\ r \notin calling
         /\ calling' = calling /\ doubtful' = doubtful
         /\ \A q \in RowIds \ {r} : Lasting(q)
<1>1. /\ Fresh(r) /\ rows'[r].kind = k /\ rows'[r].status \in Live
      /\ undone' = undone /\ \A q \in RowIds \ {r} : Calm(q)
  BY InsertedRow DEF FolderInv, MailInv
<1>2. calling' = calling /\ doubtful' = doubtful
  BY DEF Insert, EnqueueWindowed, EnqueueNow, seenVars
<1>3. rows[r].status = "none" /\ r \notin calling
  BY <1>1 DEF Fresh, FolderInv, MailInv, IInv, TypeOK, HeldRows
<1>4. payload'[r] = p /\ \A q \in RowIds \ {r} : payload'[q] = payload[q]
  BY DEF FolderInv, MailInv, PayloadsFit
<1>5. \A q \in RowIds \ {r} : SamePlaces(q)
  BY <1>4 DEF SamePlaces
<1>. QED  BY <1>1, <1>2, <1>3, <1>4, <1>5, CalmLasts

LEMMA InsertPlaces ==
  ASSUME FolderInv, MailInv', NEW r \in RowIds, NEW m \in Msgs,
         NEW k \in {"delete", "archive", "move", "flags"}, NEW w \in BOOLEAN, Insert(r, k, w),
         NEW p, payload' = [payload EXCEPT ![r] = p], p.msg = m, p.dest \in Roles,
         \A mp \in p.from : IsPlace(mp), UNCHANGED <<server, aim>>,
         maps' = [x \in Msgs |-> maps'[x]], \A mp \in maps'[m] : IsPlace(mp),
         tomb' = [x \in Msgs |-> tomb'[x]], tangled' = [x \in Msgs |-> tangled'[x]],
         \A x \in Msgs \ {m} : maps'[x] = maps[x] /\ tomb'[x] = tomb[x],
         \A x \in Msgs : tangled[x] => tangled'[x],
         m \notin Detached /\ Plain(m) /\ Plain(m)' => Placing(m)'
  PROVE  FolderInv'
<1>1. /\ rows[r].status = "none" /\ rows'[r].kind = k /\ rows'[r].status \in Live
      /\ payload'[r] = p /\ r \notin calling
      /\ calling' = calling /\ doubtful' = doubtful
      /\ \A q \in RowIds \ {r} : Lasting(q)
  BY InsertLasts
<1>2. /\ rows'[r].kind \in {"delete", "archive", "move", "flags"}
      /\ payload'[r].msg = m /\ payload'[r].dest \in Roles /\ \A mp \in payload'[r].from : IsPlace(mp)
  BY <1>1
<1>3. PlacesFit'
  <2>1. \A q \in RowIds : payload'[q].dest \in Roles /\ \A mp \in payload'[q].from : IsPlace(mp)
    BY <1>1, <1>2 DEF Lasting, SamePlaces, FolderInv, PlacesFit
  <2>2. \A x \in Msgs : \A mp \in maps'[x] : IsPlace(mp)
    BY DEF FolderInv, PlacesFit
  <2>3. aim' = [q \in RowIds |-> aim'[q]] /\ \A q \in RowIds : rows'[q].kind # "flags" => aim'[q].folder \in Roles
    <3>1. rows[r].kind = "none"
      BY <1>1 DEF FolderInv, KindsFit
    <3>. QED  BY <1>1, <3>1 DEF FolderInv, PlacesFit, Lasting
  <2>4. server' = [x \in Msgs |-> server'[x]] /\ \A x \in Msgs : IsCopy(server[x])'
    BY DEF FolderInv, PlacesFit, IsCopy
  <2>. QED  BY <2>1, <2>2, <2>3, <2>4 DEF PlacesFit, IsPlace
<1>4. KindsFit'
  <2>1. \A q \in RowIds \ {r} : rows'[q].status = "none" <=> rows[q].status = "none"
    <3>1. \A q \in RowIds \ {r} : Calm(q)
      BY InsertedRow DEF FolderInv, MailInv
    <3>. QED  BY <3>1 DEF Calm, Live
  <2>. QED  BY <1>1, <1>2, <2>1 DEF FolderInv, KindsFit, Lasting, SamePlaces, Live
<1>5. CallsFit'
  <2>1. calling \subseteq RowIds \ {r}
    BY <1>1 DEF FolderInv, MailInv, IInv, TypeOK
  <2>2. \A q \in calling : rows'[q].kind = rows[q].kind
    BY <1>1, <2>1 DEF Lasting
  <2>. QED  BY <1>1, <2>2 DEF FolderInv, CallsFit, FlagRows
<1>6. ASSUME NEW x \in Msgs \ Detached', Plain(x)'  PROVE Placing(x)'
  <2>1. x \in Msgs \ Detached
    BY <1>6 DEF Detached
  <2>2. r \notin Movers(x)
    BY <1>1 DEF Movers, LiveRows, Live
  <2>3. CASE x # m
    <3>1. r \notin Movers(x)' /\ r \notin ForMsg(x)'
      BY <1>2, <2>3 DEF Movers, LiveRows, ForMsg
    <3>2. \A q \in {r} : q \in ForMsg(x) => EndLasts(q) /\ payload'[q].msg = payload[q].msg
      <4>1. rows[r].kind = "none"
        BY <1>1 DEF FolderInv, KindsFit
      <4>. QED  BY <4>1 DEF ForMsg
    <3>3. \A q \in Movers(x) : q \in calling' => q \in calling /\ aim'[q] = aim[q]
      BY <1>1
    <3>4. maps'[x] = maps[x] /\ tomb'[x] = tomb[x] /\ server' = server /\ (tangled[x] => tangled'[x])
      BY <2>1, <2>3
    <3>5. \A q \in {r} : q \notin Movers(x) /\ q \notin Movers(x)'
      BY <2>2, <3>1
    <3>. DEFINE S == {r}
    <3>6. S \in SUBSET RowIds /\ \A q \in RowIds \ S : Lasting(q)
      BY <1>1
    <3>7. /\ \A q \in S : q \notin Movers(x) /\ q \notin Movers(x)'
          /\ \A q \in S : q \in ForMsg(x) => EndLasts(q) /\ payload'[q].msg = payload[q].msg
      BY <3>2, <3>5
    <3>. HIDE DEF S
    <3>. QED  BY <1>6, <2>1, <3>3, <3>4, <3>6, <3>7, Untouched
  <2>4. CASE x = m
    <3>1. \A q \in ForMsg(m) :
            EndLasts(q) /\ (rows[q].status \in {"canceled", "dead"} => payload'[q].msg = payload[q].msg)
      BY <1>1 DEF ForMsg, EndLasts, Lasting, SamePlaces
    <3>2. Plain(m)
      BY <1>6, <2>4, <3>1, PlainBefore
    <3>. QED  BY <1>6, <2>1, <2>4, <3>2
  <2>. QED  BY <2>3, <2>4
<1>. QED  BY <1>3, <1>4, <1>5, <1>6 DEF FolderInv

\* A relocation that finds its message settled.
LEMMA SettledFirst ==
  ASSUME FolderInv, NEW m \in Msgs \ Detached, Plain(m), Tangle(m), ~ tangled'[m]
  PROVE  /\ Movers(m) = {} /\ maps[m] = {Home(m)} /\ Home(m).uid # NoUid
         /\ Home(m).folder = server[m].folder /\ server[m].folder \in Roles
         /\ tomb[m] => server[m].folder = "trash" \/ "trash" \notin Folders
<1>1. /\ ~ \E q \in LiveRows(m) : Relocates(q)
      /\ ~ \E mp \in maps[m] : mp.uid = NoUid
  BY DEF Tangle, FolderInv, PlacesFit
<1>2. Movers(m) = {}
  BY <1>1 DEF Movers
<1>3. Rests(m)
  BY <1>2 DEF FolderInv, Placing
<1>4. Mapping(server[m].folder, NoUid).uid = NoUid
  BY PlaceIs
<1>5. maps[m] = {Home(m)}
  BY <1>1, <1>3, <1>4 DEF Rests
<1>6. Home(m).folder = server[m].folder
  BY PlaceIs DEF Home
<1>7. Home(m).folder \in Roles
  BY <1>5 DEF FolderInv, PlacesFit, IsPlace
<1>. QED  BY <1>1, <1>2, <1>3, <1>5, <1>6, <1>7 DEF Rests

\* The row inserted is the one that moves its message.
LEMMA OnlyMover ==
  ASSUME NEW r \in RowIds, NEW m, Movers(m) = {}, rows'[r].kind \in {"delete", "archive", "move"},
         rows'[r].status \in Live, payload'[r].msg = m, \A q \in RowIds \ {r} : Lasting(q)
  PROVE  Movers(m)' = {r}
<1>1. r \in Movers(m)'
  BY DEF Movers, LiveRows, ForMsg, Relocates
<1>2. \A q \in RowIds \ {r} : q \notin Movers(m)'
  BY DEF Movers, LiveRows, ForMsg, Relocates, Lasting, SamePlaces
<1>3. Movers(m)' \subseteq RowIds
  BY DEF Movers, LiveRows, ForMsg
<1>. QED  BY <1>1, <1>2, <1>3

LEMMA TangleFits ==
  ASSUME PlacesFit, NEW m \in Msgs, Tangle(m)
  PROVE  tangled' = [x \in Msgs |-> tangled'[x]] /\ \A x \in Msgs : tangled[x] => tangled'[x]
BY DEF PlacesFit, Tangle

LEMMA DeletePlaces ==
  ASSUME FolderInv, NEW r \in RowIds, NEW m \in Msgs, NEW w \in BOOLEAN, Delete(r, m, w)
  PROVE  FolderInv'
<1>. DEFINE p == [Payload(m) EXCEPT !.wasDeleted = tomb[m]]
<1>1. /\ Insert(r, "delete", w) /\ payload' = [payload EXCEPT ![r] = p] /\ Tangle(m)
      /\ tomb' = [tomb EXCEPT ![m] = TRUE] /\ UNCHANGED <<maps, server, aim>>
  BY DEF Delete
<1>2. p.msg = m /\ p.dest \in Roles /\ p.from = {} /\ p.wasDeleted = tomb[m]
  BY DEF Payload, Roles
<1>. HIDE DEF p
<1>3. MailInv'
  BY DeleteKeeps DEF FolderInv
<1>4. /\ rows'[r].kind = "delete" /\ rows'[r].status \in Live /\ payload'[r] = p
      /\ r \notin calling' /\ \A q \in RowIds \ {r} : Lasting(q)
  BY <1>1, InsertLasts
<1>5. PlacesFit
  BY DEF FolderInv
<1>6. /\ tomb' = [x \in Msgs |-> tomb'[x]] /\ tomb'[m] = TRUE
      /\ \A x \in Msgs \ {m} : tomb'[x] = tomb[x]
  BY <1>1, <1>5 DEF PlacesFit
<1>7. maps' = [x \in Msgs |-> maps'[x]] /\ \A mp \in maps'[m] : IsPlace(mp)
  BY <1>1, <1>5 DEF PlacesFit
<1>8. tangled' = [x \in Msgs |-> tangled'[x]] /\ \A x \in Msgs : tangled[x] => tangled'[x]
  BY <1>1, <1>5, TangleFits
<1>9. ASSUME m \notin Detached, Plain(m), Plain(m)'  PROVE Placing(m)'
  <2>1. /\ Movers(m) = {} /\ maps[m] = {Home(m)} /\ Home(m).uid # NoUid
        /\ Home(m).folder = server[m].folder
        /\ tomb[m] => server[m].folder = "trash" \/ "trash" \notin Folders
    BY <1>1, <1>9, SettledFirst DEF Plain
  <2>2. Movers(m)' = {r}
    BY <1>2, <1>4, <2>1, OnlyMover
  <2>3. Home(m)' = Home(m) /\ maps'[m] = {Home(m)}
    BY <1>1, <2>1 DEF Home
  <2>4. Leaving(m, r, Home(m))'
    BY <1>4, <2>1, <2>3 DEF Leaving
  <2>5. Deleting(m, r)'
    BY <1>2, <1>4, <1>6, <2>1, <2>3, <2>4 DEF Deleting
  <2>. QED  BY <2>2, <2>5 DEF Placing
<1>10. \A x \in Msgs \ {m} : maps'[x] = maps[x] /\ tomb'[x] = tomb[x]
  BY <1>1, <1>6
<1>11. UNCHANGED <<server, aim>> /\ \A mp \in p.from : IsPlace(mp)
  BY <1>1, <1>2
<1>. DEFINE k == "delete"
<1>12. k \in {"delete", "archive", "move", "flags"} /\ Insert(r, k, w) /\ payload' = [payload EXCEPT ![r] = p]
  BY <1>1
<1>. HIDE DEF k
<1>. QED  BY <1>2, <1>3, <1>6, <1>7, <1>8, <1>9, <1>10, <1>11, <1>12, InsertPlaces

LEMMA RelocatePlaces ==
  ASSUME FolderInv, MailInv', NEW r \in RowIds, NEW m \in Msgs, NEW k \in {"archive", "move"},
         NEW w \in BOOLEAN, Insert(r, k, w), NEW dest \in Folders, NEW from, from # dest,
         from # "trash", Relocate(r, m, from, dest)
  PROVE  FolderInv'
<1>. DEFINE src == In(m, from)
            added == (src # {} /\ In(m, dest) = {})
            p == [Payload(m) EXCEPT !.from = src, !.dest = dest, !.added = added]
            left == (maps[m] \ src) \cup (IF In(m, dest) \ src = {} THEN {Mapping(dest, NoUid)} ELSE {})
<1>1. /\ payload' = [payload EXCEPT ![r] = p] /\ Tangle(m) /\ UNCHANGED <<tomb, server, aim>>
      /\ maps' = IF src = {} THEN maps ELSE [maps EXCEPT ![m] = left]
  BY DEF Relocate
<1>2. p.msg = m /\ p.dest = dest /\ p.from = src /\ p.added = added
  BY DEF Payload
<1>. HIDE DEF p
<1>3. PlacesFit /\ dest \in Roles
  BY IntentAssumption DEF FolderInv, Roles
<1>4. /\ rows'[r].kind = k /\ rows'[r].status \in Live /\ payload'[r] = p
      /\ r \notin calling' /\ \A q \in RowIds \ {r} : Lasting(q)
  BY <1>1, InsertLasts
<1>5. \A mp \in src : IsPlace(mp)
  BY <1>3 DEF In, PlacesFit
<1>6. IsPlace(Mapping(dest, NoUid))
  BY <1>3, PlaceIs DEF IsPlace
<1>7. /\ maps' = [x \in Msgs |-> maps'[x]] /\ \A x \in Msgs \ {m} : maps'[x] = maps[x]
      /\ maps'[m] = IF src = {} THEN maps[m] ELSE left
  <2>. HIDE DEF src, left
  <2>. QED  BY <1>1, <1>3 DEF PlacesFit
<1>8. \A mp \in maps'[m] : IsPlace(mp)
  BY <1>3, <1>6, <1>7 DEF PlacesFit
<1>9. tangled' = [x \in Msgs |-> tangled'[x]] /\ \A x \in Msgs : tangled[x] => tangled'[x]
  BY <1>1, <1>3, TangleFits
<1>10. ASSUME m \notin Detached, Plain(m), Plain(m)'  PROVE Placing(m)'
  <2>. PICK h : h = Home(m)
    OBVIOUS
  <2>1. /\ Movers(m) = {} /\ maps[m] = {h} /\ h.uid # NoUid
        /\ h.folder = server[m].folder
        /\ tomb[m] => server[m].folder = "trash" \/ "trash" \notin Folders
    BY <1>1, <1>10, SettledFirst DEF Plain
  <2>2. Movers(m)' = {r}
    BY <1>2, <1>4, <2>1, OnlyMover
  <2>3. Home(m)' = h /\ tomb'[m] = tomb[m]
    BY <1>1 DEF Home
  <2>4. rows'[r].kind \in {"archive", "move"} /\ DestOf(r)' = dest
    BY <1>2, <1>4 DEF DestOf
  <2>5. CASE h.folder = from
    <3>1. src = {h} /\ In(m, dest) = {} /\ added
      BY <2>1, <2>5 DEF In
    <3>2. left = {Mapping(dest, NoUid)}
      BY <2>1, <3>1
    <3>3. maps'[m] = {Mapping(dest, NoUid)}
      BY <1>7, <3>1, <3>2
    <3>4. Goes(r, h)'
      BY <2>4, <2>5 DEF Goes
    <3>5. Leaving(m, r, h)'
      BY <1>4, <2>1, <2>3 DEF Leaving
    <3>6. payload'[r].from = {h} /\ payload'[r].added /\ payload'[r].dest = dest
      BY <1>2, <1>4, <3>1
    <3>7. tomb'[m] => "trash" \notin Folders
      BY <2>1, <2>3, <2>5
    <3>8. Moving(m, r)'
      BY <2>4, <3>3, <3>4, <3>5, <3>6, <3>7 DEF Moving
    <3>. QED  BY <2>2, <3>8 DEF Placing
  <2>6. CASE h.folder # from
    <3>1. src = {}
      BY <2>1, <2>6 DEF In
    <3>2. maps'[m] = {h} /\ payload'[r].from = {}
      BY <1>2, <1>4, <1>7, <2>1, <3>1
    <3>3. server' = server
      BY <1>1
    <3>4. Rests(m)'
      BY <2>1, <2>3, <3>2, <3>3 DEF Rests
    <3>5. Staying(m, r)'
      BY <1>4, <2>4, <3>2, <3>4 DEF Staying
    <3>. QED  BY <2>2, <3>5 DEF Placing
  <2>. QED  BY <2>5, <2>6
<1>11. \A x \in Msgs \ {m} : maps'[x] = maps[x] /\ tomb'[x] = tomb[x]
  BY <1>1, <1>7
<1>12. UNCHANGED <<server, aim>> /\ (\A mp \in p.from : IsPlace(mp)) /\ p.msg = m /\ p.dest \in Roles
  BY <1>1, <1>2, <1>3, <1>5
<1>13. tomb' = [x \in Msgs |-> tomb'[x]]
  BY <1>1, <1>3 DEF PlacesFit
<1>. HIDE DEF src, left
<1>. QED  BY <1>1, <1>7, <1>8, <1>9, <1>10, <1>11, <1>12, <1>13, InsertPlaces

LEMMA MovePlaces ==
  ASSUME FolderInv, NEW r \in RowIds, NEW m \in Msgs, NEW w \in BOOLEAN,
         \/ Archive(r, m, w) \/ RuleSpam(r, m)
         \/ \E dest \in {"junk", "inbox"} : Move(r, m, dest)
  PROVE  FolderInv'
<1>1. MailInv'
  BY DeleteKeeps DEF FolderInv
<1>2. CASE Archive(r, m, w)
  <2>1. "archive" \in Folders /\ Insert(r, "archive", w) /\ Relocate(r, m, "inbox", "archive")
    BY <1>2 DEF Archive
  <2>. QED  BY <1>1, <2>1, RelocatePlaces
<1>3. CASE RuleSpam(r, m)
  <2>1. "junk" \in Folders /\ Insert(r, "move", FALSE) /\ Relocate(r, m, "inbox", "junk")
    BY <1>3 DEF RuleSpam
  <2>. QED  BY <1>1, <2>1, RelocatePlaces
<1>4. CASE \E dest \in {"junk", "inbox"} : Move(r, m, dest)
  <2>1. PICK dest \in {"junk", "inbox"} : Move(r, m, dest)
    BY <1>4
  <2>2. PICK from \in MoveSources(m, dest) : Relocate(r, m, from, dest)
    BY <2>1 DEF Move
  <2>3. dest \in Folders /\ Insert(r, "move", TRUE)
    BY <2>1 DEF Move
  <2>4. from # dest /\ from # "trash"
    BY <2>2 DEF MoveSources
  <2>. QED  BY <1>1, <2>2, <2>3, <2>4, RelocatePlaces
<1>. QED  BY <1>2, <1>3, <1>4

LEMMA TogglePlaces ==
  ASSUME FolderInv, NEW r \in RowIds, NEW m \in Msgs, NEW set \in FlagSets, Toggle(r, m, set)
  PROVE  FolderInv'
<1>. DEFINE p == [Payload(m) EXCEPT !.set = set, !.prev = [f \in DOMAIN set |-> flag[m][f]]]
<1>1. /\ Insert(r, "flags", FALSE) /\ payload' = [payload EXCEPT ![r] = p]
      /\ UNCHANGED <<maps, tomb, aim, server, tangled>>
  BY DEF Toggle
<1>2. p.msg = m /\ p.dest \in Roles /\ p.from = {}
  BY DEF Payload, Roles
<1>. HIDE DEF p
<1>3. MailInv'
  BY ToggleKeeps DEF FolderInv
<1>4. PlacesFit
  BY DEF FolderInv
<1>5. /\ rows[r].status = "none" /\ rows'[r].kind = "flags" /\ calling' = calling
      /\ \A q \in RowIds \ {r} : Lasting(q)
  BY <1>1, InsertLasts
<1>6. ASSUME m \notin Detached, Plain(m), Plain(m)'  PROVE Placing(m)'
  <2>. DEFINE S == {r}
  <2>1. S \in SUBSET RowIds /\ \A q \in RowIds \ S : Lasting(q)
    BY <1>5
  <2>2. \A q \in S : q \notin Movers(m) /\ q \notin Movers(m)'
    BY <1>5 DEF Movers, LiveRows, Live, Relocates
  <2>3. \A q \in S : q \in ForMsg(m) => EndLasts(q) /\ payload'[q].msg = payload[q].msg
    BY <1>5 DEF ForMsg, FolderInv, KindsFit
  <2>4. \A q \in Movers(m) : q \in calling' => q \in calling /\ aim'[q] = aim[q]
    BY <1>1, <1>5
  <2>5. /\ maps'[m] = maps[m] /\ tomb'[m] = tomb[m] /\ (tangled[m] => tangled'[m])
        /\ server'[m].folder = server[m].folder /\ server'[m].uid = server[m].uid
    BY <1>1
  <2>. HIDE DEF S
  <2>. QED  BY <1>6, <2>1, <2>2, <2>3, <2>4, <2>5, Untouched
<1>7. /\ maps' = [x \in Msgs |-> maps'[x]] /\ \A mp \in maps'[m] : IsPlace(mp)
      /\ tomb' = [x \in Msgs |-> tomb'[x]] /\ tangled' = [x \in Msgs |-> tangled'[x]]
      /\ \A x \in Msgs \ {m} : maps'[x] = maps[x] /\ tomb'[x] = tomb[x]
      /\ \A x \in Msgs : tangled[x] => tangled'[x]
  BY <1>1, <1>4 DEF PlacesFit
<1>8. UNCHANGED <<server, aim>> /\ \A mp \in p.from : IsPlace(mp)
  BY <1>1, <1>2
<1>. QED  BY <1>1, <1>2, <1>3, <1>6, <1>7, <1>8, InsertPlaces

-----------------------------------------------------------------------------
(* Toggles end *)

\* A mailbox in which mail is where it is, whatever its flags.
InPlace(mail) ==
  /\ mail.maps = maps /\ mail.tomb = tomb
  /\ \A q \in RowIds :
       /\ mail.payload[q].msg = payload[q].msg /\ mail.payload[q].from = payload[q].from
       /\ mail.payload[q].dest = payload[q].dest /\ mail.payload[q].added = payload[q].added
       /\ mail.payload[q].wasDeleted = payload[q].wasDeleted

LEMMA FlagsStayInPlace ==
  ASSUME NEW mail, Comes(mail), InPlace(mail), NEW r \in RowIds, rows[r].kind = "flags"
  PROVE  InPlace(RevertIntent(mail, r))
<1>. DEFINE new == RevertIntent(mail, r)
            msg == payload[r].msg
            mine == DOMAIN payload[r].set
            prev == mail.payload[r].prev
            fl == [mail.flag EXCEPT ![msg] = [f \in Flags |-> IF f \in mine /\ Restores(mail, r, f)
                                                              THEN prev[f] ELSE mail.flag[msg][f]]]
            v(q) == [f \in DOMAIN mail.payload[q].prev |->
                       IF f \in mine /\ q \in Heirs(r, f) THEN prev[f] ELSE mail.payload[q].prev[f]]
            pl == [q \in RowIds |-> [mail.payload[q] EXCEPT !.prev = v(q)]]
<1>1. new = [mail EXCEPT !.flag = fl, !.payload = pl]
  BY DEF RevertIntent, RevertFlags
<1>2. new.maps = mail.maps /\ new.tomb = mail.tomb /\ new.payload = pl
  <2>. HIDE DEF new, fl, pl
  <2>. QED  BY <1>1 DEF Comes, IsMail, MailFields
<1>3. ASSUME NEW q \in RowIds
      PROVE  /\ pl[q].msg = mail.payload[q].msg /\ pl[q].from = mail.payload[q].from
             /\ pl[q].dest = mail.payload[q].dest /\ pl[q].added = mail.payload[q].added
             /\ pl[q].wasDeleted = mail.payload[q].wasDeleted
  <2>1. IsPayload(mail.payload[q]) /\ pl[q] = [mail.payload[q] EXCEPT !.prev = v(q)]
    BY DEF Comes, PayloadsFit
  <2>. HIDE DEF pl, v
  <2>. QED  BY <2>1 DEF IsPayload, PayloadFields
<1>. HIDE DEF new, pl
<1>4. InPlace(new)
  BY <1>2, <1>3 DEF InPlace
<1>. QED  BY <1>4 DEF new

LEMMA TogglesStayInPlace ==
  ASSUME Comes(Mail), NEW D \in SUBSET RowIds, \A r \in D : rows[r].kind = "flags"
  PROVE  InPlace(RevertAll(Mail, D))
<1>1. PICK u : RevertAll(Mail, D) = u[MaxRows] /\ Turns(u, MaxRows, Mail, D)
  BY AllTurns
<1>. DEFINE Good(n) == Comes(u[n]) /\ InPlace(u[n])
            Bad == {n \in 0 .. MaxRows : ~ Good(n)}
<1>2. MaxRows \in Nat /\ RowIds \subseteq Nat
  BY QueueAssumption DEF RowIds
<1>3. /\ u[0] = Mail
      /\ \A n \in 1 .. MaxRows : u[n] = IF n \in D THEN RevertIntent(u[n - 1], n) ELSE u[n - 1]
  BY <1>1, <1>2 DEF Turns
<1>4. Good(0)
  BY <1>3 DEF InPlace, Mail
<1>5. ASSUME NEW n \in 1 .. MaxRows, Good(n - 1)  PROVE Good(n)
  <2>1. n \in RowIds
    BY DEF RowIds
  <2>2. CASE n \in D
    <3>1. u[n] = RevertIntent(u[n - 1], n) /\ rows[n].kind = "flags"
      BY <1>3, <2>2
    <3>. QED  BY <1>5, <2>1, <3>1, RevertComes, FlagsStayInPlace
  <2>. QED  BY <1>3, <1>5, <2>2
<1>6. Bad = {}
  <2>1. SUFFICES ASSUME Bad # {}  PROVE FALSE
    OBVIOUS
  <2>2. Bad \in SUBSET Nat
    BY <1>2
  <2>3. PICK n \in Bad : \A x \in Bad : n <= x
    <3>. HIDE DEF Bad
    <3>. QED  BY <2>1, <2>2, LeastNatural
  <2>. HIDE DEF Good
  <2>4. n # 0 /\ n \in 1 .. MaxRows /\ n - 1 \in 0 .. MaxRows /\ ~ (n <= n - 1)
    BY <1>2, <1>4, <2>3
  <2>5. Good(n - 1)
    BY <2>3, <2>4
  <2>. QED  BY <1>5, <2>3, <2>4, <2>5
<1>. QED  BY <1>1, <1>2, <1>6

\* A STORE changes flags, and no more.
LEMMA StoredInPlace ==
  ASSUME PlacesFit, NEW res
  PROVE  /\ Stored(res) = [m \in Msgs |-> Stored(res)[m]]
         /\ \A m \in Msgs : /\ IsCopy(Stored(res)[m])
                            /\ Stored(res)[m].folder = server[m].folder /\ Stored(res)[m].uid = server[m].uid
<1>1. Stored(res) = [m \in Msgs |-> Stored(res)[m]]
  BY DEF Stored
<1>2. ASSUME NEW m \in Msgs
      PROVE  /\ IsCopy(Stored(res)[m])
             /\ Stored(res)[m].folder = server[m].folder /\ Stored(res)[m].uid = server[m].uid
  <2>1. PICK v : Stored(res)[m] = [server[m] EXCEPT !.flags = v]
    BY DEF Stored
  <2>2. IsCopy(server[m])
    BY DEF PlacesFit
  <2>. QED  BY <2>1, <2>2 DEF IsCopy
<1>. QED  BY <1>1, <1>2

LEMMA SettleFlagsPlaces ==
  ASSUME FolderInv, SettleFlags
  PROVE  FolderInv'
<1>1. MailInv'
  BY SettleFlagsKeeps DEF FolderInv
<1>2. PICK res \in StoreResults :
        LET o == [r \in calling |-> FlagsOutcome(res, r)] IN
        /\ Settle(o) /\ Becomes(RevertAll(Mail, DeadRows(o))) /\ server' = Stored(res)
  BY DEF SettleFlags
<1>. DEFINE o == [r \in calling |-> FlagsOutcome(res, r)]
            mail == RevertAll(Mail, DeadRows(o))
<1>3. /\ Settle(o) /\ calling' = {} /\ server' = Stored(res)
      /\ maps' = mail.maps /\ tomb' = mail.tomb /\ payload' = mail.payload
  BY <1>2 DEF Becomes, Settle
<1>4. o \in [calling -> Answers] /\ DOMAIN o = calling
  BY DEF FlagsOutcome, Answers
<1>. HIDE DEF o
<1>5. /\ DeadRows(o) \in SUBSET RowIds
      /\ \A r \in DeadRows(o) : /\ rows[r].status \in Live /\ rows'[r].status = "dead"
                                /\ rows'[r].kind = rows[r].kind
      /\ \A r \in RowIds \ DeadRows(o) :
           \/ Calm(r)
           \/ /\ rows[r].status \in Live /\ rows'[r].status = "done"
              /\ rows'[r].kind = rows[r].kind /\ undone'[r] = undone[r]
  BY <1>3, <1>4, SettledRows DEF FolderInv, MailInv
<1>6. \A r \in calling : rows[r].kind = "flags" /\ r \in RowIds
  BY DEF SettleFlags, FlagRows, FolderInv, MailInv, IInv, TypeOK
<1>7. \A r \in DeadRows(o) : rows[r].kind = "flags"
  BY <1>4, <1>6 DEF DeadRows
<1>8. InPlace(mail)
  BY <1>5, <1>7, MailComes, TogglesStayInPlace DEF FolderInv
<1>. HIDE DEF mail
<1>9. maps' = maps /\ tomb' = tomb /\ tangled' = tangled /\ \A q \in RowIds : SamePlaces(q)
  BY <1>3, <1>8 DEF InPlace, SamePlaces, SettleFlags
<1>10. \A q \in RowIds \ calling : rows'[q] = rows[q] /\ undone'[q] = undone[q]
  <2>1. rows' = MarkedRows(o) /\ undone' = Reverted(o)
    BY <1>3 DEF Settle
  <2>. QED  BY <1>4, <2>1 DEF MarkedRows, Reverted, FolderInv, MailInv, IInv, TypeOK
<1>11. \A q \in RowIds : doubtful[q] => doubtful'[q]
  BY <1>3 DEF Settle, Observe
<1>12. \A q \in RowIds : rows'[q].kind = rows[q].kind /\ (rows'[q].status = "none" <=> rows[q].status = "none")
  BY <1>5 DEF Calm, Live
<1>13. PlacesFit'
  <2>1. aim' = [r \in RowIds |-> Nowhere] /\ Nowhere.folder \in Roles
    BY DEF SettleFlags, Unaimed, Nowhere, Roles
  <2>2. server' = [m \in Msgs |-> server'[m]] /\ \A m \in Msgs : IsCopy(server'[m])
    BY <1>3, StoredInPlace DEF FolderInv
  <2>. QED  BY <1>9, <2>1, <2>2 DEF FolderInv, PlacesFit, IsPlace, IsCopy, SamePlaces
<1>14. KindsFit'
  BY <1>9, <1>12, KindsKept DEF FolderInv, SamePlaces
<1>15. CallsFit'
  BY <1>3 DEF CallsFit, FlagRows
<1>16. ASSUME NEW m \in Msgs \ Detached', Plain(m)'  PROVE Placing(m)'
  <2>1. server'[m].folder = server[m].folder /\ server'[m].uid = server[m].uid
    BY <1>3, StoredInPlace DEF FolderInv
  <2>2. m \in Msgs \ Detached
    BY <1>16, <2>1 DEF Detached
  <2>3. \A q \in calling : /\ q \notin Movers(m) /\ q \notin Movers(m)'
                           /\ EndLasts(q) /\ payload'[q].msg = payload[q].msg
    <3>1. ASSUME NEW q \in calling
          PROVE  /\ rows[q].kind = "flags" /\ rows'[q].kind = "flags" /\ rows[q].status = "sending"
                 /\ payload'[q].msg = payload[q].msg
      <4>1. q \in batch
        BY DEF FolderInv, MailInv, IInv, TypeOK
      <4>. QED  BY <1>6, <1>9, <1>12, <4>1 DEF FolderInv, MailInv, IInv, HeldRows, SamePlaces
    <3>. QED  BY <3>1 DEF Movers, LiveRows, Relocates, EndLasts
  <2>4. \A q \in RowIds \ calling : Lasting(q)
    BY <1>9, <1>10, <1>11 DEF Lasting, EndLasts
  <2>5. calling \in SUBSET RowIds /\ \A q : q \notin calling'
    BY <1>3, <1>6
  <2>. QED  BY <1>9, <1>16, <2>1, <2>2, <2>3, <2>4, <2>5, Untouched
<1>. QED  BY <1>1, <1>13, <1>14, <1>15, <1>16 DEF FolderInv

-----------------------------------------------------------------------------
(* Relocations end *)

LEMMA PlacesWith ==
  ASSUME NEW v
  PROVE  /\ LET new == [Mail EXCEPT !.maps = v] IN
            new.maps = v /\ new.tomb = tomb /\ new.payload = payload
         /\ LET new == [Mail EXCEPT !.tomb = v] IN
            new.maps = maps /\ new.tomb = v /\ new.payload = payload
         /\ Mail.maps = maps /\ Mail.tomb = tomb /\ Mail.payload = payload
BY DEF Mail

\* What the inverse of row r makes of where its message is.
LEMMA MoveReverts ==
  ASSUME PlacesFit, NEW r \in RowIds, rows[r].kind # "flags", NEW m \in Msgs, payload[r].msg = m
  PROVE  LET new == RevertIntent(Mail, r)
             back == {mp \in payload[r].from : \A c \in maps[m] : c.folder # mp.folder}
             placeholder == IF payload[r].added THEN {Mapping(payload[r].dest, NoUid)} ELSE {}
         IN /\ new.payload = payload
            /\ new.maps = [x \in Msgs |-> new.maps[x]] /\ \A x \in Msgs : \A mp \in new.maps[x] : IsPlace(mp)
            /\ new.tomb = [x \in Msgs |-> new.tomb[x]]
            /\ \A x \in Msgs \ {m} : new.maps[x] = maps[x] /\ new.tomb[x] = tomb[x]
            /\ rows[r].kind = "delete" =>
                 new.maps[m] = maps[m] /\ new.tomb[m] = IF payload[r].wasDeleted THEN tomb[m] ELSE FALSE
            /\ rows[r].kind \in {"archive", "move"} =>
                 /\ new.tomb[m] = tomb[m]
                 /\ new.maps[m] = IF payload[r].from = {} THEN maps[m] ELSE (maps[m] \cup back) \ placeholder
<1>. DEFINE new == RevertIntent(Mail, r)
            back == {mp \in payload[r].from : \A c \in maps[m] : c.folder # mp.folder}
            placeholder == IF payload[r].added THEN {Mapping(payload[r].dest, NoUid)} ELSE {}
<1>1. CASE rows[r].kind = "delete"
  <2>. DEFINE v == IF payload[r].wasDeleted THEN tomb ELSE [tomb EXCEPT ![m] = FALSE]
  <2>1. new = IF payload[r].wasDeleted THEN Mail ELSE [Mail EXCEPT !.tomb = v]
    BY <1>1, PlacesWith DEF RevertIntent, RevertDelete
  <2>2. new.payload = payload /\ new.maps = maps /\ new.tomb = v
    <3>. HIDE DEF new
    <3>. QED  BY <2>1, PlacesWith
  <2>3. v = [x \in Msgs |-> v[x]] /\ (\A x \in Msgs \ {m} : v[x] = tomb[x])
        /\ v[m] = IF payload[r].wasDeleted THEN tomb[m] ELSE FALSE
    BY DEF PlacesFit
  <2>. HIDE DEF new, v
  <2>4. rows[r].kind \notin {"archive", "move"}
    BY <1>1
  <2>5. maps = [x \in Msgs |-> maps[x]] /\ \A x \in Msgs : \A mp \in maps[x] : IsPlace(mp)
    BY DEF PlacesFit
  <2>. QED  BY <2>2, <2>3, <2>4, <2>5 DEF new
<1>2. CASE rows[r].kind \in {"archive", "move"} /\ payload[r].from # {}
  <2>. DEFINE left == (maps[m] \cup back) \ placeholder
              v == [maps EXCEPT ![m] = left]
  <2>1. new = [Mail EXCEPT !.maps = v]
    <3>. DEFINE kept == {mp \in payload[r].from : \A c \in Mail.maps[payload[r].msg] : c.folder # mp.folder}
    <3>1. new = [Mail EXCEPT !.maps[payload[r].msg] = (Mail.maps[payload[r].msg] \cup kept) \ placeholder]
      BY <1>2 DEF RevertIntent, RevertMove
    <3>2. kept = back /\ Mail.maps = maps
      BY PlacesWith
    <3>. HIDE DEF new, kept, back, placeholder
    <3>. QED  BY <3>1, <3>2
  <2>2. new.payload = payload /\ new.maps = v /\ new.tomb = tomb
    <3>. HIDE DEF new
    <3>. QED  BY <2>1, PlacesWith
  <2>3. \A mp \in left : IsPlace(mp)
    BY DEF PlacesFit
  <2>4. v = [x \in Msgs |-> v[x]] /\ (\A x \in Msgs \ {m} : v[x] = maps[x]) /\ v[m] = left
    <3>. HIDE DEF left
    <3>. QED  BY DEF PlacesFit
  <2>. HIDE DEF new, v
  <2>5. \A x \in Msgs : \A mp \in v[x] : IsPlace(mp)
    BY <2>3, <2>4 DEF PlacesFit
  <2>6. rows[r].kind # "delete" /\ tomb = [x \in Msgs |-> tomb[x]]
    BY <1>2 DEF PlacesFit
  <2>. QED  BY <1>2, <2>2, <2>4, <2>5, <2>6 DEF new
<1>3. CASE rows[r].kind # "delete" /\ (rows[r].kind \in {"archive", "move"} => payload[r].from = {})
  <2>1. new = Mail
    BY <1>3 DEF RevertIntent, RevertMove
  <2>2. new.payload = payload /\ new.maps = maps /\ new.tomb = tomb
    <3>. HIDE DEF new
    <3>. QED  BY <2>1, PlacesWith
  <2>. HIDE DEF new
  <2>3. /\ maps = [x \in Msgs |-> maps[x]] /\ \A x \in Msgs : \A mp \in maps[x] : IsPlace(mp)
        /\ tomb = [x \in Msgs |-> tomb[x]]
    BY DEF PlacesFit
  <2>. QED  BY <1>3, <2>2, <2>3 DEF new
<1>. QED  BY <1>1, <1>2, <1>3

LEMMA MoveRevertsFit ==
  ASSUME PlacesFit, NEW r \in RowIds, rows[r].kind # "flags", NEW m \in Msgs, payload[r].msg = m
  PROVE  LET new == RevertIntent(Mail, r)
         IN /\ new.payload = payload
            /\ new.maps = [x \in Msgs |-> new.maps[x]] /\ \A x \in Msgs : \A mp \in new.maps[x] : IsPlace(mp)
            /\ new.tomb = [x \in Msgs |-> new.tomb[x]]
            /\ \A x \in Msgs \ {m} : new.maps[x] = maps[x] /\ new.tomb[x] = tomb[x]
BY MoveReverts

\* The inverse of a row in whose attempts nothing slipped puts its message back.
LEMMA RevertRests ==
  ASSUME PlacesFit, NEW r \in RowIds, NEW m \in Msgs, payload[r].msg = m, ~ doubtful[r],
         Deleting(m, r) \/ Moving(m, r) \/ Staying(m, r)
  PROVE  LET new == RevertIntent(Mail, r) IN
         /\ new.maps[m] \in {{Home(m)}, {Mapping(server[m].folder, NoUid)}}
         /\ new.tomb[m] => server[m].folder = "trash" \/ "trash" \notin Folders
<1>. DEFINE new == RevertIntent(Mail, r)
            back == {mp \in payload[r].from : \A c \in maps[m] : c.folder # mp.folder}
            placeholder == IF payload[r].added THEN {Mapping(payload[r].dest, NoUid)} ELSE {}
<1>1. rows[r].kind # "flags"
  BY DEF Deleting, Moving, Staying
<1>2. /\ rows[r].kind = "delete" =>
           new.maps[m] = maps[m] /\ new.tomb[m] = IF payload[r].wasDeleted THEN tomb[m] ELSE FALSE
      /\ rows[r].kind \in {"archive", "move"} =>
           /\ new.tomb[m] = tomb[m]
           /\ new.maps[m] = IF payload[r].from = {} THEN maps[m] ELSE (maps[m] \cup back) \ placeholder
  BY <1>1, MoveReverts
<1>. HIDE DEF new
<1>3. Home(m).folder = server[m].folder
  BY PlaceIs DEF Home
<1>4. CASE Deleting(m, r)
  <2>1. PICK mp \in maps[m] : /\ maps[m] = {mp} /\ Leaving(m, r, mp)
                              /\ payload[r].wasDeleted => mp.folder = "trash" \/ "trash" \notin Folders
    BY <1>4 DEF Deleting
  <2>2. Home(m) = mp
    BY <2>1 DEF Leaving
  <2>. QED  BY <1>2, <1>3, <1>4, <2>1, <2>2 DEF Deleting, new
<1>5. CASE Moving(m, r)
  <2>1. PICK mp \in payload[r].from : payload[r].from = {mp} /\ Leaving(m, r, mp) /\ Goes(r, mp)
    BY <1>5 DEF Moving
  <2>. DEFINE there == Mapping(payload[r].dest, NoUid)
  <2>2. Home(m) = mp /\ mp.uid # NoUid
    BY <2>1 DEF Leaving
  <2>3. DestOf(r) = payload[r].dest
    BY <1>5 DEF DestOf, Moving
  <2>4. mp.folder # payload[r].dest
    BY <2>1, <2>3 DEF Goes
  <2>5. there.folder = payload[r].dest /\ there.uid = NoUid
    BY PlaceIs
  <2>6. maps[m] = {there} /\ payload[r].added /\ (tomb[m] => "trash" \notin Folders)
        /\ rows[r].kind \in {"archive", "move"}
    BY <1>5 DEF Moving
  <2>. HIDE DEF there
  <2>7. back = {mp} /\ placeholder = {there} /\ mp # there
    BY <2>1, <2>2, <2>4, <2>5, <2>6 DEF there
  <2>8. new.maps[m] = ({there} \cup {mp}) \ {there}
    BY <1>2, <2>1, <2>6, <2>7
  <2>9. new.maps[m] = {Home(m)}
    BY <2>2, <2>7, <2>8
  <2>. QED  BY <1>2, <2>6, <2>9 DEF new
<1>6. CASE Staying(m, r)
  BY <1>2, <1>6 DEF Staying, Rests, new
<1>. QED  BY <1>4, <1>5, <1>6

\* A row ends and its inverse runs.
LEMMA RevertedPlaces ==
  ASSUME FolderInv, MailInv', NEW r \in RowIds, rows[r].status \in Live, rows[r].kind # "flags",
         rows'[r].kind = rows[r].kind, rows'[r].status \in {"canceled", "dead"},
         \A q \in RowIds \ {r} : Calm(q), \A q \in RowIds : doubtful[q] => doubtful'[q],
         Becomes(RevertIntent(Mail, r)), tangled' = tangled,
         server' = [x \in Msgs |-> server'[x]],
         \A x \in Msgs : IsCopy(server'[x]) /\ (server[x].folder = "nowhere" => server'[x].folder = "nowhere"),
         \A x \in Msgs : server'[x] = server[x] \/ (x = payload[r].msg /\ doubtful'[r]),
         r \notin calling', calling' \in {calling, {}},
         aim' = aim \/ (calling' = {} /\ aim' = [q \in RowIds |-> Nowhere])
  PROVE  FolderInv'
<1>. DEFINE new == RevertIntent(Mail, r)
<1>1. PlacesFit /\ KindsFit /\ CallsFit /\ IInv
  BY DEF FolderInv, MailInv
<1>2. PICK m \in Msgs : payload[r].msg = m /\ rows[r].kind \in {"delete", "archive", "move"}
  BY <1>1 DEF KindsFit, Live
<1>3. /\ new.payload = payload
      /\ new.maps = [x \in Msgs |-> new.maps[x]] /\ \A x \in Msgs : \A mp \in new.maps[x] : IsPlace(mp)
      /\ new.tomb = [x \in Msgs |-> new.tomb[x]]
      /\ \A x \in Msgs \ {m} : new.maps[x] = maps[x] /\ new.tomb[x] = tomb[x]
  BY <1>1, <1>2, MoveRevertsFit
<1>4. maps' = new.maps /\ tomb' = new.tomb /\ payload' = payload
  BY <1>3 DEF Becomes
<1>5. ~ doubtful[r] /\ (Deleting(m, r) \/ Moving(m, r) \/ Staying(m, r)) =>
        /\ new.maps[m] \in {{Home(m)}, {Mapping(server[m].folder, NoUid)}}
        /\ new.tomb[m] => server[m].folder = "trash" \/ "trash" \notin Folders
  BY <1>1, <1>2, RevertRests
<1>. HIDE DEF new
<1>6. \A q \in RowIds : /\ rows'[q].kind = rows[q].kind
                        /\ rows'[q].status = "none" <=> rows[q].status = "none"
  BY DEF Calm, Live
<1>7. KindsFit' /\ CallsFit'
  BY <1>1, <1>4, <1>6, KindsKept, CallsKept
<1>8. PlacesFit'
  <2>1. /\ aim' = [q \in RowIds |-> aim'[q]]
        /\ \A q \in RowIds : rows'[q].kind # "flags" => aim'[q].folder \in Roles
    BY <1>1, <1>6 DEF PlacesFit, Nowhere, Roles
  <2>2. \A x \in Msgs : \A mp \in maps'[x] : IsPlace(mp)
    BY <1>3, <1>4
  <2>3. maps' = [x \in Msgs |-> maps'[x]] /\ tomb' = [x \in Msgs |-> tomb'[x]]
    BY <1>3, <1>4
  <2>. QED  BY <1>1, <1>4, <2>1, <2>2, <2>3 DEF PlacesFit, IsPlace, IsCopy
<1>9. \A q \in RowIds \ {r} : Lasting(q)
  <2>1. \A q \in RowIds : SamePlaces(q)
    BY <1>4 DEF SamePlaces
  <2>. QED  BY <2>1, CalmLasts
<1>10. ASSUME NEW x \in Msgs \ Detached', Plain(x)'  PROVE Placing(x)'
  <2>1. x \in Msgs \ Detached
    BY <1>10 DEF Detached
  <2>2. CASE x # m
    <3>. DEFINE S == {r}
    <3>1. S \in SUBSET RowIds /\ \A q \in RowIds \ S : Lasting(q)
      BY <1>9
    <3>2. \A q \in S : q \notin Movers(x) /\ q \notin Movers(x)' /\ q \notin ForMsg(x)
      BY <1>2, <1>4, <2>2 DEF Movers, LiveRows, ForMsg
    <3>3. /\ maps'[x] = maps[x] /\ tomb'[x] = tomb[x] /\ (tangled[x] => tangled'[x])
          /\ server'[x].folder = server[x].folder /\ server'[x].uid = server[x].uid
      BY <1>2, <1>3, <1>4, <2>1, <2>2
    <3>4. \A q \in Movers(x) : q \in calling' => q \in calling /\ aim'[q] = aim[q]
      OBVIOUS
    <3>. HIDE DEF S
    <3>. QED  BY <1>10, <2>1, <3>1, <3>2, <3>3, <3>4, Untouched
  <2>3. CASE x = m
    <3>1. r \in ForMsg(m) /\ r \in Movers(m) /\ r \in ForMsg(m)'
      BY <1>2, <1>4 DEF Movers, LiveRows, ForMsg, Relocates
    <3>2. ~ doubtful'[r] /\ ~ doubtful[r]
      BY <1>10, <2>3, <3>1 DEF Plain, NoDoubtfulLoss
    <3>3. Plain(m)
      <4>1. \A q \in ForMsg(m) :
              EndLasts(q) /\ (rows[q].status \in {"canceled", "dead"} => payload'[q].msg = payload[q].msg)
        BY <1>4, <1>9 DEF ForMsg, Lasting, EndLasts, Live
      <4>. QED  BY <1>10, <2>3, <4>1, PlainBefore
    <3>4. Movers(m) = {r} /\ (Deleting(m, r) \/ Moving(m, r) \/ Staying(m, r))
      BY <2>1, <2>3, <3>1, <3>3 DEF FolderInv, Placing
    <3>5. Movers(m)' = {}
      <4>1. \A q \in RowIds \ {r} : q \in Movers(m)' => q \in Movers(m)
        BY <1>9 DEF Movers, LiveRows, ForMsg, Relocates, Lasting, SamePlaces
      <4>2. r \notin Movers(m)' /\ Movers(m)' \subseteq RowIds
        BY DEF Movers, LiveRows, ForMsg, Live
      <4>. QED  BY <3>4, <4>1, <4>2
    <3>6. server'[m] = server[m]
      BY <3>2
    <3>7. Rests(m)'
      BY <1>4, <1>5, <3>2, <3>4, <3>6 DEF Rests, Home
    <3>. QED  BY <2>3, <3>5, <3>7 DEF Placing
  <2>. QED  BY <2>2, <2>3
<1>. QED  BY <1>7, <1>8, <1>10 DEF FolderInv

LEMMA CancelPlaces ==
  ASSUME FolderInv, NEW r \in RowIds, CancelIntent(r)
  PROVE  FolderInv'
<1>. DEFINE mail == RevertIntent(Mail, r)
<1>1. MailInv'
  BY CancelIntentKeeps DEF FolderInv
<1>2. /\ Cancel(r) /\ rows[r].status = "pending" /\ Becomes(mail)
      /\ calling' = calling /\ doubtful' = doubtful /\ UNCHANGED <<aim, server, tangled>>
  BY DEF CancelIntent, Cancel
<1>3. /\ rows'[r].kind = rows[r].kind /\ rows'[r].status = "canceled"
      /\ \A q \in RowIds \ {r} : Calm(q)
  BY <1>2, CanceledRow DEF FolderInv, MailInv
<1>4. PlacesFit /\ KindsFit /\ CallsFit /\ IInv
  BY DEF FolderInv, MailInv
<1>5. CASE rows[r].kind # "flags"
  <2>1. r \notin calling'
    BY <1>2, <1>4 DEF IInv, TypeOK, HeldRows
  <2>2. server' = [x \in Msgs |-> server'[x]] /\ \A x \in Msgs : IsCopy(server'[x]) /\ server'[x] = server[x]
    BY <1>2, <1>4 DEF PlacesFit
  <2>3. rows[r].status \in Live
    BY <1>2 DEF Live
  <2>. QED  BY <1>1, <1>2, <1>3, <1>5, <2>1, <2>2, <2>3, RevertedPlaces
<1>6. CASE rows[r].kind = "flags"
  <2>1. InPlace(mail)
    <3>1. InPlace(Mail) /\ Comes(Mail)
      BY MailComes DEF InPlace, Mail, FolderInv
    <3>. QED  BY <1>6, <3>1, FlagsStayInPlace
  <2>. HIDE DEF mail
  <2>2. maps' = maps /\ tomb' = tomb /\ \A q \in RowIds : SamePlaces(q)
    BY <1>2, <2>1 DEF InPlace, SamePlaces, Becomes
  <2>3. \A q \in RowIds : rows'[q].kind = rows[q].kind /\ (rows'[q].status = "none" <=> rows[q].status = "none")
    BY <1>2, <1>3 DEF Calm, Live
  <2>4. KindsFit' /\ CallsFit'
    BY <1>2, <1>4, <2>2, <2>3, KindsKept, CallsKept DEF SamePlaces
  <2>5. PlacesFit'
    <3>1. \A q \in RowIds : payload'[q].dest \in Roles /\ \A mp \in payload'[q].from : IsPlace(mp)
      BY <1>4, <2>2 DEF PlacesFit, SamePlaces
    <3>2. UNCHANGED <<maps, tomb, tangled, server, aim>>
      BY <1>2, <2>2
    <3>. QED  BY <1>4, <2>3, <3>1, <3>2, AimsKept
  <2>6. ASSUME NEW x \in Msgs \ Detached', Plain(x)'  PROVE Placing(x)'
    <3>. DEFINE S == {r}
    <3>1. x \in Msgs \ Detached
      BY <1>2, <2>6 DEF Detached
    <3>2. S \in SUBSET RowIds /\ \A q \in RowIds \ S : Lasting(q)
      BY <1>2, <1>3, <2>2, CalmLasts
    <3>3. \A q \in S : /\ q \notin Movers(x) /\ q \notin Movers(x)'
                       /\ EndLasts(q) /\ payload'[q].msg = payload[q].msg
      BY <1>2, <1>3, <1>6, <2>2 DEF Movers, LiveRows, Relocates, EndLasts, SamePlaces
    <3>4. /\ maps'[x] = maps[x] /\ tomb'[x] = tomb[x] /\ (tangled[x] => tangled'[x])
          /\ server'[x].folder = server[x].folder /\ server'[x].uid = server[x].uid
          /\ \A q \in Movers(x) : q \in calling' => q \in calling /\ aim'[q] = aim[q]
      BY <1>2, <2>2
    <3>. HIDE DEF S
    <3>. QED  BY <2>6, <3>1, <3>2, <3>3, <3>4, Untouched
  <2>. QED  BY <1>1, <2>4, <2>5, <2>6 DEF FolderInv
<1>. QED  BY <1>5, <1>6

-----------------------------------------------------------------------------
(* A relocation's call answers *)

LEMMA MovedCopy ==
  ASSUME PlacesFit, NEW m \in Msgs, NEW dest
  PROVE  /\ IsCopy(Moved(m, dest)) /\ Moved(m, dest).folder = dest
         /\ Moved(m, dest).uid = server[m].uid + 1 /\ Moved(m, dest) # server[m]
<1>1. PICK a, b, c : server[m] = [folder |-> a, uid |-> b, flags |-> c] /\ b \in Nat \ {0}
  BY DEF PlacesFit, IsCopy
<1>2. server[m].uid = b
  BY <1>1
<1>3. Moved(m, dest) = [folder |-> dest, uid |-> b + 1, flags |-> c]
  <2>1. Moved(m, dest) = [[server[m] EXCEPT !.folder = dest] EXCEPT !.uid = b + 1]
    BY <1>2 DEF Moved
  <2>2. [server[m] EXCEPT !.folder = dest] = [folder |-> dest, uid |-> b, flags |-> c]
    BY <1>1
  <2>. QED  BY <2>1, <2>2
<1>4. b + 1 \in Nat \ {0} /\ b + 1 # b
  BY <1>1
<1>5. Moved(m, dest).folder = dest /\ Moved(m, dest).uid = b + 1
  BY <1>3
<1>6. Moved(m, dest) # server[m] /\ IsCopy(Moved(m, dest))
  BY <1>2, <1>3, <1>4, <1>5 DEF IsCopy
<1>. QED  BY <1>2, <1>5, <1>6

\* The row that is called is a relocation of its message.
LEMMA CalledRow ==
  ASSUME FolderInv, NEW r \in RowIds, calling = {r}, rows[r].kind # "flags"
  PROVE  /\ rows[r].status = "sending" /\ rows[r].kind \in {"delete", "archive", "move"}
         /\ payload[r].msg \in Msgs /\ r \in Movers(payload[r].msg)
         /\ DestOf(r) \in Roles /\ aim[r].folder \in Roles
<1>1. rows[r].status = "sending"
  BY DEF FolderInv, MailInv, IInv, TypeOK, HeldRows
<1>2. rows[r].kind \in {"delete", "archive", "move"} /\ payload[r].msg \in Msgs
  BY <1>1 DEF FolderInv, KindsFit
<1>3. r \in Movers(payload[r].msg)
  BY <1>1, <1>2 DEF Movers, LiveRows, ForMsg, Live, Relocates
<1>4. DestOf(r) \in Roles /\ aim[r].folder \in Roles
  BY <1>2 DEF DestOf, Roles, FolderInv, PlacesFit
<1>. QED  BY <1>1, <1>2, <1>3, <1>4

\* Where the copy is once the call of row r has answered.
LEMMA CallMoves ==
  ASSUME FolderInv, NEW r \in RowIds, calling = {r}, rows[r].kind # "flags", NEW m, payload[r].msg = m,
         aim[r].kind = "server" /\ Hits(m, aim[r]), server' = [server EXCEPT ![m] = Moved(m, DestOf(r))]
  PROVE  /\ server' = [x \in Msgs |-> server'[x]]
         /\ \A x \in Msgs : IsCopy(server'[x]) /\ (server[x].folder = "nowhere" => server'[x].folder = "nowhere")
         /\ \A x \in Msgs \ {m} : server'[x] = server[x]
         /\ server'[m].folder = DestOf(r) /\ server'[m].uid = server[m].uid + 1 /\ server'[m] # server[m]
<1>1. m \in Msgs /\ aim[r].folder \in Roles /\ PlacesFit
  BY CalledRow DEF FolderInv
<1>2. /\ server' = [x \in Msgs |-> server'[x]] /\ server'[m] = Moved(m, DestOf(r))
      /\ \A x \in Msgs \ {m} : server'[x] = server[x]
  BY <1>1 DEF PlacesFit
<1>3. /\ IsCopy(server'[m]) /\ server'[m].folder = DestOf(r)
      /\ server'[m].uid = server[m].uid + 1 /\ server'[m] # server[m]
  BY <1>1, <1>2, MovedCopy
<1>4. server[m].folder # "nowhere"
  BY <1>1 DEF Hits, Roles
<1>. QED  BY <1>1, <1>2, <1>3, <1>4 DEF PlacesFit

\* What the call of the row that moves m was given.
LEMMA CallAim ==
  ASSUME NEW r, r \in calling, NEW m, Deleting(m, r) \/ Moving(m, r) \/ Staying(m, r)
  PROVE  \/ Staying(m, r) /\ aim[r] = Nowhere
         \/ \E mp : /\ Leaving(m, r, mp)
                    /\ aim[r] = IF Goes(r, mp) THEN OnServer(mp) ELSE Nowhere
                    /\ \/ Deleting(m, r) /\ maps[m] = {mp}
                          /\ (payload[r].wasDeleted => mp.folder = "trash" \/ "trash" \notin Folders)
                       \/ Moving(m, r) /\ payload[r].from = {mp} /\ Goes(r, mp)
<1>1. CASE Deleting(m, r)
  <2>1. PICK mp \in maps[m] : /\ maps[m] = {mp} /\ Leaving(m, r, mp)
                              /\ payload[r].wasDeleted => mp.folder = "trash" \/ "trash" \notin Folders
    BY <1>1 DEF Deleting
  <2>2. aim[r] = IF Goes(r, mp) THEN OnServer(mp) ELSE Nowhere
    BY <2>1 DEF Leaving
  <2>. QED  BY <1>1, <2>1, <2>2
<1>2. CASE Moving(m, r)
  <2>1. PICK mp \in payload[r].from : payload[r].from = {mp} /\ Leaving(m, r, mp) /\ Goes(r, mp)
    BY <1>2 DEF Moving
  <2>2. aim[r] = IF Goes(r, mp) THEN OnServer(mp) ELSE Nowhere
    BY <2>1 DEF Leaving
  <2>. QED  BY <1>2, <2>1, <2>2
<1>3. CASE Staying(m, r)
  BY <1>3 DEF Staying
<1>. QED  BY <1>1, <1>2, <1>3

LEMMA HitsHome ==
  ASSUME NEW m, NEW mp, IsPlace(mp)
  PROVE  Hits(m, OnServer(mp)) <=> Home(m) = mp
BY HomeAt DEF Hits, OnServer

\* The row whose call left no trace, or slipped, still takes m from where it did.
LEMMA StillMoves ==
  ASSUME PlacesFit, NEW r \in calling, NEW m \in Msgs,
         Deleting(m, r) \/ Moving(m, r) \/ Staying(m, r), payload[r].msg = m,
         rows'[r].kind = rows[r].kind, maps'[m] = maps[m], tomb' = tomb, payload' = payload,
         doubtful[r] => doubtful'[r], r \notin calling',
         \/ server'[m].folder = server[m].folder /\ server'[m].uid = server[m].uid
         \/ /\ aim[r].kind = "server" /\ server'[m].folder = DestOf(r) /\ doubtful'[r]
  PROVE  Deleting(m, r)' \/ Moving(m, r)' \/ Staying(m, r)'
<1>1. Nowhere.kind # "server"
  BY DEF Nowhere
<1>2. /\ DestOf(r)' = DestOf(r)
      /\ \A mp : Goes(r, mp)' <=> Goes(r, mp)
  BY DEF DestOf, Goes
<1>3. CASE Staying(m, r) /\ aim[r] = Nowhere
  <2>1. server'[m].folder = server[m].folder /\ server'[m].uid = server[m].uid
    BY <1>1, <1>3
  <2>2. Rests(m)'
    BY <1>3, <2>1 DEF Staying, Rests, Home
  <2>3. Staying(m, r)'
    BY <1>3, <2>2 DEF Staying
  <2>. QED  BY <2>3
<1>4. CASE \E mp : /\ Leaving(m, r, mp)
                   /\ aim[r] = IF Goes(r, mp) THEN OnServer(mp) ELSE Nowhere
                   /\ \/ Deleting(m, r) /\ maps[m] = {mp}
                         /\ (payload[r].wasDeleted => mp.folder = "trash" \/ "trash" \notin Folders)
                      \/ Moving(m, r) /\ payload[r].from = {mp} /\ Goes(r, mp)
  <2>1. PICK mp : /\ Leaving(m, r, mp)
                  /\ aim[r] = IF Goes(r, mp) THEN OnServer(mp) ELSE Nowhere
                  /\ \/ Deleting(m, r) /\ maps[m] = {mp}
                        /\ (payload[r].wasDeleted => mp.folder = "trash" \/ "trash" \notin Folders)
                     \/ Moving(m, r) /\ payload[r].from = {mp} /\ Goes(r, mp)
    BY <1>4
  <2>2. Leaving(m, r, mp)'
    <3>1. CASE server'[m].folder = server[m].folder /\ server'[m].uid = server[m].uid
      <4>1. Home(m)' = Home(m)
        BY <3>1 DEF Home
      <4>. QED  BY <1>2, <2>1, <3>1, <4>1 DEF Leaving
    <3>2. CASE aim[r].kind = "server" /\ server'[m].folder = DestOf(r) /\ doubtful'[r]
      <4>1. Goes(r, mp)
        BY <1>1, <2>1, <3>2
      <4>. QED  BY <1>2, <2>1, <3>2, <4>1 DEF Leaving
    <3>. QED  BY <3>1, <3>2
  <2>3. CASE Deleting(m, r) /\ maps[m] = {mp}
             /\ (payload[r].wasDeleted => mp.folder = "trash" \/ "trash" \notin Folders)
    <3>1. Deleting(m, r)'
      BY <2>2, <2>3 DEF Deleting
    <3>. QED  BY <3>1
  <2>4. CASE Moving(m, r) /\ payload[r].from = {mp} /\ Goes(r, mp)
    <3>1. Moving(m, r)'
      BY <1>2, <2>2, <2>4 DEF Moving
    <3>. QED  BY <3>1
  <2>. QED  BY <2>1, <2>3, <2>4
<1>. QED  BY <1>3, <1>4, CallAim

\* The row that is done leaves m where it was to be.
LEMMA DoneRests ==
  ASSUME PlacesFit, NEW r \in calling, r \in RowIds, NEW m \in Msgs,
         Deleting(m, r) \/ Moving(m, r) \/ Staying(m, r), payload[r].msg = m,
         NEW o \in {"taken", "nothing"},
         o = "taken" => /\ aim[r].kind = "server" /\ Hits(m, aim[r])
                        /\ server'[m].folder = DestOf(r) /\ server'[m].uid = server[m].uid + 1,
         o = "nothing" => /\ ~ (aim[r].kind = "server" /\ Hits(m, aim[r])) /\ server'[m] = server[m],
         tomb' = tomb,
         maps'[m] = IF o = "taken" /\ UidPlus THEN {Mapping(DestOf(r), server[m].uid + 1)}
                    ELSE IF aim[r].kind # "none" THEN {Mapping(DestOf(r), NoUid)} ELSE maps[m]
  PROVE  Rests(m)'
<1>1. Nowhere.kind = "none" /\ \A mp : OnServer(mp).kind = "server"
  BY DEF Nowhere, OnServer
<1>2. CASE Staying(m, r) /\ aim[r] = Nowhere
  <2>1. o = "nothing"
    BY <1>1, <1>2
  <2>2. server'[m] = server[m] /\ maps'[m] = maps[m]
    BY <1>1, <1>2, <2>1
  <2>. QED  BY <1>2, <2>2 DEF Staying, Rests, Home
<1>3. CASE \E mp : /\ Leaving(m, r, mp)
                   /\ aim[r] = IF Goes(r, mp) THEN OnServer(mp) ELSE Nowhere
                   /\ \/ Deleting(m, r) /\ maps[m] = {mp}
                         /\ (payload[r].wasDeleted => mp.folder = "trash" \/ "trash" \notin Folders)
                      \/ Moving(m, r) /\ payload[r].from = {mp} /\ Goes(r, mp)
  <2>1. PICK mp : /\ Leaving(m, r, mp)
                  /\ aim[r] = IF Goes(r, mp) THEN OnServer(mp) ELSE Nowhere
                  /\ \/ Deleting(m, r) /\ maps[m] = {mp}
                        /\ (payload[r].wasDeleted => mp.folder = "trash" \/ "trash" \notin Folders)
                     \/ Moving(m, r) /\ payload[r].from = {mp} /\ Goes(r, mp)
    BY <1>3
  <2>2. IsPlace(mp)
    BY <2>1 DEF PlacesFit
  <2>3. tomb[m] => DestOf(r) = "trash" \/ "trash" \notin Folders
    BY <2>1 DEF Deleting, Moving, DestOf
  <2>4. CASE Goes(r, mp)
    <3>1. aim[r] = OnServer(mp) /\ (Hits(m, aim[r]) <=> Home(m) = mp)
      BY <2>1, <2>2, <2>4, HitsHome
    <3>2. server'[m].folder = DestOf(r)
      <4>1. CASE o = "taken"
        BY <4>1
      <4>2. CASE o = "nothing"
        BY <1>1, <2>1, <3>1, <4>2 DEF Leaving
      <4>. QED  BY <4>1, <4>2
    <3>3. maps'[m] \in {{Home(m)'}, {Mapping(server'[m].folder, NoUid)}}
      <4>1. CASE o = "taken" /\ UidPlus
        <5>1. Home(m)' = Mapping(DestOf(r), server[m].uid + 1)
          BY <3>2, <4>1 DEF Home
        <5>. QED  BY <4>1, <5>1
      <4>2. CASE ~ (o = "taken" /\ UidPlus)
        BY <1>1, <3>1, <3>2, <4>2
      <4>. QED  BY <4>1, <4>2
    <3>. QED  BY <2>3, <3>2, <3>3 DEF Rests
  <2>5. CASE ~ Goes(r, mp)
    <3>1. aim[r] = Nowhere /\ o = "nothing"
      BY <1>1, <2>1, <2>5
    <3>2. Deleting(m, r) /\ maps[m] = {mp} /\ Home(m) = mp
      BY <2>1, <2>5 DEF Leaving
    <3>3. maps'[m] = maps[m] /\ server'[m] = server[m]
      BY <1>1, <3>1
    <3>4. DestOf(r) = "trash" /\ (mp.folder = "trash" \/ "trash" \notin Folders)
      BY <2>5, <3>2 DEF Goes, DestOf, Deleting
    <3>5. server[m].folder = mp.folder
      BY <2>2, <3>2, HomeAt
    <3>6. Home(m)' = Home(m)
      BY <3>3 DEF Home
    <3>. QED  BY <3>2, <3>3, <3>4, <3>5, <3>6 DEF Rests
  <2>. QED  BY <2>4, <2>5
<1>. QED  BY <1>2, <1>3, CallAim

LEMMA SettleRowPlaces ==
  ASSUME FolderInv, NEW r \in RowIds, NEW o \in Outcomes, SettleRow(r, o)
  PROVE  FolderInv'
<1>. PICK m : m = payload[r].msg
  OBVIOUS
<1>. DEFINE hit == aim[r].kind = "server" /\ Hits(m, aim[r])
            out == [q \in {r} |-> o]
            dead == Marked(rows[r], o).status = "dead"
<1>1. MailInv'
  BY SettleRowKeeps DEF FolderInv
<1>2. /\ calling = {r} /\ rows[r].kind # "flags" /\ Settle(out) /\ calling' = {}
      /\ aim' = [q \in RowIds |-> Nowhere] /\ tangled' = tangled
  BY DEF SettleRow, Settle, Unaimed
<1>3. /\ o \in {"taken", "nothing", "refused", "lost"}
      /\ o \in {"taken", "lost"} => hit
      /\ o = "nothing" => ~ hit
      /\ o \in {"refused", "lost"} => aim[r].kind = "server"
  BY DEF SettleRow
<1>4. server' = IF o \in {"taken", "lost"} THEN [server EXCEPT ![m] = Moved(m, DestOf(r))] ELSE server
  BY DEF SettleRow
<1>5. /\ rows[r].status = "sending" /\ rows[r].kind \in {"delete", "archive", "move"}
      /\ m \in Msgs /\ r \in Movers(m)
  BY <1>2, CalledRow
<1>6. PlacesFit /\ KindsFit /\ CallsFit /\ IInv /\ rows \in [RowIds -> Row]
  BY DEF FolderInv, MailInv, IInv, TypeOK
<1>7. out \in [calling -> Answers]
  BY <1>2, OutcomeNames
<1>8. DeadRows(out) = IF dead THEN {r} ELSE {}
  BY DEF DeadRows
<1>9. /\ \A q \in DeadRows(out) : /\ rows[q].status \in Live /\ rows'[q].status = "dead"
                                  /\ rows'[q].kind = rows[q].kind
      /\ \A q \in RowIds \ DeadRows(out) :
           \/ Calm(q)
           \/ /\ rows[q].status \in Live /\ rows'[q].status = "done"
              /\ rows'[q].kind = rows[q].kind /\ undone'[q] = undone[q]
  <2>. HIDE DEF out
  <2>. QED  BY <1>2, <1>6, <1>7, SettledRows
<1>10. rows'[r] = Marked(rows[r], o)
  BY <1>2 DEF Settle, MarkedRows
<1>11. /\ \A q \in RowIds \ {r} : Calm(q)
       /\ \A q \in RowIds : doubtful[q] => doubtful'[q]
       /\ o = "lost" => doubtful'[r]
  <2>1. rows' = MarkedRows(out) /\ undone' = Reverted(out) /\ Observe(out)
    BY <1>2 DEF Settle
  <2>2. \A q \in RowIds \ {r} : rows'[q] = rows[q] /\ undone'[q] = undone[q]
    BY <1>6, <2>1 DEF MarkedRows, Reverted, IInv, TypeOK
  <2>3. \A q \in RowIds : doubtful[q] => doubtful'[q]
    BY <2>1 DEF Observe
  <2>4. o = "lost" => doubtful'[r]
    BY <2>1 DEF Observe
  <2>. QED  BY <2>2, <2>3, <2>4 DEF Calm
<1>12. /\ server' = [x \in Msgs |-> server'[x]]
       /\ \A x \in Msgs : IsCopy(server'[x]) /\ (server[x].folder = "nowhere" => server'[x].folder = "nowhere")
       /\ \A x \in Msgs \ {m} : server'[x] = server[x]
       /\ o \in {"taken", "lost"} => server'[m].folder = DestOf(r) /\ server'[m].uid = server[m].uid + 1
       /\ o \in {"nothing", "refused"} => server'[m] = server[m]
  <2>1. CASE o \in {"taken", "lost"}
    <3>1. server' = [server EXCEPT ![m] = Moved(m, DestOf(r))] /\ hit
      BY <1>3, <1>4, <2>1
    <3>. QED  BY <1>2, <2>1, <3>1, CallMoves
  <2>2. CASE o \in {"nothing", "refused"}
    BY <1>4, <1>6, <2>2 DEF PlacesFit
  <2>. QED  BY <1>3, <2>1, <2>2
<1>13. CASE dead
  <2>1. rows'[r].kind = rows[r].kind /\ rows'[r].status = "dead"
    BY <1>8, <1>9, <1>13
  <2>2. o \in {"refused", "lost"}
    BY <1>3, <1>5, <1>13, <1>6 DEF Marked, Row
  <2>3. Becomes(RevertIntent(Mail, r))
    BY <1>13 DEF SettleRow
  <2>4. \A x \in Msgs : server'[x] = server[x] \/ (x = payload[r].msg /\ doubtful'[r])
    BY <1>11, <1>12, <2>2
  <2>5. rows[r].status \in Live /\ r \notin calling' /\ calling' \in {calling, {}}
    BY <1>2, <1>5 DEF Live
  <2>. QED  BY <1>1, <1>2, <1>11, <1>12, <2>1, <2>3, <2>4, <2>5, RevertedPlaces
<1>14. CASE ~ dead
  <2>1. /\ UNCHANGED <<tomb, flag, payload>>
        /\ maps' = IF o = "taken" /\ UidPlus THEN Relinked(m, DestOf(r), server[m].uid + 1)
                   ELSE IF o \in {"taken", "nothing"} /\ aim[r].kind # "none" THEN Relinked(m, DestOf(r), NoUid)
                   ELSE maps
    BY <1>14 DEF SettleRow
  <2>2. /\ rows'[r].kind = rows[r].kind
        /\ o \in {"taken", "nothing"} => rows'[r].status = "done"
        /\ o \in {"refused", "lost"} => rows'[r].status = "pending"
    <3>1. rows[r] \in Row
      BY <1>6
    <3>. QED  BY <1>3, <1>10, <1>14, <3>1 DEF Marked, Row
  <2>3. \A q \in RowIds : /\ rows'[q].kind = rows[q].kind
                          /\ rows'[q].status = "none" <=> rows[q].status = "none"
    BY <1>3, <1>5, <1>11, <2>2 DEF Calm, Live
  <2>4. KindsFit' /\ CallsFit'
    BY <1>2, <1>6, <2>1, <2>3, KindsKept, CallsKept
  <2>5. /\ maps' = [x \in Msgs |-> maps'[x]] /\ \A x \in Msgs \ {m} : maps'[x] = maps[x]
        /\ maps'[m] = IF o = "taken" /\ UidPlus THEN {Mapping(DestOf(r), server[m].uid + 1)}
                      ELSE IF o \in {"taken", "nothing"} /\ aim[r].kind # "none"
                           THEN {Mapping(DestOf(r), NoUid)} ELSE maps[m]
    BY <1>5, <1>6, <2>1 DEF PlacesFit, Relinked
  <2>6. PlacesFit'
    <3>1. DestOf(r) \in Roles
      BY <1>2, CalledRow
    <3>2. \A u : IsPlace(Mapping(DestOf(r), u))
      BY <3>1, PlaceIs DEF IsPlace
    <3>3. \A x \in Msgs : \A mp \in maps'[x] : IsPlace(mp)
      BY <1>6, <2>5, <3>2 DEF PlacesFit
    <3>4. /\ aim' = [q \in RowIds |-> aim'[q]]
          /\ \A q \in RowIds : aim'[q].folder \in Roles
      BY <1>2 DEF Nowhere, Roles
    <3>. QED  BY <1>2, <1>6, <1>12, <2>1, <2>5, <3>3, <3>4 DEF PlacesFit, IsPlace, IsCopy
  <2>7. \A q \in RowIds \ {r} : Lasting(q)
    <3>1. \A q \in RowIds : SamePlaces(q)
      BY <2>1 DEF SamePlaces
    <3>. QED  BY <1>11, <3>1, CalmLasts
  <2>8. ASSUME NEW x \in Msgs \ Detached', Plain(x)'  PROVE Placing(x)'
    <3>1. x \in Msgs \ Detached
      BY <1>12, <2>8 DEF Detached
    <3>2. CASE x # m
      <4>. DEFINE S == {r}
      <4>1. S \in SUBSET RowIds /\ \A q \in RowIds \ S : Lasting(q)
        BY <2>7
      <4>2. \A q \in S : q \notin Movers(x) /\ q \notin Movers(x)' /\ q \notin ForMsg(x)
        BY <2>1, <3>2 DEF Movers, LiveRows, ForMsg
      <4>3. /\ maps'[x] = maps[x] /\ tomb'[x] = tomb[x] /\ (tangled[x] => tangled'[x])
            /\ server'[x].folder = server[x].folder /\ server'[x].uid = server[x].uid
            /\ \A q : q \notin calling'
        BY <1>2, <1>12, <2>1, <2>5, <3>1, <3>2
      <4>. HIDE DEF S
      <4>. QED  BY <2>8, <3>1, <4>1, <4>2, <4>3, Untouched
    <3>3. CASE x = m
      <4>1. Plain(m)
        <5>1. \A q \in ForMsg(m) :
                EndLasts(q) /\ (rows[q].status \in {"canceled", "dead"} => payload'[q].msg = payload[q].msg)
          BY <1>5, <2>1, <2>7 DEF ForMsg, Lasting, EndLasts
        <5>. QED  BY <1>2, <2>8, <3>3, <5>1, PlainBefore
      <4>2. Movers(m) = {r} /\ (Deleting(m, r) \/ Moving(m, r) \/ Staying(m, r))
        BY <1>5, <3>1, <3>3, <4>1 DEF FolderInv, Placing
      <4>3. \A q \in RowIds \ {r} : q \notin Movers(m)'
        BY <2>7, <4>2 DEF Movers, LiveRows, ForMsg, Relocates, Lasting, SamePlaces
      <4>4. Movers(m)' \subseteq RowIds
        BY DEF Movers, LiveRows, ForMsg
      <4>5. CASE o \in {"taken", "nothing"}
        <5>1. r \notin Movers(m)'
          BY <2>2, <4>5 DEF Movers, LiveRows, Live
        <5>2. Movers(m)' = {}
          BY <4>3, <4>4, <5>1
        <5>3. maps'[m] = IF o = "taken" /\ UidPlus THEN {Mapping(DestOf(r), server[m].uid + 1)}
                         ELSE IF aim[r].kind # "none" THEN {Mapping(DestOf(r), NoUid)} ELSE maps[m]
          BY <2>5, <4>5
        <5>4. /\ o = "taken" => /\ aim[r].kind = "server" /\ Hits(m, aim[r])
                                /\ server'[m].folder = DestOf(r) /\ server'[m].uid = server[m].uid + 1
              /\ o = "nothing" => ~ (aim[r].kind = "server" /\ Hits(m, aim[r])) /\ server'[m] = server[m]
          BY <1>3, <1>12
        <5>5. r \in calling /\ tomb' = tomb /\ payload[r].msg = m
          BY <1>2, <2>1
        <5>. HIDE DEF hit, dead, out
        <5>6. Rests(m)'
          BY <1>5, <1>6, <4>2, <4>5, <5>3, <5>4, <5>5, DoneRests
        <5>. QED  BY <3>3, <5>2, <5>6 DEF Placing
      <4>6. CASE o \in {"refused", "lost"}
        <5>1. r \in Movers(m)' /\ Movers(m)' = {r}
          <6>1. r \in Movers(m)'
            BY <1>5, <2>1, <2>2, <4>6 DEF Movers, LiveRows, ForMsg, Relocates, Live
          <6>. QED  BY <4>3, <4>4, <6>1
        <5>2. maps'[m] = maps[m] /\ tomb' = tomb /\ payload' = payload /\ r \in calling /\ r \notin calling'
          BY <1>2, <2>1, <2>5, <4>6
        <5>3. \/ server'[m].folder = server[m].folder /\ server'[m].uid = server[m].uid
              \/ aim[r].kind = "server" /\ server'[m].folder = DestOf(r) /\ doubtful'[r]
          BY <1>3, <1>11, <1>12, <4>6
        <5>4. payload[r].msg = m
          OBVIOUS
        <5>. HIDE DEF hit, dead, out
        <5>5. Deleting(m, r)' \/ Moving(m, r)' \/ Staying(m, r)'
          BY <1>5, <1>6, <1>11, <2>2, <4>2, <5>2, <5>3, <5>4, StillMoves
        <5>. QED  BY <3>3, <5>1, <5>5 DEF Placing
      <4>. QED  BY <1>3, <4>5, <4>6
    <3>. QED  BY <3>2, <3>3
  <2>. QED  BY <1>1, <2>4, <2>6, <2>8 DEF FolderInv
<1>. QED  BY <1>13, <1>14

-----------------------------------------------------------------------------
(* The process dies *)

\* What the outstanding calls made of the provider's copies.
LEMMA OutstandingCopies ==
  ASSUME FolderInv, NEW srv \in OutstandingServers, Slipped(srv)
  PROVE  /\ server' = [x \in Msgs |-> server'[x]]
         /\ \A x \in Msgs : IsCopy(server'[x]) /\ (server[x].folder = "nowhere" => server'[x].folder = "nowhere")
         /\ \A x \in Msgs :
              \/ server'[x].folder = server[x].folder /\ server'[x].uid = server[x].uid
              \/ \E r \in calling :
                   /\ calling = {r} /\ rows[r].kind # "flags" /\ payload[r].msg = x
                   /\ aim[r].kind = "server" /\ server'[x].folder = DestOf(r) /\ doubtful'[r]
<1>1. server' = srv /\ PlacesFit /\ CallsFit /\ calling \subseteq RowIds
  BY DEF Slipped, FolderInv, MailInv, IInv, TypeOK
<1>2. CASE \E res : srv = Stored(res)
  <2>1. PICK res : srv = Stored(res)
    BY <1>2
  <2>2. /\ server' = [x \in Msgs |-> server'[x]]
        /\ \A x \in Msgs : /\ IsCopy(server'[x])
                           /\ server'[x].folder = server[x].folder /\ server'[x].uid = server[x].uid
    BY <1>1, <2>1, StoredInPlace
  <2>. QED  BY <2>2
<1>3. CASE srv = server
  BY <1>1, <1>3 DEF PlacesFit
<1>4. CASE \E r \in calling : /\ calling # FlagRows(calling) /\ Placed(r) /\ Hits(payload[r].msg, aim[r])
                              /\ srv = [server EXCEPT ![payload[r].msg] = Moved(payload[r].msg, DestOf(r))]
  <2>1. PICK r \in calling : /\ calling # FlagRows(calling) /\ Placed(r) /\ Hits(payload[r].msg, aim[r])
                             /\ srv = [server EXCEPT ![payload[r].msg] = Moved(payload[r].msg, DestOf(r))]
    BY <1>4
  <2>2. calling = {r} /\ rows[r].kind # "flags" /\ r \in RowIds
    BY <1>1, <2>1 DEF CallsFit
  <2>. PICK m : payload[r].msg = m
    OBVIOUS
  <2>3. aim[r].kind = "server" /\ Hits(m, aim[r]) /\ server' = [server EXCEPT ![m] = Moved(m, DestOf(r))]
    BY <1>1, <2>1 DEF Placed
  <2>4. /\ server' = [x \in Msgs |-> server'[x]]
        /\ \A x \in Msgs : IsCopy(server'[x]) /\ (server[x].folder = "nowhere" => server'[x].folder = "nowhere")
        /\ \A x \in Msgs \ {m} : server'[x] = server[x]
        /\ server'[m].folder = DestOf(r) /\ server'[m].uid = server[m].uid + 1 /\ server'[m] # server[m]
    BY <2>2, <2>3, CallMoves
  <2>5. doubtful'[r]
    BY <1>1, <2>1, <2>2, <2>4 DEF Slipped
  <2>. QED  BY <2>2, <2>3, <2>4, <2>5
<1>. QED  BY <1>2, <1>3, <1>4 DEF OutstandingServers

LEMMA CrashPlaces ==
  ASSUME FolderInv, MailInv', NEW D \in SUBSET RowIds, \A q \in RowIds \ D : Calm(q),
         \A q \in D : /\ rows[q].status = "pending" /\ rows'[q].status = "canceled"
                      /\ rows'[q].kind = rows[q].kind /\ ~ undone'[q],
         NEW srv \in OutstandingServers, Slipped(srv), calling' = {}, Unaimed,
         UNCHANGED <<maps, tomb, payload, tangled>>
  PROVE  FolderInv'
<1>1. PlacesFit /\ KindsFit /\ CallsFit /\ IInv /\ calling \subseteq RowIds
  BY DEF FolderInv, MailInv, IInv, TypeOK
<1>2. /\ server' = [x \in Msgs |-> server'[x]]
      /\ \A x \in Msgs : IsCopy(server'[x]) /\ (server[x].folder = "nowhere" => server'[x].folder = "nowhere")
      /\ \A x \in Msgs :
           \/ server'[x].folder = server[x].folder /\ server'[x].uid = server[x].uid
           \/ \E r \in calling :
                /\ calling = {r} /\ rows[r].kind # "flags" /\ payload[r].msg = x
                /\ aim[r].kind = "server" /\ server'[x].folder = DestOf(r) /\ doubtful'[r]
  BY OutstandingCopies
<1>3. \A q \in RowIds : doubtful[q] => doubtful'[q]
  BY DEF Slipped
<1>4. \A q \in RowIds : /\ rows'[q].kind = rows[q].kind
                        /\ rows'[q].status = "none" <=> rows[q].status = "none"
  BY DEF Calm, Live
<1>5. KindsFit' /\ CallsFit'
  BY <1>1, <1>4, KindsKept, CallsKept
<1>6. PlacesFit'
  <2>1. /\ aim' = [q \in RowIds |-> aim'[q]]
        /\ \A q \in RowIds : aim'[q].folder \in Roles
    BY DEF Unaimed, Nowhere, Roles
  <2>. QED  BY <1>1, <1>2, <2>1 DEF PlacesFit, IsPlace, IsCopy
<1>7. \A q \in RowIds \ D : Lasting(q)
  <2>1. \A q \in RowIds : SamePlaces(q)
    BY DEF SamePlaces
  <2>. QED  BY <1>3, <2>1, CalmLasts
<1>8. ASSUME NEW x \in Msgs \ Detached', Plain(x)'  PROVE Placing(x)'
  <2>1. x \in Msgs \ Detached
    BY <1>2, <1>8 DEF Detached
  <2>2. \A q \in D : q \notin ForMsg(x) /\ q \notin Movers(x) /\ q \notin Movers(x)'
    <3>1. \A q \in D : q \notin ForMsg(x)'
      BY <1>8 DEF Plain, AllInverted
    <3>2. \A q \in D : q \notin ForMsg(x)
      BY <3>1 DEF ForMsg
    <3>. QED  BY <3>1, <3>2 DEF Movers, LiveRows
  <2>3. CASE server'[x].folder = server[x].folder /\ server'[x].uid = server[x].uid
    <3>1. /\ maps'[x] = maps[x] /\ tomb'[x] = tomb[x] /\ (tangled[x] => tangled'[x])
          /\ \A q : q \notin calling'
      OBVIOUS
    <3>. QED  BY <1>7, <1>8, <2>1, <2>2, <2>3, <3>1, Untouched
  <2>4. CASE \E r \in calling :
               /\ calling = {r} /\ rows[r].kind # "flags" /\ payload[r].msg = x
               /\ aim[r].kind = "server" /\ server'[x].folder = DestOf(r) /\ doubtful'[r]
    <3>1. PICK r \in calling :
               /\ calling = {r} /\ rows[r].kind # "flags" /\ payload[r].msg = x
               /\ aim[r].kind = "server" /\ server'[x].folder = DestOf(r) /\ doubtful'[r]
      BY <2>4
    <3>2. r \in RowIds /\ rows[r].status = "sending" /\ r \in Movers(x)
      BY <1>1, <3>1, CalledRow
    <3>3. r \in RowIds \ D
      BY <2>2, <3>2
    <3>4. Plain(x)
      <4>1. \A q \in ForMsg(x) :
              EndLasts(q) /\ (rows[q].status \in {"canceled", "dead"} => payload'[q].msg = payload[q].msg)
        BY <1>7, <2>2 DEF ForMsg, Lasting
      <4>. QED  BY <1>8, <4>1, PlainBefore
    <3>5. Movers(x) = {r} /\ (Deleting(x, r) \/ Moving(x, r) \/ Staying(x, r))
      BY <2>1, <3>2, <3>4 DEF FolderInv, Placing
    <3>6. Movers(x)' = Movers(x)
      <4>1. \A q \in RowIds : q \in Movers(x)' <=> q \in Movers(x)
        BY <1>7, <2>2 DEF Movers, LiveRows, ForMsg, Relocates, Lasting, SamePlaces
      <4>. QED  BY <4>1, MoversSame
    <3>7. /\ rows'[r].kind = rows[r].kind /\ maps'[x] = maps[x] /\ tomb' = tomb /\ payload' = payload
          /\ (doubtful[r] => doubtful'[r]) /\ r \notin calling'
      BY <1>3, <1>4, <3>2
    <3>8. Deleting(x, r)' \/ Moving(x, r)' \/ Staying(x, r)'
      BY <1>1, <2>1, <3>1, <3>5, <3>7, StillMoves
    <3>. QED  BY <3>5, <3>6, <3>8 DEF Placing
  <2>. QED  BY <1>2, <2>3, <2>4
<1>. QED  BY <1>5, <1>6, <1>8 DEF FolderInv

LEMMA CrashMailPlaces ==
  ASSUME FolderInv, CrashMail
  PROVE  FolderInv'
<1>1. MailInv'
  BY CrashMailKeeps DEF FolderInv
<1>2. PICK srv \in OutstandingServers : Slipped(srv)
  BY DEF CrashMail
<1>3. Reboot(rows) /\ calling' = {} /\ Unaimed /\ UNCHANGED <<maps, tomb, payload, tangled>>
  BY DEF CrashMail, Reboot
<1>4. \A q \in RowIds : Calm(q)
  <2>1. rows \in [RowIds -> Row] /\ undone' = undone
    BY <1>2 DEF FolderInv, MailInv, IInv, TypeOK, Slipped
  <2>. QED  BY <1>3, <2>1, RebootCalm DEF Calm, Live
<1>. DEFINE D == {}
<1>5. D \in SUBSET RowIds /\ (\A q \in RowIds \ D : Calm(q)) /\ \A q : q \notin D
  BY <1>4
<1>. HIDE DEF D
<1>. QED  BY <1>1, <1>2, <1>3, <1>5, CrashPlaces

LEMMA CrashInUndoPlaces ==
  ASSUME FolderInv, NEW r \in RowIds, CrashInUndo(r)
  PROVE  FolderInv'
<1>1. MailInv'
  BY CrashInUndoKeeps DEF FolderInv
<1>2. PICK srv \in OutstandingServers : Slipped(srv)
  BY DEF CrashInUndo
<1>3. /\ rows[r].status = "pending" /\ Reboot([rows EXCEPT ![r].status = "canceled"]) /\ undone' = undone
      /\ calling' = {} /\ Unaimed /\ UNCHANGED <<maps, tomb, payload, tangled>>
  BY <1>2 DEF CrashInUndo, Reboot, Slipped
<1>4. /\ rows'[r].kind = rows[r].kind /\ rows'[r].status = "canceled"
      /\ \A q \in RowIds \ {r} : Calm(q)
  BY <1>3, CanceledRow DEF FolderInv, MailInv
<1>5. ~ undone'[r]
  BY <1>3 DEF FolderInv, MailInv, IInv, InverseMatchesEnd
<1>. DEFINE D == {r}
<1>6. /\ D \in SUBSET RowIds /\ \A q \in RowIds \ D : Calm(q)
      /\ \A q \in D : /\ rows[q].status = "pending" /\ rows'[q].status = "canceled"
                      /\ rows'[q].kind = rows[q].kind /\ ~ undone'[q]
  BY <1>3, <1>4, <1>5
<1>. HIDE DEF D
<1>. QED  BY <1>1, <1>2, <1>3, <1>6, CrashPlaces

-----------------------------------------------------------------------------
LEMMA FolderStarts == MailInit => FolderInv
<1>. SUFFICES ASSUME MailInit  PROVE FolderInv
  OBVIOUS
<1>1. MailInv
  BY MailStarts
<1>2. /\ \A r \in RowIds : rows[r].status = "none" /\ rows[r].kind = "none"
      /\ calling = {}
  BY DEF MailInit, Init, NoRow
<1>3. \A r \in RowIds : payload[r] = Payload(CHOOSE m \in Msgs : TRUE) /\ aim[r] = Nowhere
  BY DEF MailInit
<1>4. \A m : Payload(m).from = {} /\ Payload(m).dest = "inbox"
  BY DEF Payload
<1>5. \A m \in Msgs : /\ server[m] = [folder |-> server[m].folder, uid |-> server[m].uid, flags |-> server[m].flags]
                      /\ server[m].folder \in {"inbox", "junk", "nowhere"} /\ server[m].uid = 1
                      /\ maps[m] = {Mapping(IF m \in Detached THEN "inbox" ELSE server[m].folder, 1)}
                      /\ tomb[m] = FALSE
  BY DEF MailInit
<1>6. PlacesFit
  <2>1. /\ maps = [m \in Msgs |-> maps[m]] /\ tomb = [m \in Msgs |-> tomb[m]]
        /\ tangled = [m \in Msgs |-> tangled[m]] /\ aim = [r \in RowIds |-> aim[r]]
        /\ server = [m \in Msgs |-> server[m]]
    BY DEF MailInit
  <2>2. \A m \in Msgs : IsCopy(server[m])
    <3>1. 1 \in Nat \ {0}
      OBVIOUS
    <3>. QED  BY <1>5, <3>1 DEF IsCopy
  <2>3. ASSUME NEW m \in Msgs, NEW mp \in maps[m]  PROVE IsPlace(mp)
    <3>1. PICK f \in Roles : mp = Mapping(f, 1)
      BY <1>5, <2>3 DEF Roles, Detached
    <3>. QED  BY <3>1, PlaceIs DEF IsPlace
  <2>4. Nowhere.folder \in Roles /\ "inbox" \in Roles
    BY DEF Nowhere, Roles
  <2>. QED  BY <1>3, <1>4, <2>1, <2>2, <2>3, <2>4 DEF PlacesFit
<1>7. KindsFit /\ CallsFit
  BY <1>2 DEF KindsFit, CallsFit, FlagRows
<1>8. ASSUME NEW m \in Msgs \ Detached  PROVE Placing(m)
  <2>1. Movers(m) = {}
    BY <1>2 DEF Movers, LiveRows, ForMsg
  <2>2. Rests(m)
    BY <1>5 DEF Rests, Home
  <2>. QED  BY <2>1, <2>2 DEF Placing
<1>. QED  BY <1>1, <1>6, <1>7, <1>8 DEF FolderInv

LEMMA FolderSteps == FolderInv /\ [MailNext]_allVars => FolderInv'
<1>. SUFFICES ASSUME FolderInv, [MailNext]_allVars  PROVE FolderInv'
  OBVIOUS
<1>1. CASE MailCallback
  <2>1. CASE \E r \in RowIds, m \in Msgs : \E w \in BOOLEAN : Delete(r, m, w)
    BY <2>1, DeletePlaces
  <2>2. CASE \E r \in RowIds, m \in Msgs :
               \/ \E w \in BOOLEAN : Archive(r, m, w)
               \/ \E dest \in {"junk", "inbox"} : Move(r, m, dest)
               \/ RuleSpam(r, m)
    BY <2>2, MovePlaces
  <2>3. CASE \E r \in RowIds, m \in Msgs : \E set \in FlagSets : Toggle(r, m, set)
    BY <2>3, TogglePlaces
  <2>4. CASE \E r \in RowIds : CancelIntent(r) \/ CrashInUndo(r)
    BY <2>4, CancelPlaces, CrashInUndoPlaces
  <2>5. CASE Quietly(Tick)
    BY <2>5, QuietPlaces DEF Quietly
  <2>. QED  BY <1>1, <2>1, <2>2, <2>3, <2>4, <2>5 DEF MailCallback
<1>2. CASE \/ \E r \in RowIds : Quietly(DueElapses(r)) \/ Quietly(BackoffElapses(r))
           \/ Quietly(PassEnds)
  BY <1>2, QuietPlaces DEF Quietly
<1>3. CASE BeginFlags \/ \E r \in RowIds : BeginRow(r)
  BY <1>3, BeginFlagsPlaces, BeginRowPlaces
<1>4. CASE SettleFlags
  BY <1>4, SettleFlagsPlaces
<1>5. CASE \E r \in RowIds, o \in Outcomes : SettleRow(r, o)
  BY <1>5, SettleRowPlaces
<1>6. CASE CrashMail
  BY <1>6, CrashMailPlaces
<1>7. CASE UNCHANGED allVars
  BY <1>7, QuietPlaces DEF allVars
<1>. QED  BY <1>1, <1>2, <1>3, <1>4, <1>5, <1>6, <1>7 DEF MailNext

\* Once nothing is queued for a message, it is shown where the provider has
\* it and tombstoned only in the trash, whatever of its deletes, archives and
\* moves was undone, refused, lost and retried, or cut off by a crash: the
\* slipped MOVE whose retry finds nothing under the old UID included.
THEOREM MailIsWhereShown == MailFairSpec => []FolderConverges
<1>1. FolderInv => FolderConverges
  <2>. SUFFICES ASSUME FolderInv, NEW m \in Msgs \ Detached,
                       Quiet(m), ~ tangled[m], AllInverted(m), NoDoubtfulLoss(m)
                PROVE  SameFolder(m) /\ (tomb[m] => server[m].folder = "trash" \/ "trash" \notin Folders)
    BY DEF FolderConverges
  <2>1. Movers(m) = {}
    BY DEF Quiet, Movers
  <2>2. Rests(m)
    BY <2>1 DEF FolderInv, Placing, Plain
  <2>3. SameFolder(m)
    BY <2>2, PlaceIs DEF Rests, SameFolder, Home
  <2>. QED  BY <2>2, <2>3 DEF Rests
<1>. QED  BY <1>1, FolderStarts, FolderSteps, PTL DEF MailFairSpec, MailSpec

-----------------------------------------------------------------------------
(* What lands.  Where the provider reports the UID a MOVE assigned, a      *)
(* message's copy is known or the one move under way knows it; a STORE is  *)
(* sent there; the toggles that landed are older than those still to come, *)
(* and the newest of them is what the provider has.                        *)

Landed(m, f) == {r \in ForMsg(m) : f \in DOMAIN payload[r].set /\ rows[r].status = "done"}
Coming(m, f) == {r \in LiveRows(m) : f \in DOMAIN payload[r].set}

\* What FlagsConverge asks of a message's past.
Clear(m) ==
  /\ ~ overtaken[m] /\ ~ tangled[m] /\ AllInverted(m)
  /\ \A r \in ForMsg(m) : ~ doubtful[r]

Known(m) == maps[m] = {Home(m)} \/ \E r \in Movers(m) : payload[r].from # {}

Aimed(m) == \A r \in ForMsg(m) : rows[r].kind = "flags" /\ r \in calling => aim[r] = OnServer(Home(m))

Landing(m) ==
  \A f \in Flags :
    /\ server[m].flags[f] = Top(payload, Landed(m, f), f)
    /\ \A x \in Landed(m, f), y \in Coming(m, f) : x < y

IsFlags(v) == v = [f \in Flags |-> v[f]]

FlagInv ==
  /\ FolderInv
  /\ \A m \in Msgs : IsFlags(flag[m]) /\ IsFlags(server[m].flags)
  /\ \A m \in Msgs \ Detached : Clear(m) => Known(m) /\ Aimed(m) /\ Landing(m)

\* Row q ends, if it does, with nothing in doubt, and keeps what it is about.
Ending(q) ==
  /\ EndLasts(q) /\ (doubtful[q] => doubtful'[q])
  /\ rows'[q].kind = rows[q].kind /\ payload'[q].msg = payload[q].msg

\* What is not clear stays so.
LEMMA ClearBefore ==
  ASSUME NEW m, Clear(m)', tangled[m] => tangled'[m], overtaken[m] => overtaken'[m],
         \A q \in ForMsg(m) : Ending(q)
  PROVE  Clear(m)
<1>1. \A q \in ForMsg(m) : q \in ForMsg(m)'
  BY DEF ForMsg, Ending
<1>2. AllInverted(m)
  BY <1>1 DEF Clear, AllInverted, Ending, EndLasts
<1>. QED  BY <1>1, <1>2 DEF Clear, Ending

LEMMA ClearIsPlain ==
  ASSUME NEW m, Clear(m)
  PROVE  Plain(m)
BY DEF Clear, Plain, NoDoubtfulLoss

\* One row at most moves a clear message, and it takes it from where it is.
LEMMA ClearMoves ==
  ASSUME FolderInv, NEW m \in Msgs \ Detached, Clear(m)
  PROVE  /\ Home(m).uid # NoUid
         /\ \A r \in Movers(m) :
              /\ Movers(m) = {r}
              /\ \/ Deleting(m, r) /\ maps[m] = {Home(m)}
                 \/ /\ Moving(m, r) /\ payload[r].from = {Home(m)}
                    /\ Goes(r, Home(m))
                 \/ Staying(m, r) /\ payload[r].from = {}
<1>1. Home(m).uid # NoUid
  <2>1. server[m].uid \in Nat \ {0}
    BY DEF FolderInv, PlacesFit, IsCopy
  <2>. QED  BY <2>1, PlaceIs DEF Home, NoUid
<1>2. Placing(m)
  BY ClearIsPlain DEF FolderInv
<1>3. ASSUME NEW r \in Movers(m)
      PROVE  /\ Movers(m) = {r}
             /\ \/ Deleting(m, r) /\ maps[m] = {Home(m)}
                \/ /\ Moving(m, r) /\ payload[r].from = {Home(m)}
                   /\ Goes(r, Home(m))
                \/ Staying(m, r) /\ payload[r].from = {}
  <2>1. ~ doubtful[r]
    BY DEF Clear, Movers, LiveRows
  <2>2. Movers(m) = {r} /\ (Deleting(m, r) \/ Moving(m, r) \/ Staying(m, r))
    BY <1>2 DEF Placing
  <2>3. CASE Deleting(m, r)
    BY <2>1, <2>2, <2>3 DEF Deleting, Leaving
  <2>4. CASE Moving(m, r)
    BY <2>1, <2>2, <2>4 DEF Moving, Leaving
  <2>5. CASE Staying(m, r)
    BY <2>2, <2>5 DEF Staying
  <2>. QED  BY <2>2, <2>3, <2>4, <2>5
<1>. QED  BY <1>1, <1>3

\* A STORE of a clear message is sent where its copy is.
LEMMA FlagAims ==
  ASSUME FolderInv, NEW m \in Msgs \ Detached, Clear(m), Known(m),
         NEW r \in RowIds, rows[r].kind = "flags", payload[r].msg = m
  PROVE  \A a \in AimsOf(r) : a = OnServer(Home(m))
<1>. DEFINE moving == {q \in LiveRows(m) : rows[q].kind \in {"archive", "move"}}
<1>1. /\ Home(m).uid # NoUid
      /\ \A q \in Movers(m) :
           /\ Movers(m) = {q}
           /\ \/ Deleting(m, q) /\ maps[m] = {Home(m)}
              \/ /\ Moving(m, q) /\ payload[q].from = {Home(m)}
                 /\ Goes(q, Home(m))
              \/ Staying(m, q) /\ payload[q].from = {}
  BY ClearMoves
<1>2. moving \subseteq Movers(m) /\ Movers(m) \subseteq Nat
  BY RowNumbers DEF Movers, Relocates, LiveRows, ForMsg
<1>3. ASSUME NEW q, moving = {q}  PROVE Min(moving) = q
  <2>1. q \in Nat
    BY <1>2, <1>3
  <2>. QED  BY <1>3, <2>1 DEF Min
<1>4. maps[m] = {Home(m)} => Placements(m) = {OnServer(Home(m))}
  BY <1>1 DEF Placements
<1>5. FlagPlacements(m) = {OnServer(Home(m))}
  <2>1. CASE moving = {}
    <3>1. \A q \in Movers(m) : ~ Moving(m, q) /\ ~ Staying(m, q)
      BY <2>1 DEF Movers, Moving, Staying
    <3>2. maps[m] = {Home(m)}
      BY <1>1, <3>1 DEF Known
    <3>. HIDE DEF moving
    <3>. QED  BY <1>4, <2>1, <3>2 DEF FlagPlacements, moving
  <2>2. CASE moving # {}
    <3>1. PICK q \in moving : TRUE
      BY <2>2
    <3>2. q \in Movers(m) /\ rows[q].kind # "delete"
      BY <1>2, <3>1
    <3>3. moving = {q} /\ Min(moving) = q
      <4>1. Movers(m) = {q}
        BY <1>1, <3>2
      <4>. HIDE DEF moving
      <4>2. moving = {q}
        BY <1>2, <3>1, <4>1
      <4>. QED  BY <1>3, <4>2
    <3>4. ~ Deleting(m, q)
      BY <3>2 DEF Deleting
    <3>5. CASE payload[q].from = {Home(m)}
      <4>1. {mp \in payload[q].from : mp.uid # NoUid} = {Home(m)}
        BY <1>1, <3>5
      <4>. HIDE DEF moving
      <4>. QED  BY <3>3, <4>1 DEF FlagPlacements, moving
    <3>6. CASE payload[q].from = {}
      <4>1. maps[m] = {Home(m)}
        BY <1>1, <3>2, <3>6 DEF Known
      <4>. HIDE DEF moving
      <4>. QED  BY <1>4, <3>3, <3>6, <4>1 DEF FlagPlacements, moving
    <3>. QED  BY <1>1, <3>2, <3>4, <3>5, <3>6
  <2>. QED  BY <2>1, <2>2
<1>. HIDE DEF moving
<1>6. ~ Relocates(r)
  BY DEF Relocates
<1>. QED  BY <1>5, <1>6 DEF AimsOf

\* The toggles of a message that a step neither adds nor lands.
LEMMA TogglesSame ==
  ASSUME RowsFit, NEW m,
         \A q \in RowIds :
           /\ rows'[q].kind = rows[q].kind
           /\ payload'[q].msg = payload[q].msg /\ payload'[q].set = payload[q].set
           /\ rows[q].kind = "flags" /\ payload[q].msg = m =>
                /\ rows'[q].status \in Live => rows[q].status \in Live
                /\ rows'[q].status = "done" <=> rows[q].status = "done"
  PROVE  \A f \in Flags : Landed(m, f)' = Landed(m, f) /\ Coming(m, f)' \subseteq Coming(m, f)
<1>. TAKE f \in Flags
<1>1. \A q \in RowIds : f \in DOMAIN payload[q].set => rows[q].kind = "flags"
  BY DEF RowsFit
<1>2. \A q \in RowIds : /\ q \in Landed(m, f)' <=> q \in Landed(m, f)
                        /\ q \in Coming(m, f)' => q \in Coming(m, f)
  BY <1>1 DEF Landed, Coming, LiveRows, ForMsg
<1>3. Landed(m, f)' \subseteq RowIds /\ Landed(m, f) \subseteq RowIds /\ Coming(m, f)' \subseteq RowIds
  BY DEF Landed, Coming, LiveRows, ForMsg
<1>. QED  BY <1>2, <1>3

\* What the provider's flags are is not changed by toggles that go, nor by a new one.
LEMMA LandingStays ==
  ASSUME NEW m, Landing(m),
         \A f \in Flags :
           /\ server'[m].flags[f] = server[m].flags[f] /\ Landed(m, f)' = Landed(m, f)
           /\ \A x \in Landed(m, f) : payload'[x].set = payload[x].set
           /\ \A y \in Coming(m, f)' : y \in Coming(m, f) \/ \A x \in Landed(m, f) : x < y
  PROVE  Landing(m)'
<1>1. ASSUME NEW f \in Flags
      PROVE  /\ server'[m].flags[f] = Top(payload', Landed(m, f)', f)
             /\ \A x \in Landed(m, f)', y \in Coming(m, f)' : x < y
  <2>1. Landed(m, f) \in SUBSET RowIds
    BY DEF Landed, ForMsg
  <2>2. Top(payload', Landed(m, f), f) = Top(payload, Landed(m, f), f)
    BY <2>1, TopNext
  <2>3. Landed(m, f)' = Landed(m, f)
    OBVIOUS
  <2>4. \A x \in Landed(m, f), y \in Coming(m, f) : x < y
    BY DEF Landing
  <2>. QED  BY <2>2, <2>3, <2>4 DEF Landing
<1>. QED  BY <1>1 DEF Landing, Top

\* Row q goes on, or ended before.
Going(q) ==
  /\ Lasting(q) /\ payload'[q].set = payload[q].set
  /\ rows'[q].status = "done" <=> rows[q].status = "done"

LEMMA CalmGoes ==
  ASSUME NEW q, Calm(q), SamePlaces(q), payload'[q].set = payload[q].set, doubtful[q] => doubtful'[q]
  PROVE  Going(q)
BY CalmLasts DEF Going, Calm, Live

\* A message none of whose rows does more than go on.
LEMMA ClearStays ==
  ASSUME FlagInv, NEW m \in Msgs \ Detached, Clear(m)',
         tangled[m] => tangled'[m], overtaken[m] => overtaken'[m],
         maps'[m] = maps[m], Home(m)' = Home(m),
         \A f \in Flags : server'[m].flags[f] = server[m].flags[f],
         \A q \in RowIds : q \in ForMsg(m)' <=> q \in ForMsg(m),
         \A q \in ForMsg(m) : Going(q)
  PROVE  /\ Clear(m) /\ Known(m) /\ Aimed(m) /\ Known(m)' /\ Landing(m)'
         /\ (\A q \in ForMsg(m) : q \in calling' => q \in calling /\ aim'[q] = aim[q]) => Aimed(m)'
<1>1. Clear(m)
  BY ClearBefore DEF Going, Lasting, Ending, SamePlaces
<1>2. Known(m) /\ Aimed(m) /\ Landing(m)
  BY <1>1 DEF FlagInv
<1>3. ForMsg(m)' = ForMsg(m)
  <2>1. ForMsg(m)' \subseteq RowIds /\ ForMsg(m) \subseteq RowIds
    BY DEF ForMsg
  <2>. QED  BY <2>1
<1>4. \A q \in Movers(m) : q \in Movers(m)' /\ payload'[q].from = payload[q].from
  BY <1>3 DEF Movers, LiveRows, Relocates, Going, Lasting, SamePlaces
<1>5. Known(m)'
  BY <1>2, <1>4 DEF Known
<1>6. ASSUME NEW f \in Flags
      PROVE  Landed(m, f)' = Landed(m, f) /\ Coming(m, f)' = Coming(m, f)
  BY <1>3 DEF Landed, Coming, LiveRows, Going, Lasting
<1>7. \A f \in Flags : \A x \in Landed(m, f) : payload'[x].set = payload[x].set
  BY DEF Landed, Going
<1>8. Landing(m)'
  BY <1>2, <1>6, <1>7, LandingStays
<1>9. (\A q \in ForMsg(m) : q \in calling' => q \in calling /\ aim'[q] = aim[q]) => Aimed(m)'
  BY <1>2, <1>3 DEF Aimed, Going, Lasting
<1>. QED  BY <1>1, <1>2, <1>5, <1>8, <1>9

-----------------------------------------------------------------------------
(* Steps in which no toggle ends *)

LEMMA CalmFlags ==
  ASSUME FlagInv, FolderInv', \A q \in RowIds : Calm(q), doubtful' = doubtful,
         UNCHANGED <<maps, flag, payload, server, tangled, overtaken>>,
         \A m \in Msgs \ Detached : Clear(m) /\ Known(m) /\ Aimed(m) => Aimed(m)'
  PROVE  FlagInv'
<1>1. ASSUME NEW m \in Msgs \ Detached', Clear(m)'
      PROVE  Known(m)' /\ Aimed(m)' /\ Landing(m)'
  <2>1. m \in Msgs \ Detached
    BY <1>1 DEF Detached
  <2>2. \A q \in RowIds : Going(q)
    <3>1. \A q \in RowIds : SamePlaces(q)
      BY DEF SamePlaces
    <3>. QED  BY <3>1, CalmGoes
  <2>3. Home(m)' = Home(m)
    BY DEF Home
  <2>4. /\ \A q \in RowIds : q \in ForMsg(m)' <=> q \in ForMsg(m)
        /\ \A q \in ForMsg(m) : Going(q)
    BY <2>2 DEF ForMsg, Going, Lasting
  <2>5. Clear(m) /\ Known(m) /\ Aimed(m) /\ Known(m)' /\ Landing(m)'
    BY <1>1, <2>1, <2>3, <2>4, ClearStays
  <2>. QED  BY <2>1, <2>5
<1>2. \A m \in Msgs : IsFlags(flag'[m]) /\ IsFlags(server'[m].flags)
  BY DEF FlagInv
<1>. QED  BY <1>1, <1>2 DEF FlagInv, IsFlags

LEMMA QuietFlags ==
  ASSUME FlagInv, FolderInv', UNCHANGED mailVars,
         \/ Tick \/ PassEnds \/ \E r \in RowIds : DueElapses(r) \/ BackoffElapses(r)
         \/ UNCHANGED vars
  PROVE  FlagInv'
<1>1. \A q \in RowIds : Calm(q)
  <2>1. CASE UNCHANGED vars
    BY <2>1 DEF vars, queueVars, seenVars, Calm
  <2>. QED  BY <2>1, QuietRows DEF FlagInv, FolderInv, MailInv
<1>2. calling' = calling /\ doubtful' = doubtful
  BY DEF Tick, PassEnds, DueElapses, BackoffElapses, vars, queueVars, seenVars
<1>3. UNCHANGED <<maps, tomb, flag, payload, aim, server, tangled, overtaken>>
  BY DEF mailVars
<1>4. \A m \in Msgs \ Detached : Aimed(m) => Aimed(m)'
  BY <1>1, <1>2, <1>3 DEF Aimed, ForMsg, Calm, Home
<1>. QED  BY <1>1, <1>2, <1>3, <1>4, CalmFlags

LEMMA BeginRowFlags ==
  ASSUME FlagInv, FolderInv', NEW r \in RowIds, BeginRow(r)
  PROVE  FlagInv'
<1>1. /\ RowBegin(r) /\ calling' = {r} /\ doubtful' = doubtful /\ rows' = rows
      /\ UNCHANGED <<maps, tomb, flag, payload, server, tangled, overtaken>>
      /\ rows[r].kind # "flags"
  BY DEF BeginRow, RowBegin, seenVars, FlagRows
<1>2. \A q \in RowIds : Calm(q)
  BY <1>1, QuietRows DEF FlagInv, FolderInv, MailInv
<1>3. \A m \in Msgs \ Detached : Aimed(m)'
  BY <1>1 DEF Aimed
<1>. QED  BY <1>1, <1>2, <1>3, CalmFlags

LEMMA BeginFlagsFlags ==
  ASSUME FlagInv, FolderInv', BeginFlags
  PROVE  FlagInv'
<1>1. /\ FlagsBegin /\ calling' = FlagRows(batch) /\ doubtful' = doubtful /\ rows' = rows
      /\ UNCHANGED <<maps, tomb, flag, payload, server, tangled, overtaken>>
  BY DEF BeginFlags, FlagsBegin, seenVars
<1>2. \A q \in RowIds : Calm(q)
  BY <1>1, QuietRows DEF FlagInv, FolderInv, MailInv
<1>3. PICK a : /\ \A r \in FlagRows(batch) : a[r] \in AimsOf(r)
               /\ aim' = [r \in RowIds |-> IF r \in FlagRows(batch) THEN a[r] ELSE aim[r]]
  BY DEF BeginFlags
<1>4. ASSUME NEW m \in Msgs \ Detached, Clear(m), Known(m)  PROVE Aimed(m)'
  <2>1. ASSUME NEW r \in ForMsg(m), rows[r].kind = "flags", r \in calling'
        PROVE  aim'[r] = OnServer(Home(m))
    <3>1. r \in RowIds /\ payload[r].msg = m /\ r \in FlagRows(batch)
      BY <1>1, <2>1 DEF ForMsg
    <3>2. a[r] = OnServer(Home(m))
      BY <1>3, <1>4, <2>1, <3>1, FlagAims DEF FlagInv
    <3>. QED  BY <1>3, <3>1, <3>2
  <2>. QED  BY <1>1, <2>1 DEF Aimed, ForMsg, Home
<1>. QED  BY <1>1, <1>2, <1>4, CalmFlags

-----------------------------------------------------------------------------
(* Enqueueing *)

\* Row r is inserted with payload p.
LEMMA InsertFlags ==
  ASSUME FlagInv, FolderInv', NEW r \in RowIds, NEW m \in Msgs,
         NEW k \in {"delete", "archive", "move", "flags"}, NEW w \in BOOLEAN, Insert(r, k, w),
         NEW p, payload' = [payload EXCEPT ![r] = p], p.msg = m, UNCHANGED <<server, aim, overtaken>>,
         \A x \in Msgs \ {m} : maps'[x] = maps[x],
         \A x \in Msgs : tangled[x] => tangled'[x],
         \A x \in Msgs : IsFlags(flag'[x]),
         m \notin Detached /\ Clear(m) /\ Clear(m)' /\ Known(m) => Known(m)'
  PROVE  FlagInv'
<1>1. /\ rows[r].status = "none" /\ rows'[r].kind = k /\ rows'[r].status \in Live
      /\ payload'[r] = p /\ r \notin calling
      /\ calling' = calling /\ doubtful' = doubtful
      /\ \A q \in RowIds \ {r} : Lasting(q)
  BY InsertLasts DEF FlagInv
<1>2. rows[r].kind = "none"
  BY <1>1 DEF FlagInv, FolderInv, KindsFit
<1>3. \A q \in RowIds \ {r} : Going(q)
  <2>1. \A q \in RowIds \ {r} : Calm(q) /\ payload'[q] = payload[q]
    BY InsertedRow DEF FlagInv, FolderInv, MailInv, PayloadsFit
  <2>. QED  BY <1>1, <2>1, CalmGoes DEF SamePlaces
<1>4. \A x : Home(x)' = Home(x)
  BY DEF Home
<1>5. ASSUME NEW x \in Msgs \ Detached', Clear(x)'
      PROVE  Known(x)' /\ Aimed(x)' /\ Landing(x)'
  <2>1. x \in Msgs \ Detached
    BY <1>5 DEF Detached
  <2>2. CASE x # m
    <3>1. \A q \in RowIds : q \in ForMsg(x)' <=> q \in ForMsg(x)
      BY <1>1, <1>2, <1>3, <2>2 DEF ForMsg, Going, Lasting, SamePlaces
    <3>2. \A q \in ForMsg(x) : Going(q)
      BY <1>2, <1>3 DEF ForMsg
    <3>3. \A q \in ForMsg(x) : q \in calling' => q \in calling /\ aim'[q] = aim[q]
      BY <1>1
    <3>4. /\ maps'[x] = maps[x] /\ (tangled[x] => tangled'[x]) /\ (overtaken[x] => overtaken'[x])
          /\ \A f \in Flags : server'[x].flags[f] = server[x].flags[f]
      BY <2>1, <2>2
    <3>. QED  BY <1>4, <1>5, <2>1, <3>1, <3>2, <3>3, <3>4, ClearStays
  <2>3. CASE x = m
    <3>1. \A q \in ForMsg(m) : q \in RowIds \ {r}
      BY <1>2 DEF ForMsg
    <3>2. Clear(m)
      <4>1. \A q \in ForMsg(m) : Ending(q)
        BY <1>3, <3>1 DEF Ending, Going, Lasting, SamePlaces
      <4>. QED  BY <1>5, <2>3, <4>1, ClearBefore
    <3>3. Known(m) /\ Aimed(m) /\ Landing(m)
      BY <2>1, <2>3, <3>2 DEF FlagInv
    <3>4. Known(m)'
      BY <1>5, <2>1, <2>3, <3>2, <3>3
    <3>5. \A q \in RowIds : q \in ForMsg(m)' <=> q \in ForMsg(m) \/ q = r
      BY <1>1, <1>3 DEF ForMsg, Going, Lasting, SamePlaces
    <3>6. Aimed(m)'
      <4>1. \A q \in ForMsg(m)' : q \in calling => q \in ForMsg(m) /\ rows'[q].kind = rows[q].kind
        BY <1>1, <1>3, <3>1, <3>5 DEF Going, Lasting, ForMsg
      <4>. QED  BY <1>1, <1>4, <3>3, <4>1 DEF Aimed
    <3>7. ASSUME NEW f \in Flags
          PROVE  /\ Landed(m, f)' = Landed(m, f)
                 /\ \A q \in Landed(m, f) : payload'[q].set = payload[q].set
                 /\ \A y \in Coming(m, f)' : y \in Coming(m, f) \/ \A q \in Landed(m, f) : q < y
      <4>1. r \notin Landed(m, f)'
        BY <1>1 DEF Landed, Live
      <4>2. \A q \in RowIds : q \in Landed(m, f)' <=> q \in Landed(m, f)
        BY <1>2, <1>3, <3>5, <4>1 DEF Landed, ForMsg, Going
      <4>3. Landed(m, f)' \subseteq RowIds /\ Landed(m, f) \subseteq RowIds
        BY DEF Landed, ForMsg
      <4>4. \A q \in Landed(m, f) : payload'[q].set = payload[q].set
        BY <1>3, <3>1 DEF Landed, Going
      <4>5. \A y \in Coming(m, f)' : y \in Coming(m, f) \/ y = r
        BY <1>3, <3>5 DEF Coming, LiveRows, Going, Lasting, ForMsg
      <4>6. \A q \in Landed(m, f) : q < r
        <5>1. ASSUME NEW q \in Landed(m, f)  PROVE q < r
          <6>1. q \in RowIds \ {r} /\ rows[q].status # "none"
            BY <3>1 DEF Landed
          <6>2. ~ (r < q)
            BY <1>1, <6>1 DEF FlagInv, FolderInv, MailInv, RowsFit
          <6>. QED  BY <6>1, <6>2, RowNumbers
        <5>. QED  BY <5>1
      <4>. QED  BY <4>2, <4>3, <4>4, <4>5, <4>6
    <3>8. Landing(m)'
      <4>1. \A f \in Flags : server'[m].flags[f] = server[m].flags[f]
        OBVIOUS
      <4>. QED  BY <3>3, <3>7, <4>1, LandingStays
    <3>. QED  BY <2>3, <3>4, <3>6, <3>8
  <2>. QED  BY <2>2, <2>3
<1>6. \A x \in Msgs : IsFlags(server'[x].flags)
  BY DEF FlagInv
<1>. QED  BY <1>5, <1>6 DEF FlagInv, IsFlags

\* A relocation that finds a clear message finds it where its copy is.
LEMMA KnownFirst ==
  ASSUME FolderInv, NEW m \in Msgs \ Detached, Clear(m), Tangle(m), Clear(m)'
  PROVE  maps[m] = {Home(m)}
BY ClearIsPlain, SettledFirst DEF Clear

LEMMA DeleteFlags ==
  ASSUME FlagInv, FolderInv', NEW r \in RowIds, NEW m \in Msgs, NEW w \in BOOLEAN, Delete(r, m, w)
  PROVE  FlagInv'
<1>. DEFINE p == [Payload(m) EXCEPT !.wasDeleted = tomb[m]]
            k == "delete"
<1>1. /\ Insert(r, k, w) /\ payload' = [payload EXCEPT ![r] = p] /\ Tangle(m)
      /\ UNCHANGED <<maps, flag, server, aim, overtaken>>
      /\ k \in {"delete", "archive", "move", "flags"}
  BY DEF Delete
<1>2. p.msg = m
  BY DEF Payload
<1>. HIDE DEF p, k
<1>3. \A x \in Msgs : tangled[x] => tangled'[x]
  BY <1>1, TangleFits DEF FlagInv, FolderInv
<1>4. ASSUME m \notin Detached, Clear(m), Clear(m)'  PROVE Known(m)'
  BY <1>1, <1>4, KnownFirst DEF FlagInv, Known, Home
<1>5. \A x \in Msgs : IsFlags(flag'[x])
  BY <1>1 DEF FlagInv
<1>. QED  BY <1>1, <1>2, <1>3, <1>4, <1>5, InsertFlags

LEMMA RelocateFlags ==
  ASSUME FlagInv, FolderInv', NEW r \in RowIds, NEW m \in Msgs, NEW k \in {"archive", "move"},
         NEW w \in BOOLEAN, Insert(r, k, w), NEW dest, NEW from, Relocate(r, m, from, dest)
  PROVE  FlagInv'
<1>. DEFINE src == In(m, from)
            p == [Payload(m) EXCEPT !.from = src, !.dest = dest, !.added = (src # {} /\ In(m, dest) = {})]
<1>1. /\ payload' = [payload EXCEPT ![r] = p] /\ Tangle(m)
      /\ UNCHANGED <<flag, server, aim, overtaken>>
      /\ k \in {"delete", "archive", "move", "flags"}
  BY DEF Relocate
<1>2. p.msg = m /\ p.from = src
  BY DEF Payload
<1>3. /\ \A x \in Msgs \ {m} : maps'[x] = maps[x]
      /\ src = {} => maps' = maps
  BY DEF Relocate, FlagInv, FolderInv, PlacesFit
<1>. HIDE DEF p, src
<1>4. \A x \in Msgs : tangled[x] => tangled'[x]
  BY <1>1, TangleFits DEF FlagInv, FolderInv
<1>5. ASSUME m \notin Detached, Clear(m), Clear(m)'  PROVE Known(m)'
  <2>1. CASE src = {}
    BY <1>1, <1>3, <1>5, <2>1, KnownFirst DEF FlagInv, Known, Home
  <2>2. CASE src # {}
    <3>1. rows'[r].kind = k /\ rows'[r].status \in Live /\ payload'[r] = p
      BY <1>1, InsertLasts DEF FlagInv
    <3>2. r \in Movers(m)' /\ payload'[r].from # {}
      BY <1>2, <2>2, <3>1 DEF Movers, LiveRows, ForMsg, Relocates
    <3>. QED  BY <3>2 DEF Known
  <2>. QED  BY <2>1, <2>2
<1>6. \A x \in Msgs : IsFlags(flag'[x])
  BY <1>1 DEF FlagInv
<1>. QED  BY <1>1, <1>2, <1>3, <1>4, <1>5, <1>6, InsertFlags

LEMMA MoveFlags ==
  ASSUME FlagInv, FolderInv', NEW r \in RowIds, NEW m \in Msgs, NEW w \in BOOLEAN,
         \/ Archive(r, m, w) \/ RuleSpam(r, m)
         \/ \E dest \in {"junk", "inbox"} : Move(r, m, dest)
  PROVE  FlagInv'
<1>1. \E k \in {"archive", "move"}, b \in BOOLEAN : Insert(r, k, b) /\ \E from, dest : Relocate(r, m, from, dest)
  BY DEF Archive, RuleSpam, Move
<1>. QED  BY <1>1, RelocateFlags

LEMMA ToggleFlags ==
  ASSUME FlagInv, FolderInv', NEW r \in RowIds, NEW m \in Msgs, NEW set \in FlagSets, Toggle(r, m, set)
  PROVE  FlagInv'
<1>. DEFINE p == [Payload(m) EXCEPT !.set = set, !.prev = [f \in DOMAIN set |-> flag[m][f]]]
            k == "flags"
            w == FALSE
<1>1. /\ Insert(r, k, w) /\ payload' = [payload EXCEPT ![r] = p]
      /\ UNCHANGED <<maps, server, aim, tangled, overtaken>>
      /\ k \in {"delete", "archive", "move", "flags"} /\ w \in BOOLEAN
  BY DEF Toggle
<1>2. p.msg = m
  BY DEF Payload
<1>3. \A x \in Msgs : IsFlags(flag'[x])
  <2>1. flag' = [flag EXCEPT ![m] = [f \in Flags |-> IF f \in DOMAIN set THEN set[f] ELSE @[f]]]
    BY DEF Toggle
  <2>2. flag = [x \in Msgs |-> flag[x]]
    BY DEF FlagInv, FolderInv, MailInv, FlagsFit
  <2>. QED  BY <2>1, <2>2 DEF FlagInv, IsFlags
<1>. HIDE DEF p, k, w
<1>4. \A q \in Movers(m) : q \in Movers(m)' /\ payload'[q].from = payload[q].from
  <2>1. rows[r].status = "none" /\ \A q \in RowIds \ {r} : Lasting(q)
    BY <1>1, InsertLasts DEF FlagInv
  <2>2. r \notin Movers(m)
    BY <2>1 DEF Movers, LiveRows, Live
  <2>. QED  BY <2>1, <2>2 DEF Movers, LiveRows, ForMsg, Relocates, Lasting, SamePlaces
<1>5. ASSUME Known(m)  PROVE Known(m)'
  BY <1>1, <1>4, <1>5 DEF Known, Home
<1>. QED  BY <1>1, <1>2, <1>3, <1>5, InsertFlags

-----------------------------------------------------------------------------
(* Crashes *)

\* The flags of a copy after the STOREs that took effect.
LEMMA StoredFlags ==
  ASSUME PlacesFit, NEW res, NEW m \in Msgs, NEW f \in Flags
  PROVE  Stored(res)[m].flags[f] =
           IF /\ <<m, f>> \in Toggled
              /\ res[StoreOf(<<m, f>>)] \in {"taken", "lost"}
              /\ Hits(m, aim[Decider(<<m, f>>)])
           THEN StoreOf(<<m, f>>)[3] ELSE server[m].flags[f]
<1>. PICK v : v = [g \in Flags |-> IF /\ <<m, g>> \in Toggled
                               /\ res[StoreOf(<<m, g>>)] \in {"taken", "lost"}
                               /\ Hits(m, aim[Decider(<<m, g>>)])
                            THEN StoreOf(<<m, g>>)[3] ELSE server[m].flags[g]]
  OBVIOUS
<1>1. Stored(res)[m] = [server[m] EXCEPT !.flags = v]
  BY DEF Stored
<1>2. IsCopy(server[m])
  BY DEF PlacesFit
<1>3. Stored(res)[m].flags = v
  BY <1>1, <1>2 DEF IsCopy
<1>. QED  BY <1>3

LEMMA MovedFlags ==
  ASSUME PlacesFit, NEW m \in Msgs, NEW dest
  PROVE  Moved(m, dest).flags = server[m].flags
BY DEF PlacesFit, IsCopy, Moved

\* What toggles none of whose STOREs was sent keep.
LEMMA StoredOthers ==
  ASSUME PlacesFit, NEW res, NEW m \in Msgs
  PROVE  /\ IsFlags(Stored(res)[m].flags)
         /\ \A f \in Flags : <<m, f>> \notin Toggled => Stored(res)[m].flags[f] = server[m].flags[f]
<1>. PICK v : v = [f \in Flags |-> IF /\ <<m, f>> \in Toggled
                               /\ res[StoreOf(<<m, f>>)] \in {"taken", "lost"}
                               /\ Hits(m, aim[Decider(<<m, f>>)])
                            THEN StoreOf(<<m, f>>)[3] ELSE server[m].flags[f]]
  OBVIOUS
<1>1. Stored(res)[m].flags = v
  <2>1. Stored(res)[m] = [server[m] EXCEPT !.flags = v]
    BY DEF Stored
  <2>. QED  BY <2>1 DEF PlacesFit, IsCopy
<1>2. IsFlags(v) /\ \A f \in Flags : <<m, f>> \notin Toggled => v[f] = server[m].flags[f]
  BY DEF IsFlags
<1>. QED  BY <1>1, <1>2

\* What a message none of whose calls slipped keeps.
LEMMA SlipsTold ==
  ASSUME FolderInv, \A x \in Msgs : IsFlags(server[x].flags),
         NEW srv \in OutstandingServers, Slipped(srv)
  PROVE  /\ \A x \in Msgs : IsFlags(server'[x].flags)
         /\ \A m \in Msgs : (\A r \in calling : payload[r].msg = m => ~ doubtful'[r]) =>
              /\ server'[m].folder = server[m].folder /\ server'[m].uid = server[m].uid
              /\ \A f \in Flags : server'[m].flags[f] = server[m].flags[f]
<1>1. server' = srv /\ PlacesFit /\ calling \subseteq RowIds
  BY DEF Slipped, FolderInv, MailInv, IInv, TypeOK
<1>2. \/ \E res : srv = Stored(res)
      \/ srv = server
      \/ \E r \in calling : srv = [server EXCEPT ![payload[r].msg] = Moved(payload[r].msg, DestOf(r))]
  BY DEF OutstandingServers
<1>3. \A x \in Msgs : IsFlags(server'[x].flags)
  <2>1. CASE \E res : srv = Stored(res)
    BY <1>1, <2>1, StoredOthers
  <2>2. CASE \E r \in calling : srv = [server EXCEPT ![payload[r].msg] = Moved(payload[r].msg, DestOf(r))]
    <3>1. PICK r \in calling : srv = [server EXCEPT ![payload[r].msg] = Moved(payload[r].msg, DestOf(r))]
      BY <2>2
    <3>. PICK m : m = payload[r].msg
      OBVIOUS
    <3>2. \A x \in Msgs : srv[x] = IF x = m THEN Moved(m, DestOf(r)) ELSE server[x]
      BY <1>1, <3>1 DEF PlacesFit
    <3>. QED  BY <1>1, <3>2, MovedFlags
  <2>. QED  BY <1>1, <1>2, <2>1, <2>2
<1>4. ASSUME NEW m \in Msgs, \A r \in calling : payload[r].msg = m => ~ doubtful'[r]
      PROVE  /\ server'[m].folder = server[m].folder /\ server'[m].uid = server[m].uid
             /\ \A f \in Flags : server'[m].flags[f] = server[m].flags[f]
  <2>1. CASE \E r \in calling : payload[r].msg = m
    BY <1>1, <1>4, <2>1 DEF Slipped
  <2>2. CASE ~ \E r \in calling : payload[r].msg = m
    <3>1. server'[m].folder = server[m].folder /\ server'[m].uid = server[m].uid
      BY <2>2, OutstandingCopies
    <3>2. \A f \in Flags : <<m, f>> \notin Toggled
      BY <2>2 DEF Toggled, Togglers
    <3>3. CASE \E res : srv = Stored(res)
      BY <1>1, <3>1, <3>2, <3>3, StoredOthers
    <3>4. CASE \E r \in calling : srv = [server EXCEPT ![payload[r].msg] = Moved(payload[r].msg, DestOf(r))]
      <4>1. srv[m] = server[m]
        BY <1>1, <2>2, <3>4 DEF PlacesFit
      <4>. QED  BY <1>1, <4>1
    <3>. QED  BY <1>1, <1>2, <3>1, <3>3, <3>4
  <2>. QED  BY <2>1, <2>2
<1>. QED  BY <1>3, <1>4

LEMMA CrashFlags ==
  ASSUME FlagInv, FolderInv', NEW D \in SUBSET RowIds, \A q \in RowIds \ D : Calm(q),
         \A q \in D : /\ rows[q].status = "pending" /\ rows'[q].status = "canceled"
                      /\ rows'[q].kind = rows[q].kind /\ ~ undone'[q],
         NEW srv \in OutstandingServers, Slipped(srv), calling' = {},
         UNCHANGED <<maps, tomb, flag, payload, tangled, overtaken>>
  PROVE  FlagInv'
<1>1. /\ FolderInv /\ calling \subseteq RowIds
      /\ \A q \in calling : rows[q].status = "sending"
  BY DEF FlagInv, FolderInv, MailInv, IInv, TypeOK, HeldRows
<1>2. /\ \A x \in Msgs : IsFlags(server'[x].flags)
      /\ \A m \in Msgs : (\A r \in calling : payload[r].msg = m => ~ doubtful'[r]) =>
           /\ server'[m].folder = server[m].folder /\ server'[m].uid = server[m].uid
           /\ \A f \in Flags : server'[m].flags[f] = server[m].flags[f]
  BY SlipsTold DEF FlagInv
<1>3. \A q \in RowIds \ D : Going(q)
  <2>1. \A q \in RowIds : SamePlaces(q) /\ (doubtful[q] => doubtful'[q])
    BY DEF SamePlaces, Slipped
  <2>. QED  BY <2>1, CalmGoes
<1>4. ASSUME NEW x \in Msgs \ Detached', Clear(x)'
      PROVE  Known(x)' /\ Aimed(x)' /\ Landing(x)'
  <2>1. \A q \in RowIds : q \in ForMsg(x)' <=> q \in ForMsg(x)
    BY <1>3 DEF ForMsg, Going, Lasting
  <2>2. \A q \in ForMsg(x) : Going(q)
    <3>1. \A q \in D : q \notin ForMsg(x)'
      BY <1>4 DEF Clear, AllInverted
    <3>2. ForMsg(x) \subseteq RowIds
      BY DEF ForMsg
    <3>. QED  BY <1>3, <2>1, <3>1, <3>2
  <2>3. \A q \in calling : payload[q].msg = x => ~ doubtful'[q]
    <3>1. \A q \in calling : rows[q].kind # "none"
      BY <1>1 DEF FolderInv, KindsFit
    <3>2. \A q \in calling : payload[q].msg = x => q \in ForMsg(x)'
      BY <1>1, <2>1, <3>1 DEF ForMsg
    <3>. QED  BY <1>4, <3>2 DEF Clear
  <2>4. /\ server'[x].folder = server[x].folder /\ server'[x].uid = server[x].uid
        /\ \A f \in Flags : server'[x].flags[f] = server[x].flags[f]
    BY <1>2, <1>4, <2>3
  <2>5. x \in Msgs \ Detached /\ Home(x)' = Home(x)
    BY <1>4, <2>4 DEF Detached, Home
  <2>6. \A q \in ForMsg(x) : q \in calling' => q \in calling /\ aim'[q] = aim[q]
    OBVIOUS
  <2>. QED  BY <1>4, <2>1, <2>2, <2>4, <2>5, <2>6, ClearStays
<1>. QED  BY <1>2, <1>4 DEF FlagInv, IsFlags

LEMMA CrashMailFlags ==
  ASSUME FlagInv, FolderInv', CrashMail
  PROVE  FlagInv'
<1>1. PICK srv \in OutstandingServers : Slipped(srv)
  BY DEF CrashMail
<1>2. Reboot(rows) /\ calling' = {} /\ UNCHANGED <<maps, tomb, flag, payload, tangled, overtaken>>
  BY DEF CrashMail, Reboot
<1>3. \A q \in RowIds : Calm(q)
  <2>1. rows \in [RowIds -> Row] /\ undone' = undone
    BY <1>1 DEF FlagInv, FolderInv, MailInv, IInv, TypeOK, Slipped
  <2>. QED  BY <1>2, <2>1, RebootCalm DEF Calm, Live
<1>. DEFINE D == {}
<1>4. D \in SUBSET RowIds /\ (\A q \in RowIds \ D : Calm(q)) /\ \A q : q \notin D
  BY <1>3
<1>. HIDE DEF D
<1>. QED  BY <1>1, <1>2, <1>4, CrashFlags

LEMMA CrashInUndoFlags ==
  ASSUME FlagInv, FolderInv', NEW r \in RowIds, CrashInUndo(r)
  PROVE  FlagInv'
<1>1. PICK srv \in OutstandingServers : Slipped(srv)
  BY DEF CrashInUndo
<1>2. /\ rows[r].status = "pending" /\ Reboot([rows EXCEPT ![r].status = "canceled"]) /\ undone' = undone
      /\ calling' = {} /\ UNCHANGED <<maps, tomb, flag, payload, tangled, overtaken>>
  BY <1>1 DEF CrashInUndo, Reboot, Slipped
<1>3. /\ rows'[r].kind = rows[r].kind /\ rows'[r].status = "canceled"
      /\ \A q \in RowIds \ {r} : Calm(q)
  BY <1>2, CanceledRow DEF FlagInv, FolderInv, MailInv
<1>4. ~ undone'[r]
  BY <1>2 DEF FlagInv, FolderInv, MailInv, IInv, InverseMatchesEnd
<1>. DEFINE D == {r}
<1>5. /\ D \in SUBSET RowIds /\ \A q \in RowIds \ D : Calm(q)
      /\ \A q \in D : /\ rows[q].status = "pending" /\ rows'[q].status = "canceled"
                      /\ rows'[q].kind = rows[q].kind /\ ~ undone'[q]
  BY <1>2, <1>3, <1>4
<1>. HIDE DEF D
<1>. QED  BY <1>1, <1>2, <1>5, CrashFlags

-----------------------------------------------------------------------------
(* Inverses *)

LEMMA RevertShapes ==
  ASSUME NEW mail, Comes(mail), \A m \in Msgs : IsFlags(mail.flag[m]), NEW r \in RowIds
  PROVE  \A m \in Msgs : IsFlags(RevertIntent(mail, r).flag[m])
<1>1. CASE rows[r].kind # "flags"
  BY <1>1, OtherReverts
<1>2. CASE rows[r].kind = "flags"
  <2>. DEFINE msg == payload[r].msg
              new == RevertIntent(mail, r)
  <2>1. PICK v, pl : /\ new = [mail EXCEPT !.flag = [mail.flag EXCEPT ![msg] = v], !.payload = pl]
                     /\ IsFlags(v)
    <3>. DEFINE v == [f \in Flags |-> IF f \in DOMAIN payload[r].set /\ Restores(mail, r, f)
                                      THEN mail.payload[r].prev[f] ELSE mail.flag[msg][f]]
    <3>1. IsFlags(v)
      BY DEF IsFlags
    <3>2. new = RevertFlags(mail, r)
      BY <1>2 DEF RevertIntent
    <3>. QED  BY <3>1, <3>2 DEF RevertFlags
  <2>2. new.flag = [mail.flag EXCEPT ![msg] = v]
    <3>. PICK fl : fl = [mail.flag EXCEPT ![msg] = v]
      OBVIOUS
    <3>1. new = [mail EXCEPT !.flag = fl, !.payload = pl]
      BY <2>1
    <3>. HIDE DEF new
    <3>. QED  BY <3>1 DEF Comes, IsMail, MailFields
  <2>3. mail.flag = [m \in Msgs |-> mail.flag[m]]
    BY DEF Comes, FlagsFit
  <2>. HIDE DEF new
  <2>4. \A m \in Msgs : new.flag[m] = IF m = msg THEN v ELSE mail.flag[m]
    BY <2>2, <2>3
  <2>. QED  BY <2>1, <2>4 DEF new
<1>. QED  BY <1>1, <1>2

LEMMA RevertsShapes ==
  ASSUME Comes(Mail), \A m \in Msgs : IsFlags(flag[m]), NEW D \in SUBSET RowIds
  PROVE  \A m \in Msgs : IsFlags(RevertAll(Mail, D).flag[m])
<1>1. PICK u : RevertAll(Mail, D) = u[MaxRows] /\ Turns(u, MaxRows, Mail, D)
  BY AllTurns
<1>. DEFINE Good(n) == Comes(u[n]) /\ \A m \in Msgs : IsFlags(u[n].flag[m])
            Bad == {n \in 0 .. MaxRows : ~ Good(n)}
<1>2. MaxRows \in Nat /\ RowIds \subseteq Nat
  BY QueueAssumption DEF RowIds
<1>3. /\ u[0] = Mail
      /\ \A n \in 1 .. MaxRows : u[n] = IF n \in D THEN RevertIntent(u[n - 1], n) ELSE u[n - 1]
  BY <1>1, <1>2 DEF Turns
<1>4. Good(0)
  BY <1>3 DEF Mail
<1>5. ASSUME NEW n \in 1 .. MaxRows, Good(n - 1)  PROVE Good(n)
  <2>1. n \in RowIds
    BY DEF RowIds
  <2>2. CASE n \in D
    <3>1. u[n] = RevertIntent(u[n - 1], n)
      BY <1>3, <2>2
    <3>. QED  BY <1>5, <2>1, <3>1, RevertComes, RevertShapes
  <2>. QED  BY <1>3, <1>5, <2>2
<1>6. Bad = {}
  <2>1. SUFFICES ASSUME Bad # {}  PROVE FALSE
    OBVIOUS
  <2>2. Bad \in SUBSET Nat
    BY <1>2
  <2>3. PICK n \in Bad : \A x \in Bad : n <= x
    <3>. HIDE DEF Bad
    <3>. QED  BY <2>1, <2>2, LeastNatural
  <2>. HIDE DEF Good
  <2>4. n # 0 /\ n \in 1 .. MaxRows /\ n - 1 \in 0 .. MaxRows /\ ~ (n <= n - 1)
    BY <1>2, <1>4, <2>3
  <2>5. Good(n - 1)
    BY <2>3, <2>4
  <2>. QED  BY <1>5, <2>3, <2>4, <2>5
<1>. QED  BY <1>1, <1>2, <1>6

\* A message of whose rows some end, but no toggle lands.
LEMMA ClearEnds ==
  ASSUME FlagInv, NEW m \in Msgs \ Detached, Clear(m)',
         tangled[m] => tangled'[m], overtaken[m] => overtaken'[m],
         \A f \in Flags : server'[m].flags[f] = server[m].flags[f],
         \A q \in RowIds :
           /\ Ending(q) /\ payload'[q].set = payload[q].set
           /\ rows[q].kind = "flags" /\ payload[q].msg = m =>
                /\ rows'[q].status \in Live => rows[q].status \in Live
                /\ rows'[q].status = "done" <=> rows[q].status = "done"
  PROVE  Clear(m) /\ Known(m) /\ Aimed(m) /\ Landing(m)'
<1>1. Clear(m)
  <2>1. ForMsg(m) \subseteq RowIds
    BY DEF ForMsg
  <2>. QED  BY <2>1, ClearBefore
<1>2. Known(m) /\ Aimed(m) /\ Landing(m)
  BY <1>1 DEF FlagInv
<1>3. \A f \in Flags : Landed(m, f)' = Landed(m, f) /\ Coming(m, f)' \subseteq Coming(m, f)
  BY TogglesSame DEF FlagInv, FolderInv, MailInv, Ending
<1>4. \A f \in Flags : \A x \in Landed(m, f) : payload'[x].set = payload[x].set
  BY DEF Landed, ForMsg
<1>5. Landing(m)'
  BY <1>2, <1>3, <1>4, LandingStays
<1>. QED  BY <1>1, <1>2, <1>5

\* The inverse of the row that moves a clear message puts it back where its copy is.
LEMMA RevertsHome ==
  ASSUME PlacesFit, NEW r \in RowIds, NEW m \in Msgs, payload[r].msg = m, Home(m).uid # NoUid,
         \/ Deleting(m, r) /\ maps[m] = {Home(m)}
         \/ Moving(m, r) /\ payload[r].from = {Home(m)} /\ Goes(r, Home(m))
         \/ Staying(m, r) /\ payload[r].from = {} /\ maps[m] = {Home(m)}
  PROVE  RevertIntent(Mail, r).maps[m] = {Home(m)}
<1>. DEFINE new == RevertIntent(Mail, r)
            back == {mp \in payload[r].from : \A c \in maps[m] : c.folder # mp.folder}
            placeholder == IF payload[r].added THEN {Mapping(payload[r].dest, NoUid)} ELSE {}
<1>1. rows[r].kind # "flags"
  BY DEF Deleting, Moving, Staying
<1>2. /\ rows[r].kind = "delete" =>
           new.maps[m] = maps[m] /\ new.tomb[m] = IF payload[r].wasDeleted THEN tomb[m] ELSE FALSE
      /\ rows[r].kind \in {"archive", "move"} =>
           /\ new.tomb[m] = tomb[m]
           /\ new.maps[m] = IF payload[r].from = {} THEN maps[m] ELSE (maps[m] \cup back) \ placeholder
  BY <1>1, MoveReverts
<1>. HIDE DEF new
<1>3. CASE Deleting(m, r) /\ maps[m] = {Home(m)}
  BY <1>2, <1>3 DEF Deleting, new
<1>4. CASE Staying(m, r) /\ payload[r].from = {} /\ maps[m] = {Home(m)}
  BY <1>2, <1>4 DEF Staying, new
<1>5. CASE Moving(m, r) /\ payload[r].from = {Home(m)} /\ Goes(r, Home(m))
  <2>. PICK held : held = Mapping(payload[r].dest, NoUid)
    OBVIOUS
  <2>1. held.folder = payload[r].dest /\ held.uid = NoUid
    BY PlaceIs
  <2>2. rows[r].kind \in {"archive", "move"} /\ payload[r].added /\ maps[m] = {held}
    BY <1>5 DEF Moving
  <2>3. Home(m).folder # held.folder
    BY <1>5, <2>1, <2>2 DEF Goes, DestOf
  <2>4. back = {Home(m)} /\ placeholder = {held} /\ Home(m) # held
    BY <1>5, <2>2, <2>3
  <2>. HIDE DEF back, placeholder
  <2>. QED  BY <1>2, <1>5, <2>2, <2>4 DEF new
<1>. QED  BY <1>3, <1>4, <1>5

LEMMA RevertKnown ==
  ASSUME FolderInv, NEW m \in Msgs \ Detached, Clear(m), Known(m), NEW r \in Movers(m)
  PROVE  RevertIntent(Mail, r).maps[m] = {Home(m)}
<1>1. r \in RowIds /\ payload[r].msg = m /\ PlacesFit
  BY DEF Movers, LiveRows, ForMsg, FolderInv
<1>2. /\ Home(m).uid # NoUid /\ Movers(m) = {r}
      /\ \/ Deleting(m, r) /\ maps[m] = {Home(m)}
         \/ Moving(m, r) /\ payload[r].from = {Home(m)} /\ Goes(r, Home(m))
         \/ Staying(m, r) /\ payload[r].from = {}
  BY ClearMoves
<1>3. payload[r].from = {} => maps[m] = {Home(m)}
  BY <1>2 DEF Known
<1>. QED  BY <1>1, <1>2, <1>3, RevertsHome

\* A row of another message, or a toggle, ends: mail stays where it is.
LEMMA RevertElsewhere ==
  ASSUME FolderInv, NEW r \in RowIds, rows[r].status \in Live, NEW m \in Msgs, r \notin Movers(m)
  PROVE  LET new == RevertIntent(Mail, r) IN
         new.maps[m] = maps[m] /\ \A q \in RowIds : new.payload[q].from = payload[q].from
<1>. PICK new : new = RevertIntent(Mail, r)
  OBVIOUS
<1>1. CASE rows[r].kind = "flags"
  <2>1. InPlace(Mail) /\ Comes(Mail)
    BY MailComes DEF InPlace, Mail, FolderInv
  <2>2. InPlace(new)
    BY <1>1, <2>1, FlagsStayInPlace
  <2>. QED  BY <2>2 DEF InPlace
<1>2. CASE rows[r].kind # "flags"
  <2>. PICK x : x = payload[r].msg
    OBVIOUS
  <2>1. PlacesFit /\ x \in Msgs /\ rows[r].kind \in {"delete", "archive", "move"}
    BY <1>2 DEF FolderInv, KindsFit, Live
  <2>2. x # m
    BY <2>1 DEF Movers, LiveRows, ForMsg, Relocates
  <2>3. new.payload = payload /\ \A y \in Msgs \ {x} : new.maps[y] = maps[y]
    BY <1>2, <2>1, MoveRevertsFit
  <2>. QED  BY <2>2, <2>3
<1>. QED  BY <1>1, <1>2

\* Row r ends, and its inverse runs: where a clear message is stays known.
LEMMA RevertedKnown ==
  ASSUME FolderInv, NEW m \in Msgs \ Detached, Clear(m), Known(m),
         NEW r \in RowIds, rows[r].status \in Live, Becomes(RevertIntent(Mail, r)),
         Home(m)' = Home(m),
         \A q \in RowIds \ {r} : rows[q].status \in Live => rows'[q].status \in Live,
         \A q \in RowIds : rows'[q].kind = rows[q].kind /\ payload'[q].msg = payload[q].msg
  PROVE  Known(m)'
<1>. PICK new : new = RevertIntent(Mail, r)
  OBVIOUS
<1>1. maps' = new.maps /\ payload' = new.payload
  BY DEF Becomes
<1>2. CASE r \in Movers(m)
  <2>1. new.maps[m] = {Home(m)}
    BY <1>2, RevertKnown
  <2>. QED  BY <1>1, <2>1 DEF Known
<1>3. CASE r \notin Movers(m)
  <2>1. new.maps[m] = maps[m] /\ \A q \in RowIds : new.payload[q].from = payload[q].from
    BY <1>3, RevertElsewhere
  <2>2. \A q \in Movers(m) : q \in Movers(m)' /\ q \in RowIds
    BY <1>3 DEF Movers, LiveRows, ForMsg, Relocates
  <2>. QED  BY <1>1, <2>1, <2>2 DEF Known
<1>. QED  BY <1>2, <1>3

LEMMA CancelFlags ==
  ASSUME FlagInv, FolderInv', NEW r \in RowIds, CancelIntent(r)
  PROVE  FlagInv'
<1>. DEFINE mail == RevertIntent(Mail, r)
<1>1. /\ Cancel(r) /\ rows[r].status = "pending" /\ rows[r].status \in Live /\ Becomes(mail)
      /\ calling' = calling /\ doubtful' = doubtful /\ UNCHANGED <<aim, server, tangled, overtaken>>
  BY DEF CancelIntent, Cancel, Live
<1>2. /\ rows'[r].kind = rows[r].kind /\ rows'[r].status = "canceled"
      /\ \A q \in RowIds \ {r} : Calm(q)
  BY <1>1, CanceledRow DEF FlagInv, FolderInv, MailInv
<1>3. Comes(Mail) /\ Comes(mail) /\ Mail.flag = flag /\ payload' = mail.payload /\ flag' = mail.flag
  BY <1>1, MailComes, RevertComes DEF FlagInv, FolderInv, Mail, Becomes
<1>4. \A x \in Msgs : IsFlags(flag'[x])
  <2>1. \A x \in Msgs : IsFlags(Mail.flag[x])
    BY <1>3 DEF FlagInv
  <2>. QED  BY <1>3, <2>1, RevertShapes
<1>. HIDE DEF mail
<1>5. \A q \in RowIds : /\ Ending(q) /\ payload'[q].set = payload[q].set
                        /\ rows'[q].status \in Live => rows[q].status \in Live
                        /\ rows'[q].status = "done" <=> rows[q].status = "done"
  BY <1>1, <1>2, <1>3 DEF Comes, Ending, EndLasts, Calm, Live
<1>6. ASSUME NEW x \in Msgs \ Detached', Clear(x)'
      PROVE  Known(x)' /\ Aimed(x)' /\ Landing(x)'
  <2>1. x \in Msgs \ Detached /\ Home(x)' = Home(x)
    BY <1>1, <1>6 DEF Detached, Home
  <2>2. /\ tangled[x] => tangled'[x]
        /\ overtaken[x] => overtaken'[x]
        /\ \A f \in Flags : server'[x].flags[f] = server[x].flags[f]
    BY <1>1
  <2>3. Clear(x) /\ Known(x) /\ Aimed(x) /\ Landing(x)'
    BY <1>5, <1>6, <2>1, <2>2, ClearEnds
  <2>4. Aimed(x)'
    BY <1>1, <1>5, <2>1, <2>3 DEF Aimed, ForMsg, Ending
  <2>5. /\ \A q \in RowIds \ {r} : rows[q].status \in Live => rows'[q].status \in Live
        /\ \A q \in RowIds : rows'[q].kind = rows[q].kind /\ payload'[q].msg = payload[q].msg
    BY <1>2, <1>5 DEF Calm, Ending
  <2>6. Known(x)'
    BY <1>1, <2>1, <2>3, <2>5, RevertedKnown DEF FlagInv, mail
  <2>. QED  BY <2>3, <2>4, <2>6
<1>. QED  BY <1>1, <1>4, <1>6 DEF FlagInv

-----------------------------------------------------------------------------
(* Calls answer *)

\* A clear message's move that finds nothing had nowhere to take it.
LEMMA NothingDone ==
  ASSUME FolderInv, NEW m \in Msgs \ Detached, Clear(m), Known(m), NEW r \in Movers(m), r \in calling,
         ~ (aim[r].kind = "server" /\ Hits(m, aim[r]))
  PROVE  aim[r].kind = "none" /\ maps[m] = {Home(m)}
<1>1. /\ Home(m).uid # NoUid /\ Movers(m) = {r}
      /\ \/ Deleting(m, r) /\ maps[m] = {Home(m)}
         \/ Moving(m, r) /\ payload[r].from = {Home(m)} /\ Goes(r, Home(m))
         \/ Staying(m, r) /\ payload[r].from = {}
  BY ClearMoves
<1>2. aim[r] # OnServer(Home(m))
  <2>1. /\ OnServer(Home(m)).kind = "server" /\ OnServer(Home(m)).folder = server[m].folder
        /\ OnServer(Home(m)).uid = server[m].uid
    BY PlaceIs DEF OnServer, Home
  <2>. QED  BY <2>1 DEF Hits
<1>3. Nowhere.kind = "none"
  BY DEF Nowhere
<1>4. CASE Deleting(m, r) /\ maps[m] = {Home(m)}
  <2>1. aim[r] = Nowhere
    BY <1>2, <1>4 DEF Deleting, Leaving
  <2>. QED  BY <1>3, <1>4, <2>1
<1>5. CASE Moving(m, r) /\ payload[r].from = {Home(m)} /\ Goes(r, Home(m))
  BY <1>2, <1>5 DEF Moving, Leaving
<1>6. CASE Staying(m, r) /\ payload[r].from = {}
  <2>1. aim[r] = Nowhere
    BY <1>6 DEF Staying
  <2>2. maps[m] = {Home(m)}
    BY <1>1, <1>6 DEF Known
  <2>. QED  BY <1>3, <2>1, <2>2
<1>. QED  BY <1>1, <1>4, <1>5, <1>6

LEMMA SettleRowFlags ==
  ASSUME UidPlus = TRUE, FlagInv, FolderInv', NEW r \in RowIds, NEW o \in Outcomes, SettleRow(r, o)
  PROVE  FlagInv'
<1>. PICK m : m = payload[r].msg
  OBVIOUS
<1>. DEFINE hit == aim[r].kind = "server" /\ Hits(m, aim[r])
            out == [q \in {r} |-> o]
            dead == Marked(rows[r], o).status = "dead"
<1>1. /\ FolderInv /\ PlacesFit /\ IInv /\ rows \in [RowIds -> Row]
  BY DEF FlagInv, FolderInv, MailInv, IInv, TypeOK
<1>2. /\ calling = {r} /\ rows[r].kind # "flags" /\ Settle(out) /\ calling' = {}
      /\ UNCHANGED <<tangled, overtaken>>
  BY DEF SettleRow, Settle
<1>3. /\ o \in {"taken", "nothing", "refused", "lost"}
      /\ o \in {"taken", "lost"} => hit
      /\ o = "nothing" => ~ hit
  BY DEF SettleRow
<1>4. server' = IF o \in {"taken", "lost"} THEN [server EXCEPT ![m] = Moved(m, DestOf(r))] ELSE server
  BY DEF SettleRow
<1>5. /\ rows[r].status = "sending" /\ m \in Msgs /\ r \in Movers(m)
  BY <1>1, <1>2, CalledRow
<1>6. /\ rows'[r] = Marked(rows[r], o) /\ rows'[r].kind = rows[r].kind
      /\ o \in {"taken", "nothing"} => rows'[r].status = "done" /\ ~ dead
      /\ o \in {"refused", "lost"} /\ ~ dead => rows'[r].status = "pending"
  <2>1. rows'[r] = Marked(rows[r], o)
    BY <1>2 DEF Settle, MarkedRows
  <2>2. rows[r] \in Row
    BY <1>1
  <2>. QED  BY <1>3, <2>1, <2>2 DEF Marked, Row
<1>7. /\ \A q \in RowIds \ {r} : Calm(q)
      /\ \A q \in RowIds : doubtful[q] => doubtful'[q]
      /\ o = "lost" => doubtful'[r]
  <2>1. rows' = MarkedRows(out) /\ undone' = Reverted(out) /\ Observe(out)
    BY <1>2 DEF Settle
  <2>2. \A q \in RowIds \ {r} : rows'[q] = rows[q] /\ undone'[q] = undone[q]
    BY <1>1, <2>1 DEF MarkedRows, Reverted, IInv, TypeOK
  <2>3. \A q \in RowIds : doubtful[q] => doubtful'[q]
    BY <2>1 DEF Observe
  <2>4. o = "lost" => doubtful'[r]
    BY <2>1 DEF Observe
  <2>. QED  BY <2>2, <2>3, <2>4 DEF Calm
<1>8. /\ \A x \in Msgs : server'[x].flags = server[x].flags
      /\ \A x \in Msgs \ {m} : Home(x)' = Home(x)
      /\ o \in {"nothing", "refused"} => Home(m)' = Home(m)
      /\ o = "taken" => Home(m)' = Mapping(DestOf(r), server[m].uid + 1)
      /\ Detached' \subseteq Detached \cup {m}
  <2>1. server = [x \in Msgs |-> server[x]]
    BY <1>1 DEF PlacesFit
  <2>2. CASE o \in {"taken", "lost"}
    <3>1. server' = [server EXCEPT ![m] = Moved(m, DestOf(r))]
      BY <1>4, <2>2
    <3>2. \A x \in Msgs : server'[x] = IF x = m THEN Moved(m, DestOf(r)) ELSE server[x]
      BY <2>1, <3>1
    <3>3. /\ Moved(m, DestOf(r)).folder = DestOf(r) /\ Moved(m, DestOf(r)).uid = server[m].uid + 1
          /\ Moved(m, DestOf(r)).flags = server[m].flags
      BY <1>1, <1>5, MovedCopy, MovedFlags
    <3>. QED  BY <1>5, <2>2, <3>2, <3>3 DEF Home, Detached
  <2>3. CASE o \in {"nothing", "refused"}
    BY <1>4, <2>3 DEF Home, Detached
  <2>. QED  BY <1>3, <2>2, <2>3
<1>9. /\ payload' = payload /\ \A x \in Msgs : IsFlags(flag'[x])
  <2>1. CASE dead
    <3>1. Becomes(RevertIntent(Mail, r))
      BY <2>1 DEF SettleRow
    <3>2. Comes(Mail) /\ Mail.flag = flag /\ Mail.payload = payload
      BY MailComes DEF FlagInv, FolderInv, Mail
    <3>. QED  BY <1>2, <3>1, <3>2, OtherReverts DEF Becomes, FlagInv
  <2>2. CASE ~ dead
    <3>1. UNCHANGED <<flag, payload>>
      BY <2>2 DEF SettleRow
    <3>. QED  BY <3>1 DEF FlagInv
  <2>. QED  BY <2>1, <2>2
<1>10. \A q \in RowIds : /\ Ending(q) /\ payload'[q].set = payload[q].set
                         /\ rows[q].kind = "flags" =>
                              /\ rows'[q].status \in Live => rows[q].status \in Live
                              /\ rows'[q].status = "done" <=> rows[q].status = "done"
  <2>1. Ending(r)
    BY <1>5, <1>6, <1>7, <1>9 DEF Ending, EndLasts
  <2>. QED  BY <1>2, <1>7, <1>9, <2>1 DEF Ending, EndLasts, Calm, Live
<1>11. ASSUME NEW x \in Msgs \ Detached', Clear(x)'
       PROVE  Known(x)' /\ Aimed(x)' /\ Landing(x)'
  <2>1. x \in Msgs \ Detached
    <3>1. server[x].folder = "nowhere" => server'[x].folder = "nowhere"
      <4>1. CASE o \in {"taken", "lost"}
        BY <1>1, <1>2, <1>3, <1>4, <1>5, <4>1, CallMoves
      <4>2. CASE o \in {"nothing", "refused"}
        BY <1>4, <4>2
      <4>. QED  BY <1>3, <4>1, <4>2
    <3>. QED  BY <1>11, <3>1 DEF Detached
  <2>2. /\ tangled[x] => tangled'[x]
        /\ overtaken[x] => overtaken'[x]
        /\ \A f \in Flags : server'[x].flags[f] = server[x].flags[f]
    BY <1>2, <1>8, <2>1
  <2>3. Clear(x) /\ Known(x) /\ Aimed(x) /\ Landing(x)'
    BY <1>10, <1>11, <2>1, <2>2, ClearEnds
  <2>4. Aimed(x)'
    BY <1>2 DEF Aimed
  <2>5. ~ (x = m /\ o = "lost")
    <3>1. r \in ForMsg(m)'
      BY <1>5, <1>6, <1>9 DEF Movers, LiveRows, ForMsg
    <3>. QED  BY <1>7, <1>11, <3>1 DEF Clear
  <2>6. CASE dead
    <3>1. Becomes(RevertIntent(Mail, r))
      BY <2>6 DEF SettleRow
    <3>2. Home(x)' = Home(x)
      BY <1>3, <1>6, <1>8, <2>1, <2>5, <2>6
    <3>3. /\ rows[r].status \in Live
          /\ \A q \in RowIds \ {r} : rows[q].status \in Live => rows'[q].status \in Live
          /\ \A q \in RowIds : rows'[q].kind = rows[q].kind /\ payload'[q].msg = payload[q].msg
      BY <1>5, <1>7, <1>10 DEF Calm, Ending, Live
    <3>4. Known(x)'
      BY <1>1, <2>1, <2>3, <3>1, <3>2, <3>3, RevertedKnown
    <3>. QED  BY <2>3, <2>4, <3>4
  <2>7. CASE ~ dead
    <3>1. maps' = IF o = "taken" /\ UidPlus THEN Relinked(m, DestOf(r), server[m].uid + 1)
                  ELSE IF o \in {"taken", "nothing"} /\ aim[r].kind # "none" THEN Relinked(m, DestOf(r), NoUid)
                  ELSE maps
      BY <2>7 DEF SettleRow
    <3>2. \A f, u : LET new == Relinked(m, f, u) IN
            new[m] = {Mapping(f, u)} /\ \A y \in Msgs \ {m} : new[y] = maps[y]
      BY <1>1, <1>5 DEF Relinked, PlacesFit
    <3>3. ASSUME maps'[x] = maps[x], Home(x)' = Home(x), x = m => rows'[r].status \in Live
          PROVE  Known(x)'
      <4>1. \A q \in Movers(x) : q \in Movers(x)'
        <5>1. \A q \in RowIds : q \in Movers(x) => q \in Movers(x)'
          BY <1>5, <1>7, <1>9, <1>10, <3>3 DEF Movers, LiveRows, ForMsg, Relocates, Calm, Ending, Live
        <5>. QED  BY <5>1 DEF Movers, LiveRows, ForMsg
      <4>. QED  BY <1>9, <2>3, <3>3, <4>1 DEF Known
    <3>4. CASE x # m
      BY <1>8, <2>1, <2>3, <2>4, <3>1, <3>2, <3>3, <3>4
    <3>5. CASE x = m /\ o = "taken"
      <4>1. maps'[m] = {Home(m)'}
        BY <1>8, <3>1, <3>2, <3>5
      <4>. QED  BY <2>3, <2>4, <3>5, <4>1 DEF Known
    <3>6. CASE x = m /\ o = "nothing"
      <4>1. aim[r].kind = "none" /\ maps[m] = {Home(m)}
        BY <1>1, <1>2, <1>3, <1>5, <2>1, <2>3, <3>6, NothingDone
      <4>2. maps'[m] = {Home(m)'}
        BY <1>8, <3>1, <3>6, <4>1
      <4>. QED  BY <2>3, <2>4, <3>6, <4>2 DEF Known
    <3>7. CASE x = m /\ o = "refused"
      <4>1. maps' = maps /\ rows'[r].status \in Live
        BY <1>6, <2>7, <3>1, <3>7 DEF Live
      <4>. QED  BY <1>8, <2>3, <2>4, <3>3, <3>7, <4>1
    <3>. QED  BY <1>3, <2>5, <3>4, <3>5, <3>6, <3>7
  <2>. QED  BY <2>6, <2>7
<1>. QED  BY <1>8, <1>9, <1>11 DEF FlagInv

\* What the rows of a STORE learn of it.
LEMMA StoreTold ==
  ASSUME NEW res \in StoreResults, NEW m \in Msgs, NEW f \in Flags, NEW r \in Togglers(m, f)
  PROVE  /\ <<m, f>> \in Toggled
         /\ res[StoreOf(<<m, f>>)] \in {"taken", "refused", "lost"}
         /\ res[StoreOf(<<m, f>>)] = "taken" => FlagsOutcome(res, r) \in {"taken", "lost"}
         /\ res[StoreOf(<<m, f>>)] = "refused" => FlagsOutcome(res, r) \in {"refused", "lost"}
         /\ res[StoreOf(<<m, f>>)] = "lost" => FlagsOutcome(res, r) = "lost"
<1>. PICK s : s = StoreOf(<<m, f>>)
  OBVIOUS
<1>. DEFINE mine == {StoreOf(mf) : mf \in {x \in Toggled : r \in Togglers(x[1], x[2])}}
            did == {t \in mine : res[t] \in {"taken", "lost"}}
<1>1. <<m, f>> \in Toggled /\ Placed(r)
  BY DEF Toggled, Togglers
<1>2. s \in Stores /\ s \in mine
  BY <1>1 DEF Stores
<1>3. res[s] \in {"taken", "refused", "lost"}
  BY <1>2 DEF StoreResults
<1>4. FlagsOutcome(res, r) = IF \A t \in mine : res[t] = "taken" THEN "taken"
                             ELSE IF did = {} THEN "refused" ELSE "lost"
  BY <1>1 DEF FlagsOutcome
<1>5. res[s] \in {"taken", "lost"} => did # {}
  BY <1>2
<1>. HIDE DEF mine, did
<1>. QED  BY <1>1, <1>2, <1>3, <1>4, <1>5

\* A STORE of a clear message lands all its toggles of the flag, or none.
LEMMA FlagLands ==
  ASSUME FlagInv, \A q \in calling : rows[q].kind = "flags", NEW res \in StoreResults,
         NEW o \in [calling -> Answers], \A q \in calling : o[q] = FlagsOutcome(res, q), Settle(o),
         server' = Stored(res), overtaken' = Overtakes(res),
         \A q \in RowIds : payload'[q].msg = payload[q].msg /\ payload'[q].set = payload[q].set,
         NEW m \in Msgs, Aimed(m), Landing(m), Clear(m)', NEW f \in Flags
  PROVE  /\ server'[m].flags[f] = Top(payload', Landed(m, f)', f)
         /\ \A x \in Landed(m, f)', y \in Coming(m, f)' : x < y
<1>. DEFINE T == Togglers(m, f)
            d == Decider(<<m, f>>)
<1>1. /\ IInv /\ RowsFit /\ PlacesFit /\ calling \subseteq RowIds /\ calling \in SUBSET batch
      /\ DOMAIN o = calling /\ o \in [calling -> Answers]
      /\ \A q \in calling : rows[q].kind = "flags" /\ rows[q].status = "sending"
  BY DEF FlagInv, FolderInv, MailInv, IInv, TypeOK, HeldRows
<1>2. /\ \A q \in RowIds \ calling : rows'[q] = rows[q]
      /\ \A q \in calling : /\ rows'[q].kind = "flags" /\ rows'[q].status \in {"done", "dead", "pending"}
                            /\ rows'[q].status = "done" <=> o[q] \in {"taken", "nothing"}
                            /\ o[q] = "lost" => doubtful'[q]
  <2>1. rows' = MarkedRows(o) /\ Observe(o)
    BY DEF Settle
  <2>2. \A q \in calling : o[q] = "lost" => doubtful'[q]
    BY <1>1, <2>1 DEF Observe
  <2>. QED  BY <1>1, <2>1, <2>2, MarkedTable
<1>3. \A q \in calling : o[q] = FlagsOutcome(res, q)
  OBVIOUS
<1>. HIDE DEF T
<1>4. /\ T \in SUBSET calling
      /\ \A q \in calling : q \in T <=> payload[q].msg = m /\ f \in DOMAIN payload[q].set
      /\ \A q \in T : aim[q] = OnServer(Home(m)) /\ q \in Coming(m, f) /\ q \in ForMsg(m)'
  <2>1. \A q \in calling : payload[q].msg = m => aim[q] = OnServer(Home(m)) /\ q \in ForMsg(m)
    BY <1>1 DEF Aimed, ForMsg
  <2>2. OnServer(Home(m)).kind = "server"
    BY DEF OnServer
  <2>3. \A q \in calling : q \in T <=> payload[q].msg = m /\ f \in DOMAIN payload[q].set
    BY <2>1, <2>2 DEF T, Togglers, Placed
  <2>4. T \in SUBSET calling
    BY DEF T, Togglers
  <2>. QED  BY <1>1, <1>2, <2>1, <2>3, <2>4 DEF Coming, LiveRows, ForMsg, Live
<1>5. /\ Landed(m, f) \in SUBSET RowIds /\ T \in SUBSET RowIds
      /\ \A x \in Landed(m, f), y \in Coming(m, f) : x < y
      /\ server[m].flags[f] = Top(payload, Landed(m, f), f)
  BY <1>1, <1>4 DEF Landed, ForMsg, Landing
<1>6. /\ \A q \in RowIds : q \in Landed(m, f)' <=> q \in Landed(m, f) \/ (q \in T /\ rows'[q].status = "done")
      /\ \A q \in RowIds : q \in Coming(m, f)' =>
           q \in Coming(m, f) /\ (q \in calling => q \in T /\ rows'[q].status # "done")
      /\ Landed(m, f)' \subseteq RowIds /\ Coming(m, f)' \subseteq RowIds
  BY <1>1, <1>2, <1>4 DEF Landed, Coming, LiveRows, ForMsg, Live
<1>7. /\ \A S \in SUBSET RowIds : Top(payload', S, f) = Top(payload, S, f)
      /\ server'[m].flags[f] =
           IF <<m, f>> \in Toggled /\ res[StoreOf(<<m, f>>)] \in {"taken", "lost"} /\ Hits(m, aim[d])
           THEN StoreOf(<<m, f>>)[3] ELSE server[m].flags[f]
  <2>1. \A S \in SUBSET RowIds : Top(payload', S, f) = Top(payload, S, f)
    BY TopNext
  <2>2. Stored(res)[m].flags[f] =
           IF <<m, f>> \in Toggled /\ res[StoreOf(<<m, f>>)] \in {"taken", "lost"} /\ Hits(m, aim[d])
           THEN StoreOf(<<m, f>>)[3] ELSE server[m].flags[f]
    BY <1>1, StoredFlags
  <2>. QED  BY <2>1, <2>2
<1>8. \A q \in T : ~ doubtful'[q]
  BY <1>4 DEF Clear
<1>9. ASSUME Landed(m, f)' = Landed(m, f), server'[m].flags[f] = server[m].flags[f]
      PROVE  /\ server'[m].flags[f] = Top(payload', Landed(m, f)', f)
             /\ \A x \in Landed(m, f)', y \in Coming(m, f)' : x < y
  BY <1>5, <1>6, <1>7, <1>9
<1>10. CASE T = {}
  <2>1. <<m, f>> \notin Toggled
    BY <1>10 DEF T, Toggled
  <2>2. Landed(m, f)' = Landed(m, f)
    BY <1>5, <1>6, <1>10
  <2>. QED  BY <1>7, <1>9, <2>1, <2>2
<1>11. CASE T # {}
  <2>1. /\ <<m, f>> \in Toggled
        /\ res[StoreOf(<<m, f>>)] \in {"taken", "refused", "lost"}
        /\ \A q \in T : /\ res[StoreOf(<<m, f>>)] = "taken" => o[q] \in {"taken", "lost"}
                        /\ res[StoreOf(<<m, f>>)] = "refused" => o[q] \in {"refused", "lost"}
                        /\ res[StoreOf(<<m, f>>)] = "lost" => o[q] = "lost"
    BY <1>3, <1>4, <1>11, StoreTold DEF T
  <2>2. res[StoreOf(<<m, f>>)] # "lost" /\ \A q \in T : o[q] # "lost"
    BY <1>2, <1>4, <1>8, <1>11, <2>1
  <2>3. CASE res[StoreOf(<<m, f>>)] = "refused"
    <3>1. \A q \in T : rows'[q].status # "done"
      BY <1>2, <1>4, <2>1, <2>2, <2>3
    <3>2. Landed(m, f)' = Landed(m, f)
      BY <1>5, <1>6, <3>1
    <3>. QED  BY <1>7, <1>9, <2>3, <3>2
  <2>4. CASE res[StoreOf(<<m, f>>)] = "taken"
    <3>1. \A q \in T : rows'[q].status = "done"
      BY <1>2, <1>4, <2>1, <2>2, <2>4
    <3>. DEFINE S == Landed(m, f) \cup T
    <3>2. Landed(m, f)' = S /\ S \in SUBSET RowIds
      BY <1>5, <1>6, <3>1
    <3>3. d \in T /\ \A y \in T : y <= d
      BY <1>5, <1>11, NewestRow DEF T, Decider
    <3>4. StoreOf(<<m, f>>)[3] = Top(payload, T, f)
      <4>1. StoreOf(<<m, f>>)[3] = payload[d].set[f]
        BY DEF StoreOf
      <4>2. Top(payload, T, f) = payload[Max(T)].set[f] /\ d = Max(T)
        BY <1>11 DEF Top, Decider, T
      <4>. QED  BY <4>1, <4>2
    <3>. HIDE DEF d
    <3>5. Top(payload, S, f) = Top(payload, T, f)
      <4>1. T \in SUBSET S /\ \A x \in S \ T : x < d
        BY <1>4, <1>5, <3>3
      <4>. QED  BY <3>2, <3>3, <4>1, TopSame
    <3>6. Hits(m, aim[d])
      <4>1. aim[d] = OnServer(Home(m))
        BY <1>4, <3>3
      <4>2. OnServer(Home(m)).folder = server[m].folder /\ OnServer(Home(m)).uid = server[m].uid
        BY PlaceIs DEF OnServer, Home
      <4>. QED  BY <4>1, <4>2 DEF Hits
    <3>7. server'[m].flags[f] = Top(payload', Landed(m, f)', f)
      BY <1>7, <2>1, <2>4, <3>2, <3>4, <3>5, <3>6 DEF d
    <3>8. ASSUME NEW y \in Coming(m, f)'  PROVE \A x \in S : x < y
      <4>1. y \in RowIds /\ y \in Coming(m, f) /\ y \notin calling
        BY <1>6, <3>1, <3>8
      <4>2. y \in LiveRows(m) \ calling /\ f \in DOMAIN payload[y].set
        BY <4>1 DEF Coming
      <4>3. ~ overtaken'[m]
        BY DEF Clear
      <4>4. ~ (y < d)
        <5>1. \/ overtaken[m]
              \/ \E g \in Flags : /\ <<m, g>> \in Toggled
                                  /\ res[StoreOf(<<m, g>>)] \in {"taken", "lost"}
                                  /\ \E q \in LiveRows(m) \ calling :
                                       g \in DOMAIN payload[q].set /\ q < Decider(<<m, g>>)
              => overtaken'[m]
          BY DEF Overtakes
        <5>. QED  BY <2>1, <2>4, <4>2, <4>3, <5>1 DEF d
      <4>5. y # d /\ y \in Nat /\ d \in Nat /\ \A x \in T : x \in Nat
        BY <1>4, <1>5, <3>3, <4>1, RowNumbers
      <4>6. \A x \in T : x < y
        <5>1. \A a, b, c \in Nat : a <= b /\ ~ (c < b) /\ c # b => a < c
          OBVIOUS
        <5>2. \A x \in T : x \in Nat /\ x <= d
          BY <3>3, <4>5
        <5>. QED  BY <4>4, <4>5, <5>1, <5>2
      <4>. QED  BY <1>5, <4>1, <4>6
    <3>. QED  BY <3>2, <3>7, <3>8
  <2>. QED  BY <2>1, <2>2, <2>3, <2>4
<1>. QED  BY <1>10, <1>11

LEMMA SettleFlagsFlags ==
  ASSUME FlagInv, FolderInv', SettleFlags
  PROVE  FlagInv'
<1>1. PICK res \in StoreResults :
        LET o == [r \in calling |-> FlagsOutcome(res, r)] IN
        /\ Settle(o) /\ Becomes(RevertAll(Mail, DeadRows(o)))
        /\ server' = Stored(res) /\ overtaken' = Overtakes(res)
  BY DEF SettleFlags
<1>. PICK o : o = [r \in calling |-> FlagsOutcome(res, r)]
  OBVIOUS
<1>. DEFINE mail == RevertAll(Mail, DeadRows(o))
<1>2. /\ Settle(o) /\ calling' = {} /\ server' = Stored(res) /\ overtaken' = Overtakes(res)
      /\ maps' = mail.maps /\ tomb' = mail.tomb /\ flag' = mail.flag /\ payload' = mail.payload
      /\ calling = FlagRows(calling) /\ tangled' = tangled
  BY <1>1 DEF Becomes, Settle, SettleFlags
<1>3. o \in [calling -> Answers] /\ DOMAIN o = calling
  BY DEF FlagsOutcome, Answers
<1>4. /\ DeadRows(o) \in SUBSET RowIds
      /\ \A r \in DeadRows(o) : rows[r].status \in Live
  BY <1>2, <1>3, SettledRows DEF FlagInv, FolderInv, MailInv
<1>5. \A r \in calling : rows[r].kind = "flags" /\ r \in RowIds /\ rows[r].status = "sending"
  <2>1. \A r \in calling : rows[r].kind = "flags"
    BY <1>2 DEF FlagRows
  <2>. QED  BY <2>1 DEF FlagInv, FolderInv, MailInv, IInv, TypeOK, HeldRows
<1>6. /\ Comes(Mail) /\ Comes(mail) /\ InPlace(mail)
      /\ \A x \in Msgs : IsFlags(mail.flag[x])
  <2>1. Comes(Mail) /\ \A r \in DeadRows(o) : rows[r].kind = "flags"
    BY <1>3, <1>5, MailComes DEF FlagInv, FolderInv, DeadRows
  <2>2. Comes(mail)
    BY <1>4, <2>1, RevertsInTurn DEF FlagInv, FolderInv, MailInv
  <2>3. InPlace(mail)
    BY <1>4, <2>1, TogglesStayInPlace
  <2>4. \A x \in Msgs : IsFlags(mail.flag[x])
    BY <1>4, <2>1, RevertsShapes DEF FlagInv
  <2>. QED  BY <2>1, <2>2, <2>3, <2>4
<1>. HIDE DEF mail
<1>7. /\ maps' = maps /\ \A x \in Msgs : IsFlags(flag'[x])
      /\ \A q \in RowIds : /\ payload'[q].msg = payload[q].msg /\ payload'[q].set = payload[q].set
                           /\ payload'[q].from = payload[q].from
  BY <1>2, <1>6 DEF InPlace, Comes
<1>8. /\ \A x \in Msgs : IsFlags(server'[x].flags) /\ Home(x)' = Home(x)
      /\ Detached' = Detached
  <2>1. \A x \in Msgs : server'[x].folder = server[x].folder /\ server'[x].uid = server[x].uid
    BY <1>2, StoredInPlace DEF FlagInv, FolderInv
  <2>2. \A x \in Msgs : IsFlags(server'[x].flags)
    BY <1>2, StoredOthers DEF FlagInv, FolderInv
  <2>. QED  BY <2>1, <2>2 DEF Home, Detached
<1>9. /\ \A q \in RowIds \ calling : rows'[q] = rows[q] /\ undone'[q] = undone[q]
      /\ \A q \in RowIds : /\ doubtful[q] => doubtful'[q]
                           /\ rows'[q].kind = rows[q].kind
  <2>1. rows' = MarkedRows(o) /\ undone' = Reverted(o) /\ Observe(o)
    BY <1>2 DEF Settle
  <2>2. \A q \in RowIds \ calling : rows'[q] = rows[q] /\ undone'[q] = undone[q]
    BY <1>3, <2>1 DEF MarkedRows, Reverted, FlagInv, FolderInv, MailInv, IInv, TypeOK
  <2>3. \A q \in RowIds : doubtful[q] => doubtful'[q]
    BY <2>1 DEF Observe
  <2>4. calling \in SUBSET batch /\ IInv
    BY DEF FlagInv, FolderInv, MailInv, IInv, TypeOK
  <2>5. \A q \in calling : rows'[q].kind = rows[q].kind
    BY <1>3, <2>1, <2>4, MarkedTable
  <2>. QED  BY <2>2, <2>3, <2>5
<1>10. \A q \in RowIds : Ending(q)
  BY <1>5, <1>7, <1>9 DEF Ending, EndLasts
<1>11. ASSUME NEW x \in Msgs \ Detached', Clear(x)'
       PROVE  Known(x)' /\ Aimed(x)' /\ Landing(x)'
  <2>1. Clear(x) /\ x \in Msgs \ Detached
    <3>1. overtaken[x] => overtaken'[x]
      BY <1>2, <1>8, <1>11 DEF Overtakes
    <3>2. \A q \in ForMsg(x) : Ending(q)
      BY <1>10 DEF ForMsg
    <3>3. tangled[x] => tangled'[x]
      BY <1>2
    <3>. QED  BY <1>8, <1>11, <3>1, <3>2, <3>3, ClearBefore
  <2>2. Known(x) /\ Aimed(x) /\ Landing(x)
    BY <2>1 DEF FlagInv
  <2>3. \A q \in Movers(x) : q \in Movers(x)' /\ payload'[q].from = payload[q].from
    <3>1. \A q \in Movers(x) : q \in RowIds /\ q \notin calling
      BY <1>5 DEF Movers, LiveRows, ForMsg, Relocates
    <3>. QED  BY <1>7, <1>9, <3>1 DEF Movers, LiveRows, ForMsg, Relocates
  <2>4. Known(x)'
    BY <1>7, <1>8, <2>1, <2>2, <2>3 DEF Known
  <2>5. Aimed(x)'
    BY <1>2 DEF Aimed
  <2>6. ASSUME NEW f \in Flags
        PROVE  /\ server'[x].flags[f] = Top(payload', Landed(x, f)', f)
               /\ \A y \in Landed(x, f)', z \in Coming(x, f)' : y < z
    <3>1. /\ \A q \in calling : rows[q].kind = "flags"
          /\ \A q \in calling : o[q] = FlagsOutcome(res, q)
      BY <1>5
    <3>. QED  BY <1>2, <1>3, <1>7, <1>11, <2>1, <2>2, <3>1, FlagLands
  <2>7. Landing(x)'
    BY <2>6 DEF Landing, Top
  <2>. QED  BY <2>4, <2>5, <2>7
<1>. QED  BY <1>7, <1>8, <1>11 DEF FlagInv

-----------------------------------------------------------------------------
(* Every step *)

LEMMA FlagStarts == MailInit => FlagInv
<1>. SUFFICES ASSUME MailInit  PROVE FlagInv
  OBVIOUS
<1>1. FolderInv
  BY FolderStarts
<1>2. \A r \in RowIds : rows[r].status = "none" /\ rows[r].kind = "none"
  BY DEF MailInit, Init, NoRow
<1>3. ASSUME NEW m \in Msgs
      PROVE  /\ IsFlags(flag[m]) /\ server[m].flags = [f \in Flags |-> FALSE]
             /\ m \notin Detached => maps[m] = {Home(m)}
  <2>1. server[m].uid = 1 /\ server[m].flags \in [Flags -> {FALSE}]
    BY DEF MailInit
  <2>2. server[m].flags = [f \in Flags |-> FALSE]
    BY <2>1
  <2>3. flag[m] = [f \in Flags |-> FALSE]
    BY DEF MailInit
  <2>. QED  BY <2>1, <2>2, <2>3 DEF IsFlags, MailInit, Home
<1>4. ASSUME NEW m \in Msgs \ Detached
      PROVE  Known(m) /\ Aimed(m) /\ Landing(m)
  <2>1. Known(m) /\ Aimed(m)
    BY <1>2, <1>3 DEF Known, Aimed, ForMsg
  <2>2. ASSUME NEW f \in Flags  PROVE Landed(m, f) = {} /\ Coming(m, f) = {}
    BY <1>2 DEF Landed, Coming, LiveRows, ForMsg
  <2>. QED  BY <1>3, <2>1, <2>2 DEF Landing, Top
<1>5. \A m \in Msgs : IsFlags(flag[m]) /\ IsFlags(server[m].flags)
  BY <1>3 DEF IsFlags
<1>. QED  BY <1>1, <1>4, <1>5 DEF FlagInv

LEMMA FlagSteps ==
  ASSUME UidPlus = TRUE
  PROVE  FlagInv /\ [MailNext]_allVars => FlagInv'
<1>. SUFFICES ASSUME FlagInv, [MailNext]_allVars  PROVE FlagInv'
  OBVIOUS
<1>0. FolderInv'
  BY FolderSteps DEF FlagInv
<1>1. CASE MailCallback
  <2>1. CASE \E r \in RowIds, m \in Msgs : \E w \in BOOLEAN : Delete(r, m, w)
    BY <1>0, <2>1, DeleteFlags
  <2>2. CASE \E r \in RowIds, m \in Msgs :
               \/ \E w \in BOOLEAN : Archive(r, m, w)
               \/ \E dest \in {"junk", "inbox"} : Move(r, m, dest)
               \/ RuleSpam(r, m)
    BY <1>0, <2>2, MoveFlags
  <2>3. CASE \E r \in RowIds, m \in Msgs : \E set \in FlagSets : Toggle(r, m, set)
    BY <1>0, <2>3, ToggleFlags
  <2>4. CASE \E r \in RowIds : CancelIntent(r) \/ CrashInUndo(r)
    BY <1>0, <2>4, CancelFlags, CrashInUndoFlags
  <2>5. CASE Quietly(Tick)
    BY <1>0, <2>5, QuietFlags DEF Quietly
  <2>. QED  BY <1>1, <2>1, <2>2, <2>3, <2>4, <2>5 DEF MailCallback
<1>2. CASE \/ \E r \in RowIds : Quietly(DueElapses(r)) \/ Quietly(BackoffElapses(r))
           \/ Quietly(PassEnds)
  BY <1>0, <1>2, QuietFlags DEF Quietly
<1>3. CASE BeginFlags \/ \E r \in RowIds : BeginRow(r)
  BY <1>0, <1>3, BeginFlagsFlags, BeginRowFlags
<1>4. CASE SettleFlags
  BY <1>0, <1>4, SettleFlagsFlags
<1>5. CASE \E r \in RowIds, o \in Outcomes : SettleRow(r, o)
  BY <1>0, <1>5, SettleRowFlags
<1>6. CASE CrashMail
  BY <1>0, <1>6, CrashMailFlags
<1>7. CASE UNCHANGED allVars
  BY <1>0, <1>7, QuietFlags DEF allVars
<1>. QED  BY <1>1, <1>2, <1>3, <1>4, <1>5, <1>6, <1>7 DEF MailNext

\* Where the provider reports the UID a MOVE assigned, a message's flags are
\* the provider's once nothing is queued for it, however its toggles were
\* stacked, undone, refused and retried, and whatever moves it made between
\* them: a STORE goes to where the copy is, and the newest toggle that landed
\* is the newest that stands.
THEOREM FlagsLand ==
  ASSUME UidPlus = TRUE
  PROVE  MailFairSpec => []FlagsConverge
<1>1. FlagInv => FlagsConverge
  <2>. SUFFICES ASSUME FlagInv, NEW m \in Msgs \ Detached, Quiet(m), Clear(m)
                PROVE  flag[m] = server[m].flags
    BY DEF FlagsConverge, Clear
  <2>1. Landing(m) /\ IsFlags(flag[m]) /\ IsFlags(server[m].flags)
    BY DEF FlagInv
  <2>2. ASSUME NEW f \in Flags  PROVE flag[m][f] = server[m].flags[f]
    <3>1. flag[m][f] = Top(payload, Standing(m, f), f)
      BY DEF Clear, FlagInv, FolderInv, MailInv, StacksFit, Stacked
    <3>2. Standing(m, f) = Landed(m, f)
      BY DEF Quiet, Standing, Landed, LiveRows
    <3>. QED  BY <2>1, <3>1, <3>2 DEF Landing
  <2>. QED  BY <2>1, <2>2 DEF IsFlags
<1>2. FlagInv /\ [MailNext]_allVars => FlagInv'
  BY FlagSteps
<1>. QED  BY <1>1, <1>2, FlagStarts, PTL DEF MailFairSpec, MailSpec

=============================================================================
