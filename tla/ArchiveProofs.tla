---------------------------- MODULE ArchiveProofs ----------------------------
(***************************************************************************)
(* The source archive, proved for every set of messages, batch size,       *)
(* budget and bound on failures, crashes, renumberings, purges, searches   *)
(* and GC runs: its types, the daily budget, the file behind every         *)
(* archived row, and that the sweep passes no mail by.                     *)
(***************************************************************************)
EXTENDS SourceArchive, FiniteSetTheorems, WellFoundedInduction, TLAPS

-----------------------------------------------------------------------------
(* Sets of natural numbers: a non-empty one has a least member, a finite   *)
(* one a greatest, by the least counterexample.                            *)

LEMMA LeastNatural ==
  ASSUME NEW S \in SUBSET Nat, S # {}
  PROVE  \E x \in S : \A y \in S : x <= y
<1>1. \E x \in S : \A y \in S : ~ (<<y, x>> \in OpToRel(<, Nat))
  BY NatLessThanWellFounded, WFMin
<1>2. PICK x \in S : \A y \in S : ~ (<<y, x>> \in OpToRel(<, Nat))
  BY <1>1
<1>3. \A y \in S : ~ (y < x)
  BY <1>2 DEF OpToRel
<1>. QED  BY <1>3

LEMMA MinIsLeast ==
  ASSUME NEW S \in SUBSET Nat, S # {}
  PROVE  Min(S) \in S /\ \A y \in S : Min(S) <= y
BY LeastNatural DEF Min

\* A set of n numbers has a greatest, for the least n for which one might not.
LEMMA GreatestNatural ==
  ASSUME NEW S \in SUBSET Nat, S # {}, IsFiniteSet(S)
  PROVE  \E x \in S : \A y \in S : y <= x
<1>. DEFINE Topped(T) == \E x \in T : \A y \in T : y <= x
            Bad == {T \in SUBSET Nat : T # {} /\ IsFiniteSet(T) /\ ~ Topped(T)}
            Sizes == {Cardinality(T) : T \in Bad}
<1>1. SUFFICES ASSUME S \in Bad PROVE FALSE
  OBVIOUS
<1>2. Sizes \in SUBSET Nat /\ Sizes # {}
  BY <1>1, FS_CardinalityType
<1>3. PICK n \in Sizes : \A k \in Sizes : n <= k
  BY <1>2, LeastNatural
<1>4. PICK T \in Bad : Cardinality(T) = n
  BY <1>3
<1>5. PICK x \in T : TRUE
  BY <1>4
<1>. DEFINE R == T \ {x}
<1>6. IsFiniteSet(R) /\ Cardinality(R) = n - 1 /\ R \in SUBSET Nat /\ n \in Nat
  BY <1>2, <1>3, <1>4, <1>5, FS_RemoveElement, FS_CardinalityType
<1>7. R \notin Bad
  <2>1. SUFFICES ASSUME R \in Bad PROVE FALSE
    OBVIOUS
  <2>2. n - 1 \in Sizes
    BY <1>6, <2>1
  <2>3. n <= n - 1
    BY <1>3, <2>2
  <2>. QED  BY <1>6, <2>3
<1>8. CASE R = {}
  BY <1>4, <1>5, <1>8
<1>9. CASE Topped(R)
  <2>1. PICK r \in R : \A y \in R : y <= r
    BY <1>9
  <2>2. r \in Nat /\ x \in Nat /\ T = R \cup {x}
    BY <1>4, <1>5, <2>1
  <2>3. CASE x <= r
    BY <1>4, <2>1, <2>2, <2>3
  <2>4. CASE r <= x
    <3>1. \A y \in T : y <= x
      BY <1>4, <2>1, <2>2, <2>4
    <3>. QED  BY <1>4, <1>5, <3>1
  <2>. QED  BY <2>2, <2>3, <2>4
<1>. QED  BY <1>6, <1>7, <1>8, <1>9

LEMMA MaxIsGreatest ==
  ASSUME NEW S \in SUBSET Nat, S # {}, IsFiniteSet(S)
  PROVE  Max(S) \in S /\ \A y \in S : y <= Max(S)
<1>1. \E x \in S : \A y \in S : x >= y
  BY GreatestNatural
<1>. QED  BY <1>1 DEF Max

-----------------------------------------------------------------------------
(* The inductive invariant *)

Row == [source : BOOLEAN, uid : Nat, purged : BOOLEAN]
LiveStates == {"idle", "listed", "capturing", "staged"}
WorkerStates == {"idle", "next", "upgrading", "upgraded", "affordable", "capturing", "staged"}
GcStates == {"idle", "walking", "unlinking"}

LiveType == [at : LiveStates, todo : SUBSET Nat, id : Uuids \cup {None}]
WorkerType == [at : WorkerStates, todo : SUBSET Nat, batch : SUBSET Nat, lowest : Nat,
               id : Uuids \cup {None}, sweeping : BOOLEAN]
GcType == [at : GcStates, refs : SUBSET Uuids, doomed : SUBSET Uuids]

DiskTypes ==
  /\ server \in [Mail -> Nat]
  /\ DOMAIN rows \subseteq Uuids /\ rows \in [DOMAIN rows -> Row]
  /\ files \subseteq Uuids /\ old \subseteq files
  /\ missed \subseteq Mail /\ clobbered \subseteq Uuids
  /\ spent \in Nat /\ watermark \in Nat /\ cursor \in Nat

ThreadTypes ==
  /\ live \in LiveType /\ worker \in WorkerType /\ gc \in GcType
  /\ purging \in [id : Uuids \cup {None}, source : BOOLEAN]

\* A thread that is at a UID has one, and the UIDs a sweep ranks are finitely many.
UidAtHand ==
  /\ live.at # "idle" => live.todo # {}
  /\ worker.at \notin {"idle", "next"} =>
       IF worker.sweeping THEN worker.batch # {} ELSE worker.todo # {}
  /\ IsFiniteSet(worker.batch)
  /\ worker.sweeping => IsFiniteSet(worker.todo)

\* A capture's UUID is no row's until its file is stored, a repair's row has no
\* source until its file is recorded, and the threads never share a UUID.
UuidsInHand ==
  /\ live.at \in {"capturing", "staged"} => live.id \in Uuids \ DOMAIN rows
  /\ live.at \notin {"capturing", "staged"} => live.id = None
  /\ worker.at \in {"affordable", "capturing", "staged"} => worker.id \in Uuids \ DOMAIN rows
  /\ worker.at \in {"upgrading", "upgraded"} => worker.id \in DOMAIN rows /\ ~ rows[worker.id].source
  /\ worker.at \in {"idle", "next"} => worker.id = None
  /\ live.id = worker.id => live.id = None

\* What Purge Trash read of its row still holds when it writes.
PurgeIsCurrent ==
  /\ purging.id # None => purging.id \in DOMAIN rows
  /\ purging.source => purging.id \in DOMAIN rows /\ rows[purging.id].source

\* A file the GC cannot take unnoticed: young, or given up to it already.
Young(id) == id \in (files \ old) \cup clobbered

\* A file that is written and not yet recorded is young, and so is one that was
\* recorded after the GC read its references.
FilesInHand ==
  /\ live.at = "staged" => Young(live.id)
  /\ worker.at \in {"upgraded", "staged"} => Young(worker.id)
  /\ gc.at = "walking" => \A id \in DOMAIN rows : rows[id].source => id \in gc.refs \/ Young(id)
  /\ gc.at = "unlinking" => \A id \in DOMAIN rows : rows[id].source => id \notin gc.doomed \/ Young(id)

FileInv == UuidsInHand /\ PurgeIsCurrent /\ FilesInHand /\ SourceOnDisk

\* The downloads under way are counted as spent.
UnderWay ==
  (IF live.at = "capturing" THEN 1 ELSE 0) + (IF worker.at \in {"upgrading", "capturing"} THEN 1 ELSE 0)
BudgetInv == spent + UnderWay <= Budget + 1

(* The sweep.  What the watermark says of the mail above it when a batch is *)
(* done, the worker's lists say while one is under way: mail without a row  *)
(* is still on them, and they lie below all that was handled.  It must also *)
(* be known whose UID is whose, since a row may be found by its UID.        *)

\* A UID is one message's, and old mail lies below what live capture lists.
UidsApart ==
  /\ \A m, n \in Mail : server[m] # NoUid /\ server[m] = server[n] => m = n
  /\ \A m \in OldMail : server[m] < cursor
  /\ live.at # "idle" => \A u \in live.todo : cursor <= u

\* A row mapped to an old message's UID is that message's.
MappedRight ==
  \A id \in DOMAIN rows, m \in OldMail : server[m] # NoUid /\ rows[id].uid = server[m] => id[1] = m

\* A sweep's lists lie below what it has handled, and its batch above the rest.
Descending ==
  /\ \A x \in worker.todo, y \in worker.batch : x < y
  /\ worker.lowest # 0 => \A x \in worker.todo \cup worker.batch : x < worker.lowest

Outstanding(m) == RowsOf(m) # {} \/ server[m] \in worker.todo \cup worker.batch

\* What the worker is doing about the UID it is at.
AtHand(m) ==
  worker.at # "next" /\ server[m] = Uid =>
    IF worker.at \in {"upgrading", "upgraded"} THEN RowsOf(m) # {} ELSE worker.id[1] = m

\* Only a sweep captures, and repair has no batch.
SweepStates ==
  /\ worker.at = "idle" => ~ worker.sweeping
  /\ worker.at \in {"affordable", "capturing", "staged"} => worker.sweeping
  /\ ~ worker.sweeping => worker.batch = {} /\ worker.lowest = 0

SweepUnderWay ==
  worker.sweeping =>
    /\ Descending
    /\ \A m \in OldMail : server[m] # NoUid => AtHand(m) /\ (m \notin missed => Outstanding(m))

SweepInv == UidsApart /\ MappedRight /\ SweptOrMissed /\ SweepStates /\ SweepUnderWay

TypeInv == DiskTypes /\ ThreadTypes /\ UidAtHand
IInv == TypeInv /\ FileInv /\ BudgetInv /\ SweepInv

-----------------------------------------------------------------------------
(* Lemmas on the operators *)

LEMMA UuidsOfMail ==
  /\ \A id \in Uuids : id[1] \in Mail /\ id[1] # 0
  /\ None \notin Uuids
BY ArchiveAssumption DEF Uuids, None

LEMMA HighestUidType ==
  ASSUME server \in [Mail -> Nat]
  PROVE  HighestUid \in Nat /\ \A m \in Mail : server[m] <= HighestUid
<1>. DEFINE S == {server[m] : m \in Mail}
<1>1. server \in Surjection(Mail, S)
  BY DEF Surjection
<1>2. IsFiniteSet(S \cup {NoUid})
  BY <1>1, ArchiveAssumption, FS_Surjection, FS_AddElement
<1>3. S \cup {NoUid} = {NoUid} \cup S /\ {NoUid} \cup S \in SUBSET Nat /\ {NoUid} \cup S # {}
  BY DEF NoUid
<1>4. Max({NoUid} \cup S) \in {NoUid} \cup S /\ \A y \in {NoUid} \cup S : y <= Max({NoUid} \cup S)
  BY <1>2, <1>3, MaxIsGreatest
<1>. QED  BY <1>3, <1>4 DEF HighestUid

\* The first cursor is above all mail that is there.
LEMMA FirstCursor ==
  LET C == Max({0} \cup OldMail \cup WindowMail) + 1
  IN  C \in Nat /\ \A m \in OldMail : m < C
<1>. DEFINE S == {0} \cup OldMail \cup WindowMail
<1>1. S \in SUBSET Nat /\ S # {} /\ OldMail \cup WindowMail \in SUBSET Mail
  BY ArchiveAssumption DEF Mail
<1>2. S = (OldMail \cup WindowMail) \cup {0}
  OBVIOUS
<1>3. IsFiniteSet(OldMail \cup WindowMail)
  BY <1>1, ArchiveAssumption, FS_Subset
<1>4. IsFiniteSet(S)
  BY <1>2, <1>3, FS_AddElement
<1>. HIDE DEF S
<1>5. Max(S) \in S /\ \A y \in S : y <= Max(S)
  BY <1>1, <1>4, MaxIsGreatest
<1>6. OldMail \subseteq S
  BY DEF S
<1>7. Max(S) + 1 \in Nat /\ \A m \in OldMail : m < Max(S) + 1
  <2>1. Max(S) \in Nat /\ \A m \in OldMail : m \in Nat /\ m <= Max(S)
    BY <1>1, <1>5, <1>6
  <2>. DEFINE top == Max(S)
  <2>2. top \in Nat /\ \A m \in OldMail : m \in Nat /\ m <= top
    BY <2>1
  <2>. HIDE DEF top
  <2>3. top + 1 \in Nat /\ \A m \in OldMail : m < top + 1
    BY <2>2
  <2>. QED  BY <2>3 DEF top
<1>. QED  BY <1>7 DEF S

LEMMA FreshIds ==
  ASSUME NEW m \in Mail, NEW id \in Fresh(m)
  PROVE  /\ id \in Uuids /\ id \notin DOMAIN rows /\ id[1] = m
         /\ id \notin files /\ id \notin gc.doomed
         /\ id # live.id /\ id # worker.id
BY DEF Fresh, Uuids

LEMMA RowValues ==
  ASSUME NEW u \in Nat
  PROVE  /\ BodyOnly(u) \in Row /\ ~ BodyOnly(u).source
         /\ Archived(u) \in Row /\ Archived(u).source
BY DEF BodyOnly, Archived, Row

LEMMA InsertedRows ==
  ASSUME DiskTypes, NEW id \in Uuids, NEW row \in Row
  PROVE  /\ DOMAIN Inserted(id, row) = DOMAIN rows \cup {id}
         /\ Inserted(id, row) \in [DOMAIN rows \cup {id} -> Row]
         /\ Inserted(id, row)[id] = row
         /\ \A x \in DOMAIN rows \ {id} : Inserted(id, row)[x] = rows[x]
BY DEF Inserted, DiskTypes

LEMMA LinkedRows ==
  ASSUME DiskTypes, NEW id \in DOMAIN rows, NEW u \in Nat
  PROVE  /\ DOMAIN Linked(id, u) = DOMAIN rows
         /\ Linked(id, u) \in [DOMAIN rows -> Row]
         /\ \A x \in DOMAIN rows : Linked(id, u)[x].source = rows[x].source
BY DEF Linked, DiskTypes, Row

\* Either a row is inserted under the new UUID, or one of the message's is
\* linked and no row's source changes.
LEMMA UpsertedRows ==
  ASSUME DiskTypes, NEW id \in Uuids, NEW row \in Row, Upserted(id, row)
  PROVE  \/ /\ Known(id[1]) = {}
            /\ DOMAIN rows' = DOMAIN rows \cup {id} /\ rows' \in [DOMAIN rows' -> Row]
            /\ rows'[id] = row /\ \A x \in DOMAIN rows \ {id} : rows'[x] = rows[x]
         \/ /\ Known(id[1]) # {}
            /\ DOMAIN rows' = DOMAIN rows /\ rows' \in [DOMAIN rows' -> Row]
            /\ \A x \in DOMAIN rows : rows'[x].source = rows[x].source
<1>1. CASE Known(id[1]) = {} /\ rows' = Inserted(id, row)
  BY <1>1, InsertedRows
<1>2. CASE \E known \in Known(id[1]) : rows' = Linked(known, row.uid)
  <2>1. PICK known \in Known(id[1]) : rows' = Linked(known, row.uid)
    BY <1>2
  <2>2. known \in DOMAIN rows /\ row.uid \in Nat
    BY <2>1 DEF Known, RowsOf, Row
  <2>. QED  BY <2>1, <2>2, LinkedRows
<1>. QED  BY <1>1, <1>2 DEF Upserted

LEMMA UidOfPass ==
  ASSUME ThreadTypes, UidAtHand, live.at # "idle"
  PROVE  NextUid \in Nat /\ NextUid \in live.todo
BY MinIsLeast DEF ThreadTypes, UidAtHand, NextUid, LiveType, WorkerType, GcType

LEMMA AdvanceStep ==
  ASSUME DiskTypes, ThreadTypes, UidAtHand, live.at # "idle", Advance
  PROVE  /\ live' \in [at : {"idle", "listed"}, todo : SUBSET Nat, id : {None}]
         /\ live'.at # "idle" => live'.todo # {}
         /\ cursor' \in Nat
<1>1. NextUid \in Nat /\ NextUid \in live.todo
  BY UidOfPass
<1>2. CASE live.todo # {NextUid}
  <2>1. live' = [at |-> "listed", todo |-> live.todo \ {NextUid}, id |-> None] /\ cursor' = cursor
    BY <1>2 DEF Advance, ThreadTypes, LiveType, WorkerType, GcType
  <2>. QED  BY <1>1, <1>2, <2>1 DEF ThreadTypes, DiskTypes, LiveType, WorkerType, GcType
<1>3. CASE live.todo = {NextUid}
  BY <1>1, <1>3 DEF Advance, PassEnds, Resting, DiskTypes
<1>. QED  BY <1>2, <1>3

\* The worker is at a UID: one to repair, or one of a sweep's batch.
AtUid == IF worker.sweeping THEN worker.batch # {} ELSE worker.todo # {}

LEMMA UidOfWorker ==
  ASSUME ThreadTypes, UidAtHand, AtUid
  PROVE  /\ Uid \in Nat
         /\ worker.sweeping => Uid \in worker.batch
         /\ ~ worker.sweeping => Uid \in worker.todo
BY MinIsLeast, MaxIsGreatest DEF ThreadTypes, UidAtHand, AtUid, Uid, LiveType, WorkerType, GcType

LEMMA HandledStep ==
  ASSUME DiskTypes, ThreadTypes, UidAtHand, AtUid, Handled
  PROVE  /\ worker' \in [at : {"next"}, todo : SUBSET Nat, batch : SUBSET Nat, lowest : Nat,
                         id : {None}, sweeping : BOOLEAN]
         /\ IsFiniteSet(worker'.batch)
         /\ worker'.sweeping => IsFiniteSet(worker'.todo)
         /\ watermark' \in Nat
<1>1. Uid \in Nat
  BY UidOfWorker
<1>2. CASE ~ worker.sweeping
  <2>1. worker' = [at |-> "next", todo |-> worker.todo \ {Uid}, batch |-> worker.batch,
                   lowest |-> worker.lowest, id |-> None, sweeping |-> FALSE]
    BY <1>2 DEF Handled, ThreadTypes, LiveType, WorkerType, GcType
  <2>. QED  BY <1>1, <1>2, <2>1 DEF Handled, ThreadTypes, UidAtHand, DiskTypes, LiveType, WorkerType, GcType
<1>3. CASE worker.sweeping
  <2>1. IsFiniteSet(worker.batch \ {Uid})
    BY FS_RemoveElement DEF UidAtHand
  <2>2. worker' = [at |-> "next", todo |-> worker.todo, batch |-> worker.batch \ {Uid},
                   lowest |-> Uid, id |-> None, sweeping |-> TRUE]
    BY <1>3 DEF Handled, ThreadTypes, LiveType, WorkerType, GcType
  <2>. QED  BY <1>1, <1>3, <2>1, <2>2 DEF Handled, ThreadTypes, UidAtHand, DiskTypes, LiveType, WorkerType, GcType
<1>. QED  BY <1>2, <1>3

-----------------------------------------------------------------------------
(* Every step keeps the types *)

LEMMA InitTypes == Init => TypeInv
<1>. SUFFICES ASSUME Init PROVE TypeInv
  OBVIOUS
<1>1. \A u \in Nat : BodyOnly(u) \in Row
  BY RowValues
<1>2. PICK least \in Copies : least = CHOOSE c \in Copies : \A d \in Copies : c <= d
  <2>1. \E c \in Copies : \A d \in Copies : c <= d
    BY ArchiveAssumption, LeastNatural
  <2>. QED  BY <2>1
<1>3. rows = [id \in WindowMail \X {least} |-> BodyOnly(id[1])]
  BY <1>2 DEF Init
<1>4. WindowMail \X {least} \subseteq Uuids /\ Mail \subseteq Nat
  BY ArchiveAssumption DEF Uuids, Mail
<1>5. \A id \in WindowMail \X {least} : id[1] \in Nat
  BY <1>4 DEF Mail
<1>6. rows \in [DOMAIN rows -> Row] /\ DOMAIN rows \subseteq Uuids
  BY <1>1, <1>3, <1>4, <1>5
<1>7. cursor \in Nat
  BY FirstCursor DEF Init
<1>8. server \in [Mail -> Nat]
  BY <1>4 DEF Init, NoUid
<1>9. DiskTypes
  BY <1>6, <1>7, <1>8 DEF Init, DiskTypes
<1>10. ThreadTypes
  BY DEF Init, ThreadTypes, Resting, WorkerIdle, GcIdle, LiveStates, WorkerStates, GcStates, LiveType, WorkerType, GcType
<1>11. UidAtHand
  BY FS_EmptySet DEF Init, UidAtHand, Resting, WorkerIdle
<1>. QED  BY <1>9, <1>10, <1>11 DEF TypeInv

\* The provider, the clock and the process.
LEMMA WorldTypes ==
  ASSUME TypeInv,
         \/ \E m \in Mail : Arrive(m) \/ Leave(m)
         \/ \E id \in Uuids : Ages(id)
         \/ DayRolls \/ Crash
  PROVE  TypeInv'
<1>. USE DEF TypeInv
<1>1. ASSUME NEW m \in Mail, Arrive(m) PROVE TypeInv'
  <2>1. HighestUid \in Nat /\ cursor \in Nat
    BY HighestUidType DEF DiskTypes
  <2>2. server' \in [Mail -> Nat]
    BY <1>1, <2>1 DEF Arrive, DiskTypes
  <2>. QED  BY <1>1, <2>2 DEF Arrive, DiskTypes, ThreadTypes, UidAtHand, disk, history, LiveType, WorkerType, GcType
<1>2. ASSUME NEW m \in Mail, Leave(m) PROVE TypeInv'
  BY <1>2 DEF Leave, DiskTypes, ThreadTypes, UidAtHand, disk, history, NoUid, LiveType, WorkerType, GcType
<1>3. ASSUME NEW id \in Uuids, Ages(id) PROVE TypeInv'
  BY <1>3 DEF Ages, DiskTypes, ThreadTypes, UidAtHand, history, LiveType, WorkerType, GcType
<1>4. CASE DayRolls
  BY <1>4 DEF DayRolls, DiskTypes, ThreadTypes, UidAtHand, disk, history, LiveType, WorkerType, GcType
<1>5. CASE Crash
  <2>1. DiskTypes'
    BY <1>5 DEF Crash, DiskTypes, disk, history
  <2>2. ThreadTypes'
    BY <1>5 DEF Crash, ThreadTypes, Resting, WorkerIdle, GcIdle, LiveStates, WorkerStates, GcStates, LiveType, WorkerType, GcType
  <2>3. UidAtHand'
    BY <1>5, FS_EmptySet DEF Crash, UidAtHand, Resting, WorkerIdle
  <2>. QED  BY <2>1, <2>2, <2>3
<1>. QED  BY <1>1, <1>2, <1>3, <1>4, <1>5

\* A step of live capture that stays at its UID or advances.
LEMMA LiveKept ==
  ASSUME ThreadTypes, UidAtHand, live' \in LiveType, live'.at # "idle" => live'.todo # {},
         UNCHANGED <<worker, gc, purging>>
  PROVE  ThreadTypes' /\ UidAtHand'
BY DEF ThreadTypes, UidAtHand, LiveType, WorkerType, GcType

LEMMA AdvanceKept ==
  ASSUME DiskTypes, ThreadTypes, UidAtHand, live.at # "idle", Advance, UNCHANGED <<worker, gc, purging>>
  PROVE  ThreadTypes' /\ UidAtHand' /\ cursor' \in Nat
<1>1. live' \in LiveType
  BY AdvanceStep DEF LiveType, LiveStates
<1>. QED  BY <1>1, AdvanceStep, LiveKept

\* A file written, or files removed.
LEMMA DiskKept ==
  ASSUME DiskTypes, NEW S \in SUBSET Uuids,
         Removed(S) \/ (\E id \in Uuids : Written(id)) \/ UNCHANGED disk
  PROVE  files' \subseteq Uuids /\ old' \subseteq files'
BY DEF DiskTypes, Removed, Written, disk

\* The message's row is inserted or linked.
LEMMA UpsertKept ==
  ASSUME DiskTypes, NEW id \in Uuids, NEW row \in Row, Upserted(id, row)
  PROVE  DOMAIN rows' \subseteq Uuids /\ rows' \in [DOMAIN rows' -> Row]
BY UpsertedRows DEF DiskTypes

LEMMA StoredKept ==
  ASSUME DiskTypes, NEW id \in Uuids, NEW u \in Nat, Stored(id, u)
  PROVE  /\ DOMAIN rows' \subseteq Uuids /\ rows' \in [DOMAIN rows' -> Row]
         /\ files' \subseteq Uuids /\ old' \subseteq files'
<1>1. Upserted(id, Archived(u)) /\ Archived(u) \in Row
  BY RowValues DEF Stored
<1>2. Removed({id}) \/ UNCHANGED disk
  BY DEF Stored
<1>. QED  BY <1>1, <1>2, UpsertKept, DiskKept

\* Live capture.
LEMMA LiveTypes ==
  ASSUME TypeInv, UuidsInHand,
         \/ StartPass \/ Captured \/ StoreCaptured \/ CaptureFails \/ Dropped
         \/ \E m \in Mail : Touch(m) \/ Capture(m) \/ StoreUnaffordable(m)
  PROVE  TypeInv'
<1>. USE DEF TypeInv
<1>1. CASE StartPass
  <2>. DEFINE new == {server[m] : m \in Mail} \ 0 .. cursor - 1
  <2>1. new \in SUBSET Nat
    BY DEF DiskTypes
  <2>2. live' = [at |-> "listed", todo |-> new, id |-> None] /\ new # {}
    BY <1>1 DEF StartPass, Resting
  <2>. HIDE DEF new
  <2>3. live' \in LiveType /\ live'.todo # {}
    BY <2>1, <2>2 DEF LiveType, LiveStates
  <2>4. ThreadTypes' /\ UidAtHand'
    BY <1>1, <2>3, LiveKept DEF StartPass
  <2>. QED  BY <1>1, <2>4 DEF StartPass, DiskTypes, disk, history
<1>2. CASE Captured
  <2>1. live.id \in Uuids /\ live.at # "idle"
    BY <1>2 DEF Captured, UuidsInHand
  <2>2. live' \in LiveType /\ live'.todo # {}
    BY <1>2, <2>1 DEF Captured, ThreadTypes, UidAtHand, LiveType, LiveStates, WorkerType, GcType
  <2>3. files' \subseteq Uuids /\ old' \subseteq files'
    BY <1>2, <2>1, DiskKept DEF Captured
  <2>4. ThreadTypes' /\ UidAtHand'
    BY <1>2, <2>2, LiveKept DEF Captured
  <2>. QED  BY <1>2, <2>3, <2>4 DEF Captured, DiskTypes, history
<1>3. CASE StoreCaptured
  <2>1. live.id \in Uuids /\ live.at # "idle" /\ NextUid \in Nat
    BY <1>3, UidOfPass DEF StoreCaptured, UuidsInHand
  <2>2. /\ DOMAIN rows' \subseteq Uuids /\ rows' \in [DOMAIN rows' -> Row]
        /\ files' \subseteq Uuids /\ old' \subseteq files'
    BY <1>3, <2>1, StoredKept DEF StoreCaptured
  <2>3. ThreadTypes' /\ UidAtHand' /\ cursor' \in Nat
    BY <1>3, <2>1, AdvanceKept DEF StoreCaptured
  <2>. QED  BY <1>3, <2>2, <2>3 DEF StoreCaptured, DiskTypes, history
<1>4. CASE CaptureFails
  <2>1. live.id \in Uuids /\ live.at # "idle" /\ NextUid \in Nat
    BY <1>4, UidOfPass DEF CaptureFails, UuidsInHand
  <2>2. DOMAIN rows' \subseteq Uuids /\ rows' \in [DOMAIN rows' -> Row]
    BY <1>4, <2>1, UpsertKept, RowValues DEF CaptureFails
  <2>3. files' \subseteq Uuids /\ old' \subseteq files'
    BY <1>4, <2>1, DiskKept DEF CaptureFails
  <2>4. ThreadTypes' /\ UidAtHand' /\ cursor' \in Nat
    BY <1>4, <2>1, AdvanceKept DEF CaptureFails
  <2>. QED  BY <1>4, <2>2, <2>3, <2>4 DEF CaptureFails, DiskTypes, history
<1>5. CASE Dropped
  <2>1. live' \in LiveType /\ live'.at = "idle"
    BY <1>5 DEF Dropped, Resting, LiveType, LiveStates
  <2>2. ThreadTypes' /\ UidAtHand'
    BY <1>5, <2>1, LiveKept DEF Dropped
  <2>. QED  BY <1>5, <2>2 DEF Dropped, DiskTypes, disk, history
<1>6. ASSUME NEW m \in Mail, Touch(m) PROVE TypeInv'
  <2>1. live.at # "idle" /\ NextUid \in Nat
    BY <1>6, UidOfPass DEF Touch
  <2>2. PICK id \in Known(m) : rows' = Linked(id, NextUid)
    BY <1>6 DEF Touch
  <2>3. id \in DOMAIN rows
    BY <2>2 DEF Known, RowsOf
  <2>4. DOMAIN rows' \subseteq Uuids /\ rows' \in [DOMAIN rows' -> Row]
    BY <2>1, <2>2, <2>3, LinkedRows DEF DiskTypes
  <2>5. ThreadTypes' /\ UidAtHand' /\ cursor' \in Nat
    BY <1>6, <2>1, AdvanceKept DEF Touch
  <2>. QED  BY <1>6, <2>4, <2>5 DEF Touch, DiskTypes, disk, history
<1>7. ASSUME NEW m \in Mail, Capture(m) PROVE TypeInv'
  <2>1. PICK id \in Fresh(m) : live' = [live EXCEPT !.at = "capturing", !.id = id]
    BY <1>7 DEF Capture
  <2>2. id \in Uuids /\ live.todo # {}
    BY <1>7, FreshIds DEF Capture, UidAtHand
  <2>3. live' = [at |-> "capturing", todo |-> live.todo, id |-> id]
    BY <2>1 DEF ThreadTypes, LiveType, WorkerType, GcType
  <2>4. live' \in LiveType /\ live'.todo # {}
    BY <2>2, <2>3 DEF ThreadTypes, LiveType, LiveStates, WorkerType, GcType
  <2>5. ThreadTypes' /\ UidAtHand'
    BY <1>7, <2>4, LiveKept DEF Capture
  <2>. QED  BY <1>7, <2>5 DEF Capture, DiskTypes, disk, history
<1>8. ASSUME NEW m \in Mail, StoreUnaffordable(m) PROVE TypeInv'
  <2>1. live.at # "idle" /\ NextUid \in Nat
    BY <1>8, UidOfPass DEF StoreUnaffordable
  <2>2. PICK id \in Fresh(m) : rows' = Inserted(id, BodyOnly(NextUid))
    BY <1>8 DEF StoreUnaffordable
  <2>3. id \in Uuids
    BY <2>2, FreshIds
  <2>4. DOMAIN rows' \subseteq Uuids /\ rows' \in [DOMAIN rows' -> Row]
    <3>1. BodyOnly(NextUid) \in Row
      BY <2>1, RowValues
    <3>2. DOMAIN rows' = DOMAIN rows \cup {id} /\ rows' \in [DOMAIN rows \cup {id} -> Row]
      BY <2>2, <2>3, <3>1, InsertedRows
    <3>. QED  BY <2>3, <3>2 DEF DiskTypes
  <2>5. ThreadTypes' /\ UidAtHand' /\ cursor' \in Nat
    BY <1>8, <2>1, AdvanceKept DEF StoreUnaffordable
  <2>. QED  BY <1>8, <2>4, <2>5 DEF StoreUnaffordable, DiskTypes, disk, history
<1>. QED  BY <1>1, <1>2, <1>3, <1>4, <1>5, <1>6, <1>7, <1>8

\* A step of the worker that stays within its types.
LEMMA WorkerKept ==
  ASSUME ThreadTypes, UidAtHand, worker' \in WorkerType,
         worker'.at \notin {"idle", "next"} => AtUid',
         IsFiniteSet(worker'.batch), worker'.sweeping => IsFiniteSet(worker'.todo),
         UNCHANGED <<live, gc, purging>>
  PROVE  ThreadTypes' /\ UidAtHand'
BY DEF ThreadTypes, UidAtHand, AtUid

LEMMA HandledKept ==
  ASSUME DiskTypes, ThreadTypes, UidAtHand, AtUid, Handled, UNCHANGED <<live, gc, purging>>
  PROVE  ThreadTypes' /\ UidAtHand' /\ watermark' \in Nat
<1>1. worker' \in WorkerType /\ worker'.at = "next"
  BY HandledStep DEF WorkerType, WorkerStates
<1>. QED  BY <1>1, HandledStep, WorkerKept

\* A step that takes the worker from one state to another at the same UID.
LEMMA WorkerMoves ==
  ASSUME ThreadTypes, UidAtHand, AtUid, NEW at \in WorkerStates, NEW id \in Uuids \cup {None},
         worker' = [worker EXCEPT !.at = at, !.id = id] \/ worker' = [worker EXCEPT !.at = at],
         UNCHANGED <<live, gc, purging>>
  PROVE  ThreadTypes' /\ UidAtHand'
<1>1. PICK i \in Uuids \cup {None} :
        worker' = [at |-> at, todo |-> worker.todo, batch |-> worker.batch, lowest |-> worker.lowest,
                   id |-> i, sweeping |-> worker.sweeping]
  <2>1. CASE worker' = [worker EXCEPT !.at = at, !.id = id]
    BY <2>1 DEF ThreadTypes, WorkerType
  <2>2. CASE worker' = [worker EXCEPT !.at = at]
    BY <2>2 DEF ThreadTypes, WorkerType
  <2>. QED  BY <2>1, <2>2
<1>2. worker' \in WorkerType
  BY <1>1 DEF ThreadTypes, WorkerType
<1>3. AtUid' /\ IsFiniteSet(worker'.batch) /\ (worker'.sweeping => IsFiniteSet(worker'.todo))
  BY <1>1 DEF AtUid, UidAtHand
<1>. QED  BY <1>2, <1>3, WorkerKept

LEMMA IdleWorker ==
  /\ WorkerIdle \in WorkerType /\ WorkerIdle.at = "idle" /\ ~ WorkerIdle.sweeping
  /\ WorkerIdle.id = None /\ IsFiniteSet(WorkerIdle.batch)
BY FS_EmptySet DEF WorkerIdle, WorkerType, WorkerStates

LEMMA CeilingType ==
  ASSUME DiskTypes
  PROVE  Ceiling \in Int /\ Below \in SUBSET Nat /\ IsFiniteSet(Below)
<1>1. Ceiling \in Int
  BY HighestUidType DEF DiskTypes, Ceiling
<1>2. Below \in SUBSET (1 .. Ceiling)
  BY DEF Below
<1>3. IsFiniteSet(1 .. Ceiling)
  BY <1>1, FS_Interval
<1>4. IsFiniteSet(Below)
  BY <1>2, <1>3, FS_Subset
<1>. QED  BY <1>1, <1>2, <1>4

\* Repair and sweep, up to a download.
LEMMA SweepTypes ==
  ASSUME TypeInv, UuidsInHand,
         \/ StartSweep \/ RepairEnds \/ NextBatch \/ SkipUid \/ BudgetStop
         \/ Upgrade \/ CaptureOld \/ CaptureStarts \/ SpentMeanwhile
  PROVE  TypeInv'
<1>. USE DEF TypeInv
<1>1. CASE StartSweep
  <2>1. Repairable \in SUBSET Nat
    BY DEF Repairable, DiskTypes, Row
  <2>2. worker' = [at |-> "next", todo |-> Repairable, batch |-> {}, lowest |-> 0, id |-> None,
                   sweeping |-> FALSE]
    BY <1>1 DEF StartSweep, WorkerIdle
  <2>. HIDE DEF TypeInv
  <2>3. worker' \in WorkerType /\ worker'.at = "next"
    BY <2>1, <2>2 DEF WorkerType, WorkerStates
  <2>4. IsFiniteSet(worker'.batch) /\ ~ worker'.sweeping
    BY <2>2, FS_EmptySet
  <2>5. ThreadTypes' /\ UidAtHand'
    BY <1>1, <2>3, <2>4, WorkerKept DEF StartSweep, TypeInv
  <2>. QED  BY <1>1, <2>5 DEF StartSweep, TypeInv, DiskTypes, disk, history
<1>2. CASE RepairEnds
  <2>1. CASE CanDownload /\ Below # {}
    <3>. DEFINE below == Below
    <3>1. worker' = [worker EXCEPT !.sweeping = TRUE, !.todo = below]
      BY <1>2, <2>1 DEF RepairEnds
    <3>. HIDE DEF below
    <3>2. worker' = [at |-> worker.at, todo |-> below, batch |-> worker.batch, lowest |-> worker.lowest,
                     id |-> worker.id, sweeping |-> TRUE]
      BY <3>1 DEF ThreadTypes, WorkerType
    <3>. USE DEF below
    <3>3. worker' \in WorkerType /\ worker'.at = "next"
      BY <1>2, <3>2, CeilingType DEF RepairEnds, ThreadTypes, WorkerType
    <3>4. ThreadTypes' /\ UidAtHand'
      BY <1>2, <3>2, <3>3, WorkerKept, CeilingType DEF RepairEnds, UidAtHand
    <3>. QED  BY <1>2, <2>1, <3>4 DEF RepairEnds, DiskTypes, disk, history
  <2>2. CASE ~ (CanDownload /\ Below # {})
    <3>1. ThreadTypes' /\ UidAtHand'
      BY <1>2, <2>2, IdleWorker, WorkerKept DEF RepairEnds
    <3>2. watermark' \in Nat
      BY <1>2, <2>2 DEF RepairEnds, DiskTypes
    <3>. QED  BY <1>2, <3>1, <3>2 DEF RepairEnds, DiskTypes, disk, history
  <2>. QED  BY <2>1, <2>2
<1>3. CASE NextBatch
  <2>1. CASE worker.todo = {} \/ ~ CanDownload
    <3>1. ThreadTypes' /\ UidAtHand'
      BY <1>3, <2>1, IdleWorker, WorkerKept DEF NextBatch
    <3>2. watermark' \in Nat
      BY <1>3, <2>1 DEF NextBatch, DiskTypes
    <3>. QED  BY <1>3, <3>1, <3>2 DEF NextBatch, DiskTypes, disk, history
  <2>2. CASE ~ (worker.todo = {} \/ ~ CanDownload)
    <3>. DEFINE batch == Highest(FetchBatch, worker.todo)
    <3>1. batch \in SUBSET worker.todo
      BY DEF Highest
    <3>2. worker' = [at |-> "next", todo |-> worker.todo \ batch, batch |-> batch, lowest |-> 0,
                     id |-> worker.id, sweeping |-> TRUE]
      BY <1>3, <2>2 DEF NextBatch, ThreadTypes, WorkerType
    <3>. HIDE DEF batch
    <3>3. worker' \in WorkerType /\ worker'.at = "next"
      BY <3>1, <3>2 DEF ThreadTypes, WorkerType, WorkerStates
    <3>4. IsFiniteSet(batch) /\ IsFiniteSet(worker.todo \ batch)
      BY <1>3, <3>1, FS_Subset, FS_Difference DEF NextBatch, UidAtHand
    <3>5. ThreadTypes' /\ UidAtHand'
      BY <1>3, <3>2, <3>3, <3>4, WorkerKept DEF NextBatch
    <3>. QED  BY <1>3, <2>2, <3>5 DEF NextBatch, DiskTypes, disk, history
  <2>. QED  BY <2>1, <2>2
<1>4. CASE SkipUid
  <2>1. AtUid
    BY <1>4 DEF SkipUid, Working, AtUid
  <2>2. ThreadTypes' /\ UidAtHand' /\ watermark' \in Nat
    BY <1>4, <2>1, HandledKept DEF SkipUid
  <2>. QED  BY <1>4, <2>2 DEF SkipUid, DiskTypes, disk, history
<1>5. CASE BudgetStop
  <2>1. ThreadTypes' /\ UidAtHand'
    BY <1>5, IdleWorker, WorkerKept DEF BudgetStop
  <2>2. watermark' \in Nat
    BY <1>5 DEF BudgetStop, DiskTypes, ThreadTypes, WorkerType
  <2>. QED  BY <1>5, <2>1, <2>2 DEF BudgetStop, DiskTypes, disk, history
<1>6. CASE Upgrade
  <2>1. PICK id \in RowsAt(Uid) : worker' = [worker EXCEPT !.at = "upgrading", !.id = id]
    BY <1>6 DEF Upgrade
  <2>2. id \in Uuids
    BY <2>1 DEF RowsAt, RowAt, Known, RowsOf, DiskTypes
  <2>3. AtUid /\ "upgrading" \in WorkerStates
    BY <1>6 DEF Upgrade, Working, AtUid, WorkerStates
  <2>4. ThreadTypes' /\ UidAtHand'
    BY <1>6, <2>1, <2>2, <2>3, WorkerMoves DEF Upgrade
  <2>. QED  BY <1>6, <2>4 DEF Upgrade, DiskTypes, disk, history
<1>7. CASE CaptureOld
  <2>1. PICK m \in MailAt(Uid) : \E id \in Fresh(m) :
               worker' = [worker EXCEPT !.at = "affordable", !.id = id]
    BY <1>7 DEF CaptureOld
  <2>2. PICK id \in Fresh(m) : worker' = [worker EXCEPT !.at = "affordable", !.id = id]
    BY <2>1
  <2>3. id \in Uuids
    BY <2>1, <2>2, FreshIds DEF MailAt
  <2>4. AtUid /\ "affordable" \in WorkerStates
    BY <1>7 DEF CaptureOld, Working, AtUid, WorkerStates
  <2>5. ThreadTypes' /\ UidAtHand'
    BY <1>7, <2>2, <2>3, <2>4, WorkerMoves DEF CaptureOld
  <2>. QED  BY <1>7, <2>5 DEF CaptureOld, DiskTypes, disk, history
<1>8. CASE CaptureStarts
  <2>1. AtUid /\ "capturing" \in WorkerStates
    BY <1>8 DEF CaptureStarts, AtUid, UidAtHand, WorkerStates
  <2>2. ThreadTypes' /\ UidAtHand'
    BY <1>8, <2>1, WorkerMoves DEF CaptureStarts
  <2>. QED  BY <1>8, <2>2 DEF CaptureStarts, DiskTypes, disk, history
<1>9. CASE SpentMeanwhile
  <2>1. AtUid /\ worker.id[1] \in Mail
    BY <1>9, UuidsOfMail DEF SpentMeanwhile, AtUid, UidAtHand, UuidsInHand
  <2>2. ThreadTypes' /\ UidAtHand' /\ watermark' \in Nat
    BY <1>9, <2>1, HandledKept DEF SpentMeanwhile
  <2>. QED  BY <1>9, <2>1, <2>2 DEF SpentMeanwhile, DiskTypes, disk
<1>. QED  BY <1>1, <1>2, <1>3, <1>4, <1>5, <1>6, <1>7, <1>8, <1>9

\* What follows a download.
LEMMA DownloadTypes ==
  ASSUME TypeInv, UuidsInHand, Downloaded \/ DownloadFails \/ Recorded \/ StoreSwept
  PROVE  TypeInv'
<1>. USE DEF TypeInv
<1>1. AtUid /\ worker.id \in Uuids
  BY DEF Downloaded, DownloadFails, Recorded, StoreSwept, AtUid, UidAtHand, UuidsInHand, DiskTypes
<1>2. Uid \in Nat /\ worker.id[1] \in Mail
  BY <1>1, UidOfWorker, UuidsOfMail
<1>3. CASE Downloaded
  <2>1. PICK at \in WorkerStates : worker' = [worker EXCEPT !.at = at]
    BY <1>3 DEF Downloaded, WorkerStates
  <2>2. ThreadTypes' /\ UidAtHand'
    BY <1>1, <1>3, <2>1, WorkerMoves DEF Downloaded
  <2>3. files' \subseteq Uuids /\ old' \subseteq files'
    BY <1>1, <1>3, DiskKept DEF Downloaded
  <2>. QED  BY <1>3, <2>2, <2>3 DEF Downloaded, DiskTypes, history
<1>4. CASE DownloadFails
  <2>1. ThreadTypes' /\ UidAtHand' /\ watermark' \in Nat
    BY <1>1, <1>4, HandledKept DEF DownloadFails
  <2>2. files' \subseteq Uuids /\ old' \subseteq files'
    BY <1>1, <1>4, DiskKept DEF DownloadFails
  <2>3. missed' \subseteq Mail
    BY <1>2, <1>4 DEF DownloadFails, DiskTypes
  <2>. QED  BY <1>4, <2>1, <2>2, <2>3 DEF DownloadFails, DiskTypes
<1>5. CASE Recorded
  <2>1. ThreadTypes' /\ UidAtHand' /\ watermark' \in Nat
    BY <1>1, <1>5, HandledKept DEF Recorded
  <2>2. DOMAIN rows' = DOMAIN rows /\ rows' \in [DOMAIN rows -> Row]
    BY <1>5 DEF Recorded, DiskTypes, Row
  <2>. QED  BY <1>5, <2>1, <2>2 DEF Recorded, DiskTypes, disk, history
<1>6. CASE StoreSwept
  <2>1. ThreadTypes' /\ UidAtHand' /\ watermark' \in Nat
    BY <1>1, <1>6, HandledKept DEF StoreSwept
  <2>2. /\ DOMAIN rows' \subseteq Uuids /\ rows' \in [DOMAIN rows' -> Row]
        /\ files' \subseteq Uuids /\ old' \subseteq files'
    BY <1>1, <1>2, <1>6, StoredKept DEF StoreSwept
  <2>. QED  BY <1>6, <2>1, <2>2 DEF StoreSwept, DiskTypes, history
<1>. QED  BY <1>3, <1>4, <1>5, <1>6

LEMMA RenumberRows ==
  ASSUME DiskTypes, Renumber
  PROVE  /\ server' \in [Mail -> Nat] /\ cursor' \in Nat
         /\ DOMAIN rows' = DOMAIN rows /\ rows' \in [DOMAIN rows -> Row]
         /\ \A id \in DOMAIN rows : rows'[id].source = rows[id].source
<1>1. Cardinality(Mail) \in Nat
  BY ArchiveAssumption, FS_CardinalityType
<1>2. server' \in [Mail -> Nat]
  BY <1>1 DEF Renumber, DiskTypes, NoUid
<1>3. cursor' \in Nat
  BY <1>1, HighestUidType DEF Renumber, DiskTypes
<1>. DEFINE uid(id) == IF id[1] \in InWindow \ Anonymous THEN server'[id[1]] ELSE NoUid
<1>4. rows' = [id \in DOMAIN rows |-> [rows[id] EXCEPT !.uid = uid(id)]]
  BY DEF Renumber
<1>5. \A id \in DOMAIN rows : uid(id) \in Nat
  BY <1>2 DEF InWindow, NoUid
<1>. HIDE DEF uid
<1>. QED  BY <1>2, <1>3, <1>4, <1>5 DEF DiskTypes, Row

\* Searches, a new UIDVALIDITY, Purge Trash and the GC.
LEMMA OtherTypes ==
  ASSUME TypeInv,
         \/ Renumber \/ PurgeWrites \/ GcReads \/ GcStats
         \/ \E m \in Mail : SearchFallback(m)
         \/ \E id \in Uuids : PurgeReads(id) \/ GcUnlinks(id)
  PROVE  TypeInv'
<1>. USE DEF TypeInv
<1>1. CASE Renumber
  <2>1. missed' \subseteq Mail
    BY <1>1 DEF Renumber, DiskTypes, Mail
  <2>. QED  BY <1>1, <2>1, RenumberRows DEF Renumber, DiskTypes, ThreadTypes, UidAtHand, disk
<1>2. CASE PurgeWrites
  <2>1. DOMAIN rows' = DOMAIN rows /\ rows' \in [DOMAIN rows -> Row]
    BY <1>2 DEF PurgeWrites, DiskTypes, Row
  <2>2. files' \subseteq Uuids /\ old' \subseteq files'
    <3>1. Removed({purging.id}) \/ UNCHANGED disk
      BY <1>2 DEF PurgeWrites
    <3>. QED  BY <3>1 DEF Removed, disk, DiskTypes
  <2>3. ThreadTypes' /\ UidAtHand'
    BY <1>2 DEF PurgeWrites, ThreadTypes, UidAtHand
  <2>. QED  BY <1>2, <2>1, <2>2, <2>3 DEF PurgeWrites, DiskTypes, history
<1>3. CASE GcReads
  <2>1. gc' = [at |-> "walking", refs |-> Referenced, doomed |-> {}]
    BY <1>3 DEF GcReads, GcIdle
  <2>2. gc' \in GcType
    BY <2>1 DEF GcType, GcStates, Referenced, DiskTypes
  <2>. QED  BY <1>3, <2>2 DEF GcReads, DiskTypes, ThreadTypes, UidAtHand, disk, history
<1>4. CASE GcStats
  <2>1. \/ gc' = [at |-> "idle", refs |-> {}, doomed |-> {}]
        \/ gc' = [at |-> "unlinking", refs |-> {}, doomed |-> old \ gc.refs]
    BY <1>4 DEF GcStats, GcIdle
  <2>2. gc' \in GcType
    BY <2>1 DEF GcType, GcStates, DiskTypes
  <2>. QED  BY <1>4, <2>2 DEF GcStats, DiskTypes, ThreadTypes, UidAtHand, disk, history
<1>5. ASSUME NEW m \in Mail, SearchFallback(m) PROVE TypeInv'
  <2>1. PICK id \in Fresh(m) : Upserted(id, BodyOnly(server[m]))
    BY <1>5 DEF SearchFallback
  <2>2. id \in Uuids /\ BodyOnly(server[m]) \in Row
    BY <2>1, FreshIds, RowValues DEF DiskTypes
  <2>3. DOMAIN rows' \subseteq Uuids /\ rows' \in [DOMAIN rows' -> Row]
    BY <2>1, <2>2, UpsertKept
  <2>. QED  BY <1>5, <2>3 DEF SearchFallback, DiskTypes, ThreadTypes, UidAtHand, disk, history
<1>6. ASSUME NEW id \in Uuids, PurgeReads(id) PROVE TypeInv'
  <2>1. purging' \in [id : Uuids \cup {None}, source : BOOLEAN]
    BY <1>6 DEF PurgeReads, DiskTypes, Row
  <2>. QED  BY <1>6, <2>1 DEF PurgeReads, DiskTypes, ThreadTypes, UidAtHand, disk, history
<1>7. ASSUME NEW id \in Uuids, GcUnlinks(id) PROVE TypeInv'
  <2>1. gc' \in GcType
    BY <1>7 DEF GcUnlinks, GcIdle, GcType, GcStates, ThreadTypes
  <2>2. files' \subseteq Uuids /\ old' \subseteq files'
    BY <1>7, DiskKept DEF GcUnlinks
  <2>. QED  BY <1>7, <2>1, <2>2 DEF GcUnlinks, DiskTypes, ThreadTypes, UidAtHand, history
<1>. QED  BY <1>1, <1>2, <1>3, <1>4, <1>5, <1>6, <1>7

LEMMA TypesKept ==
  ASSUME TypeInv, UuidsInHand, [Next]_vars
  PROVE  TypeInv'
<1>1. CASE UNCHANGED vars
  BY <1>1 DEF vars, TypeInv, DiskTypes, ThreadTypes, UidAtHand
<1>2. CASE Next
  BY <1>2, WorldTypes, LiveTypes, SweepTypes, DownloadTypes, OtherTypes
  DEF Next, LiveStep, WorkerStep, GcStep
<1>. QED  BY <1>1, <1>2

-----------------------------------------------------------------------------
(* Every step keeps what is known of UUIDs, rows and files *)

LEMMA InitFiles == Init => FileInv
BY RowValues DEF Init, FileInv, UuidsInHand, PurgeIsCurrent, FilesInHand, SourceOnDisk, Resting,
   WorkerIdle, GcIdle, BodyOnly

\* The threads hold a UUID or none.
LEMMA IdleThreads ==
  /\ Resting.at = "idle" /\ Resting.id = None
  /\ WorkerIdle.at = "idle" /\ WorkerIdle.id = None
  /\ GcIdle.at = "idle"
BY DEF Resting, WorkerIdle, GcIdle

LEMMA WorldFiles ==
  ASSUME TypeInv, FileInv,
         \/ \E m \in Mail : Arrive(m) \/ Leave(m)
         \/ \E id \in Uuids : Ages(id)
         \/ DayRolls \/ Crash
  PROVE  FileInv'
<1>. USE DEF FileInv, UuidsInHand, PurgeIsCurrent, FilesInHand, SourceOnDisk, Young
<1>1. ASSUME NEW m \in Mail, Arrive(m) \/ Leave(m) PROVE FileInv'
  BY <1>1 DEF Arrive, Leave, disk, history
<1>2. ASSUME NEW id \in Uuids, Ages(id) PROVE FileInv'
  BY <1>2, UuidsOfMail DEF Ages, history
<1>3. CASE DayRolls
  BY <1>3 DEF DayRolls, disk, history
<1>4. CASE Crash
  BY <1>4, IdleThreads DEF Crash, disk, history
<1>. QED  BY <1>1, <1>2, <1>3, <1>4

LEMMA LiveFiles ==
  ASSUME TypeInv, FileInv,
         \/ StartPass \/ Captured \/ StoreCaptured \/ CaptureFails \/ Dropped
         \/ \E m \in Mail : Touch(m) \/ Capture(m) \/ StoreUnaffordable(m)
  PROVE  FileInv'
<1>. USE DEF FileInv
<1>1. CASE StartPass
  <2>1. live'.at = "listed" /\ live'.id = None
    BY <1>1 DEF StartPass, Resting
  <2>. QED  BY <1>1, <2>1 DEF StartPass, UuidsInHand, PurgeIsCurrent, FilesInHand, SourceOnDisk, Young,
            disk, history
<1>2. CASE Captured
  <2>1. live'.at = "staged" /\ live'.id = live.id
    BY <1>2 DEF Captured, TypeInv, ThreadTypes, LiveType
  <2>2. live.id \in Uuids \ DOMAIN rows /\ Written(live.id) /\ live.id # worker.id
    BY <1>2, UuidsOfMail DEF Captured, UuidsInHand
  <2>. QED  BY <1>2, <2>1, <2>2 DEF Captured, Written, UuidsInHand, PurgeIsCurrent, FilesInHand,
            SourceOnDisk, Young, history
<1>3. CASE StoreCaptured
  <2>1. live.id \in Uuids /\ live.at # "idle" /\ NextUid \in Nat /\ live.id \notin DOMAIN rows
        /\ live.id # worker.id /\ Young(live.id)
    BY <1>3, UidOfPass, UuidsOfMail DEF StoreCaptured, UuidsInHand, FilesInHand, TypeInv
  <2>2. live'.at \in {"idle", "listed"} /\ live'.id = None
    BY <1>3, AdvanceStep DEF StoreCaptured, TypeInv
  <2>3. \/ /\ DOMAIN rows' = DOMAIN rows \cup {live.id}
           /\ \A x \in DOMAIN rows : rows'[x] = rows[x]
           /\ UNCHANGED disk
        \/ /\ DOMAIN rows' = DOMAIN rows
           /\ \A x \in DOMAIN rows : rows'[x].source = rows[x].source
           /\ Removed({live.id})
    <3>1. Archived(NextUid) \in Row
      BY <2>1, RowValues
    <3>. QED  BY <1>3, <2>1, <3>1, UpsertedRows DEF StoreCaptured, Stored, TypeInv
  <2>. QED  BY <1>3, <2>1, <2>2, <2>3 DEF StoreCaptured, Removed, disk, UuidsInHand, PurgeIsCurrent,
            FilesInHand, SourceOnDisk, Young, history
<1>4. CASE CaptureFails
  <2>1. live.id \in Uuids /\ live.at # "idle" /\ NextUid \in Nat /\ live.id \notin DOMAIN rows
        /\ live.id # worker.id /\ Removed({live.id})
    BY <1>4, UidOfPass, UuidsOfMail DEF CaptureFails, UuidsInHand, TypeInv
  <2>2. live'.at \in {"idle", "listed"} /\ live'.id = None
    BY <1>4, <2>1, AdvanceStep DEF CaptureFails, TypeInv
  <2>3. \/ /\ DOMAIN rows' = DOMAIN rows \cup {live.id} /\ ~ rows'[live.id].source
           /\ \A x \in DOMAIN rows : rows'[x] = rows[x]
        \/ /\ DOMAIN rows' = DOMAIN rows
           /\ \A x \in DOMAIN rows : rows'[x].source = rows[x].source
    <3>1. BodyOnly(NextUid) \in Row /\ ~ BodyOnly(NextUid).source
      BY <2>1, RowValues
    <3>. QED  BY <1>4, <2>1, <3>1, UpsertedRows DEF CaptureFails, TypeInv
  <2>. QED  BY <1>4, <2>1, <2>2, <2>3 DEF CaptureFails, Removed, UuidsInHand, PurgeIsCurrent,
            FilesInHand, SourceOnDisk, Young, history
<1>5. CASE Dropped
  BY <1>5, IdleThreads DEF Dropped, UuidsInHand, PurgeIsCurrent, FilesInHand, SourceOnDisk, Young,
     disk, history
<1>6. ASSUME NEW m \in Mail, Touch(m) PROVE FileInv'
  <2>1. live.at # "idle" /\ NextUid \in Nat
    BY <1>6, UidOfPass DEF Touch, TypeInv
  <2>2. live'.at \in {"idle", "listed"} /\ live'.id = None
    BY <1>6, AdvanceStep, <2>1 DEF Touch, TypeInv
  <2>3. DOMAIN rows' = DOMAIN rows /\ \A x \in DOMAIN rows : rows'[x].source = rows[x].source
    <3>1. PICK id \in Known(m) : rows' = Linked(id, NextUid)
      BY <1>6 DEF Touch
    <3>2. id \in DOMAIN rows
      BY <3>1 DEF Known, RowsOf
    <3>. QED  BY <2>1, <3>1, <3>2, LinkedRows DEF TypeInv
  <2>. QED  BY <1>6, <2>2, <2>3 DEF Touch, UuidsInHand, PurgeIsCurrent, FilesInHand, SourceOnDisk,
            Young, disk, history
<1>7. ASSUME NEW m \in Mail, Capture(m) PROVE FileInv'
  <2>1. PICK id \in Fresh(m) : live' = [live EXCEPT !.at = "capturing", !.id = id]
    BY <1>7 DEF Capture
  <2>2. live'.at = "capturing" /\ live'.id = id
    BY <2>1 DEF TypeInv, ThreadTypes, LiveType
  <2>3. id \in Uuids \ DOMAIN rows /\ id # worker.id
    BY FreshIds
  <2>. QED  BY <1>7, <2>2, <2>3 DEF Capture, UuidsInHand, PurgeIsCurrent, FilesInHand, SourceOnDisk,
            Young, disk, history
<1>8. ASSUME NEW m \in Mail, StoreUnaffordable(m) PROVE FileInv'
  <2>1. live.at # "idle" /\ NextUid \in Nat
    BY <1>8, UidOfPass DEF StoreUnaffordable, TypeInv
  <2>2. live'.at \in {"idle", "listed"} /\ live'.id = None
    BY <1>8, <2>1, AdvanceStep DEF StoreUnaffordable, TypeInv
  <2>3. PICK id \in Fresh(m) : rows' = Inserted(id, BodyOnly(NextUid))
    BY <1>8 DEF StoreUnaffordable
  <2>4. id \in Uuids \ DOMAIN rows /\ id # worker.id
    BY FreshIds
  <2>5. DOMAIN rows' = DOMAIN rows \cup {id} /\ ~ rows'[id].source
        /\ \A x \in DOMAIN rows : rows'[x] = rows[x]
    <3>1. BodyOnly(NextUid) \in Row /\ ~ BodyOnly(NextUid).source
      BY <2>1, RowValues
    <3>2. DiskTypes /\ id \in Uuids
      BY <2>4 DEF TypeInv
    <3>3. /\ DOMAIN rows' = DOMAIN rows \cup {id} /\ rows'[id] = BodyOnly(NextUid)
          /\ \A x \in DOMAIN rows \ {id} : rows'[x] = rows[x]
      BY <2>3, <3>1, <3>2, InsertedRows
    <3>. QED  BY <2>4, <3>1, <3>3
  <2>. QED  BY <1>8, <2>2, <2>4, <2>5 DEF StoreUnaffordable, UuidsInHand, PurgeIsCurrent,
            FilesInHand, SourceOnDisk, Young, disk, history
<1>. QED  BY <1>1, <1>2, <1>3, <1>4, <1>5, <1>6, <1>7, <1>8

LEMMA SweepFiles ==
  ASSUME TypeInv, FileInv,
         \/ StartSweep \/ RepairEnds \/ NextBatch \/ SkipUid \/ BudgetStop
         \/ Upgrade \/ CaptureOld \/ CaptureStarts \/ SpentMeanwhile
  PROVE  FileInv'
<1>. USE DEF FileInv
<1>1. CASE StartSweep \/ RepairEnds \/ NextBatch \/ BudgetStop
  <2>1. worker'.at \in {"idle", "next"} /\ worker'.id = None
    BY <1>1, IdleThreads
    DEF StartSweep, RepairEnds, NextBatch, BudgetStop, Working, TypeInv, ThreadTypes, WorkerType,
        WorkerIdle, UuidsInHand
  <2>2. UNCHANGED <<rows, disk, live, gc, purging, history>>
    BY <1>1 DEF StartSweep, RepairEnds, NextBatch, BudgetStop
  <2>. QED  BY <2>1, <2>2 DEF UuidsInHand, PurgeIsCurrent, FilesInHand, SourceOnDisk, Young, disk, history
<1>2. CASE SkipUid \/ SpentMeanwhile
  <2>1. AtUid /\ Handled
    BY <1>2 DEF SkipUid, SpentMeanwhile, Working, AtUid, UidAtHand, TypeInv
  <2>2. worker'.at = "next" /\ worker'.id = None
    BY <2>1, HandledStep DEF TypeInv
  <2>3. UNCHANGED <<rows, disk, live, gc, purging, clobbered>>
    BY <1>2 DEF SkipUid, SpentMeanwhile, history
  <2>. QED  BY <2>2, <2>3 DEF UuidsInHand, PurgeIsCurrent, FilesInHand, SourceOnDisk, Young, disk
<1>3. CASE Upgrade
  <2>1. PICK id \in RowsAt(Uid) :
          ~ rows[id].source /\ worker' = [worker EXCEPT !.at = "upgrading", !.id = id]
    BY <1>3 DEF Upgrade
  <2>2. worker'.at = "upgrading" /\ worker'.id = id
    BY <2>1 DEF TypeInv, ThreadTypes, WorkerType
  <2>3. id \in DOMAIN rows /\ id \in Uuids
    BY <2>1 DEF RowsAt, RowAt, Known, RowsOf, TypeInv, DiskTypes
  <2>. QED  BY <1>3, <2>1, <2>2, <2>3 DEF Upgrade, UuidsInHand, PurgeIsCurrent, FilesInHand,
            SourceOnDisk, Young, disk, history
<1>4. CASE CaptureOld
  <2>1. PICK m \in MailAt(Uid) : \E id \in Fresh(m) :
               worker' = [worker EXCEPT !.at = "affordable", !.id = id]
    BY <1>4 DEF CaptureOld
  <2>2. PICK id \in Fresh(m) : worker' = [worker EXCEPT !.at = "affordable", !.id = id]
    BY <2>1
  <2>3. worker'.at = "affordable" /\ worker'.id = id
    BY <2>2 DEF TypeInv, ThreadTypes, WorkerType
  <2>4. id \in Uuids \ DOMAIN rows /\ id # live.id
    BY <2>1, <2>2, FreshIds DEF MailAt
  <2>. QED  BY <1>4, <2>3, <2>4 DEF CaptureOld, UuidsInHand, PurgeIsCurrent, FilesInHand,
            SourceOnDisk, Young, disk, history
<1>5. CASE CaptureStarts
  <2>1. worker'.at = "capturing" /\ worker'.id = worker.id
    BY <1>5 DEF CaptureStarts, TypeInv, ThreadTypes, WorkerType
  <2>. QED  BY <1>5, <2>1 DEF CaptureStarts, UuidsInHand, PurgeIsCurrent, FilesInHand,
            SourceOnDisk, Young, disk, history
<1>. QED  BY <1>1, <1>2, <1>3, <1>4, <1>5

LEMMA DownloadFiles ==
  ASSUME TypeInv, FileInv, Downloaded \/ DownloadFails \/ Recorded \/ StoreSwept
  PROVE  FileInv'
<1>. USE DEF FileInv
<1>1. AtUid /\ worker.id \in Uuids /\ worker.id # live.id
  BY UuidsOfMail
  DEF Downloaded, DownloadFails, Recorded, StoreSwept, AtUid, UidAtHand, UuidsInHand, TypeInv, DiskTypes
<1>2. Handled => worker'.at = "next" /\ worker'.id = None
  BY <1>1, HandledStep DEF TypeInv
<1>3. CASE Downloaded
  <2>1. worker'.at = (IF worker.at = "upgrading" THEN "upgraded" ELSE "staged") /\ worker'.id = worker.id
    BY <1>3 DEF Downloaded, TypeInv, ThreadTypes, WorkerType
  <2>. QED  BY <1>1, <1>3, <2>1 DEF Downloaded, Written, UuidsInHand, PurgeIsCurrent, FilesInHand,
            SourceOnDisk, Young, history
<1>4. CASE DownloadFails
  BY <1>1, <1>2, <1>4 DEF DownloadFails, Removed, UuidsInHand, PurgeIsCurrent, FilesInHand,
     SourceOnDisk, Young
<1>5. CASE Recorded
  <2>1. /\ DOMAIN rows' = DOMAIN rows
        /\ \A x \in DOMAIN rows : rows'[x].source = (rows[x].source \/ x = worker.id)
    BY <1>5 DEF Recorded, TypeInv, DiskTypes, Row
  <2>. QED  BY <1>1, <1>2, <1>5, <2>1 DEF Recorded, UuidsInHand, PurgeIsCurrent, FilesInHand,
            SourceOnDisk, Young, disk, history
<1>6. CASE StoreSwept
  <2>1. Uid \in Nat /\ worker.id \notin DOMAIN rows /\ Young(worker.id)
    BY <1>1, <1>6, UidOfWorker DEF StoreSwept, UuidsInHand, FilesInHand, TypeInv
  <2>2. \/ /\ DOMAIN rows' = DOMAIN rows \cup {worker.id}
           /\ \A x \in DOMAIN rows : rows'[x] = rows[x]
           /\ UNCHANGED disk
        \/ /\ DOMAIN rows' = DOMAIN rows
           /\ \A x \in DOMAIN rows : rows'[x].source = rows[x].source
           /\ Removed({worker.id})
    <3>1. Archived(Uid) \in Row
      BY <2>1, RowValues
    <3>. QED  BY <1>1, <1>6, <2>1, <3>1, UpsertedRows DEF StoreSwept, Stored, TypeInv
  <2>. QED  BY <1>1, <1>2, <1>6, <2>1, <2>2 DEF StoreSwept, Removed, disk, UuidsInHand,
            PurgeIsCurrent, FilesInHand, SourceOnDisk, Young, history
<1>. QED  BY <1>3, <1>4, <1>5, <1>6

LEMMA OtherFiles ==
  ASSUME TypeInv, FileInv,
         \/ Renumber \/ PurgeWrites \/ GcReads \/ GcStats
         \/ \E m \in Mail : SearchFallback(m)
         \/ \E id \in Uuids : PurgeReads(id) \/ GcUnlinks(id)
  PROVE  FileInv'
<1>. USE DEF FileInv
<1>1. CASE Renumber
  BY <1>1, RenumberRows DEF Renumber, LiveIdle, TypeInv, UuidsInHand, PurgeIsCurrent, FilesInHand,
     SourceOnDisk, Young, disk, history
<1>2. CASE PurgeWrites
  <2>1. /\ DOMAIN rows' = DOMAIN rows
        /\ \A x \in DOMAIN rows : rows'[x].source = (rows[x].source /\ x # purging.id)
    BY <1>2 DEF PurgeWrites, TypeInv, DiskTypes, Row, PurgeIsCurrent
  <2>2. (purging.source /\ Removed({purging.id})) \/ UNCHANGED disk
    BY <1>2 DEF PurgeWrites
  <2>3. purging'.id = None /\ ~ purging'.source
    BY <1>2 DEF PurgeWrites
  <2>. QED  BY <1>2, <2>1, <2>2, <2>3 DEF PurgeWrites, Removed, disk, UuidsInHand, PurgeIsCurrent,
            FilesInHand, SourceOnDisk, Young, history
<1>3. CASE GcReads
  <2>1. gc'.at = "walking" /\ gc'.refs = Referenced
    BY <1>3 DEF GcReads, GcIdle
  <2>. QED  BY <1>3, <2>1 DEF GcReads, Referenced, UuidsInHand, PurgeIsCurrent, FilesInHand,
            SourceOnDisk, Young, disk, history
<1>4. CASE GcStats
  <2>1. \/ gc' = [at |-> "idle", refs |-> {}, doomed |-> {}]
        \/ gc' = [at |-> "unlinking", refs |-> {}, doomed |-> old \ gc.refs]
    BY <1>4 DEF GcStats, GcIdle
  <2>. QED  BY <1>4, <2>1 DEF GcStats, UuidsInHand, PurgeIsCurrent, FilesInHand,
            SourceOnDisk, Young, disk, history
<1>5. ASSUME NEW m \in Mail, SearchFallback(m) PROVE FileInv'
  <2>1. PICK id \in Fresh(m) : Upserted(id, BodyOnly(server[m]))
    BY <1>5 DEF SearchFallback
  <2>2. id \in Uuids \ DOMAIN rows /\ id # live.id /\ id # worker.id
    BY <2>1, FreshIds
  <2>3. BodyOnly(server[m]) \in Row /\ ~ BodyOnly(server[m]).source
    BY RowValues DEF TypeInv, DiskTypes
  <2>4. \/ /\ DOMAIN rows' = DOMAIN rows \cup {id} /\ ~ rows'[id].source
           /\ \A x \in DOMAIN rows : rows'[x] = rows[x]
        \/ /\ DOMAIN rows' = DOMAIN rows
           /\ \A x \in DOMAIN rows : rows'[x].source = rows[x].source
    BY <2>1, <2>2, <2>3, UpsertedRows DEF TypeInv
  <2>. QED  BY <1>5, <2>2, <2>4 DEF SearchFallback, UuidsInHand, PurgeIsCurrent, FilesInHand,
            SourceOnDisk, Young, disk, history
<1>6. ASSUME NEW id \in Uuids, PurgeReads(id) PROVE FileInv'
  BY <1>6 DEF PurgeReads, UuidsInHand, PurgeIsCurrent, FilesInHand, SourceOnDisk, Young, disk, history
<1>7. ASSUME NEW id \in Uuids, GcUnlinks(id) PROVE FileInv'
  <2>1. gc'.at = "idle" \/ (gc'.at = "unlinking" /\ gc'.doomed = gc.doomed \ {id})
    BY <1>7 DEF GcUnlinks, GcIdle, TypeInv, ThreadTypes, GcType
  <2>2. clobbered' = clobbered \cup ({id} \cap (files \ old)) /\ Removed({id})
    BY <1>7 DEF GcUnlinks
  <2>. QED  BY <1>7, <2>1, <2>2 DEF GcUnlinks, Removed, UuidsInHand, PurgeIsCurrent, FilesInHand,
            SourceOnDisk, Young
<1>. QED  BY <1>1, <1>2, <1>3, <1>4, <1>5, <1>6, <1>7

LEMMA FilesKept ==
  ASSUME TypeInv, FileInv, [Next]_vars
  PROVE  FileInv'
<1>1. CASE UNCHANGED vars
  BY <1>1 DEF vars, disk, history, FileInv, UuidsInHand, PurgeIsCurrent, FilesInHand, SourceOnDisk, Young
<1>2. CASE Next
  BY <1>2, WorldFiles, LiveFiles, SweepFiles, DownloadFiles, OtherFiles
  DEF Next, LiveStep, WorkerStep, GcStep
<1>. QED  BY <1>1, <1>2

-----------------------------------------------------------------------------
(* The daily budget *)

\* A step after which no more is spent or under way keeps the budget.
LEMMA NoNewDownload ==
  ASSUME TypeInv, BudgetInv, spent' \in Nat, spent' <= spent,
         live'.at = "capturing" => live.at = "capturing",
         worker'.at \in {"upgrading", "capturing"} => worker.at \in {"upgrading", "capturing"}
  PROVE  BudgetInv'
BY ArchiveAssumption DEF TypeInv, DiskTypes, BudgetInv, UnderWay

LEMMA BudgetStep ==
  ASSUME TypeInv, UuidsInHand, BudgetInv, [Next]_vars
  PROVE  BudgetInv'
<1>. USE DEF TypeInv
<1>1. CASE Captured \/ Downloaded
  <2>1. spent' = spent + 1 /\ spent \in Nat
    BY <1>1 DEF Captured, Downloaded, DiskTypes
  <2>2. \/ /\ live.at = "capturing" /\ live'.at = "staged" /\ worker' = worker
        \/ /\ live' = live
           /\ worker.at \in {"upgrading", "capturing"} /\ worker'.at \in {"upgraded", "staged"}
    BY <1>1 DEF Captured, Downloaded, ThreadTypes, LiveType, WorkerType
  <2>. QED  BY <2>1, <2>2, ArchiveAssumption DEF BudgetInv, UnderWay
<1>2. CASE (\E m \in Mail : Capture(m)) \/ Upgrade \/ CaptureStarts
  <2>1. spent' = spent /\ spent \in Nat /\ spent < Budget
    BY <1>2 DEF Capture, Upgrade, CaptureStarts, CanDownload, DiskTypes
  <2>2. live' = live \/ (worker' = worker /\ live.at = "listed")
    BY <1>2 DEF Capture, Upgrade, CaptureStarts
  <2>. QED  BY <2>1, <2>2, ArchiveAssumption DEF BudgetInv, UnderWay
<1>3. CASE \/ UNCHANGED vars \/ StoreCaptured \/ CaptureFails
           \/ \E m \in Mail : Touch(m) \/ StoreUnaffordable(m)
  <2>1. (live.at # "idle" /\ Advance) \/ live' = live
    BY <1>3 DEF vars, StoreCaptured, CaptureFails, Touch, StoreUnaffordable
  <2>2. live'.at = "capturing" => live.at = "capturing"
    BY <2>1, AdvanceStep
  <2>3. spent' = spent /\ worker' = worker
    BY <1>3 DEF vars, StoreCaptured, CaptureFails, Touch, StoreUnaffordable
  <2>. QED  BY <2>2, <2>3, NoNewDownload DEF DiskTypes
<1>4. CASE SkipUid \/ SpentMeanwhile \/ DownloadFails \/ Recorded \/ StoreSwept
  <2>1. AtUid /\ Handled
    BY <1>4 DEF SkipUid, SpentMeanwhile, DownloadFails, Recorded, StoreSwept, Working, AtUid, UidAtHand
  <2>2. worker'.at = "next"
    BY <2>1, HandledStep
  <2>3. spent' = spent /\ live' = live
    BY <1>4 DEF SkipUid, SpentMeanwhile, DownloadFails, Recorded, StoreSwept
  <2>. QED  BY <2>2, <2>3, NoNewDownload DEF DiskTypes
<1>5. CASE StartSweep \/ RepairEnds \/ NextBatch \/ BudgetStop \/ CaptureOld
  <2>1. worker'.at \in {"idle", "next", "affordable"}
    BY <1>5, IdleThreads
    DEF StartSweep, RepairEnds, NextBatch, BudgetStop, CaptureOld, WorkerIdle, ThreadTypes, WorkerType
  <2>2. spent' = spent /\ live' = live
    BY <1>5 DEF StartSweep, RepairEnds, NextBatch, BudgetStop, CaptureOld
  <2>. QED  BY <2>1, <2>2, NoNewDownload DEF DiskTypes
<1>6. CASE \/ StartPass \/ Dropped \/ Crash \/ DayRolls
           \/ Renumber \/ PurgeWrites \/ GcReads \/ GcStats
           \/ \E m \in Mail : Arrive(m) \/ Leave(m) \/ SearchFallback(m)
           \/ \E id \in Uuids : Ages(id) \/ PurgeReads(id) \/ GcUnlinks(id)
  <2>1. live'.at \in {"idle", "listed"} \/ live' = live
    BY <1>6, IdleThreads
    DEF StartPass, Dropped, Crash, DayRolls, Renumber, PurgeWrites, GcReads, GcStats, Arrive, Leave,
        SearchFallback, Ages, PurgeReads, GcUnlinks, Resting
  <2>2. worker'.at = "idle" \/ worker' = worker
    BY <1>6, IdleThreads
    DEF StartPass, Dropped, Crash, DayRolls, Renumber, PurgeWrites, GcReads, GcStats, Arrive, Leave,
        SearchFallback, Ages, PurgeReads, GcUnlinks
  <2>3. spent' = spent \/ spent' = 0
    BY <1>6
    DEF StartPass, Dropped, Crash, DayRolls, Renumber, PurgeWrites, GcReads, GcStats, Arrive, Leave,
        SearchFallback, Ages, PurgeReads, GcUnlinks
  <2>. QED  BY <2>1, <2>2, <2>3, NoNewDownload DEF DiskTypes
<1>. QED  BY <1>1, <1>2, <1>3, <1>4, <1>5, <1>6 DEF Next, LiveStep, WorkerStep, GcStep

-----------------------------------------------------------------------------
(* Every step keeps the sweep's invariant *)

\* Whose rows may have been mapped anew, and to what.
OnlyMaps(n, u) ==
  \A id \in DOMAIN rows' :
    (id \in DOMAIN rows /\ rows'[id].uid = rows[id].uid) \/ (id[1] = n /\ rows'[id].uid = u)

LEMMA UpsertedMaps ==
  ASSUME DiskTypes, NEW id \in Uuids, NEW row \in Row, Upserted(id, row)
  PROVE  /\ DOMAIN rows \subseteq DOMAIN rows' /\ OnlyMaps(id[1], row.uid)
         /\ \E x \in DOMAIN rows' : x[1] = id[1]
<1>1. CASE Known(id[1]) = {} /\ rows' = Inserted(id, row)
  <2>1. /\ DOMAIN rows' = DOMAIN rows \cup {id} /\ rows'[id] = row
        /\ \A x \in DOMAIN rows \ {id} : rows'[x] = rows[x]
    BY <1>1, InsertedRows
  <2>. QED  BY <2>1 DEF OnlyMaps
<1>2. CASE \E known \in Known(id[1]) : rows' = Linked(known, row.uid)
  <2>1. PICK known \in Known(id[1]) : rows' = Linked(known, row.uid)
    BY <1>2
  <2>2. known \in DOMAIN rows /\ known[1] = id[1]
    BY <2>1 DEF Known, RowsOf
  <2>. QED  BY <2>1, <2>2 DEF OnlyMaps, Linked, DiskTypes, Row
<1>. QED  BY <1>1, <1>2 DEF Upserted

\* A new mapping is to a UID that is no other old message's.
LEMMA MappedKept ==
  ASSUME MappedRight, \A m \in OldMail : server'[m] \in {server[m], NoUid}, NEW n, NEW u, OnlyMaps(n, u),
         \A m \in OldMail : server[m] # NoUid /\ server[m] = u => n = m
  PROVE  MappedRight'
BY DEF MappedRight, OnlyMaps, NoUid

\* Rows are only added, and old mail only leaves.
LEMMA WorkerRests ==
  ASSUME SweptOrMissed, SweepUnderWay, server \in [Mail -> Nat], watermark \in Nat,
         DOMAIN rows \subseteq DOMAIN rows', \A m \in OldMail : server'[m] \in {server[m], NoUid},
         UNCHANGED <<worker, watermark, missed>>
  PROVE  SweptOrMissed' /\ SweepUnderWay'
<1>1. \A m \in OldMail : RowsOf(m) # {} => RowsOf(m)' # {}
  BY DEF RowsOf
<1>2. OldMail \subseteq Mail
  BY DEF Mail
<1>3. SweptOrMissed'
  BY <1>1, <1>2 DEF SweptOrMissed, NoUid
<1>4. Descending => Descending'
  BY DEF Descending
<1>5. ASSUME NEW m \in OldMail, server'[m] # NoUid
      PROVE  (AtHand(m) => AtHand(m)') /\ (Outstanding(m) => Outstanding(m)')
  <2>1. server'[m] = server[m] /\ Uid' = Uid
    BY <1>5 DEF Uid
  <2>. QED  BY <1>1, <2>1 DEF AtHand, Outstanding
<1>6. SweepUnderWay'
  <2>1. SUFFICES ASSUME worker'.sweeping
                 PROVE  /\ Descending'
                        /\ \A m \in OldMail : server'[m] # NoUid => AtHand(m)' /\ (m \notin missed' => Outstanding(m)')
    BY DEF SweepUnderWay
  <2>. QED  BY <1>4, <1>5, <2>1 DEF SweepUnderWay, NoUid
<1>. QED  BY <1>3, <1>6

\* Mail at the UID the sweep is at has the rows that are found there.
LEMMA RowsAtOwn ==
  ASSUME UidsApart, MappedRight, NEW m \in OldMail, server[m] # NoUid, server[m] = Uid,
         NEW id \in RowsAt(Uid), worker.sweeping
  PROVE  RowsOf(m) # {}
<1>. DEFINE found == UNION {Known(n) : n \in MailAt(Uid)}
<1>1. m \in Mail
  BY DEF Mail
<1>2. CASE found # {}
  <2>1. PICK n \in MailAt(Uid) : Known(n) # {}
    BY <1>2
  <2>2. n = m
    BY <1>1, <2>1 DEF UidsApart, MailAt
  <2>. QED  BY <2>1, <2>2 DEF Known
<1>3. CASE found = {}
  <2>1. id \in RowAt(Uid)
    BY <1>3 DEF RowsAt
  <2>. QED  BY <2>1 DEF RowAt, MappedRight, RowsOf
<1>. QED  BY <1>2, <1>3

\* The UID at hand is done with: its mail has a row by now, or is missed.
LEMMA HandledSweeps ==
  ASSUME TypeInv, SweptOrMissed, SweepStates, SweepUnderWay, AtUid, Handled, worker.at # "idle",
         server' = server, DOMAIN rows \subseteq DOMAIN rows', missed \subseteq missed',
         worker.sweeping => \A m \in OldMail \ missed' :
                              server[m] # NoUid /\ server[m] = Uid => \E x \in DOMAIN rows' : x[1] = m
  PROVE  SweptOrMissed' /\ SweepStates' /\ SweepUnderWay'
<1>. USE DEF TypeInv
<1>1. \A m \in OldMail : RowsOf(m) # {} => RowsOf(m)' # {}
  BY DEF RowsOf
<1>2. OldMail \subseteq Mail /\ server \in [Mail -> Nat]
  BY DEF Mail, DiskTypes
<1>3. CASE ~ worker.sweeping
  <2>1. worker' = [at |-> "next", todo |-> worker.todo \ {Uid}, batch |-> worker.batch,
                   lowest |-> worker.lowest, id |-> None, sweeping |-> FALSE] /\ watermark' = watermark
    BY <1>3 DEF Handled, ThreadTypes, WorkerType
  <2>2. SweptOrMissed'
    BY <1>1, <2>1 DEF SweptOrMissed
  <2>. QED  BY <1>3, <2>1, <2>2 DEF SweepStates, SweepUnderWay
<1>4. CASE worker.sweeping
  <2>1. worker' = [at |-> "next", todo |-> worker.todo, batch |-> worker.batch \ {Uid},
                   lowest |-> Uid, id |-> None, sweeping |-> TRUE]
    BY <1>4 DEF Handled, ThreadTypes, WorkerType
  <2>2. Uid \in worker.batch /\ Uid \in Nat /\ \A x \in worker.batch : x <= Uid
    BY <1>4, UidOfWorker, MaxIsGreatest DEF AtUid, Uid, UidAtHand, ThreadTypes, WorkerType
  <2>3. worker.todo \subseteq Nat /\ worker.batch \subseteq Nat
    BY DEF ThreadTypes, WorkerType
  <2>4. \A x \in worker.todo \cup (worker.batch \ {Uid}) : x < Uid
    BY <1>4, <2>2, <2>3 DEF SweepUnderWay, Descending
  <2>5. Descending'
    BY <1>4, <2>1, <2>4 DEF SweepUnderWay, Descending
  <2>6. ASSUME NEW m \in OldMail \ missed', server[m] # NoUid PROVE Outstanding(m)'
    <3>1. CASE server[m] = Uid
      <4>1. \E x \in DOMAIN rows' : x[1] = m
        BY <1>4, <2>6, <3>1
      <4>. QED  BY <4>1 DEF Outstanding, RowsOf
    <3>2. CASE server[m] # Uid
      <4>1. Outstanding(m)
        BY <1>4, <2>6 DEF SweepUnderWay
      <4>. QED  BY <1>1, <2>1, <3>2, <4>1 DEF Outstanding
    <3>. QED  BY <3>1, <3>2
  <2>7. \A m \in OldMail : AtHand(m)'
    BY <2>1 DEF AtHand
  <2>8. SweepUnderWay'
    BY <2>5, <2>6, <2>7 DEF SweepUnderWay
  <2>9. SweptOrMissed'
    <3>1. CASE worker.batch = {Uid}
      <4>1. watermark' = Uid
        BY <1>4, <3>1 DEF Handled
      <4>2. SUFFICES ASSUME NEW m \in OldMail \ missed', Uid > 0, server[m] >= Uid PROVE RowsOf(m)' # {}
        BY <4>1 DEF SweptOrMissed
      <4>3. server[m] \notin worker'.todo \cup worker'.batch
        BY <1>2, <2>1, <2>2, <2>3, <2>4, <4>2
      <4>4. server[m] # NoUid
        BY <1>2, <2>2, <4>2 DEF NoUid
      <4>. QED  BY <2>6, <4>2, <4>3, <4>4 DEF Outstanding
    <3>2. CASE worker.batch # {Uid}
      <4>1. watermark' = watermark
        BY <1>4, <3>2 DEF Handled
      <4>. QED  BY <1>1, <4>1 DEF SweptOrMissed
    <3>. QED  BY <3>1, <3>2
  <2>. QED  BY <2>1, <2>8, <2>9 DEF SweepStates
<1>. QED  BY <1>3, <1>4

LEMMA SweepInit == Init => SweepInv
<1>. SUFFICES ASSUME Init PROVE SweepInv
  OBVIOUS
<1>1. Mail \subseteq Nat \ {0} /\ OldMail \subseteq Mail
  BY ArchiveAssumption DEF Mail
<1>2. \A m \in Mail : server[m] = IF m \in NewMail THEN NoUid ELSE m
  BY DEF Init
<1>3. \A m \in OldMail : server[m] < cursor
  <2>1. cursor \in Nat /\ \A m \in OldMail : m < cursor
    BY FirstCursor DEF Init
  <2>. QED  BY <1>1, <1>2, <2>1 DEF NoUid
<1>4. UidsApart
  BY <1>1, <1>2, <1>3 DEF Init, UidsApart, Resting
<1>5. MappedRight
  <2>1. PICK first : rows = [id \in WindowMail \X {first} |-> BodyOnly(id[1])]
    BY DEF Init
  <2>2. \A id \in DOMAIN rows : rows[id].uid = id[1]
    BY <2>1 DEF BodyOnly
  <2>. QED  BY <1>1, <1>2, <2>2 DEF MappedRight
<1>. QED  BY <1>4, <1>5 DEF Init, SweepInv, SweptOrMissed, SweepStates, SweepUnderWay, WorkerIdle

\* The provider, the clock, crashes, Purge Trash and the GC leave the worker's
\* lists as they are, or drop them.
LEMMA WorldSweeps ==
  ASSUME TypeInv, SweepInv,
         \/ DayRolls \/ Crash \/ PurgeWrites \/ GcReads \/ GcStats
         \/ \E m \in Mail : Arrive(m) \/ Leave(m) \/ SearchFallback(m)
         \/ \E id \in Uuids : Ages(id) \/ PurgeReads(id) \/ GcUnlinks(id)
  PROVE  SweepInv'
<1>. USE DEF TypeInv, SweepInv
<1>1. server \in [Mail -> Nat] /\ watermark \in Nat /\ OldMail \subseteq Mail
  BY DEF DiskTypes, Mail
<1>2. ASSUME NEW m \in Mail, Arrive(m) PROVE SweepInv'
  <2>1. \A n \in Mail : server[n] < server'[m]
    <3>1. HighestUid \in Nat /\ cursor \in Nat /\ \A n \in Mail : server[n] <= HighestUid
      BY HighestUidType DEF DiskTypes
    <3>. QED  BY <1>1, <1>2, <3>1 DEF Arrive
  <2>2. m \notin OldMail
    BY <1>2, ArchiveAssumption DEF Arrive, Mail
  <2>3. \A n \in Mail \ {m} : server'[n] = server[n]
    BY <1>2, <1>1 DEF Arrive
  <2>4. UidsApart'
    BY <1>1, <1>2, <2>1, <2>2, <2>3 DEF Arrive, UidsApart, NoUid
  <2>5. MappedRight'
    BY <1>1, <1>2, <2>2, <2>3 DEF Arrive, MappedRight
  <2>6. SweptOrMissed' /\ SweepUnderWay'
    BY <1>1, <1>2, <2>2, <2>3, WorkerRests DEF Arrive, history
  <2>. QED  BY <1>2, <2>4, <2>5, <2>6 DEF Arrive, SweepStates
<1>3. ASSUME NEW m \in Mail, Leave(m) PROVE SweepInv'
  <2>1. server'[m] = NoUid /\ \A n \in Mail \ {m} : server'[n] = server[n]
    BY <1>1, <1>3 DEF Leave
  <2>2. UidsApart'
    BY <1>1, <1>3, <2>1 DEF Leave, UidsApart, NoUid, DiskTypes
  <2>3. MappedRight'
    BY <1>1, <1>3, <2>1 DEF Leave, MappedRight
  <2>4. SweptOrMissed' /\ SweepUnderWay'
    BY <1>1, <1>3, <2>1, WorkerRests DEF Leave, history
  <2>. QED  BY <1>3, <2>2, <2>3, <2>4 DEF Leave, SweepStates
<1>4. ASSUME NEW m \in Mail, SearchFallback(m) PROVE SweepInv'
  <2>1. PICK id \in Fresh(m) : Upserted(id, BodyOnly(server[m]))
    BY <1>4 DEF SearchFallback
  <2>2. id \in Uuids /\ id[1] = m /\ BodyOnly(server[m]) \in Row
    BY <1>1, <2>1, FreshIds, RowValues
  <2>3. DOMAIN rows \subseteq DOMAIN rows' /\ OnlyMaps(m, server[m])
    BY <2>1, <2>2, UpsertedMaps DEF BodyOnly
  <2>4. MappedRight'
    BY <1>1, <1>4, <2>3, MappedKept DEF SearchFallback, UidsApart
  <2>5. SweptOrMissed' /\ SweepUnderWay'
    BY <1>1, <1>4, <2>3, WorkerRests DEF SearchFallback, history
  <2>. QED  BY <1>4, <2>4, <2>5 DEF SearchFallback, SweepStates, UidsApart
<1>5. CASE Crash
  BY <1>5 DEF Crash, Resting, WorkerIdle, history, UidsApart, MappedRight, SweptOrMissed, RowsOf,
     SweepStates, SweepUnderWay
<1>6. CASE PurgeWrites
  <2>1. DOMAIN rows' = DOMAIN rows /\ \A id \in DOMAIN rows : rows'[id].uid = rows[id].uid
    BY <1>6 DEF PurgeWrites, DiskTypes, Row
  <2>2. MappedRight'
    BY <1>6, <2>1 DEF PurgeWrites, MappedRight
  <2>3. SweptOrMissed' /\ SweepUnderWay'
    BY <1>1, <1>6, <2>1, WorkerRests DEF PurgeWrites, history
  <2>. QED  BY <1>6, <2>2, <2>3 DEF PurgeWrites, SweepStates, UidsApart
<1>7. CASE DayRolls \/ GcReads \/ GcStats \/ \E id \in Uuids : Ages(id) \/ PurgeReads(id) \/ GcUnlinks(id)
  <2>1. UNCHANGED <<server, rows, watermark, cursor, live, worker, missed>>
    BY <1>7 DEF DayRolls, GcReads, GcStats, Ages, PurgeReads, GcUnlinks, history
  <2>2. SweptOrMissed' /\ SweepUnderWay'
    BY <1>1, <2>1, WorkerRests
  <2>. QED  BY <2>1, <2>2 DEF SweepStates, UidsApart, MappedRight
<1>. QED  BY <1>2, <1>3, <1>4, <1>5, <1>6, <1>7

\* Under new UIDs, whatever old mail has no row and lies above the watermark is
\* missed.
LEMMA RenumberSweeps ==
  ASSUME TypeInv, SweepInv, Renumber
  PROVE  SweepInv'
<1>. USE DEF TypeInv, SweepInv
<1>1. server \in [Mail -> Nat] /\ server' \in [Mail -> Nat] /\ DOMAIN rows' = DOMAIN rows
  BY RenumberRows DEF DiskTypes
<1>2. PICK k \in Nat : k = Cardinality(Mail)
  BY ArchiveAssumption, FS_CardinalityType
<1>3. \A m \in Mail : server'[m] = IF server[m] = NoUid THEN NoUid ELSE server[m] + k
  BY <1>2 DEF Renumber
<1>4. UidsApart'
  <2>1. HighestUid \in Nat /\ \A m \in Mail : server[m] <= HighestUid
    BY <1>1, HighestUidType
  <2>2. cursor' = HighestUid + k + 1 /\ live'.at = "idle"
    BY <1>2 DEF Renumber, LiveIdle
  <2>3. \A m \in OldMail : server'[m] < cursor'
    BY <1>1, <1>3, <2>1, <2>2 DEF NoUid, Mail
  <2>4. \A m, n \in Mail : server'[m] # NoUid /\ server'[m] = server'[n] => m = n
    BY <1>1, <1>3 DEF UidsApart, NoUid
  <2>. QED  BY <2>2, <2>3, <2>4 DEF UidsApart
<1>5. MappedRight'
  <2>. DEFINE uid(id) == IF id[1] \in InWindow \ Anonymous THEN server'[id[1]] ELSE NoUid
  <2>1. rows' = [id \in DOMAIN rows |-> [rows[id] EXCEPT !.uid = uid(id)]]
    BY DEF Renumber
  <2>. HIDE DEF uid
  <2>2. \A id \in DOMAIN rows : rows'[id].uid = uid(id) /\ id[1] \in Mail
    BY <2>1, UuidsOfMail DEF DiskTypes, Row
  <2>. QED  BY <1>1, <1>4, <2>2 DEF uid, MappedRight, UidsApart, Mail
<1>6. SweptOrMissed'
  <2>1. \A m \in OldMail : RowsOf(m)' = RowsOf(m)
    BY <1>1 DEF RowsOf
  <2>2. watermark' = watermark /\ watermark \in Nat /\ OldMail \subseteq Mail
    BY DEF Renumber, DiskTypes, Mail
  <2>3. \A m \in OldMail : watermark \in 1 .. server'[m] /\ RowsOf(m) = {} => m \in missed'
    BY DEF Renumber
  <2>. QED  BY <1>1, <2>1, <2>2, <2>3 DEF SweptOrMissed
<1>. QED  BY <1>4, <1>5, <1>6 DEF Renumber, SweepStates, SweepUnderWay

\* Live capture lists UIDs above all old mail.
LEMMA LiveSweeps ==
  ASSUME TypeInv, SweepInv, UuidsInHand,
         \/ StartPass \/ Captured \/ StoreCaptured \/ CaptureFails \/ Dropped
         \/ \E m \in Mail : Touch(m) \/ Capture(m) \/ StoreUnaffordable(m)
  PROVE  SweepInv'
<1>. USE DEF TypeInv, SweepInv
<1>1. server \in [Mail -> Nat] /\ watermark \in Nat /\ OldMail \subseteq Mail /\ cursor \in Nat
  BY DEF DiskTypes, Mail
<1>2. UNCHANGED <<server, watermark, worker, missed>>
  BY DEF StartPass, Captured, StoreCaptured, CaptureFails, Dropped, Touch, Capture, StoreUnaffordable, history
<1>3. ASSUME DOMAIN rows \subseteq DOMAIN rows' PROVE SweptOrMissed' /\ SweepStates' /\ SweepUnderWay'
  BY <1>1, <1>2, <1>3, WorkerRests DEF SweepStates
<1>4. ASSUME live.at # "idle", Advance PROVE UidsApart'
  <2>1. NextUid \in Nat /\ NextUid \in live.todo
    BY <1>4, UidOfPass
  <2>2. CASE live.todo # {NextUid}
    <3>1. live' = [at |-> "listed", todo |-> live.todo \ {NextUid}, id |-> None] /\ cursor' = cursor
      BY <1>4, <2>2 DEF Advance, ThreadTypes, LiveType
    <3>. QED  BY <1>2, <1>4, <3>1 DEF UidsApart
  <2>3. CASE live.todo = {NextUid}
    <3>1. live'.at = "idle" /\ cursor' \in Nat /\ cursor' >= cursor
      BY <1>1, <1>4, <2>1, <2>3 DEF Advance, PassEnds, Resting
    <3>2. \A m \in OldMail : server[m] < cursor'
      BY <1>1, <3>1 DEF UidsApart
    <3>. QED  BY <1>2, <3>1, <3>2 DEF UidsApart
  <2>. QED  BY <2>2, <2>3
<1>5. ASSUME live.at # "idle", NEW n, OnlyMaps(n, NextUid) PROVE MappedRight'
  <2>1. cursor <= NextUid /\ NextUid \in Nat
    BY <1>5, UidOfPass DEF UidsApart
  <2>2. \A m \in OldMail : server[m] # NextUid
    BY <1>1, <2>1 DEF UidsApart
  <2>. QED  BY <1>2, <1>5, <2>2, MappedKept
<1>6. CASE StartPass
  <2>1. live'.todo = {server[m] : m \in Mail} \ 0 .. cursor - 1
    BY <1>6 DEF StartPass, Resting
  <2>2. \A u \in live'.todo : cursor <= u
    BY <1>1, <2>1
  <2>3. UidsApart'
    BY <1>6, <2>2 DEF StartPass, UidsApart
  <2>. QED  BY <1>3, <1>6, <2>3 DEF StartPass, MappedRight
<1>7. CASE Captured \/ \E m \in Mail : Capture(m)
  <2>1. live.at # "idle" /\ live'.todo = live.todo /\ UNCHANGED <<rows, cursor>>
    BY <1>7 DEF Captured, Capture, ThreadTypes, LiveType
  <2>. QED  BY <1>2, <1>3, <2>1 DEF UidsApart, MappedRight
<1>8. CASE Dropped
  <2>1. live'.at = "idle" /\ UNCHANGED <<rows, cursor>>
    BY <1>8 DEF Dropped, Resting
  <2>. QED  BY <1>2, <1>3, <2>1 DEF UidsApart, MappedRight
<1>9. CASE StoreCaptured \/ CaptureFails
  <2>1. live.at # "idle" /\ live.id \in Uuids /\ NextUid \in Nat /\ Advance
    BY <1>9, UidOfPass DEF StoreCaptured, CaptureFails, UuidsInHand
  <2>2. \E row \in Row : row.uid = NextUid /\ Upserted(live.id, row)
    <3>1. /\ Archived(NextUid) \in Row /\ Archived(NextUid).uid = NextUid
          /\ BodyOnly(NextUid) \in Row /\ BodyOnly(NextUid).uid = NextUid
      BY <2>1, RowValues DEF Archived, BodyOnly
    <3>. QED  BY <1>9, <3>1 DEF StoreCaptured, CaptureFails, Stored
  <2>3. DOMAIN rows \subseteq DOMAIN rows' /\ OnlyMaps(live.id[1], NextUid)
    BY <2>1, <2>2, UpsertedMaps
  <2>. QED  BY <1>3, <1>4, <1>5, <2>1, <2>3
<1>10. ASSUME NEW m \in Mail, Touch(m) \/ StoreUnaffordable(m) PROVE SweepInv'
  <2>1. live.at # "idle" /\ NextUid \in Nat /\ Advance
    BY <1>10, UidOfPass DEF Touch, StoreUnaffordable
  <2>2. DOMAIN rows \subseteq DOMAIN rows' /\ OnlyMaps(m, NextUid)
    <3>1. CASE Touch(m)
      <4>1. PICK id \in Known(m) : rows' = Linked(id, NextUid)
        BY <3>1 DEF Touch
      <4>. QED  BY <4>1 DEF Known, RowsOf, Linked, OnlyMaps, DiskTypes, Row
    <3>2. CASE StoreUnaffordable(m)
      <4>1. PICK id \in Fresh(m) : rows' = Inserted(id, BodyOnly(NextUid))
        BY <3>2 DEF StoreUnaffordable
      <4>2. id \in Uuids /\ id[1] = m /\ BodyOnly(NextUid) \in Row /\ BodyOnly(NextUid).uid = NextUid
        BY <2>1, <4>1, FreshIds, RowValues DEF BodyOnly
      <4>3. /\ DOMAIN rows' = DOMAIN rows \cup {id} /\ rows'[id] = BodyOnly(NextUid)
            /\ \A x \in DOMAIN rows \ {id} : rows'[x] = rows[x]
        BY <4>1, <4>2, InsertedRows
      <4>. QED  BY <4>2, <4>3 DEF OnlyMaps
    <3>. QED  BY <1>10, <3>1, <3>2
  <2>. QED  BY <1>3, <1>4, <1>5, <2>1, <2>2
<1>. QED  BY <1>6, <1>7, <1>8, <1>9, <1>10

\* The Highest of a set lie above the rest of it.
LEMMA HighestAbove ==
  ASSUME NEW S \in SUBSET Nat, IsFiniteSet(S), NEW n \in Nat
  PROVE  \A x \in S \ Highest(n, S), y \in Highest(n, S) : x < y
<1>. SUFFICES ASSUME NEW x \in S \ Highest(n, S), NEW y \in Highest(n, S), ~ (x < y) PROVE FALSE
  OBVIOUS
<1>. DEFINE Above(z) == {v \in S : v > z}
<1>1. y \in S /\ Cardinality(Above(y)) < n /\ ~ (Cardinality(Above(x)) < n)
  BY DEF Highest
<1>2. Above(x) \subseteq Above(y) /\ IsFiniteSet(Above(y))
  <2>1. Above(x) \subseteq Above(y)
    <3>1. SUFFICES ASSUME NEW v \in S, v > x PROVE v > y
      OBVIOUS
    <3>2. v \in Nat /\ x \in Nat /\ y \in Nat
      BY <1>1
    <3>. QED  BY <3>1, <3>2
  <2>2. Above(y) \subseteq S
    OBVIOUS
  <2>3. IsFiniteSet(Above(y))
    BY <2>2, FS_Subset
  <2>. QED  BY <2>1, <2>3
<1>. HIDE DEF Above
<1>3. IsFiniteSet(Above(x)) /\ Cardinality(Above(x)) <= Cardinality(Above(y))
  BY <1>2, FS_Subset
<1>4. Cardinality(Above(x)) \in Nat /\ Cardinality(Above(y)) \in Nat
  BY <1>2, <1>3, FS_CardinalityType
<1>. QED  BY <1>1, <1>3, <1>4

\* A sweep starts with all that lies below the watermark, goes on with the
\* highest of it, and stops where what is left lies below the new watermark.
LEMMA ListSweeps ==
  ASSUME TypeInv, SweepInv, UuidsInHand, StartSweep \/ RepairEnds \/ NextBatch \/ BudgetStop
  PROVE  SweepInv'
<1>. USE DEF TypeInv, SweepInv
<1>1. server \in [Mail -> Nat] /\ watermark \in Nat /\ OldMail \subseteq Mail
  BY DEF DiskTypes, Mail
<1>2. UNCHANGED <<server, rows, cursor, live, missed>>
  BY DEF StartSweep, RepairEnds, NextBatch, BudgetStop, history
<1>3. UidsApart' /\ MappedRight'
  BY <1>2 DEF UidsApart, MappedRight
<1>4. \A m \in OldMail : RowsOf(m)' = RowsOf(m)
  BY <1>2 DEF RowsOf
<1>5. ASSUME NEW m \in OldMail \ missed, server[m] # NoUid, server[m] > Ceiling PROVE RowsOf(m) # {}
  <2>1. CASE watermark = 0
    BY <1>1, <1>5, <2>1, HighestUidType DEF Ceiling
  <2>2. CASE watermark # 0
    BY <1>1, <1>5, <2>2 DEF Ceiling, SweptOrMissed
  <2>. QED  BY <2>1, <2>2
<1>6. ASSUME NEW m \in OldMail, server[m] # NoUid, server[m] \notin Below PROVE server[m] > Ceiling
  <2>1. Ceiling \in Int /\ server[m] \in Nat /\ m \in MailAt(server[m])
    BY <1>1, CeilingType DEF MailAt
  <2>. QED  BY <1>6, <2>1 DEF Below, NoUid
<1>7. WorkerIdle.at = "idle" /\ ~ WorkerIdle.sweeping /\ WorkerIdle.batch = {} /\ WorkerIdle.lowest = 0
  BY DEF WorkerIdle
<1>8. CASE StartSweep
  <2>1. /\ worker'.at = "next" /\ ~ worker'.sweeping /\ worker'.batch = {} /\ worker'.lowest = 0
        /\ watermark' = watermark
    BY <1>8 DEF StartSweep, WorkerIdle
  <2>. QED  BY <1>2, <1>3, <1>4, <2>1 DEF SweptOrMissed, SweepStates, SweepUnderWay
<1>9. CASE RepairEnds
  <2>1. CASE CanDownload /\ Below # {}
    <3>. DEFINE below == Below
    <3>1. worker' = [worker EXCEPT !.sweeping = TRUE, !.todo = below] /\ watermark' = watermark
      BY <1>9, <2>1 DEF RepairEnds
    <3>. HIDE DEF below
    <3>2. /\ worker'.at = "next" /\ worker'.sweeping /\ worker'.todo = below
          /\ worker'.batch = {} /\ worker'.lowest = 0
      BY <1>9, <3>1 DEF RepairEnds, ThreadTypes, WorkerType, SweepStates
    <3>3. \A m \in OldMail \ missed : server[m] # NoUid => Outstanding(m)'
      BY <1>2, <1>4, <1>5, <1>6, <3>2 DEF below, Outstanding
    <3>4. SweepUnderWay'
      BY <1>2, <3>2, <3>3 DEF SweepUnderWay, Descending, AtHand
    <3>. QED  BY <1>2, <1>3, <1>4, <3>1, <3>2, <3>4 DEF SweptOrMissed, SweepStates
  <2>2. CASE ~ (CanDownload /\ Below # {})
    <3>1. worker' = WorkerIdle /\ watermark' = IF CanDownload /\ Ceiling > 0 THEN 1 ELSE watermark
      BY <1>9, <2>2 DEF RepairEnds
    <3>2. CASE CanDownload /\ Ceiling > 0
      <4>1. \A m \in OldMail \ missed : server[m] # NoUid => RowsOf(m) # {}
        BY <1>5, <1>6, <2>2, <3>2
      <4>2. SweptOrMissed'
        BY <1>1, <1>2, <1>4, <3>1, <3>2, <4>1 DEF SweptOrMissed, NoUid
      <4>. QED  BY <1>3, <1>7, <3>1, <4>2 DEF SweepStates, SweepUnderWay
    <3>3. CASE ~ (CanDownload /\ Ceiling > 0)
      BY <1>2, <1>3, <1>4, <1>7, <3>1, <3>3 DEF SweptOrMissed, SweepStates, SweepUnderWay
    <3>. QED  BY <3>2, <3>3
  <2>. QED  BY <2>1, <2>2
<1>10. CASE NextBatch
  <2>1. CASE worker.todo = {} \/ ~ CanDownload
    <3>1. worker' = WorkerIdle /\ watermark' = IF worker.todo = {} THEN 1 ELSE watermark
      BY <1>10, <2>1 DEF NextBatch
    <3>2. worker.todo = {} => \A m \in OldMail \ missed : server[m] # NoUid => RowsOf(m) # {}
      BY <1>10 DEF NextBatch, SweepUnderWay, Outstanding
    <3>3. SweptOrMissed'
      BY <1>1, <1>2, <1>4, <3>1, <3>2 DEF SweptOrMissed, NoUid
    <3>. QED  BY <1>3, <1>7, <3>1, <3>3 DEF SweepStates, SweepUnderWay
  <2>2. CASE ~ (worker.todo = {} \/ ~ CanDownload)
    <3>. DEFINE batch == Highest(FetchBatch, worker.todo)
    <3>1. worker' = [at |-> "next", todo |-> worker.todo \ batch, batch |-> batch, lowest |-> 0,
                     id |-> worker.id, sweeping |-> TRUE] /\ watermark' = watermark
      BY <1>10, <2>2 DEF NextBatch, ThreadTypes, WorkerType
    <3>2. batch \subseteq worker.todo
      BY DEF Highest
    <3>3. \A x \in worker.todo \ batch, y \in batch : x < y
      <4>1. worker.todo \in SUBSET Nat /\ IsFiniteSet(worker.todo) /\ FetchBatch \in Nat
        BY <1>10, ArchiveAssumption DEF NextBatch, UidAtHand, ThreadTypes, WorkerType
      <4>. QED  BY <4>1, HighestAbove
    <3>. HIDE DEF batch
    <3>4. Descending'
      BY <3>1, <3>3 DEF Descending
    <3>5. \A m \in OldMail \ missed : server[m] # NoUid => Outstanding(m)'
      BY <1>2, <1>4, <1>10, <3>1, <3>2 DEF NextBatch, SweepUnderWay, Outstanding
    <3>6. SweepUnderWay'
      BY <1>2, <3>1, <3>4, <3>5 DEF SweepUnderWay, AtHand
    <3>. QED  BY <1>2, <1>3, <1>4, <3>1, <3>6 DEF SweptOrMissed, SweepStates
  <2>. QED  BY <2>1, <2>2
<1>11. CASE BudgetStop
  <2>1. worker' = WorkerIdle /\ watermark' = (IF worker.lowest # 0 THEN worker.lowest ELSE watermark)
    BY <1>11 DEF BudgetStop
  <2>2. worker.lowest \in Nat /\ worker.todo \subseteq Nat /\ worker.batch \subseteq Nat
    BY DEF ThreadTypes, WorkerType
  <2>3. worker.sweeping
    BY <1>11 DEF BudgetStop
  <2>4. worker.lowest # 0 => \A m \in OldMail \ missed : server[m] >= worker.lowest => RowsOf(m) # {}
    BY <1>1, <2>2, <2>3 DEF SweepUnderWay, Descending, Outstanding, NoUid
  <2>5. SweptOrMissed'
    BY <1>1, <1>2, <1>4, <2>1, <2>2, <2>4 DEF SweptOrMissed
  <2>. QED  BY <1>3, <1>7, <2>1, <2>5 DEF SweepStates, SweepUnderWay
<1>. QED  BY <1>8, <1>9, <1>10, <1>11

\* A step of the worker at one UID.
LEMMA UidSweeps ==
  ASSUME TypeInv, SweepInv, UuidsInHand,
         Upgrade \/ CaptureOld \/ CaptureStarts \/ Downloaded
  PROVE  SweepInv'
<1>. USE DEF TypeInv, SweepInv
<1>1. UNCHANGED <<server, rows, watermark, cursor, live, missed>>
  BY DEF Upgrade, CaptureOld, CaptureStarts, Downloaded, history
<1>2. AtUid /\ worker.at # "idle"
  BY DEF Upgrade, CaptureOld, CaptureStarts, Downloaded, Working, AtUid, UidAtHand
<1>3. UidsApart' /\ MappedRight' /\ SweptOrMissed'
  BY <1>1 DEF UidsApart, MappedRight, SweptOrMissed, RowsOf
<1>4. OldMail \subseteq Mail
  BY DEF Mail
<1>5. ASSUME NEW at \in {"upgrading", "upgraded", "affordable", "capturing", "staged"}, NEW id,
             worker' = [worker EXCEPT !.at = at, !.id = id],
             at \in {"affordable", "capturing", "staged"} => worker.sweeping,
             worker.sweeping => \A m \in OldMail : server[m] # NoUid /\ server[m] = Uid =>
               IF at \in {"upgrading", "upgraded"} THEN RowsOf(m) # {} ELSE id[1] = m
      PROVE  SweepInv'
  <2>1. worker' = [at |-> at, todo |-> worker.todo, batch |-> worker.batch, lowest |-> worker.lowest,
                   id |-> id, sweeping |-> worker.sweeping]
    BY <1>5 DEF ThreadTypes, WorkerType
  <2>2. Uid' = Uid /\ \A m \in OldMail : RowsOf(m)' = RowsOf(m)
    BY <1>1, <2>1 DEF Uid, RowsOf
  <2>3. SweepStates'
    BY <1>5, <2>1 DEF SweepStates
  <2>4. worker.sweeping => Descending'
    BY <2>1 DEF SweepUnderWay, Descending
  <2>5. worker.sweeping => \A m \in OldMail : server[m] # NoUid => AtHand(m)'
    BY <1>1, <1>5, <2>1, <2>2 DEF AtHand
  <2>6. worker.sweeping => \A m \in OldMail \ missed : server[m] # NoUid => Outstanding(m)'
    BY <1>1, <2>1, <2>2 DEF SweepUnderWay, Outstanding
  <2>7. SweepUnderWay'
    BY <1>1, <2>1, <2>4, <2>5, <2>6 DEF SweepUnderWay
  <2>. QED  BY <1>3, <2>3, <2>7
<1>6. CASE Upgrade
  <2>1. PICK id \in RowsAt(Uid) : worker' = [worker EXCEPT !.at = "upgrading", !.id = id]
    BY <1>6 DEF Upgrade
  <2>2. worker.sweeping => \A m \in OldMail : server[m] # NoUid /\ server[m] = Uid => RowsOf(m) # {}
    BY RowsAtOwn
  <2>. DEFINE at == "upgrading"
  <2>3. /\ at \in {"upgrading", "upgraded", "affordable", "capturing", "staged"}
        /\ at \notin {"affordable", "capturing", "staged"} /\ at \in {"upgrading", "upgraded"}
        /\ worker' = [worker EXCEPT !.at = at, !.id = id]
    BY <2>1
  <2>. HIDE DEF at
  <2>. QED  BY <1>5, <2>2, <2>3
<1>7. CASE CaptureOld
  <2>1. PICK n \in MailAt(Uid) : \E id \in Fresh(n) : worker' = [worker EXCEPT !.at = "affordable", !.id = id]
    BY <1>7 DEF CaptureOld
  <2>2. PICK id \in Fresh(n) : worker' = [worker EXCEPT !.at = "affordable", !.id = id]
    BY <2>1
  <2>3. n \in Mail /\ server[n] = Uid /\ id[1] = n
    BY <2>1, <2>2, FreshIds DEF MailAt
  <2>4. \A m \in OldMail : server[m] # NoUid /\ server[m] = Uid => id[1] = m
    BY <1>4, <2>3 DEF UidsApart
  <2>. DEFINE at == "affordable"
  <2>5. /\ at \in {"upgrading", "upgraded", "affordable", "capturing", "staged"}
        /\ at \notin {"upgrading", "upgraded"} /\ worker.sweeping
        /\ worker' = [worker EXCEPT !.at = at, !.id = id]
    BY <1>7, <2>2 DEF CaptureOld
  <2>. HIDE DEF at
  <2>. QED  BY <1>5, <2>4, <2>5
<1>8. CASE CaptureStarts \/ Downloaded
  <2>1. PICK at \in {"capturing", "upgraded", "staged"} :
          /\ worker' = [worker EXCEPT !.at = at]
          /\ at = "upgraded" <=> worker.at = "upgrading"
          /\ worker.at \in {"affordable", "upgrading", "capturing"}
    BY <1>8 DEF CaptureStarts, Downloaded
  <2>2. worker' = [worker EXCEPT !.at = at, !.id = worker.id]
    BY <2>1 DEF ThreadTypes, WorkerType
  <2>3. worker.sweeping => \A m \in OldMail : server[m] # NoUid => AtHand(m)
    BY DEF SweepUnderWay
  <2>4. at \in {"affordable", "capturing", "staged"} => worker.sweeping
    BY <2>1 DEF SweepStates
  <2>5. worker.sweeping => \A m \in OldMail : server[m] # NoUid /\ server[m] = Uid =>
          IF at \in {"upgrading", "upgraded"} THEN RowsOf(m) # {} ELSE worker.id[1] = m
    BY <2>1, <2>3 DEF AtHand
  <2>6. at \in {"upgrading", "upgraded", "affordable", "capturing", "staged"}
    BY <2>1
  <2>. QED  BY <1>5, <2>2, <2>4, <2>5, <2>6
<1>. QED  BY <1>6, <1>7, <1>8

\* The worker is done with a UID.
LEMMA HandledInSweep ==
  ASSUME TypeInv, SweepInv, UuidsInHand,
         SkipUid \/ SpentMeanwhile \/ DownloadFails \/ Recorded \/ StoreSwept
  PROVE  SweepInv'
<1>. USE DEF TypeInv, SweepInv
<1>1. UNCHANGED <<server, cursor, live>> /\ Handled /\ AtUid /\ worker.at # "idle"
  BY DEF SkipUid, SpentMeanwhile, DownloadFails, Recorded, StoreSwept, Working, AtUid, UidAtHand
<1>2. Uid \in Nat /\ OldMail \subseteq Mail
  BY <1>1, UidOfWorker DEF Mail
<1>3. UidsApart'
  BY <1>1 DEF UidsApart
<1>4. ASSUME DOMAIN rows \subseteq DOMAIN rows', missed \subseteq missed', NEW n, OnlyMaps(n, Uid),
             \A m \in OldMail : server[m] # NoUid /\ server[m] = Uid /\ worker.at = "staged" => n = m,
             worker.at # "staged" => \A id \in DOMAIN rows' : rows'[id].uid = rows[id].uid /\ id \in DOMAIN rows,
             worker.sweeping => \A m \in OldMail \ missed' :
               server[m] # NoUid /\ server[m] = Uid => \E x \in DOMAIN rows' : x[1] = m
      PROVE  SweepInv'
  <2>1. MappedRight'
    <3>1. CASE worker.at = "staged"
      BY <1>1, <1>4, <3>1, MappedKept
    <3>2. CASE worker.at # "staged"
      BY <1>1, <1>4, <3>2 DEF MappedRight
    <3>. QED  BY <3>1, <3>2
  <2>2. SweptOrMissed' /\ SweepStates' /\ SweepUnderWay'
    BY <1>1, <1>4, HandledSweeps
  <2>. QED  BY <1>3, <2>1, <2>2
<1>5. worker.sweeping => \A m \in OldMail : server[m] # NoUid => AtHand(m)
  BY DEF SweepUnderWay
<1>6. CASE SkipUid
  <2>1. rows' = rows /\ missed' = missed /\ worker.at = "next"
    BY <1>6 DEF SkipUid, Working, history
  <2>2. ASSUME worker.sweeping, NEW m \in OldMail, server[m] # NoUid, server[m] = Uid
        PROVE  \E x \in DOMAIN rows' : x[1] = m
    <3>1. m \in MailAt(Uid)
      BY <1>2, <2>2 DEF MailAt
    <3>2. PICK id \in RowsAt(Uid) : TRUE
      BY <1>6, <3>1 DEF SkipUid
    <3>3. RowsOf(m) # {}
      BY <2>2, <3>2, RowsAtOwn
    <3>. QED  BY <2>1, <3>3 DEF RowsOf
  <2>3. OnlyMaps(0, Uid)
    BY <2>1 DEF OnlyMaps
  <2>. QED  BY <1>4, <2>1, <2>2, <2>3
<1>7. CASE SpentMeanwhile \/ DownloadFails
  <2>1. rows' = rows /\ missed \subseteq missed' /\ worker.at # "staged"
    BY <1>7 DEF SpentMeanwhile, DownloadFails
  <2>2. ASSUME worker.sweeping, NEW m \in OldMail \ missed', server[m] # NoUid, server[m] = Uid
        PROVE  \E x \in DOMAIN rows' : x[1] = m
    <3>1. AtHand(m)
      BY <1>5, <2>2
    <3>2. CASE worker.at = "upgrading"
      BY <2>1, <2>2, <3>1, <3>2 DEF AtHand, RowsOf
    <3>3. CASE worker.at # "upgrading"
      <4>1. worker.at \in {"affordable", "capturing"} /\ worker.id[1] \in missed'
        BY <1>7, <3>3 DEF SpentMeanwhile, DownloadFails
      <4>. QED  BY <2>2, <3>1, <4>1 DEF AtHand
    <3>. QED  BY <3>2, <3>3
  <2>3. OnlyMaps(0, Uid)
    BY <2>1 DEF OnlyMaps
  <2>. QED  BY <1>4, <2>1, <2>2, <2>3
<1>8. CASE Recorded
  <2>1. /\ DOMAIN rows' = DOMAIN rows /\ \A id \in DOMAIN rows : rows'[id].uid = rows[id].uid
        /\ missed' = missed /\ worker.at = "upgraded"
    BY <1>8 DEF Recorded, DiskTypes, Row, history
  <2>2. ASSUME worker.sweeping, NEW m \in OldMail, server[m] # NoUid, server[m] = Uid
        PROVE  \E x \in DOMAIN rows' : x[1] = m
    BY <1>5, <2>1, <2>2 DEF AtHand, RowsOf
  <2>3. OnlyMaps(0, Uid)
    BY <2>1 DEF OnlyMaps
  <2>. QED  BY <1>4, <2>1, <2>2, <2>3
<1>9. CASE StoreSwept
  <2>1. worker.at = "staged" /\ worker.sweeping /\ worker.id \in Uuids /\ missed' = missed
    BY <1>9 DEF StoreSwept, UuidsInHand, SweepStates, history
  <2>2. Upserted(worker.id, Archived(Uid)) /\ Archived(Uid) \in Row /\ Archived(Uid).uid = Uid
    BY <1>2, <1>9, RowValues DEF StoreSwept, Stored, Archived, BodyOnly
  <2>3. /\ DOMAIN rows \subseteq DOMAIN rows' /\ OnlyMaps(worker.id[1], Uid)
        /\ \E x \in DOMAIN rows' : x[1] = worker.id[1]
    BY <2>1, <2>2, UpsertedMaps
  <2>4. \A m \in OldMail : server[m] # NoUid /\ server[m] = Uid => worker.id[1] = m
    BY <1>5, <2>1 DEF AtHand
  <2>. QED  BY <1>4, <2>1, <2>3, <2>4
<1>. QED  BY <1>6, <1>7, <1>8, <1>9

LEMMA SweepKept ==
  ASSUME TypeInv, UuidsInHand, SweepInv, [Next]_vars
  PROVE  SweepInv'
<1>1. CASE UNCHANGED vars
  BY <1>1 DEF vars, history, SweepInv, UidsApart, MappedRight, SweptOrMissed, RowsOf, SweepStates,
     SweepUnderWay, Descending, AtHand, Outstanding, Uid
<1>2. CASE Next
  BY <1>2, WorldSweeps, RenumberSweeps, LiveSweeps, ListSweeps, UidSweeps, HandledInSweep
  DEF Next, LiveStep, WorkerStep, GcStep
<1>. QED  BY <1>1, <1>2

-----------------------------------------------------------------------------
(* The theorems *)

LEMMA InvInit == Init => IInv
<1>1. Init => BudgetInv
  BY ArchiveAssumption DEF Init, BudgetInv, UnderWay, Resting, WorkerIdle
<1>. QED  BY <1>1, InitTypes, InitFiles, SweepInit DEF IInv

LEMMA InvStep == IInv /\ [Next]_vars => IInv'
BY TypesKept, FilesKept, BudgetStep, SweepKept DEF IInv, FileInv

LEMMA Invariance == Spec => []IInv
BY InvInit, InvStep, PTL DEF Spec

\* The variables stay within their types, whatever captures, sweeps, purges
\* and GC runs come together.
THEOREM ArchiveTypes == Spec => []ArchiveTypeOK
<1>1. IInv => ArchiveTypeOK
  BY DEF IInv, TypeInv, DiskTypes, ThreadTypes, LiveType, WorkerType, GcType, LiveStates,
         WorkerStates, GcStates, Row, ArchiveTypeOK
<1>. QED  BY <1>1, Invariance, PTL

\* imap/budget.ts: two threads that check the daily budget and spend it in
\* separate steps pass it by one message at most, for every budget and any
\* number of messages.
THEOREM SpentWithinBudget == Spec => []BudgetKept
<1>1. IInv => BudgetKept
  BY ArchiveAssumption DEF IInv, TypeInv, DiskTypes, BudgetInv, UnderWay, BudgetKept
<1>. QED  BY <1>1, Invariance, PTL

\* storage/store.ts:342: a row that names its source has its .eml on disk,
\* through every capture, repair, failed download, purge, crash and GC run,
\* unless the GC took a file written after its walk.
THEOREM ArchivedIsOnDisk == Spec => []SourceOnDisk
<1>1. IInv => SourceOnDisk
  BY DEF IInv, FileInv
<1>. QED  BY <1>1, Invariance, PTL

\* What lies above the watermark has a row: nothing is left behind by a pass
\* that was stopped by the budget, killed or overtaken by live mail, other than
\* what failed to download and what new UIDs put there.
THEOREM NothingIsLeftBehind == Spec => []SweptOrMissed
<1>1. IInv => SweptOrMissed
  BY DEF IInv, SweepInv
<1>. QED  BY <1>1, Invariance, PTL
=============================================================================
