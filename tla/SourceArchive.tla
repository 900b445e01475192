---------------------------- MODULE SourceArchive ----------------------------
(***************************************************************************)
(* How maily comes to hold the raw .eml of every message of a folder: the  *)
(* live capture of new mail on the main thread and the resumable sweep and *)
(* repair pass on the worker thread (backend/src/imap/sync.ts), drawing on *)
(* one daily byte budget (imap/budget.ts), while Purge Trash                *)
(* (cleanup/purge.ts) and the orphan GC (storage/orphanGc.ts) delete files. *)
(* A row is named by its UUID, a pair of the message and a copy number,    *)
(* and that UUID names its file; a capture mints the UUID before the row   *)
(* exists.  Steps end where the code awaits, and the two threads and the   *)
(* process's death interleave between them.                                *)
(*                                                                         *)
(* One folder; mail is numbered by age, and every source has size 1.  The  *)
(* cursor protocol of the sync pass is FolderSync's: here a pass stores    *)
(* the mail above the cursor.  Left out: batching's pauses, attachments,   *)
(* and the GC's ratio brake, which is a choice.                            *)
(***************************************************************************)
EXTENDS Integers, FiniteSets, FiniteSetsExt

CONSTANTS
  OldMail,     \* in the folder, older than the cache window
  WindowMail,  \* in the folder, stored body-only by the first full sync
  NewMail,     \* delivered later
  Anonymous,   \* mail without a Message-ID (and no Gmail id)
  Copies,      \* copy numbers a UUID may take
  FetchBatch,  \* FETCH_BATCH
  Budget,      \* env.dailyDownloadBudgetBytes
  MaxFailures, MaxCrashes, MaxRenumbers, MaxPurges, MaxSearches, MaxGcs  \* bounds

Mail == OldMail \cup WindowMail \cup NewMail

ASSUME ArchiveAssumption ==
  /\ Mail \subseteq Nat \ {0} /\ IsFiniteSet(Mail) /\ Anonymous \subseteq Mail
  /\ \A a \in OldMail, b \in WindowMail \cup NewMail : a < b
  /\ \A a \in WindowMail, b \in NewMail : a < b
  /\ {FetchBatch, Budget} \subseteq Nat \ {0} /\ Copies \in (SUBSET Nat) \ {{}} /\ IsFiniteSet(Copies)
  /\ {MaxFailures, MaxCrashes, MaxRenumbers, MaxPurges, MaxSearches, MaxGcs} \subseteq Nat

VARIABLES
  server,    \* every message's UID in the folder, 0 when it is not there
  rows,      \* the messages rows with their mapping: UUID |-> record
  files,     \* the .eml files on disk, by UUID
  old,       \* those older than the GC's grace window
  spent,     \* today's downloads
  watermark, \* folders.oldest_synced_uid, 0 for null
  cursor,    \* folders.last_uid, one past the highest UID synced
  live,      \* the main thread's capture
  worker,    \* the worker's repair and sweep
  gc,        \* the orphan GC
  purging,   \* Purge Trash between its read and its transaction
  missed,    \* history: mail a sweep came to nothing for, or a renumbering put above the watermark
  clobbered, \* history: files the GC removed after they were written anew
  used       \* how often each bounded thing has happened

disk == <<files, old>>
history == <<missed, clobbered>>
vars == <<server, rows, files, old, spent, watermark, cursor, live, worker, gc, purging,
          missed, clobbered, used>>

Uuids == Mail \X Copies
None == <<0, 0>>
NoUid == 0
Resting == [at |-> "idle", todo |-> {}, id |-> None]
WorkerIdle == [at |-> "idle", todo |-> {}, batch |-> {}, lowest |-> 0, id |-> None, sweeping |-> FALSE]
GcIdle == [at |-> "idle", refs |-> {}, doomed |-> {}]

BodyOnly(uid) == [source |-> FALSE, uid |-> uid, purged |-> FALSE]
Archived(uid) == [BodyOnly(uid) EXCEPT !.source = TRUE]

Init ==
  /\ server = [m \in Mail |-> IF m \in NewMail THEN NoUid ELSE m]
  /\ rows = [id \in WindowMail \X {CHOOSE c \in Copies : \A d \in Copies : c <= d} |-> BodyOnly(id[1])]
  /\ files = {} /\ old = {} /\ spent = 0 /\ watermark = 0
  /\ cursor = Max({0} \cup OldMail \cup WindowMail) + 1
  /\ live = Resting /\ worker = WorkerIdle /\ gc = GcIdle /\ purging = [id |-> None, source |-> FALSE]
  /\ missed = {} /\ clobbered = {}
  /\ used = [failures |-> 0, crashes |-> 0, renumbers |-> 0, purges |-> 0, searches |-> 0, gcs |-> 0]

Uses(what) == used' = [used EXCEPT ![what] = @ + 1]
\* Mutant: the last byte is counted twice.
CanDownloadOnce == spent <= Budget
CanDownload == spent < Budget

-----------------------------------------------------------------------------
(* Rows and files *)

RowsOf(m) == {id \in DOMAIN rows : id[1] = m}
\* findExistingId: by the message's own identity, when it has one.
Known(m) == IF m \in Anonymous THEN {} ELSE RowsOf(m)
\* messageIdForUid
RowAt(uid) == {id \in DOMAIN rows : rows[id].uid = uid}
MailAt(uid) == {m \in Mail : server[m] = uid}

\* A UUID no row, no file and no pending deletion knows; they are alike, so
\* the set has one of them.
Fresh(m) ==
  LET unknown == ({m} \X Copies) \ (DOMAIN rows \cup files \cup gc.doomed \cup {live.id, worker.id})
  IN {id \in unknown : \A other \in unknown : id[2] <= other[2]}

Inserted(id, row) == [x \in DOMAIN rows \cup {id} |-> IF x = id THEN row ELSE rows[x]]
\* touchKnownMessage, as far as the mapping goes.
Linked(id, uid) == [rows EXCEPT ![id].uid = uid]

\* upsertMessage looks for the message's row again; `id` is stored only when
\* there is none.
Upserted(id, row) ==
  \/ Known(id[1]) = {} /\ rows' = Inserted(id, row)
  \/ \E known \in Known(id[1]) : rows' = Linked(known, row.uid)

\* writeSourceStream: the file is there, and it is new.
Written(id) == files' = files \cup {id} /\ old' = old \ {id}
Removed(ids) == files' = files \ ids /\ old' = old \ ids

-----------------------------------------------------------------------------
(* The provider, the clock and the process *)

HighestUid == Max({NoUid} \cup {server[m] : m \in Mail})

Arrive(m) ==
  /\ m \in NewMail /\ server[m] = NoUid /\ \A n \in NewMail : n < m => server[n] # NoUid
  /\ \A c \in Copies : <<m, c>> \notin DOMAIN rows
  /\ server' = [server EXCEPT ![m] = (IF HighestUid >= cursor THEN HighestUid + 1 ELSE cursor)]
  /\ UNCHANGED <<rows, disk, spent, watermark, cursor, live, worker, gc, purging, history, used>>

\* Expunged; its row is the sync pass's affair.
Leave(m) ==
  /\ m \in OldMail /\ server[m] # NoUid
  /\ server' = [server EXCEPT ![m] = NoUid]
  /\ UNCHANGED <<rows, disk, spent, watermark, cursor, live, worker, gc, purging, history, used>>

\* UTC midnight.
DayRolls ==
  /\ spent > 0 /\ spent' = 0
  /\ UNCHANGED <<server, rows, disk, watermark, cursor, live, worker, gc, purging, history, used>>

\* A file outlives the grace window; no download and no GC run takes that long.
\* Only a GC that is still to come can tell.
Ages(id) ==
  /\ used.gcs < MaxGcs /\ gc.at = "idle"
  /\ id \in files \ old /\ id \notin {live.id, worker.id}
  /\ old' = old \cup {id}
  /\ UNCHANGED <<server, rows, files, spent, watermark, cursor, live, worker, gc, purging, history, used>>

Crash ==
  /\ used.crashes < MaxCrashes /\ Uses("crashes")
  /\ live' = Resting /\ worker' = WorkerIdle /\ gc' = GcIdle
  /\ purging' = [id |-> None, source |-> FALSE]
  /\ UNCHANGED <<server, rows, disk, spent, watermark, cursor, history>>

-----------------------------------------------------------------------------
(* The main thread: incremental passes capture live *)

LiveIdle == live.at = "idle"

\* resyncFolder lists the UIDs from the cursor on.
StartPass ==
  /\ LiveIdle
  /\ LET new == {server[m] : m \in Mail} \ 0 .. cursor - 1
     IN new # {} /\ live' = [Resting EXCEPT !.at = "listed", !.todo = new]
  /\ UNCHANGED <<server, rows, disk, spent, watermark, cursor, worker, gc, purging, history, used>>

NextUid == Min(live.todo)
PassEnds == live' = Resting /\ cursor' = IF NextUid + 1 > cursor THEN NextUid + 1 ELSE cursor
Advance == IF live.todo # {NextUid}
           THEN live' = [live EXCEPT !.at = "listed", !.todo = @ \ {NextUid}, !.id = None] /\ UNCHANGED cursor
           ELSE PassEnds

\* fetchAndStore: a known message is only touched.
Touch(m) ==
  /\ live.at = "listed" /\ m \in MailAt(NextUid)
  /\ \E id \in Known(m) : rows' = Linked(id, NextUid)
  /\ Advance
  /\ UNCHANGED <<server, disk, spent, watermark, worker, gc, purging, history, used>>

\* captureFullSource: the download of a message no row has.
Capture(m) ==
  /\ live.at = "listed" /\ m \in MailAt(NextUid) /\ Known(m) = {}
  /\ CanDownload
  /\ \E id \in Fresh(m) : live' = [live EXCEPT !.at = "capturing", !.id = id]
  /\ UNCHANGED <<server, rows, disk, spent, watermark, cursor, worker, gc, purging, history, used>>

Captured ==
  /\ live.at = "capturing"
  /\ Written(live.id) /\ spent' = spent + 1
  /\ live' = [live EXCEPT !.at = "staged"]
  /\ UNCHANGED <<server, rows, watermark, cursor, worker, gc, purging, history, used>>

\* A staged file that is not stored is discarded.
Stored(id, uid) ==
  /\ Upserted(id, Archived(uid))
  /\ IF Known(id[1]) = {} THEN UNCHANGED disk ELSE Removed({id})

StoreCaptured ==
  /\ live.at = "staged"
  /\ Stored(live.id, NextUid) /\ Advance
  /\ UNCHANGED <<server, spent, watermark, worker, gc, purging, history, used>>

\* Without budget, or when the fetch failed, the message is stored body-only.
StoreUnaffordable(m) ==
  /\ live.at = "listed" /\ m \in MailAt(NextUid) /\ Known(m) = {}
  /\ ~CanDownload
  /\ \E id \in Fresh(m) : rows' = Inserted(id, BodyOnly(NextUid))
  /\ Advance
  /\ UNCHANGED <<server, disk, spent, watermark, worker, gc, purging, history, used>>

CaptureFails ==
  /\ live.at = "capturing" /\ used.failures < MaxFailures /\ Uses("failures")
  /\ Upserted(live.id, BodyOnly(NextUid))
  /\ Removed({live.id}) /\ Advance
  /\ UNCHANGED <<server, spent, watermark, worker, gc, purging, history>>

\* The connection is lost: the cursor stays, and the pass is run again.
Dropped ==
  /\ ~LiveIdle /\ used.crashes < MaxCrashes /\ Uses("crashes")
  /\ live' = Resting
  /\ UNCHANGED <<server, rows, disk, spent, watermark, cursor, worker, gc, purging, history>>

\* The search fallback stores a hit, of any age, body-only.
SearchFallback(m) ==
  /\ used.searches < MaxSearches /\ Uses("searches")
  /\ server[m] # NoUid
  /\ \E id \in Fresh(m) : Upserted(id, BodyOnly(server[m]))
  /\ UNCHANGED <<server, disk, spent, watermark, cursor, live, worker, gc, purging, history>>

\* UIDVALIDITY changes: mappings go, and the full sync stores the cache window
\* under its new UIDs.  The watermark is left as it was, whatever lies above
\* it now.  The pass between the two is FolderSync's.
InWindow == {m \in Mail \ OldMail : server[m] # NoUid}
Renumber ==
  /\ used.renumbers < MaxRenumbers /\ Uses("renumbers")
  /\ LiveIdle /\ worker.at = "idle" /\ gc.at = "idle" /\ InWindow \subseteq {id[1] : id \in DOMAIN rows}
  /\ server' = [m \in Mail |-> IF server[m] = NoUid THEN NoUid ELSE server[m] + Cardinality(Mail)]
  /\ rows' = [id \in DOMAIN rows |-> [rows[id] EXCEPT !.uid =
                IF id[1] \in InWindow \ Anonymous THEN server'[id[1]] ELSE NoUid]]
  /\ cursor' = HighestUid + Cardinality(Mail) + 1
  /\ missed' = missed \cup {m \in OldMail : watermark \in 1 .. server'[m] /\ RowsOf(m) = {}}
  /\ UNCHANGED <<disk, spent, watermark, live, worker, gc, purging, clobbered>>

-----------------------------------------------------------------------------
(* Purge Trash, for a message in this folder: read, then write *)

PurgeReads(id) ==
  /\ purging.id = None /\ used.purges < MaxPurges /\ Uses("purges")
  /\ id \in DOMAIN rows /\ ~rows[id].purged
  /\ purging' = [id |-> id, source |-> rows[id].source]
  /\ UNCHANGED <<server, rows, disk, spent, watermark, cursor, live, worker, gc, history>>

\* Mutant: source_path is not cleared.
PurgeKeepsPath ==
  /\ purging.id # None
  /\ rows' = [rows EXCEPT ![purging.id].purged = TRUE]
  /\ Removed({purging.id})
  /\ purging' = [id |-> None, source |-> FALSE]
  /\ UNCHANGED <<server, spent, watermark, cursor, live, worker, gc, history, used>>

\* Only a file the read knew of is unlinked, and a failing unlink is let go.
PurgeWrites ==
  /\ purging.id # None
  /\ rows' = [rows EXCEPT ![purging.id].purged = TRUE, ![purging.id].source = FALSE]
  /\ \/ purging.source /\ Removed({purging.id})
     \/ UNCHANGED disk
  /\ purging' = [id |-> None, source |-> FALSE]
  /\ UNCHANGED <<server, spent, watermark, cursor, live, worker, gc, history, used>>

-----------------------------------------------------------------------------
(* The worker: repair, then sweep *)

\* Mutant: no repair pass.
NoRepair == {}

Repairable == {rows[id].uid : id \in {x \in DOMAIN rows : ~rows[x].source /\ ~rows[x].purged}} \ {NoUid}

\* runSweep and missingSourceRefs
StartSweep ==
  /\ worker.at = "idle" /\ CanDownload
  /\ worker' = [WorkerIdle EXCEPT !.at = "next", !.todo = Repairable]
  /\ UNCHANGED <<server, rows, disk, spent, watermark, cursor, live, gc, purging, history, used>>

\* sweepFolderSource lists what lies below the watermark, newest first.
Ceiling == (IF watermark = 0 THEN HighestUid + 1 ELSE watermark) - 1
Below == {u \in 1 .. Ceiling : MailAt(u) # {}}

RepairEnds ==
  /\ worker.at = "next" /\ ~worker.sweeping
  /\ worker.todo = {} \/ ~CanDownload
  /\ IF CanDownload /\ Below # {}
     THEN /\ worker' = [worker EXCEPT !.sweeping = TRUE, !.todo = Below]
          /\ UNCHANGED watermark
     ELSE /\ worker' = WorkerIdle
          /\ watermark' = IF CanDownload /\ Ceiling > 0 THEN 1 ELSE watermark
  /\ UNCHANGED <<server, rows, disk, spent, cursor, live, gc, purging, history, used>>

Highest(n, uids) == {u \in uids : Cardinality({v \in uids : v > u}) < n}

\* The next batch is fetched; with the budget spent, or all done, the pass ends.
NextBatch ==
  /\ worker.at = "next" /\ worker.sweeping /\ worker.batch = {}
  /\ IF worker.todo = {} \/ ~CanDownload
     THEN /\ worker' = WorkerIdle
          /\ watermark' = IF worker.todo = {} THEN 1 ELSE watermark
     ELSE /\ LET batch == Highest(FetchBatch, worker.todo)
             IN worker' = [worker EXCEPT !.lowest = 0, !.batch = batch, !.todo = @ \ batch]
          /\ UNCHANGED watermark
  /\ UNCHANGED <<server, rows, disk, spent, cursor, live, gc, purging, history, used>>

Working == worker.at = "next" /\ IF worker.sweeping THEN worker.batch # {} ELSE worker.todo # {}
Uid == IF worker.sweeping THEN Max(worker.batch) ELSE Min(worker.todo)
\* The rows a UID's message is found by; a repair knows its row.
RowsAt(uid) ==
  LET found == IF worker.sweeping THEN UNION {Known(m) : m \in MailAt(uid)} ELSE {}
  IN IF found # {} THEN found ELSE RowAt(uid)

\* The UID is handled; the watermark moves when its batch is done.
Handled ==
  IF ~worker.sweeping
  THEN worker' = [worker EXCEPT !.at = "next", !.todo = @ \ {Uid}, !.id = None] /\ UNCHANGED watermark
  ELSE /\ worker' = [worker EXCEPT !.at = "next", !.batch = @ \ {Uid}, !.lowest = Uid, !.id = None]
       /\ watermark' = IF worker.batch = {Uid} THEN Uid ELSE watermark

\* Gone, or archived already.
SkipUid ==
  /\ Working
  /\ MailAt(Uid) = {} \/ \E id \in RowsAt(Uid) : rows[id].source
  /\ Handled
  /\ UNCHANGED <<server, rows, disk, spent, cursor, live, gc, purging, history, used>>

\* Mutant: a sweep the budget stops moves the watermark past the UID at hand.
BudgetStopPast ==
  /\ Working /\ worker.sweeping /\ ~CanDownload
  /\ MailAt(Uid) # {} /\ \A id \in RowsAt(Uid) : ~rows[id].source
  /\ worker' = WorkerIdle
  /\ watermark' = Uid
  /\ UNCHANGED <<server, rows, disk, spent, cursor, live, gc, purging, history, used>>

\* No budget: a repair stops; a sweep stops too, above the last UID handled.
BudgetStop ==
  /\ Working /\ worker.sweeping /\ ~CanDownload
  /\ MailAt(Uid) # {} /\ \A id \in RowsAt(Uid) : ~rows[id].source
  /\ worker' = WorkerIdle
  /\ watermark' = IF worker.lowest # 0 THEN worker.lowest ELSE watermark
  /\ UNCHANGED <<server, rows, disk, spent, cursor, live, gc, purging, history, used>>

\* archiveSourceForExisting: download over the row's own path.
Upgrade ==
  /\ Working /\ CanDownload
  /\ \E id \in RowsAt(Uid) : ~rows[id].source /\ worker' = [worker EXCEPT !.at = "upgrading", !.id = id]
  /\ UNCHANGED <<server, rows, disk, spent, watermark, cursor, live, gc, purging, history, used>>

\* Mail without a row is captured.  captureFullSource asks for budget a second
\* time: what the main thread spent in between makes it return null.
CaptureOld ==
  /\ Working /\ worker.sweeping /\ CanDownload /\ RowsAt(Uid) = {}
  /\ \E m \in MailAt(Uid) : \E id \in Fresh(m) : worker' = [worker EXCEPT !.at = "affordable", !.id = id]
  /\ UNCHANGED <<server, rows, disk, spent, watermark, cursor, live, gc, purging, history, used>>

CaptureStarts ==
  /\ worker.at = "affordable" /\ CanDownload
  /\ worker' = [worker EXCEPT !.at = "capturing"]
  /\ UNCHANGED <<server, rows, disk, spent, watermark, cursor, live, gc, purging, history, used>>

SpentMeanwhile ==
  /\ worker.at = "affordable" /\ ~CanDownload
  /\ missed' = missed \cup {worker.id[1]}
  /\ Handled
  /\ UNCHANGED <<server, rows, disk, spent, cursor, live, gc, purging, clobbered, used>>

Downloaded ==
  /\ worker.at \in {"upgrading", "capturing"}
  /\ Written(worker.id) /\ spent' = spent + 1
  /\ worker' = [worker EXCEPT !.at = IF @ = "upgrading" THEN "upgraded" ELSE "staged"]
  /\ UNCHANGED <<server, rows, watermark, cursor, live, gc, purging, history, used>>

\* A failed stream takes the message's directory with it; a message that had
\* no row is passed over.
DownloadFails ==
  /\ worker.at \in {"upgrading", "capturing"} /\ used.failures < MaxFailures /\ Uses("failures")
  /\ Removed({worker.id})
  /\ missed' = IF worker.at = "capturing" THEN missed \cup {worker.id[1]} ELSE missed
  /\ Handled
  /\ UNCHANGED <<server, rows, spent, cursor, live, gc, purging, clobbered>>

\* setMessageSourcePath
Recorded ==
  /\ worker.at = "upgraded"
  /\ rows' = [rows EXCEPT ![worker.id].source = TRUE]
  /\ Handled
  /\ UNCHANGED <<server, disk, spent, cursor, live, gc, purging, history, used>>

StoreSwept ==
  /\ worker.at = "staged"
  /\ Stored(worker.id, Uid) /\ Handled
  /\ UNCHANGED <<server, spent, cursor, live, gc, purging, history, used>>

-----------------------------------------------------------------------------
(* The orphan GC: references, walk and stat, unlinks *)

Referenced == {id \in DOMAIN rows : rows[id].source}

GcReads ==
  /\ gc.at = "idle" /\ files # {} /\ used.gcs < MaxGcs /\ Uses("gcs")
  /\ gc' = [GcIdle EXCEPT !.at = "walking", !.refs = Referenced]
  /\ UNCHANGED <<server, rows, disk, spent, watermark, cursor, live, worker, purging, history>>

\* The safety brake may stop it here.
GcStats ==
  /\ gc.at = "walking"
  /\ \/ gc' = GcIdle
     \/ old \ gc.refs # {} /\ gc' = [GcIdle EXCEPT !.at = "unlinking", !.doomed = old \ gc.refs]
  /\ UNCHANGED <<server, rows, disk, spent, watermark, cursor, live, worker, purging, history, used>>

GcUnlinks(id) ==
  /\ gc.at = "unlinking" /\ id \in gc.doomed
  /\ Removed({id})
  /\ clobbered' = IF id \in files \ old THEN clobbered \cup {id} ELSE clobbered
  /\ gc' = IF gc.doomed = {id} THEN GcIdle ELSE [gc EXCEPT !.doomed = @ \ {id}]
  /\ UNCHANGED <<server, rows, spent, watermark, cursor, live, worker, purging, missed, used>>

LiveStep == \/ StartPass \/ Captured \/ StoreCaptured
            \/ \E m \in Mail : Touch(m) \/ Capture(m) \/ StoreUnaffordable(m)
WorkerStep == \/ StartSweep \/ RepairEnds \/ NextBatch \/ SkipUid \/ BudgetStop \/ Upgrade
              \/ CaptureOld \/ CaptureStarts \/ SpentMeanwhile \/ Downloaded \/ Recorded \/ StoreSwept
GcStep == GcStats \/ \E id \in Uuids : GcUnlinks(id)

Next ==
  \/ LiveStep \/ WorkerStep \/ GcStep \/ GcReads \/ DayRolls \/ Crash \/ Dropped
  \/ Renumber \/ PurgeWrites \/ CaptureFails \/ DownloadFails
  \/ \E m \in Mail : Arrive(m) \/ Leave(m) \/ SearchFallback(m)
  \/ \E id \in Uuids : Ages(id) \/ PurgeReads(id)

Spec == Init /\ [][Next]_vars

\* Every thread goes on with what it started, the sweep timer fires for ever
\* and every day ends.
FairSpec == Spec /\ WF_vars(LiveStep) /\ WF_vars(WorkerStep) /\ WF_vars(DayRolls)

-----------------------------------------------------------------------------
(* Properties *)

ArchiveTypeOK ==
  /\ server \in [Mail -> Nat] /\ DOMAIN rows \subseteq Uuids
  /\ \A id \in DOMAIN rows : rows[id] \in [source : BOOLEAN, uid : Nat, purged : BOOLEAN]
  /\ old \subseteq files /\ files \subseteq Uuids
  /\ {spent, watermark, cursor, worker.lowest} \subseteq Nat
  /\ live.at \in {"idle", "listed", "capturing", "staged"} /\ live.id \in Uuids \cup {None}
  /\ worker.at \in {"idle", "next", "upgrading", "upgraded", "affordable", "capturing", "staged"}
  /\ worker.id \in Uuids \cup {None} /\ purging.id \in Uuids \cup {None}
  /\ gc.at \in {"idle", "walking", "unlinking"} /\ gc.doomed \subseteq Uuids

\* store.ts:342, "Non-null => the raw .eml is on disk": a row that says it is
\* archived has its file, whatever captures, repairs, purges, GC runs and
\* crashes came together, except where the GC removed a rewritten file.
SourceOnDisk == \A id \in DOMAIN rows : rows[id].source => id \in files \cup clobbered

\* budget.ts:3: the two threads check the budget and spend it in separate
\* steps, so each may pass it by the one message it is downloading, never more.
BudgetKept == spent <= Budget + 1

\* sync.ts:408: the watermark never passes mail that was not handled, whether
\* a pass was stopped by the budget, killed or overtaken by live mail: what is
\* above it has a row, unless a capture of it came to nothing or new UIDs put
\* it there.
SweptOrMissed ==
  watermark > 0 =>
    \A m \in OldMail \ missed : server[m] >= watermark => RowsOf(m) # {}

Unarchived(id) == id \in DOMAIN rows /\ ~rows[id].source /\ ~rows[id].purged
Fetchable(id) == Unarchived(id) /\ rows[id].uid # NoUid /\ server[id[1]] = rows[id].uid

\* sync.ts:549, the "fully synced" guarantee: a message stored body-only, or
\* whose capture failed or was cut short, is archived in the end.
FullySynced == \A id \in Uuids : Fetchable(id) ~> ~Fetchable(id)

\* sync.ts:401: the sweep archives every message that lacks a row too.
SweptHaveRows == watermark > 0 => \A m \in OldMail : server[m] >= watermark => RowsOf(m) # {}

\* purge.ts:9: the provider's copy of purged mail is not downloaded again.
PurgedStaysReclaimed == \A id \in DOMAIN rows : rows[id].purged => ~rows[id].source

\* resync.ts:126, "A full rebuild remaps everything": after a UIDVALIDITY
\* change every message the folder has, and maily has a row of, is mapped.
RebuildRemaps ==
  LiveIdle => \A id \in DOMAIN rows : server[id[1]] \in 1 .. cursor - 1 => rows[id].uid = server[id[1]]

\* orphanGc.ts:32, "Files younger than this are never touched".
YoungFilesStay == clobbered = {}

\* resync.ts:137, "dedup makes any overlap harmless": every message has one row.
OneRowForAll == \A m \in Mail : Cardinality(RowsOf(m)) <= 1
=============================================================================
