-------------------------- MODULE MessageLifecycle --------------------------
(***************************************************************************)
(* What becomes of one account's mail outside the undo outbox: the cleanup *)
(* trash queue (cleanup/trashQueue.ts), restore and delete forever         *)
(* (routes/api/message-actions.ts), Empty Trash (cleanup/purge.ts) and     *)
(* detach to local (detach/job.ts), all reaching the provider over         *)
(* connections of their own while sync and other clients go on.            *)
(*                                                                         *)
(* Every one reads a placement, awaits the provider, and writes to the     *)
(* database what it then takes for granted: the awaits are the steps here. *)
(* Sync is coarse: a new UID is sighted, or a mapping that is gone is      *)
(* dropped, in one step; FolderSync has the passes in full.  The account   *)
(* has an engine and its three folders, and one batch holds all due rows.  *)
(***************************************************************************)
EXTENDS Naturals, FiniteSets

CONSTANTS Msgs,
          Archived,     \* messages whose .eml is on disk
          Actions,      \* the routes in this instance
          UidPlus,      \* does the server report the UID a MOVE assigned?
          MaxAttempts,  \* MAX_ATTEMPTS
          MaxUid,       \* bound: places a message's copy goes through
          MaxExecutes,  \* bound: cleanups of one message
          MaxRequests,  \* bound: restore and forever requests, in all
          MaxCrashes    \* bound: restarts

ASSUME LifecycleAssumption ==
  /\ Archived \subseteq Msgs
  /\ Actions \subseteq {"cleanup", "restore", "forever", "empty", "detach", "other"}
  /\ UidPlus \in BOOLEAN
  /\ MaxAttempts \in Nat \ {0}
  /\ MaxUid \in Nat \ {0}
  /\ {MaxExecutes, MaxRequests, MaxCrashes} \subseteq Nat

VARIABLES server,    \* provider: folder and UID of each message's copy
          seen,      \* the last UID of it that sync has sighted
          maps,      \* message_folders
          tomb,      \* deletedAt is set
          purged,    \* purgedAt is set
          local,     \* localOnly
          row,       \* cleanup_queue: the message's one row
          left,      \* batches the running trash pass has yet to move
          todo,      \* batches the running detach has yet to move
          calls,     \* provider calls outstanding
          executed,  \* bound: cleanups of each message
          requests,  \* bound
          crashes,   \* bound
          stray      \* history: messages one of the known gaps has hit

mailbox == <<maps, tomb, purged, local>>
jobs    == <<row, left, todo, calls>>
bounds  == <<executed, requests, crashes>>
vars    == <<server, seen, mailbox, jobs, bounds, stray>>

Folders == {"archive", "inbox", "trash"}
At(f, u) == [folder |-> f, uid |-> u]
NoUid == 0
Gone == At("nowhere", NoUid)
NoRow == [status |-> "none", attempts |-> 0, cooling |-> FALSE]

\* serverPlacement: detached first, then a mapping that carries a UID, by path.
LocalOnly == At("local-only", NoUid)
Unplaced  == At("unplaced", NoUid)
PathOrder == [f \in Folders |-> CASE f = "archive" -> 1 [] f = "inbox" -> 2 [] f = "trash" -> 3]
Placement(m) ==
  LET placed == {x \in maps[m] : x.uid # NoUid} IN
  IF local[m] THEN LocalOnly
  ELSE IF placed = {} THEN Unplaced
  ELSE CHOOSE x \in placed : \A y \in placed : PathOrder[x.folder] <= PathOrder[y.folder]

-----------------------------------------------------------------------------
(* Provider calls *)

Item(m, x) == [msg |-> m, folder |-> x.folder, uid |-> x.uid]
Call(by, items, dest) ==
  [by |-> by, items |-> items, dest |-> dest, done |-> FALSE, got |-> [m \in Msgs |-> NoUid]]
By(who) == {c \in calls : c.by = who}

\* The server MOVEs or expunges the items it still has under their UIDs; a UID
\* it no longer has is no error.
Perform(c) ==
  LET hit == {i.msg : i \in {x \in c.items : server[x.msg] = At(x.folder, x.uid)}} IN
  /\ ~ c.done
  /\ \A m \in hit : server[m].uid < MaxUid
  /\ server' = [m \in Msgs |-> IF m \notin hit THEN server[m]
                               ELSE IF c.dest = "nowhere" THEN Gone
                               ELSE At(c.dest, server[m].uid + 1)]
  /\ calls' = (calls \ {c}) \cup
       {[c EXCEPT !.done = TRUE,
                  !.got = [m \in Msgs |-> IF m \in hit /\ UidPlus THEN server[m].uid + 1 ELSE NoUid]]}
  /\ UNCHANGED <<seen, mailbox, row, left, todo, bounds, stray>>

Of(c) == {i.msg : i \in c.items}

\* relinkMessageToFolder, of the messages of an answered MOVE.
Relinked(c) == [m \in Msgs |-> IF m \in Of(c) THEN {At(c.dest, c.got[m])} ELSE maps[m]]

\* The answer comes when sync already knows a later place of the message.
Overtaken(c) == {m \in Of(c) : seen[m] > c.got[m]}

-----------------------------------------------------------------------------
(* The trash queue *)

Due(rw) == {m \in Msgs : rw[m].status = "pending" /\ ~ rw[m].cooling}
Busy == left # {} \/ By("queue") # {}
SetStatus(rw, S, s) == [m \in Msgs |-> IF m \in S THEN [rw[m] EXCEPT !.status = s] ELSE rw[m]]

Batches(S) == {{Item(m, Placement(m)) : m \in {n \in S : Placement(n).folder = f}} : f \in Folders} \ {{}}

\* runTrashQueueOnce up to its first await: local moves, nothing to move, and
\* the rest grouped by source folder.
Pass(rw) ==
  LET here == {m \in Due(rw) : Placement(m) = LocalOnly}
      idle == {m \in Due(rw) : Placement(m).folder \in {"unplaced", "trash"}}
  IN /\ row' = SetStatus(rw, here \cup idle, "done")
     /\ maps' = [m \in Msgs |-> IF m \in here THEN {At("trash", NoUid)} ELSE maps[m]]
     /\ left' = Batches(Due(rw) \ (here \cup idle))

\* drain, from its timer.
Drain ==
  /\ ~ Busy
  /\ Due(row) # {}
  /\ Pass(row)
  /\ UNCHANGED <<server, seen, tomb, purged, local, todo, calls, bounds, stray>>

\* enqueueTrash: a message has one row, whatever has become of it.
Enqueued(S) == [m \in Msgs |-> IF m \in S /\ row[m].status = "none"
                               THEN [NoRow EXCEPT !.status = "pending"] ELSE row[m]]

\* POST /api/cleanup/execute: hide at once, queue, nudge.
Execute(S) ==
  LET queued == {m \in S : row[m].status = "none"} IN
  /\ "cleanup" \in Actions
  /\ S # {} /\ \A m \in S : ~ tomb[m] /\ executed[m] < MaxExecutes
  /\ tomb' = [m \in Msgs |-> tomb[m] \/ m \in S]
  /\ executed' = [m \in Msgs |-> executed[m] + (IF m \in S THEN 1 ELSE 0)]
  /\ IF queued # {} /\ ~ Busy THEN Pass(Enqueued(S))
     ELSE row' = Enqueued(S) /\ UNCHANGED <<maps, left>>
  /\ stray' = stray \cup {m \in S : row[m].status \in {"done", "dead"}}
  /\ UNCHANGED <<server, seen, purged, local, todo, calls, requests, crashes>>

NextBatch ==
  /\ By("queue") = {}
  /\ \E b \in left : /\ calls' = calls \cup {Call("queue", b, "trash")}
                     /\ left' = left \ {b}
  /\ UNCHANGED <<server, seen, mailbox, row, todo, bounds, stray>>

\* moveBatchToFolderOnServer resolves: relink, then markDone.
QueueMoved(c) ==
  /\ c.by = "queue" /\ c.done
  /\ maps' = Relinked(c)
  /\ row' = SetStatus(row, Of(c), "done")
  /\ stray' = stray \cup Overtaken(c)
  /\ calls' = calls \ {c}
  /\ UNCHANGED <<server, seen, tomb, purged, local, left, todo, bounds>>

Failed(r) ==
  IF r.attempts + 1 >= MaxAttempts
  THEN [status |-> "dead", attempts |-> r.attempts + 1, cooling |-> FALSE]
  ELSE [status |-> "pending", attempts |-> r.attempts + 1, cooling |-> TRUE]

\* Mutant: a dead row leaves the tombstone.
MarkFailedHidden(S) ==
  row' = [m \in Msgs |-> IF m \in S THEN Failed(row[m]) ELSE row[m]] /\ UNCHANGED tomb

\* Mutant: never dead.
MarkFailedForever(S) ==
  row' = [m \in Msgs |-> IF m \in S THEN [row[m] EXCEPT !.cooling = TRUE] ELSE row[m]] /\ UNCHANGED tomb

\* markFailed: back off, or give up and take the tombstone off.
MarkFailed(S) ==
  LET rw == [m \in Msgs |-> IF m \in S THEN Failed(row[m]) ELSE row[m]] IN
  /\ row' = rw
  /\ tomb' = [m \in Msgs |-> tomb[m] /\ ~ (m \in S /\ rw[m].status = "dead")]

\* The connection fails, before the server did it or after.
QueueFails(c) ==
  /\ c.by = "queue"
  /\ MarkFailed(Of(c))
  /\ calls' = calls \ {c}
  /\ UNCHANGED <<server, seen, maps, purged, local, left, todo, bounds, stray>>

BackoffElapses(m) ==
  /\ row[m].cooling
  /\ row' = [row EXCEPT ![m].cooling = FALSE]
  /\ UNCHANGED <<server, seen, mailbox, left, todo, calls, bounds, stray>>

-----------------------------------------------------------------------------
(* Restore, delete forever, Empty Trash *)

\* POST /api/messages/:id/restore
Restore(m) ==
  LET x == Placement(m) IN
  /\ "restore" \in Actions /\ requests < MaxRequests
  /\ x # Unplaced
  /\ requests' = requests + 1
  /\ IF x = LocalOnly
     THEN /\ maps' = [maps EXCEPT ![m] = {At("inbox", NoUid)}]
          /\ tomb' = [tomb EXCEPT ![m] = FALSE]
          /\ UNCHANGED calls
     ELSE /\ calls' = calls \cup {Call("restore", {Item(m, x)}, "inbox")}
          /\ UNCHANGED <<maps, tomb>>
  /\ UNCHANGED <<server, seen, purged, local, row, left, todo, executed, crashes, stray>>

Restored(c) ==
  /\ c.by = "restore" /\ c.done
  /\ maps' = Relinked(c)
  /\ tomb' = [m \in Msgs |-> tomb[m] /\ m \notin Of(c)]
  /\ stray' = stray \cup Overtaken(c)
  /\ calls' = calls \ {c}
  /\ UNCHANGED <<server, seen, purged, local, row, left, todo, bounds>>

\* purgeRows
Purge(S) ==
  /\ tomb' = [m \in Msgs |-> tomb[m] \/ m \in S]
  /\ purged' = [m \in Msgs |-> purged[m] \/ m \in S]

\* DELETE /api/messages/:id/forever
Forever(m) ==
  LET there == {x \in maps[m] : x.folder = "trash" /\ x.uid # NoUid} IN
  /\ "forever" \in Actions /\ requests < MaxRequests
  /\ local[m] \/ there # {}
  /\ requests' = requests + 1
  /\ IF local[m] THEN Purge({m}) /\ UNCHANGED calls
     ELSE /\ calls' = calls \cup {Call("forever", {Item(m, x) : x \in there}, "nowhere")}
          /\ UNCHANGED <<tomb, purged>>
  /\ UNCHANGED <<server, seen, maps, local, row, left, todo, executed, crashes, stray>>

\* Mutant: a failed EXPUNGE is taken for one that found nothing.
ErasedAnyhow(c) ==
  /\ c.by = "forever"
  /\ Purge(Of(c))
  /\ calls' = calls \ {c}
  /\ UNCHANGED <<server, seen, maps, local, row, left, todo, bounds, stray>>

Erased(c) ==
  /\ c.by = "forever" /\ c.done
  /\ Purge(Of(c))
  /\ calls' = calls \ {c}
  /\ UNCHANGED <<server, seen, maps, local, row, left, todo, bounds, stray>>

\* Either answers 502.
RequestFails(c) ==
  /\ c.by \in {"restore", "forever"}
  /\ calls' = calls \ {c}
  /\ UNCHANGED <<server, seen, mailbox, row, left, todo, bounds, stray>>

InTrash == {m \in Msgs : ~ purged[m] /\ \E x \in maps[m] : x.folder = "trash"}

\* purgeTrashFolder
EmptyTrash ==
  /\ "empty" \in Actions
  /\ InTrash # {}
  /\ Purge(InTrash)
  /\ UNCHANGED <<server, seen, maps, local, jobs, bounds, stray>>

-----------------------------------------------------------------------------
(* Detach to local *)

Detaching == todo # {} \/ By("detach") # {}
Localised(S) == [m \in Msgs |-> local[m] \/ m \in S]

\* listDetachCandidates with a source on disk.
Candidates == {m \in Archived : ~ tomb[m] /\ ~ local[m] /\ ~ purged[m]}

\* startDetach, and runDetach up to its connection.
StartDetach(S) ==
  LET moving == {m \in S : Placement(m).folder \notin {"unplaced", "trash"}} IN
  /\ "detach" \in Actions
  /\ ~ Detaching
  /\ S # {}
  /\ local' = Localised(S \ moving)
  /\ todo' = Batches(moving)
  /\ UNCHANGED <<server, seen, maps, tomb, purged, row, left, calls, bounds, stray>>

NextDetach ==
  /\ By("detach") = {}
  /\ \E b \in todo : /\ calls' = calls \cup {Call("detach", b, "trash")}
                     /\ todo' = todo \ {b}
  /\ UNCHANGED <<server, seen, mailbox, row, left, bounds, stray>>

\* Mutant: a batch is flagged whether or not its MOVE succeeded.
DetachedAnyhow(c) ==
  /\ c.by = "detach"
  /\ local' = Localised(Of(c))
  /\ calls' = calls \ {c}
  /\ UNCHANGED <<server, seen, maps, tomb, purged, row, left, todo, bounds, stray>>

Detached(c) ==
  /\ c.by = "detach" /\ c.done
  /\ local' = Localised(Of(c))
  /\ calls' = calls \ {c}
  /\ UNCHANGED <<server, seen, maps, tomb, purged, row, left, todo, bounds, stray>>

\* A batch fails; with the connection gone the next folder does not open.
DetachFails(c) ==
  /\ c.by = "detach"
  /\ calls' = calls \ {c}
  /\ todo' \in {todo, {}}
  /\ UNCHANGED <<server, seen, mailbox, row, left, bounds, stray>>

-----------------------------------------------------------------------------
(* Sync, other clients, restarts *)

\* touchKnownMessage
Revived(m) == server[m].folder # "trash" /\ ~ purged[m]

Sight(m) ==
  /\ server[m] # Gone /\ server[m].uid > seen[m]
  /\ seen' = [seen EXCEPT ![m] = server[m].uid]
  /\ IF local[m] THEN UNCHANGED <<maps, tomb>>
     ELSE /\ maps' = [maps EXCEPT ![m] = {x \in @ : x.folder # server[m].folder} \cup {server[m]}]
          /\ tomb' = [tomb EXCEPT ![m] = @ /\ ~ Revived(m)]
  /\ UNCHANGED <<server, purged, local, jobs, bounds, stray>>

\* unlinkUids: the mapping's UID is no longer in its folder.
Unlink(m) ==
  /\ ~ local[m]
  /\ \E x \in maps[m] :
       /\ x.uid # NoUid /\ x # server[m]
       /\ maps' = [maps EXCEPT ![m] = @ \ {x}]
       /\ tomb' = [tomb EXCEPT ![m] = @ \/ maps'[m] = {}]
  /\ UNCHANGED <<server, seen, purged, local, jobs, bounds, stray>>

\* Another client files, trashes or restores it.
OtherMoves(m, f) ==
  /\ "other" \in Actions
  /\ server[m] # Gone /\ server[m].folder # f /\ server[m].uid < MaxUid
  /\ server' = [server EXCEPT ![m] = At(f, @.uid + 1)]
  /\ UNCHANGED <<seen, mailbox, jobs, bounds, stray>>

\* The process dies and boots again: calls and jobs are gone, the rows stay.
Crash ==
  /\ crashes < MaxCrashes
  /\ crashes' = crashes + 1
  /\ calls' = {} /\ left' = {} /\ todo' = {}
  /\ UNCHANGED <<server, seen, mailbox, row, executed, requests, stray>>

\* It dies between an execute's tombstones and its rows.
CrashInExecute(S) ==
  /\ "cleanup" \in Actions
  /\ crashes < MaxCrashes
  /\ S # {} /\ \A m \in S : ~ tomb[m] /\ executed[m] < MaxExecutes
  /\ crashes' = crashes + 1
  /\ tomb' = [m \in Msgs |-> tomb[m] \/ m \in S]
  /\ stray' = stray \cup S
  /\ calls' = {} /\ left' = {} /\ todo' = {}
  /\ UNCHANGED <<server, seen, maps, purged, local, row, executed, requests>>

-----------------------------------------------------------------------------
Init ==
  /\ server = [m \in Msgs |-> At("inbox", 1)]
  /\ seen = [m \in Msgs |-> 1]
  /\ maps = [m \in Msgs |-> {At("inbox", 1)}]
  /\ tomb = [m \in Msgs |-> FALSE]
  /\ purged = [m \in Msgs |-> FALSE]
  /\ local = [m \in Msgs |-> FALSE]
  /\ row = [m \in Msgs |-> NoRow]
  /\ left = {} /\ todo = {} /\ calls = {}
  /\ executed = [m \in Msgs |-> 0]
  /\ requests = 0 /\ crashes = 0
  /\ stray = {}

Answer(c) == QueueMoved(c) \/ Restored(c) \/ Erased(c) \/ Detached(c)
Fail(c) == QueueFails(c) \/ RequestFails(c) \/ DetachFails(c)
Synced(m) == Sight(m) \/ Unlink(m)

Next ==
  \/ \E S \in SUBSET Msgs : Execute(S) \/ CrashInExecute(S)
  \/ \E S \in SUBSET Candidates : StartDetach(S)
  \/ Drain \/ NextBatch \/ NextDetach \/ EmptyTrash \/ Crash
  \/ \E c \in calls : Perform(c) \/ Answer(c) \/ Fail(c)
  \/ \E m \in Msgs : Restore(m) \/ Forever(m) \/ BackoffElapses(m) \/ Synced(m)
  \/ \E m \in Msgs, f \in Folders : OtherMoves(m, f)

\* Timers fire and every call ends, one way or the other.
Fairness ==
  /\ WF_vars(Drain) /\ WF_vars(NextBatch)
  /\ \A who \in {"queue", "restore", "forever", "detach"} :
       WF_vars(\E c \in By(who) : Answer(c) \/ Fail(c))
  /\ \A m \in Msgs : WF_vars(BackoffElapses(m))

Spec == Init /\ [][Next]_vars
FairSpec == Spec /\ Fairness

-----------------------------------------------------------------------------
(* Properties *)

\* Shapes, and: a batch outstanding belongs to pending rows; one call each for
\* the queue and the detach job; bodies are gone only where purged says so.
LifeTypeOK ==
  /\ \A m \in Msgs : /\ server[m].folder \in Folders \cup {"nowhere"}
                     /\ \A x, y \in maps[m] : x.folder = y.folder => x = y
                     /\ \A x \in maps[m] : x.folder \in Folders /\ x.uid \in 0..MaxUid
                     /\ row[m].status \in {"none", "pending", "done", "dead"}
                     /\ row[m].attempts <= MaxAttempts
  /\ \A b \in left \cup {c.items : c \in By("queue")} : \A i \in b : row[i.msg].status = "pending"
  /\ Cardinality(By("queue")) <= 1 /\ Cardinality(By("detach")) <= 1

Pending(m) ==
  \/ row[m].status = "pending"
  \/ \E b \in left \cup todo \cup {c.items : c \in calls} : \E i \in b : i.msg = m

\* Nothing is under way for the message and sync has caught up with it.
Quiet(m) ==
  /\ ~ Pending(m)
  /\ server[m] # Gone => seen[m] = server[m].uid
  /\ \A x \in maps[m] : x.uid # NoUid => x = server[m]

\* Mail that stays hidden is in the trash, or nowhere, at the provider: however
\* MOVEs, lost answers, restores, other clients and sync interleave, none of
\* them leaves a tombstone on mail the user still has (the reason markFailed
\* takes it off), except where a second cleanup found the old row, a crash cut
\* an execute in two, or an answer came later than sync's news.
HiddenMailIsInTrash ==
  \A m \in Msgs \ stray :
    Quiet(m) /\ tomb[m] /\ ~ purged[m] /\ ~ local[m] => server[m].folder \in {"trash", "nowhere"}

\* Every queued cleanup ends, moved or given up.
QueueDrains ==
  \A m \in Msgs : (row[m].status = "pending") ~> (row[m].status \in {"done", "dead"})

\* Delete forever drops the local copy only once the provider has no message
\* where the request found it.
ForeverLosesNothing ==
  [][\A c \in calls \ calls' : c.by = "forever" =>
       \A i \in c.items : ~ purged[i.msg] /\ purged'[i.msg] => server[i.msg] # At(i.folder, i.uid)]_vars

\* store.ts, "its server copy has been moved": detach flags a message it had
\* to move local-only only once the provider no longer has it where detach
\* found it, failed batches and lost answers included.
DetachedIsOffServer ==
  [][\A c \in calls \ calls' : c.by = "detach" =>
       \A i \in c.items : ~ local[i.msg] /\ local'[i.msg] => server[i.msg] # At(i.folder, i.uid)]_vars

\* Empty Trash takes no detached message that is shown outside the trash: this
\* server is its only home.
DetachedKeepsItsCopy ==
  [][\A m \in Msgs : local[m] /\ purged'[m] /\ ~ purged[m] => tomb[m]]_vars

\* A purged shell is tombstoned, or every normal view would show it.
PurgedStaysHidden == \A m \in Msgs : purged[m] => tomb[m]

\* Mail a cleanup hid is not left where it was at the provider.
CleanupReachesProvider ==
  \A m \in Msgs : Quiet(m) /\ tomb[m] /\ ~ purged[m] => server[m].folder # "inbox"

\* A mapping without a UID names the folder the provider has the message in.
OneHome ==
  \A m \in Msgs : Quiet(m) /\ ~ local[m] => \A x \in maps[m] : x.folder = server[m].folder

\* A tombstoned message that is seen outside the trash heals.
OrphansHeal ==
  \A m \in Msgs : Quiet(m) /\ maps[m] = {} => server[m].folder \in {"trash", "nowhere"}
=============================================================================
