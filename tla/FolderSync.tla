----------------------------- MODULE FolderSync -----------------------------
(***************************************************************************)
(* IMAP folder sync of one account (imap/engine.ts, resync.ts, sync.ts,    *)
(* store.ts).  A persistent connection reconciles the inbox, a cron the    *)
(* other folders over a connection of its own.  A pass opens its folder,   *)
(* lists UIDs from the folder's cursor up, fetches and stores them, scans  *)
(* the folder's live UIDs, unlinks the mappings that are gone, and moves   *)
(* the cursor.  Every `await' in between lets the provider, the other pass *)
(* and maily's own MOVEs in, and a connection or the process may die.      *)
(*                                                                         *)
(* The provider is external: one copy of a message, in one folder under    *)
(* one UID (generic IMAP); UIDs of a folder ascend until its UIDVALIDITY   *)
(* changes.  Left out: flags (FlagSync in the plan), mail rules, source     *)
(* capture, and the folder list itself (syncFolders).  maily and another   *)
(* client do not move the same message at the same instant.                *)
(***************************************************************************)
EXTENDS Naturals, FiniteSets, FiniteSetsExt

CONSTANTS Msgs,        \* messages
          Folders,     \* the account's folders, by role
          Old,         \* messages older than the cache window
          Frozen,      \* detached messages: no server copy that sync tracks
          Shells,      \* purged messages: a tombstone in the trash is left
          FirstUid,    \* the UID the provider gives a folder's first message
          FetchBatch,  \* FETCH_BATCH
          UidPlus,     \* does the server report the UID a MOVE assigned?
          MaxUid,      \* bound: UIDs a folder assigns
          MaxEpoch,    \* bound: values UIDVALIDITY takes
          MaxDrops,    \* bound: lost connections and restarts
          OwnDests     \* where maily's own MOVEs go in this instance

ASSUME SyncAssumption ==
  /\ "inbox" \in Folders /\ "nowhere" \notin Folders
  /\ OwnDests \subseteq Folders
  /\ Old \subseteq Msgs
  /\ Frozen \subseteq Msgs /\ Shells \subseteq Msgs \ Frozen
  /\ Shells = {} \/ "trash" \in Folders
  /\ IsFiniteSet(Msgs)
  /\ FirstUid \in Nat \ {0}
  /\ FetchBatch \in Nat \ {0}
  /\ UidPlus \in BOOLEAN
  /\ MaxUid \in Nat /\ MaxEpoch \in Nat /\ MaxDrops \in Nat

VARIABLES server,   \* provider: where each message's copy is
          nextUid,  \* provider: UIDNEXT of each folder
          epoch,    \* provider: UIDVALIDITY of each folder
          stored,   \* messages with a row in `messages'
          maps,     \* message_folders
          tomb,     \* messages.deletedAt is set
          cursor,   \* folders.uidValidity (0 = null), folders.lastUid
          link,     \* the persistent connection: down, catching up, live
          pending,  \* idlePending
          cron,     \* folders the running cron has yet to reconcile
          pass,     \* the resync running on either connection
          own,      \* maily's own MOVE outstanding on a message
          drops,    \* bound
          binned,   \* history: maily itself moved it to the trash
          owed,     \* history: an inbox event since the last inbox pass began
          mislaid   \* history: mail whose last MOVE was answered without its UID

provider == <<server, nextUid, epoch>>
database == <<stored, maps, tomb, cursor>>
engine   == <<link, pending, cron, pass>>
history  == <<drops, binned, owed, mislaid>>
vars     == <<provider, database, engine, own, history>>

Mapping(f, u) == [folder |-> f, uid |-> u]
NoUid == 0
Gone == Mapping("nowhere", NoUid)

Conns == {"idle", "cron"}
\* A pass of folder f, with the cursor it read.
NewPass(phase, f, read) ==
  [phase |-> phase, folder |-> f, full |-> FALSE, validity |-> read.validity, from |-> read.lastUid,
   uids |-> {}, batch |-> {}, live |-> {}, top |-> 0]
Idle == NewPass("none", "inbox", [validity |-> 0, lastUid |-> 0])
NotMoving == [dest |-> "nowhere", uid |-> NoUid]

In(f) == {m \in Msgs : server[m].folder = f}
LiveUids(f) == {server[m].uid : m \in In(f)}

-----------------------------------------------------------------------------
(* The provider *)

\* Delivered, undeleted, or moved here by another client.
Arrives(m, f) ==
  /\ server[m].folder # f
  /\ own[m] = NotMoving
  /\ nextUid[f] <= MaxUid
  /\ server' = [server EXCEPT ![m] = Mapping(f, nextUid[f])]
  /\ nextUid' = [nextUid EXCEPT ![f] = @ + 1]
  /\ binned' = [binned EXCEPT ![m] = FALSE]
  /\ mislaid' = mislaid \ {m}
  /\ UNCHANGED <<epoch, database, engine, own, drops, owed>>

\* Expunged by another client.
Leaves(m) ==
  /\ server[m] # Gone
  /\ own[m] = NotMoving
  /\ server' = [server EXCEPT ![m] = Gone]
  /\ binned' = [binned EXCEPT ![m] = FALSE]
  /\ UNCHANGED <<nextUid, epoch, database, engine, own, drops, owed, mislaid>>

\* The folder is rebuilt on the server, under UIDs that mean something else.
Renumbered(f) ==
  LET moved(u) == FirstUid + Cardinality({v \in LiveUids(f) : v < u}) IN
  /\ epoch[f] < MaxEpoch
  /\ \A c \in Conns : pass[c].phase \in {"none", "opening"} \/ pass[c].folder # f
  /\ f = "inbox" => link # "live"
  /\ epoch' = [epoch EXCEPT ![f] = @ + 1]
  /\ server' = [m \in Msgs |-> IF m \in In(f) THEN Mapping(f, moved(server[m].uid)) ELSE server[m]]
  /\ nextUid' = [nextUid EXCEPT ![f] = FirstUid + Cardinality(In(f))]
  /\ mislaid' = mislaid \ In(f)
  /\ UNCHANGED <<database, engine, own, drops, binned, owed>>

-----------------------------------------------------------------------------
(* The store *)

\* linkFolder: one mapping per (message, folder), the UID replaced.
Linked(m, f, u) == {x \in maps[m] : x.folder # f} \cup {Mapping(f, u)}

\* Mutant: a re-sight leaves the tombstone of an orphaned message alone.
TouchTombForever(tb, S, f) == tb

\* touchKnownMessage: a re-sight outside the trash clears the tombstone.
TouchTomb(tb, S, f) ==
  [m \in Msgs |-> tb[m] /\ ~ (m \in S \ Shells /\ f # "trash")]

\* upsertMessage / touchKnownMessage of the messages S as captured in f.
Stored(S, f, captured) ==
  /\ stored' = stored \cup S
  /\ maps' = [m \in Msgs |-> IF m \in S \ Frozen THEN Linked(m, f, captured[m]) ELSE maps[m]]
  /\ tomb' = TouchTomb(tomb, S \ Frozen, f)

\* A message left in no folder is tombstoned.
UnlinkTomb(mp, dropped) == [m \in Msgs |-> tomb[m] \/ (m \in dropped /\ mp[m] = {})]

\* trackedMapping, as a mutant: detached mail counts.
TrackedAll(m) == maps[m]

\* trackedMapping: a detached message's mappings are frozen.
Tracked(m) == IF m \in Frozen THEN {} ELSE maps[m]

\* unlinkUids, of every mapped UID of f that is not among the live ones.
Unlinked(f, live) ==
  LET lost(m) == {x \in Tracked(m) : x.folder = f /\ x.uid # NoUid /\ x.uid \notin live}
      kept == [m \in Msgs |-> maps[m] \ lost(m)]
  IN /\ maps' = kept
     /\ tomb' = UnlinkTomb(kept, {m \in Msgs : lost(m) # {}})

\* clearFolderUids
Cleared(f) == [m \in Msgs |-> {x \in maps[m] : x \in Tracked(m) => x.folder # f}]

-----------------------------------------------------------------------------
(* The engine: who starts a pass, and what follows one. *)

\* The folder's row is read anew, with the cursor the pass before it has left.
Begin(c, f, cursors) == [pass EXCEPT ![c] = NewPass("opening", f, cursors[f])]

Connect ==
  /\ link = "down"
  /\ link' = "catchup"
  /\ pass' = Begin("idle", "inbox", cursor)
  /\ owed' = FALSE
  /\ UNCHANGED <<provider, database, pending, cron, own, drops, binned, mislaid>>

\* onInboxEvent: an IDLE event, or the backstop timer.
OnInboxEvent ==
  /\ link = "live"
  /\ IF pass["idle"].phase = "none"
     THEN pass' = Begin("idle", "inbox", cursor) /\ pending' = FALSE /\ owed' = FALSE
     ELSE pending' = TRUE /\ owed' = TRUE /\ UNCHANGED pass
  /\ UNCHANGED <<provider, database, link, cron, own, drops, binned, mislaid>>

CronFolders == Folders \ {"inbox"}

\* runFolderCron: the timer, or reconcileFoldersNow.
StartCron ==
  /\ pass["cron"].phase = "none" /\ cron = {}
  /\ \E f \in CronFolders : cron' = CronFolders \ {f} /\ pass' = Begin("cron", f, cursor)
  /\ UNCHANGED <<provider, database, link, pending, own, history>>

\* A pass is over: the inbox goes live, kicks the cron, or replays an event
\* that landed meanwhile; the cron goes on to its next folder.
Ends(c) ==
  IF c = "cron"
  THEN /\ IF cron = {} THEN cron' = {} /\ pass' = [pass EXCEPT !["cron"] = Idle]
          ELSE \E f \in cron : cron' = cron \ {f} /\ pass' = Begin("cron", f, cursor')
       /\ UNCHANGED <<link, pending, owed>>
  ELSE LET again == link = "live" /\ pending
           done == IF again THEN Begin("idle", "inbox", cursor') ELSE [pass EXCEPT !["idle"] = Idle]
       IN /\ link' = "live"
          /\ pending' = FALSE
          /\ owed' = (owed /\ ~ again)
          /\ IF link = "catchup" /\ cron = {} /\ pass["cron"].phase = "none" /\ CronFolders # {}
             THEN \E f \in CronFolders :
                    /\ cron' = CronFolders \ {f}
                    /\ pass' = [Begin("cron", f, cursor') EXCEPT !["idle"] = Idle]
             ELSE cron' = cron /\ pass' = done

\* A pass throws, its connection being lost: the cron gives up its other
\* folders, the persistent connection reconnects later.
Aborted(c) ==
  /\ pass' = [pass EXCEPT ![c] = Idle]
  /\ IF c = "cron"
     THEN cron' = {} /\ UNCHANGED <<link, pending>>
     ELSE link' = "down" /\ pending' = FALSE /\ UNCHANGED cron

Drop(c) ==
  /\ drops < MaxDrops
  /\ IF c = "cron" THEN pass["cron"].phase # "none" ELSE link # "down"
  /\ drops' = drops + 1
  /\ Aborted(c)
  /\ UNCHANGED <<provider, database, own, binned, owed, mislaid>>

\* The process dies and boots again: only the database is left.
Restart ==
  /\ drops < MaxDrops
  /\ drops' = drops + 1
  /\ pass' = [c \in Conns |-> Idle]
  /\ cron' = {}
  /\ link' = "down"
  /\ pending' = FALSE
  /\ own' = [m \in Msgs |-> NotMoving]
  /\ UNCHANGED <<provider, database, binned, owed, mislaid>>

-----------------------------------------------------------------------------
(* A pass of resyncFolder *)

At(c, phase) == pass[c].phase = phase
To(c, rec) == pass' = [pass EXCEPT ![c] = rec]
Fol(c) == pass[c].folder

\* The folder is open: first sight or a changed UIDVALIDITY means a full sync.
Open(c) ==
  LET p == pass[c]
      f == p.folder
      full == p.validity # epoch[f]
  IN /\ At(c, "opening")
     /\ To(c, [p EXCEPT !.phase = "listing", !.full = full, !.validity = epoch[f],
                        !.top = IF full THEN nextUid[f] ELSE p.from])
     /\ maps' = IF full /\ p.validity # 0 THEN Cleared(f) ELSE maps
     /\ UNCHANGED <<provider, stored, tomb, cursor, link, pending, cron, own, history>>

\* External: a UID range must start at a non-zero number (RFC 3501), so the
\* server refuses `0:*' and the pass throws.
ValidRange(p) == p.full \/ p.from # 0

\* fullSyncFolder stores UIDVALIDITY and the resume floor before any body.
Floor(f, p, uids) ==
  [cursor EXCEPT ![f] = [validity |-> p.validity,
                         lastUid |-> (IF uids = {} THEN p.top ELSE Min(uids) - 1)]]

\* The UIDs to fetch: the cache window, or all from the cursor up.
List(c) ==
  LET p == pass[c]
      f == p.folder
      uids == IF p.full THEN {server[m].uid : m \in In(f) \ Old}
                        ELSE {u \in LiveUids(f) : u >= p.from}
  IN /\ At(c, "listing")
     /\ ValidRange(p)
     /\ IF p.full /\ uids = {}
        THEN /\ cursor' = [cursor EXCEPT ![f] = [validity |-> p.validity, lastUid |-> p.top]]
             /\ Ends(c)
        ELSE /\ cursor' = IF p.full THEN Floor(f, p, uids) ELSE cursor
             /\ To(c, [p EXCEPT !.phase = IF uids = {} THEN "scanning" ELSE "fetching",
                                !.uids = uids, !.from = 0,
                                !.top = IF p.full \/ uids = {} THEN @ ELSE Max(uids) + 1])
             /\ UNCHANGED <<link, pending, cron, owed>>
     /\ UNCHANGED <<provider, stored, maps, tomb, own, drops, binned, mislaid>>

Refuse(c) ==
  /\ At(c, "listing")
  /\ ~ ValidRange(pass[c])
  /\ Aborted(c)
  /\ UNCHANGED <<provider, database, own, history>>

Chunk(uids) == {u \in uids : Cardinality({v \in uids : v < u}) < FetchBatch}

\* drainFetch: a chunk of envelopes, those still there.
Fetch(c) ==
  LET p == pass[c] IN
  /\ At(c, "fetching")
  /\ To(c, [p EXCEPT !.phase = "storing", !.uids = @ \ Chunk(p.uids),
                     !.batch = {<<m, server[m].uid>> : m \in {x \in In(p.folder) : server[x].uid \in Chunk(p.uids)}},
                     !.live = Chunk(p.uids)])
  /\ UNCHANGED <<provider, database, link, pending, cron, own, history>>

\* The captured messages handled before the next body download: known ones are
\* touched at once; a new one is stored when its body, awaited, is here.
Handled(p) ==
  LET bodyHere == IF p.phase = "body" THEN {x \in p.batch : \A y \in p.batch : x[2] <= y[2]} ELSE {}
  IN {x \in p.batch : \A y \in p.batch : y[2] <= x[2] => y[1] \in stored \/ y \in bodyHere}

\* A full sync moves its floor up as each batch lands, at the end to UIDNEXT.
Advanced(p) ==
  [cursor EXCEPT ![p.folder].lastUid = IF p.uids = {} THEN p.top ELSE Max(p.live)]

Store(c) ==
  LET p == pass[c]
      now == Handled(p)
      rest == p.batch \ now
      uidOf == [m \in {x[1] : x \in now} |-> (CHOOSE x \in now : x[1] = m)[2]]
  IN /\ p.phase \in {"storing", "body"}
     /\ Stored({x[1] : x \in now}, p.folder, uidOf)
     /\ cursor' = IF rest = {} /\ p.full THEN Advanced(p) ELSE cursor
     /\ IF rest = {} /\ p.uids = {} /\ p.full
        THEN Ends(c)
        ELSE /\ To(c, [p EXCEPT !.batch = rest, !.live = IF rest = {} THEN {} ELSE @,
                                !.phase = IF rest # {} THEN "body"
                                          ELSE IF p.uids # {} THEN "fetching" ELSE "scanning"])
             /\ UNCHANGED <<link, pending, cron, owed>>
     /\ UNCHANGED <<provider, own, drops, binned, mislaid>>

\* The UID scan of reconcileExpunges, as the server answers it.
Scan(c) ==
  /\ At(c, "scanning")
  /\ To(c, [pass[c] EXCEPT !.phase = "unlinking", !.live = LiveUids(Fol(c))])
  /\ UNCHANGED <<provider, database, link, pending, cron, own, history>>

\* Mutant: the cursor jumps to the mailbox's current UIDNEXT.
NextCursorUidNext(p) == [validity |-> p.validity, lastUid |-> nextUid[p.folder]]

\* The cursor passes only UIDs this pass listed.
NextCursor(p) == [validity |-> p.validity, lastUid |-> p.top]

Unlink(c) ==
  LET p == pass[c] IN
  /\ At(c, "unlinking")
  /\ Unlinked(p.folder, p.live)
  /\ cursor' = [cursor EXCEPT ![p.folder] = NextCursor(p)]
  /\ Ends(c)
  /\ UNCHANGED <<provider, stored, own, drops, binned, mislaid>>

-----------------------------------------------------------------------------
(* maily's own MOVEs (moveToFolderOnServer): a delete's tombstone, set when  *)
(* it is queued, is set with the MOVE here.                                *)

\* The provider has moved it; the answer is on its way.
OwnMove(m, f) ==
  /\ own[m] = NotMoving
  /\ m \notin Frozen
  /\ server[m] \in maps[m]
  /\ server[m].folder # f
  /\ nextUid[f] <= MaxUid
  /\ server' = [server EXCEPT ![m] = Mapping(f, nextUid[f])]
  /\ nextUid' = [nextUid EXCEPT ![f] = @ + 1]
  /\ own' = [own EXCEPT ![m] = [dest |-> f, uid |-> nextUid[f]]]
  /\ tomb' = IF f = "trash" THEN [tomb EXCEPT ![m] = TRUE] ELSE tomb
  /\ binned' = [binned EXCEPT ![m] = (f = "trash")]
  /\ mislaid' = mislaid \ {m}
  /\ UNCHANGED <<epoch, stored, maps, cursor, engine, drops, owed>>

\* relinkMessageToFolder: the destination replaces every mapping; a restore,
\* back to the inbox, also takes the tombstone off.
OwnRelink(m) ==
  /\ own[m] # NotMoving
  /\ maps' = [maps EXCEPT ![m] = {Mapping(own[m].dest, IF UidPlus THEN own[m].uid ELSE NoUid)}]
  /\ tomb' = IF own[m].dest = "inbox" THEN [tomb EXCEPT ![m] = FALSE] ELSE tomb
  /\ own' = [own EXCEPT ![m] = NotMoving]
  /\ mislaid' = IF maps'[m] = {server[m]} THEN mislaid \ {m} ELSE mislaid \cup {m}
  /\ UNCHANGED <<provider, stored, cursor, engine, drops, binned, owed>>

-----------------------------------------------------------------------------
\* The mapping a detached or purged message has kept; its UID is of old.
Kept(m) == CASE m \in Frozen -> {Mapping("inbox", FirstUid)}
             [] m \in Shells -> {Mapping("trash", FirstUid)}
             [] OTHER        -> {}

Init ==
  /\ server = [m \in Msgs |-> Gone]
  /\ nextUid = [f \in Folders |-> IF Frozen \cup Shells = {} THEN FirstUid ELSE FirstUid + 1]
  /\ epoch = [f \in Folders |-> 1]
  /\ stored = Frozen \cup Shells
  /\ maps = [m \in Msgs |-> Kept(m)]
  /\ tomb = [m \in Msgs |-> m \in Shells]
  /\ cursor = [f \in Folders |-> [validity |-> 0, lastUid |-> 0]]
  /\ link = "down"
  /\ pending = FALSE
  /\ cron = {}
  /\ pass = [c \in Conns |-> Idle]
  /\ own = [m \in Msgs |-> NotMoving]
  /\ drops = 0
  /\ binned = [m \in Msgs |-> FALSE]
  /\ owed = FALSE
  /\ mislaid = {}

Step(c) == Open(c) \/ List(c) \/ Refuse(c) \/ Fetch(c) \/ Store(c) \/ Scan(c) \/ Unlink(c)

Next ==
  \/ \E m \in Msgs, f \in Folders : Arrives(m, f)
  \/ \E m \in Msgs : Leaves(m) \/ OwnRelink(m)
  \/ \E m \in Msgs, f \in OwnDests : OwnMove(m, f)
  \/ \E f \in Folders : Renumbered(f)
  \/ Connect \/ OnInboxEvent \/ StartCron \/ Restart
  \/ \E c \in Conns : Drop(c) \/ Step(c)

\* Reconnecting, the backstop and cron timers, and answers that arrive.
Fairness ==
  /\ WF_vars(Connect) /\ WF_vars(OnInboxEvent) /\ WF_vars(StartCron)
  /\ \A c \in Conns : WF_vars(Step(c))
  /\ \A m \in Msgs : WF_vars(OwnRelink(m))

Spec == Init /\ [][Next]_vars
FairSpec == Spec /\ Fairness

-----------------------------------------------------------------------------
(* Properties *)

\* One mapping per folder, no tombstone on an unknown message, and no cursor
\* beyond the provider's UIDNEXT.
SyncTypeOK ==
  /\ stored \subseteq Msgs
  /\ \A m \in Msgs : /\ \A x, y \in maps[m] : x.folder = y.folder => x = y
                     /\ maps[m] # {} \/ tomb[m] => m \in stored
                     /\ own[m] # NotMoving => m \in stored
  /\ \A f \in Folders : cursor[f].validity = epoch[f] => cursor[f].lastUid <= nextUid[f]
  /\ \A c \in Conns : pass[c].folder \in Folders

\* No mail is skipped: what the provider holds below a folder's cursor has a
\* row and a mapping to its UID, unless maily's own MOVE was answered without
\* the UID, or with one of an earlier UIDVALIDITY.
NoMailSkipped ==
  \A m \in Msgs \ (Old \cup Frozen) : LET f == server[m].folder IN
    f \in Folders =>
      (/\ cursor[f].validity = epoch[f]
       /\ server[m].uid < cursor[f].lastUid
       => /\ m \in stored
          /\ server[m] \in maps[m] \/ m \in mislaid)

\* An event heard while a pass runs is never lost: another pass follows, since
\* the running one may have listed its UIDs before the mail arrived.
EventsAreReplayed == link = "live" /\ pass["idle"].phase = "none" => ~ owed

\* Mail is overlooked neither by a cursor nor because its event came at the wrong time.
NothingIsOverlooked == NoMailSkipped /\ EventsAreReplayed

\* A mapping agrees with the provider's copy.
InSync(m) ==
  IF server[m] = Gone
  THEN m \in stored => maps[m] = {} /\ tomb[m]
  ELSE /\ m \in stored
       /\ maps[m] = {server[m]}
       /\ server[m].folder # "trash" => ~ tomb[m] \/ m \in Shells

\* However deliveries, moves, expunges, own MOVEs and lost connections
\* interleave with passes, the mailbox settles on what the provider has: a
\* message orphaned midway self-heals, an event dropped is made up for.
Converges == <>[](\A m \in Msgs \ (Old \cup Frozen) : InSync(m))

\* A UID that a MOVE did not report is learnt by the next resync.
UidsAreLearnt ==
  <>[](\A m \in Msgs \ Old : server[m] # Gone => server[m] \in maps[m])

\* A process killed mid-sync resumes incrementally on the next connect.
ResumesAfterKill == Converges

\* A message that no longer lives in any folder is tombstoned, not dangling.
NoDanglingRow ==
  <>[](\A m \in stored : maps[m] = {} => tomb[m])

\* Mail maily moved to the trash stays hidden from every other view.
TrashedStaysHidden ==
  <>[](\A m \in Msgs : binned[m] => tomb[m])
=============================================================================
