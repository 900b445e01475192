--------------------------- MODULE MailboxIntents ---------------------------
(***************************************************************************)
(* Mailbox intents: what the outbox rows do.  Enqueueing a delete, archive,*)
(* move or flags row applies its effect to the local mailbox in the same   *)
(* transaction; the runner later pushes it to the provider; a cancel or a  *)
(* dead row applies the inverse recorded in the row's payload.             *)
(*                                                                         *)
(* The provider is external: one copy of each message, in one folder under *)
(* one UID (generic IMAP), which a MOVE gives a new UID.                   *)
(***************************************************************************)
EXTENDS OutboxQueue, FiniteSetsExt

CONSTANTS Msgs,      \* messages
          Flags,     \* the flags the user toggles, \Seen and \Flagged
          Folders,   \* the role folders this account has
          Detachable,  \* messages that may be local_only, with no server copy
          UidPlus,   \* does the server report the UID a MOVE assigned?
          BothFlags  \* bound: may one request set more than one flag?

ASSUME IntentAssumption ==
  /\ "inbox" \in Folders
  /\ Folders \subseteq {"inbox", "archive", "junk", "trash"}
  /\ Detachable \subseteq Msgs
  /\ UidPlus \in BOOLEAN
  /\ BothFlags \in BOOLEAN

VARIABLES maps,    \* message_folders: the (folder, uid) mappings of a message
          tomb,    \* messages.deletedAt is set
          flag,    \* messages.seen, messages.flagged
          payload, \* what each row's local effect replaced
          aim,     \* the server placement a row's outstanding call was given
          server,  \* the provider's copy
          \* history: what happened to a message that one intent alone never meets
          tangled,   \* relocated while another was live, or its UID unknown
          overtaken  \* a STORE landed while an older toggle awaited its retry

mailVars == <<maps, tomb, flag, payload, aim, server, tangled, overtaken>>
allVars  == <<vars, mailVars>>

\* No operation here sets or clears local_only.
Detached == {m \in Msgs : server[m].folder = "nowhere"}

NoUid == 0
Mapping(f, u) == [folder |-> f, uid |-> u]
Nowhere == [kind |-> "none", folder |-> "inbox", uid |-> NoUid]
OnlyHere == [Nowhere EXCEPT !.kind = "local"]
OnServer(mp) == [kind |-> "server", folder |-> mp.folder, uid |-> mp.uid]

NoFlags == [f \in {} |-> FALSE]
Payload(m) == [msg |-> m, from |-> {}, dest |-> "inbox", added |-> FALSE,
               wasDeleted |-> FALSE, set |-> NoFlags, prev |-> NoFlags]

ForMsg(m) == {r \in RowIds : rows[r].kind # "none" /\ payload[r].msg = m}
LiveRows(m) == {r \in ForMsg(m) : rows[r].status \in Live}
Relocates(r) == rows[r].kind \in {"delete", "archive", "move"}

-----------------------------------------------------------------------------
(* Placement *)

In(m, f) == {mp \in maps[m] : mp.folder = f}

\* serverPlacement: every folder here bears a role, so the pick is by path,
\* which the account decides.
Placements(m) ==
  IF m \in Detached THEN {OnlyHere}
  ELSE LET placed == {mp \in maps[m] : mp.uid # NoUid} IN
       IF placed = {} THEN {Nowhere} ELSE {OnServer(mp) : mp \in placed}

\* Mutant: a STORE goes where the message is mapped, a queued move or not.
FlagPlacementsMapped(m) == Placements(m)

\* Until an archive or move runs, the server copy is where it came from.
FlagPlacements(m) ==
  LET moving == {r \in LiveRows(m) : rows[r].kind \in {"archive", "move"}}
      from == IF moving = {} THEN {} ELSE payload[Min(moving)].from
      known == {mp \in from : mp.uid # NoUid}
  IN IF m \in Detached THEN {OnlyHere}
     ELSE IF known # {} THEN {OnServer(mp) : mp \in known}
     ELSE Placements(m)

\* moveDest
MovePlacements(r) ==
  LET p == payload[r] IN
  IF p.from = {} THEN {Nowhere}
  ELSE IF p.msg \in Detached THEN {OnlyHere}
  ELSE {IF mp.uid = NoUid THEN Nowhere ELSE OnServer(mp) : mp \in p.from}

DestOf(r) == IF rows[r].kind = "delete" THEN "trash" ELSE payload[r].dest

\* Where a row's provider call goes; a copy already in the destination stays.
AimsOf(r) ==
  LET found == CASE rows[r].kind = "flags"  -> FlagPlacements(payload[r].msg)
                 [] rows[r].kind = "delete" -> IF "trash" \in Folders
                                               THEN Placements(payload[r].msg)
                                               ELSE {Nowhere}
                 [] OTHER                   -> MovePlacements(r)
  IN {IF Relocates(r) /\ a.kind = "server" /\ a.folder = DestOf(r) THEN Nowhere ELSE a : a \in found}

-----------------------------------------------------------------------------
(* Enqueueing: a route holds the row for the undo window, a rule does not. *)

Insert(r, k, windowed) == IF windowed THEN EnqueueWindowed(r, k) ELSE EnqueueNow(r, k)

Tangle(m) ==
  tangled' = [tangled EXCEPT ![m] = @ \/ (\E q \in LiveRows(m) : Relocates(q))
                                      \/ (\E mp \in maps[m] : mp.uid = NoUid)]

Delete(r, m, windowed) ==
  /\ Insert(r, "delete", windowed)
  /\ tomb' = [tomb EXCEPT ![m] = TRUE]
  /\ payload' = [payload EXCEPT ![r] = [Payload(m) EXCEPT !.wasDeleted = tomb[m]]]
  /\ Tangle(m)
  /\ UNCHANGED <<maps, flag, aim, server, overtaken>>

\* applyMove: leave `from', arrive in `dest' under an unknown UID.
Relocate(r, m, from, dest) ==
  LET src == In(m, from) IN
  /\ payload' = [payload EXCEPT ![r] =
                   [Payload(m) EXCEPT !.from = src, !.dest = dest,
                                      !.added = (src # {} /\ In(m, dest) = {})]]
  /\ maps' = IF src = {} THEN maps
             ELSE [maps EXCEPT ![m] =
                     (@ \ src) \cup (IF In(m, dest) \ src = {} THEN {Mapping(dest, NoUid)} ELSE {})]
  /\ Tangle(m)
  /\ UNCHANGED <<tomb, flag, aim, server, overtaken>>

Archive(r, m, windowed) ==
  /\ "archive" \in Folders
  /\ Insert(r, "archive", windowed)
  /\ Relocate(r, m, "inbox", "archive")

\* moveSourceFolder: the inbox copy first, else another home that is neither
\* trash nor the destination; Not spam only takes mail out of Spam.
MoveSources(m, dest) ==
  LET homes == {mp.folder : mp \in maps[m]} \ {"trash", dest} IN
  IF "inbox" \in homes THEN {"inbox"}
  ELSE IF dest = "inbox" THEN {h \in homes : h = "junk"} ELSE homes

Move(r, m, dest) ==
  /\ dest \in Folders \cap {"junk", "inbox"}
  /\ ~ tomb[m]
  /\ Insert(r, "move", TRUE)
  /\ \E from \in MoveSources(m, dest) : Relocate(r, m, from, dest)

\* A rule that moves new mail to spam, with none of the route's checks.
RuleSpam(r, m) ==
  /\ "junk" \in Folders
  /\ Insert(r, "move", FALSE)
  /\ Relocate(r, m, "inbox", "junk")

Toggle(r, m, set) ==
  /\ Insert(r, "flags", FALSE)
  /\ flag' = [flag EXCEPT ![m] = [f \in Flags |-> IF f \in DOMAIN set THEN set[f] ELSE @[f]]]
  /\ payload' = [payload EXCEPT ![r] =
                   [Payload(m) EXCEPT !.set = set, !.prev = [f \in DOMAIN set |-> flag[m][f]]]]
  /\ UNCHANGED <<maps, tomb, aim, server, tangled, overtaken>>

FlagSets == UNION {[F -> BOOLEAN] : F \in {G \in (SUBSET Flags) \ {{}} : BothFlags \/ Cardinality(G) = 1}}

-----------------------------------------------------------------------------
(* Inverses.  A mailbox state is what an inverse may rewrite.              *)

Mail == [maps |-> maps, tomb |-> tomb, flag |-> flag, payload |-> payload]

RevertDelete(mail, r) ==
  IF payload[r].wasDeleted THEN mail ELSE [mail EXCEPT !.tomb[payload[r].msg] = FALSE]

\* Mutant: the placeholder in the destination stays.
RevertMoveHalf(mail, r) ==
  LET p == payload[r]
      cur == mail.maps[p.msg]
  IN [mail EXCEPT !.maps[p.msg] = cur \cup {mp \in p.from : \A c \in cur : c.folder # mp.folder}]

\* The source mapping returns unless a newer one took its place; the
\* destination goes while it is still the placeholder this intent added.
RevertMove(mail, r) ==
  LET p == payload[r]
      cur == mail.maps[p.msg]
      back == {mp \in p.from : \A c \in cur : c.folder # mp.folder}
      placeholder == IF p.added THEN {Mapping(p.dest, NoUid)} ELSE {}
  IN IF p.from = {} THEN mail
     ELSE [mail EXCEPT !.maps[p.msg] = (cur \cup back) \ placeholder]

\* The newer toggles of the same flag that landed or may still land.
NewerToggles(r, f) ==
  {q \in ForMsg(payload[r].msg) :
     q > r /\ rows[q].kind = "flags" /\ rows[q].status \in Live \cup {"done"} /\ f \in DOMAIN payload[q].set}

\* Mutant: no inheritance, the older value is restored only if it still shows.
HeirsNone(r, f) == {}

\* The first newer toggle inherits the older value, unless it has landed.
Heirs(r, f) ==
  {q \in NewerToggles(r, f) : /\ rows[q].status # "done"
                              /\ \A x \in NewerToggles(r, f) : q <= x}

\* With none newer the older value comes back, unless the local one has since changed.
Restores(mail, r, f) ==
  NewerToggles(r, f) = {} /\ mail.flag[payload[r].msg][f] = payload[r].set[f]

RevertFlags(mail, r) ==
  LET m == payload[r].msg
      mine == DOMAIN payload[r].set
      prev == mail.payload[r].prev
      restored == [f \in Flags |-> IF f \in mine /\ Restores(mail, r, f) THEN prev[f] ELSE mail.flag[m][f]]
      handed(q) == [f \in DOMAIN mail.payload[q].prev |->
                      IF f \in mine /\ q \in Heirs(r, f) THEN prev[f] ELSE mail.payload[q].prev[f]]
  IN [mail EXCEPT !.flag = [@ EXCEPT ![m] = restored],
                  !.payload = [q \in RowIds |-> [@[q] EXCEPT !.prev = handed(q)]]]

RevertIntent(mail, r) ==
  CASE rows[r].kind = "delete" -> RevertDelete(mail, r)
    [] rows[r].kind \in {"archive", "move"} -> RevertMove(mail, r)
    [] rows[r].kind = "flags" -> RevertFlags(mail, r)
    [] OTHER -> mail

\* Rows are marked oldest first, so a dead toggle hands its value to a newer one.
RevertAll(mail, S) ==
  LET upTo[n \in 0 .. MaxRows] ==
        IF n = 0 THEN mail
        ELSE IF n \in S THEN RevertIntent(upTo[n - 1], n) ELSE upTo[n - 1]
  IN upTo[MaxRows]

Becomes(mail) ==
  /\ maps' = mail.maps
  /\ tomb' = mail.tomb
  /\ flag' = mail.flag
  /\ payload' = mail.payload

\* The rows that settle dead with outcomes o.
DeadRows(o) == {r \in DOMAIN o : Marked(rows[r], o[r]).status = "dead"}

-----------------------------------------------------------------------------
(* Undo *)

CancelIntent(r) ==
  /\ Cancel(r)
  /\ Becomes(RevertIntent(Mail, r))
  /\ UNCHANGED <<aim, server, tangled, overtaken>>

-----------------------------------------------------------------------------
(* Flags: one STORE per (folder, flag, value), the newest toggle deciding. *)

BeginFlags ==
  /\ FlagsBegin
  /\ \E a \in [FlagRows(batch) -> UNION {AimsOf(r) : r \in FlagRows(batch)}] :
       /\ \A r \in FlagRows(batch) : a[r] \in AimsOf(r)
       /\ aim' = [r \in RowIds |-> IF r \in FlagRows(batch) THEN a[r] ELSE aim[r]]
  /\ UNCHANGED <<maps, tomb, flag, payload, server, tangled, overtaken>>

\* No call is outstanding any more.
Unaimed == aim' = [r \in RowIds |-> Nowhere]

Placed(r) == aim[r].kind = "server"

Togglers(m, f) ==
  {r \in calling : Placed(r) /\ payload[r].msg = m /\ f \in DOMAIN payload[r].set}

Toggled == {mf \in Msgs \X Flags : Togglers(mf[1], mf[2]) # {}}
\* Mutant: the oldest toggle of the batch decides.
DeciderOldest(mf) == Min(Togglers(mf[1], mf[2]))

Decider(mf) == Max(Togglers(mf[1], mf[2]))
StoreOf(mf) == <<aim[Decider(mf)].folder, mf[2], payload[Decider(mf)].set[mf[2]]>>
Stores == {StoreOf(mf) : mf \in Toggled}

StoreResults == [Stores -> {"taken", "refused"} \cup (IF LostReplies THEN {"lost"} ELSE {})]

\* What a row learns: it failed when any STORE it took part in failed.
FlagsOutcome(res, r) ==
  LET mine == {StoreOf(mf) : mf \in {x \in Toggled : r \in Togglers(x[1], x[2])}}
      did == {s \in mine : res[s] \in {"taken", "lost"}}
  IN IF ~ Placed(r) THEN "nothing"
     ELSE IF \A s \in mine : res[s] = "taken" THEN "taken"
     ELSE IF did = {} THEN "refused" ELSE "lost"

Hits(m, a) == server[m].folder = a.folder /\ server[m].uid = a.uid

\* The provider's copies after the STOREs that took effect; a UID that is gone
\* matches nothing and is no error.
Stored(res) ==
  [m \in Msgs |->
    [server[m] EXCEPT !.flags =
       [f \in Flags |->
          IF /\ <<m, f>> \in Toggled
             /\ res[StoreOf(<<m, f>>)] \in {"taken", "lost"}
             /\ Hits(m, aim[Decider(<<m, f>>)])
          THEN StoreOf(<<m, f>>)[3] ELSE @[f]]]]

Overtakes(res) ==
  [m \in Msgs |-> overtaken[m] \/
     \E f \in Flags : /\ <<m, f>> \in Toggled
                      /\ res[StoreOf(<<m, f>>)] \in {"taken", "lost"}
                      /\ \E q \in LiveRows(m) \ calling :
                           /\ f \in DOMAIN payload[q].set
                           /\ q < Decider(<<m, f>>)]

SettleFlags ==
  /\ calling # {}
  /\ calling = FlagRows(calling)
  /\ \E res \in StoreResults :
       LET o == [r \in calling |-> FlagsOutcome(res, r)] IN
       /\ Settle(o)
       /\ Becomes(RevertAll(Mail, DeadRows(o)))
       /\ server' = Stored(res)
       /\ overtaken' = Overtakes(res)
  /\ Unaimed
  /\ UNCHANGED tangled

-----------------------------------------------------------------------------
(* Delete, archive, move: one MOVE, then the local mappings converge on it. *)

BeginRow(r) ==
  /\ RowBegin(r)
  /\ \E a \in AimsOf(r) : aim' = [aim EXCEPT ![r] = a]
  /\ UNCHANGED <<maps, tomb, flag, payload, server, tangled, overtaken>>

Moved(m, dest) == [server[m] EXCEPT !.folder = dest, !.uid = @ + 1]

\* relinkMessageToFolder: the destination replaces every mapping.
Relinked(m, dest, uid) == [maps EXCEPT ![m] = {Mapping(dest, uid)}]

SettleRow(r, o) ==
  LET m == payload[r].msg
      a == aim[r]
      hit == a.kind = "server" /\ Hits(m, a)
  IN
  /\ calling = {r}
  /\ rows[r].kind # "flags"
  /\ o \in IF a.kind = "server"
           THEN {IF hit THEN "taken" ELSE "nothing", "refused"}
                \cup (IF LostReplies /\ hit THEN {"lost"} ELSE {})
           ELSE {"nothing"}
  /\ Settle([q \in {r} |-> o])
  /\ server' = IF o \in {"taken", "lost"} THEN [server EXCEPT ![m] = Moved(m, DestOf(r))] ELSE server
  /\ IF Marked(rows[r], o).status = "dead"
     THEN Becomes(RevertIntent(Mail, r))
     ELSE /\ maps' = IF o = "taken" /\ UidPlus THEN Relinked(m, DestOf(r), server[m].uid + 1)
                     ELSE IF o \in {"taken", "nothing"} /\ a.kind # "none"
                          THEN Relinked(m, DestOf(r), NoUid)
                     ELSE maps
          /\ UNCHANGED <<tomb, flag, payload>>
  /\ Unaimed
  /\ UNCHANGED <<tangled, overtaken>>

-----------------------------------------------------------------------------
(* The process dies and boots again. *)

\* What the provider did with the outstanding calls: any of them.
OutstandingServers ==
  IF calling = FlagRows(calling)
  THEN {Stored(res) : res \in StoreResults}
  ELSE {server} \cup {[server EXCEPT ![payload[r].msg] = Moved(payload[r].msg, DestOf(r))] :
                        r \in {q \in calling : Placed(q) /\ Hits(payload[q].msg, aim[q])}}

Slipped(srv) ==
  LET hit == {r \in calling : srv[payload[r].msg] # server[payload[r].msg]} IN
  /\ server' = srv
  /\ reached' = [r \in RowIds |-> reached[r] \/ r \in hit]
  /\ doubtful' = [r \in RowIds |-> doubtful[r] \/ r \in hit]
  /\ UNCHANGED undone

CrashMail ==
  /\ Reboot(rows)
  /\ \E srv \in OutstandingServers : Slipped(srv)
  /\ Unaimed
  /\ UNCHANGED <<maps, tomb, flag, payload, tangled, overtaken>>

\* The flip to canceled is durable, its inverse never runs.
CrashInUndo(r) ==
  /\ rows[r].status = "pending"
  /\ Reboot([rows EXCEPT ![r].status = "canceled"])
  /\ \E srv \in OutstandingServers : Slipped(srv)
  /\ Unaimed
  /\ UNCHANGED <<maps, tomb, flag, payload, tangled, overtaken>>

-----------------------------------------------------------------------------
MailInit ==
  /\ Init
  /\ server \in [Msgs -> [folder : (Folders \cap {"inbox", "junk"}) \cup {"nowhere"}, uid : {1},
                          flags : [Flags -> {FALSE}]]]
  /\ Detached \subseteq Detachable
  /\ maps = [m \in Msgs |-> {Mapping(IF m \in Detached THEN "inbox" ELSE server[m].folder, 1)}]
  /\ tomb = [m \in Msgs |-> FALSE]
  /\ flag = [m \in Msgs |-> [f \in Flags |-> FALSE]]
  /\ payload = [r \in RowIds |-> Payload(CHOOSE m \in Msgs : TRUE)]
  /\ aim = [r \in RowIds |-> Nowhere]
  /\ tangled = [m \in Msgs |-> FALSE]
  /\ overtaken = [m \in Msgs |-> FALSE]

Quietly(A) == A /\ UNCHANGED mailVars

\* What requests, new mail and timers do.
MailCallback ==
  /\ Yielded
  /\ \/ \E r \in RowIds, m \in Msgs :
          \/ \E w \in BOOLEAN : Delete(r, m, w) \/ Archive(r, m, w)
          \/ \E dest \in {"junk", "inbox"} : Move(r, m, dest)
          \/ RuleSpam(r, m)
          \/ \E set \in FlagSets : Toggle(r, m, set)
     \/ \E r \in RowIds : CancelIntent(r) \/ CrashInUndo(r)
     \/ Quietly(Tick)

MailNext ==
  \/ MailCallback
  \/ \E r \in RowIds : Quietly(DueElapses(r)) \/ Quietly(BackoffElapses(r))
  \/ Quietly(PassEnds)
  \/ BeginFlags \/ SettleFlags
  \/ \E r \in RowIds : BeginRow(r)
  \/ \E r \in RowIds, o \in Outcomes : SettleRow(r, o)
  \/ CrashMail

MailSpec == MailInit /\ [][MailNext]_allVars

\* OutboxQueue's fairness: timers fire, every call answers or fails.
MailFairness ==
  /\ WF_allVars(Quietly(Tick)) /\ WF_allVars(Quietly(PassEnds))
  /\ WF_allVars(BeginFlags) /\ WF_allVars(SettleFlags)
  /\ WF_allVars(\E r \in RowIds : BeginRow(r))
  /\ WF_allVars(\E r \in RowIds, o \in Outcomes : SettleRow(r, o))
  /\ \A r \in RowIds : WF_allVars(Quietly(DueElapses(r))) /\ WF_allVars(Quietly(BackoffElapses(r)))

MailFairSpec == MailSpec /\ MailFairness

-----------------------------------------------------------------------------
(* Properties *)

\* The local mailbox is well formed: one mapping per folder, and a message is
\* always in some folder, however its intents are stacked, undone and failed.
MailTypeOK ==
  /\ TypeOK
  /\ tomb \in [Msgs -> BOOLEAN]
  /\ flag \in [Msgs -> [Flags -> BOOLEAN]]
  /\ \A m \in Msgs : /\ maps[m] # {}
                     /\ \A x, y \in maps[m] : x.folder = y.folder => x = y

Quiet(m) == LiveRows(m) = {}

\* The process never died between an intent's flip and its inverse.
AllInverted(m) == \A r \in ForMsg(m) : rows[r].status \in {"canceled", "dead"} => undone[r]

\* The undo or failure of toggles, in whatever order they end, leaves the value
\* of the newest toggle that stands, or the original one: revertFlags' three
\* cases over any stack of toggles.
NewestStandingToggleRules ==
  \A m \in Msgs : AllInverted(m) =>
    \A f \in Flags :
      LET standing == {r \in ForMsg(m) : /\ f \in DOMAIN payload[r].set
                                         /\ rows[r].status \in Live \cup {"done"}}
      IN flag[m][f] = IF standing = {} THEN FALSE ELSE payload[Max(standing)].set[f]

\* No attempt that took effect unnoticed ended canceled or dead.
NoDoubtfulLoss(m) == \A r \in ForMsg(m) : doubtful[r] => rows[r].status \notin {"canceled", "dead"}

SameFolder(m) == \A mp \in maps[m] : mp.folder = server[m].folder

\* Once nothing is queued for a message, it is where the provider has it and
\* tombstoned only in the trash -- retried and re-run MOVEs included -- as
\* long as each relocating intent found the message settled, its UID known.
FolderConverges ==
  \A m \in Msgs \ Detached :
    Quiet(m) /\ ~ tangled[m] /\ AllInverted(m) /\ NoDoubtfulLoss(m) =>
      /\ SameFolder(m)
      /\ tomb[m] => server[m].folder = "trash" \/ "trash" \notin Folders

\* Once nothing is queued for a message, its flags are the provider's, unless
\* a retried toggle was overtaken by a newer one.
FlagsConverge ==
  \A m \in Msgs \ Detached :
    /\ Quiet(m) /\ ~ overtaken[m] /\ ~ tangled[m] /\ AllInverted(m)
    /\ \A r \in ForMsg(m) : ~ doubtful[r]
    => flag[m] = server[m].flags

\* Stacked toggles of one flag execute in the order made: once all are done,
\* the provider holds the newest value.
TogglesInOrder ==
  \A m \in Msgs \ Detached :
    Quiet(m) /\ (\A r \in ForMsg(m) : rows[r].status = "done") => flag[m] = server[m].flags

\* An undone delete is undone: once every queued action on a message ended, it
\* is hidden only if the provider has it in the trash -- a crash between the
\* cancel and its inverse included, as the intents' header has it ("the local
\* mailbox always converges back on what the provider still has").
UndoneIsTakenBack ==
  \A m \in Msgs \ Detached :
    Quiet(m) /\ ~ tangled[m] /\ NoDoubtfulLoss(m) /\ tomb[m] => server[m].folder = "trash"

\* Maily never shows a message in a folder the provider does not have it in,
\* once every queued action on it ended.
NoGhostFolder ==
  \A m \in Msgs \ Detached : Quiet(m) => SameFolder(m)
=============================================================================
