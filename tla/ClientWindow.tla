---------------------------- MODULE ClientWindow ----------------------------
(***************************************************************************)
(* What a window of the app shows of the mail and takes down of it, in     *)
(* five parts that share no state, each with its bit of the server and     *)
(* each in a scene of one model for TLC: the cached inbox with its signals *)
(* and undo (ClientMailbox), search (SearchScreen), a message being read   *)
(* (ReaderScreen), the cleanup dashboard (CleanupDash) and a message being *)
(* written (Composer).  A behaviour plays one scene; the others' variables *)
(* are 0.                                                                  *)
(***************************************************************************)
EXTENDS Naturals

CONSTANTS Mails, Stages, MaxEvents, MaxFaults, MaxSignals,
          StrayQuotes, MaxEdits, MaxSearchDeeds,
          Views, Dwells, MaxUnread, MaxReadDeeds, MaxLosses,
          Size, Thresholds, Entries, MaxWrites, MaxMoves, MaxDashDeeds,
          SendRows, Uploads, HasDrafts, MaxAttempts, MaxWords, MaxTrouble

ASSUME WindowAssumption ==
  /\ Mails # {} /\ Stages # {} /\ MaxSignals # 0
  /\ {MaxEvents, MaxFaults, MaxSignals, MaxEdits, MaxSearchDeeds} \subseteq Nat
  /\ {MaxUnread, MaxReadDeeds, MaxLosses} \subseteq Nat
  /\ StrayQuotes \in BOOLEAN
  /\ Views \in (SUBSET BOOLEAN) \ {{}} /\ Dwells \in (SUBSET {"never", "at once", "later"}) \ {{}}
  /\ {Size, Entries} \subseteq Nat \ {0} /\ {MaxWrites, MaxMoves, MaxDashDeeds} \subseteq Nat
  /\ Thresholds # {} /\ Thresholds \subseteq 1 .. Size
  /\ {MaxAttempts, MaxWords, MaxTrouble} \subseteq Nat /\ HasDrafts \in BOOLEAN
  /\ SendRows \cap {"main", "popout"} = {}

VARIABLES scene,
          server, outcome, cached, tomb, signals, linked, net, stages, pending, timers, timer,
          committed, refreshing, history,
          store, page, asked, away, spent,
          marked, cache, calls, told, reader, cards, tally,
          base, memo, compute, screen, card, known, requests, record,
          win, handoff, call, job, row, disk, drafts, sent, owed

boxVars == <<server, outcome, cached, tomb, signals, linked, net, stages, pending, timers, timer,
             committed, refreshing, history>>
searchVars == <<store, page, asked, away, spent>>
readerVars == <<marked, cache, calls, told, reader, cards, tally>>
dashVars == <<base, memo, compute, screen, card, known, requests, record>>
writeVars == <<win, handoff, call, job, row, disk, drafts, sent, owed>>
vars == <<scene, boxVars, searchVars, readerVars, dashVars, writeVars>>

Box == INSTANCE ClientMailbox WITH Msgs <- Mails
Find == INSTANCE SearchScreen WITH MaxDeeds <- MaxSearchDeeds
View == INSTANCE ReaderScreen WITH MaxDeeds <- MaxReadDeeds, server <- marked, signals <- told
Sums == INSTANCE CleanupDash WITH MaxDeeds <- MaxDashDeeds, calls <- requests, tally <- record
Write == INSTANCE Composer

-----------------------------------------------------------------------------

NoBox ==
  /\ server = 0 /\ outcome = 0 /\ cached = 0 /\ tomb = 0 /\ signals = 0 /\ linked = 0 /\ net = 0
  /\ stages = 0 /\ pending = 0 /\ timers = 0 /\ timer = 0 /\ committed = 0 /\ refreshing = 0
  /\ history = 0
NoSearch == store = 0 /\ page = 0 /\ asked = 0 /\ away = 0 /\ spent = 0
NoReader ==
  marked = 0 /\ cache = 0 /\ calls = 0 /\ told = 0 /\ reader = 0 /\ cards = 0 /\ tally = 0
NoDash ==
  /\ base = 0 /\ memo = 0 /\ compute = 0 /\ screen = 0 /\ card = 0 /\ known = 0
  /\ requests = 0 /\ record = 0
NoComposer ==
  /\ win = 0 /\ handoff = 0 /\ call = 0 /\ job = 0 /\ row = 0
  /\ disk = 0 /\ drafts = 0 /\ sent = 0 /\ owed = 0

Init ==
  \/ scene = "mailbox" /\ Box!Init /\ NoSearch /\ NoReader /\ NoDash /\ NoComposer
  \/ scene = "search" /\ Find!Init /\ NoBox /\ NoReader /\ NoDash /\ NoComposer
  \/ scene = "reader" /\ View!Init /\ NoBox /\ NoSearch /\ NoDash /\ NoComposer
  \/ scene = "dash" /\ Sums!Init /\ NoBox /\ NoSearch /\ NoReader /\ NoComposer
  \/ scene = "composer" /\ Write!Init /\ NoBox /\ NoSearch /\ NoReader /\ NoDash

Next ==
  /\ UNCHANGED scene
  /\ \/ scene = "mailbox" /\ Box!Next /\ UNCHANGED <<searchVars, readerVars, dashVars, writeVars>>
     \/ scene = "search" /\ Find!Next /\ UNCHANGED <<boxVars, readerVars, dashVars, writeVars>>
     \/ scene = "reader" /\ View!Next /\ UNCHANGED <<boxVars, searchVars, dashVars, writeVars>>
     \/ scene = "dash" /\ Sums!Next /\ UNCHANGED <<boxVars, searchVars, readerVars, writeVars>>
     \/ scene = "composer" /\ Write!Next /\ UNCHANGED <<boxVars, searchVars, readerVars, dashVars>>

\* Calls settle, handlers run, the socket comes back, the user looks at the list again, and a
\* minute passes.
BoxFairness ==
  /\ WF_boxVars(scene = "mailbox" /\ Box!OnSignal)
  /\ WF_boxVars(scene = "mailbox" /\ Box!Reconnect)
  /\ WF_boxVars(scene = "mailbox" /\ Box!Refresh)
  /\ \A k \in {"list", "get", "flags"} :
       WF_boxVars(scene = "mailbox" /\ \E r \in net : r.kind = k /\ Box!Serve(r))
  /\ WF_boxVars(scene = "mailbox" /\ \E r \in net : Box!ListArrives(r))
  /\ WF_boxVars(scene = "mailbox" /\ \E r \in net : Box!GetArrives(r) \/ Box!GetStored(r))
  /\ WF_boxVars(scene = "mailbox" /\ \E r \in net : Box!FlagsAnswered(r) \/ Box!FlagsFail(r))
  /\ \A s \in Stages :
       /\ WF_boxVars(scene = "mailbox"
            /\ \E m \in Mails : Box!ServeDelete(s, m) \/ Box!CallFails(s, m) \/ Box!ServeCancel(s, m))
       /\ WF_boxVars(scene = "mailbox" /\ Box!Staged(s))
       /\ WF_boxVars(scene = "mailbox" /\ Box!UndoDone(s))
       /\ WF_boxVars(scene = "mailbox" /\ Box!WindowTimer(s))
  /\ \A m \in Mails : SF_boxVars(scene = "mailbox" /\ Box!TombExpires(m))

FairSpec == Init /\ [][Next]_vars /\ BoxFairness

-----------------------------------------------------------------------------
(* Properties *)

\* What is hidden is what an action on offer hides, and what Search hides is gone
\* (db/cache.ts removal tombstones, state/undo.ts:115).
HidingIsTrue == scene = "mailbox" => Box!HidingIsTrue

\* Whatever was lost, late or reordered, refreshing makes the list what the server has
\* (state/data.ts: "self-heal").
Converges == <>[](scene = "mailbox" => \A m \in Mails : Box!Agrees(m))

\* The rows on the search screen are what the filled-in form asks for, whatever was typed,
\* answered, left or moved meanwhile (routes/Search.tsx), but for what the module excepts.
SearchIsTrue == scene = "search" => Find!SearchIsTrue

\* What is read on the screen at rest is read on the server, and a message marked unread by
\* hand outside conversations is not marked read again (routes/Reader.tsx, state/mutate.ts).
ReaderIsTrue == scene = "reader" => View!ReaderIsTrue

\* Cached figures of the current data are what the data gives, whatever another thread writes
\* while they are computed; and the dashboard at rest shows those of its thresholds, without
\* what it moved (cleanup/cache.ts, routes/Cleanup.tsx), but for what the module excepts.
FiguresAreTrue == scene = "dash" => Sums!FiguresAreTrue

\* What is written and not given up is in a composer, an autosave, a hand-off, a request, a
\* row, \Drafts or the sent mail, whichever window dies and whichever call fails
\* (routes/Compose.tsx), but for the gaps the module names.
WordsAreKept == scene = "composer" => Write!WordsAreKept

=============================================================================
