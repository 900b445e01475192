----------------------------- MODULE ServerSide -----------------------------
(***************************************************************************)
(* Four parts of the server that share no state, each in a scene of one    *)
(* model for TLC: the worker thread (WorkerHost), new-mail notifications   *)
(* (PushDelivery), contacts (Directory) and a message's flag (FlagSync).   *)
(* A behaviour plays one scene and leaves the others' variables as they    *)
(* were at first.                                                          *)
(***************************************************************************)
EXTENDS Naturals

CONSTANTS Accounts, Threads, MaxNudges, MaxCrashes,
          Msgs, Tokens, Limit, MaxTime, MaxToggles, MaxFaults,
          Hrefs, First, Books, Configured, Facts, Clients, MaxEdits, MaxWrites, MaxDavFaults,
          CondStore, MaxAttempts, MaxTaps, MaxOthers, MaxTrouble

ASSUME ServerAssumption ==
  /\ Accounts # {} /\ Threads # {} /\ Msgs # {} /\ Tokens # {} /\ Clients # {} /\ Facts # {}
  /\ {MaxNudges, MaxCrashes, Limit, MaxTime, MaxToggles, MaxFaults} \subseteq Nat /\ Limit > 0
  /\ {MaxEdits, MaxWrites, MaxDavFaults, MaxAttempts, MaxTaps, MaxOthers, MaxTrouble} \subseteq Nat
  /\ CondStore \in BOOLEAN
  /\ First \subseteq Hrefs /\ Configured \in Books

VARIABLES scene,
          worker, current, thread, host, due, spent,
          mail, clock, rows, phone, poll, marker, resume, switch, offers, webpush, past,
          dav, cards, runs, req, sheet, tally,
          provider, local, toggles, store, pass, modseq, story

hostVars == <<worker, current, thread, host, due, spent>>
pushVars == <<mail, clock, rows, phone, poll, marker, resume, switch, offers, webpush, past>>
dirVars == <<dav, cards, runs, req, sheet, tally>>
flagVars == <<provider, local, toggles, store, pass, modseq, story>>
vars == <<scene, hostVars, pushVars, dirVars, flagVars>>

Host == INSTANCE WorkerHost
Push == INSTANCE PushDelivery
Dir == INSTANCE Directory
Flag == INSTANCE FlagSync

-----------------------------------------------------------------------------

Init ==
  /\ scene \in {"worker", "push", "contacts", "flags"}
  /\ Host!Init /\ Push!Init /\ Flag!Init
  /\ IF scene = "contacts" THEN Dir!Init
     ELSE dav = 0 /\ cards = 0 /\ runs = 0 /\ req = 0 /\ sheet = 0 /\ tally = 0

Next ==
  \/ scene = "worker" /\ Host!Next /\ UNCHANGED <<scene, pushVars, dirVars, flagVars>>
  \/ scene = "push" /\ Push!Next /\ UNCHANGED <<scene, hostVars, dirVars, flagVars>>
  \/ scene = "contacts" /\ Dir!Next /\ UNCHANGED <<scene, hostVars, pushVars, flagVars>>
  \/ scene = "flags" /\ Flag!Next /\ UNCHANGED <<scene, hostVars, pushVars, dirVars>>

\* The worker's timer ticks, its loops turn and its jobs end.
HostFairness ==
  /\ WF_hostVars(scene = "worker" /\ Host!Tick)
  /\ \A t \in Threads :
       /\ WF_hostVars(scene = "worker" /\ Host!Relay(t))
       /\ WF_hostVars(scene = "worker" /\ Host!Receive(t))
       /\ WF_hostVars(scene = "worker" /\ Host!EndSweep(t))
       /\ WF_hostVars(scene = "worker" /\ Host!DrainCheap(t))
       /\ WF_hostVars(scene = "worker" /\ Host!EndEnrich(t))

\* Alarms fire, calls and the shell's answers come, and the user opens the app again.
PushFairness ==
  /\ WF_pushVars(scene = "push" /\ Push!AlarmFires)
  /\ WF_pushVars(scene = "push" /\ Push!ServePoll)
  /\ WF_pushVars(scene = "push" /\ Push!PollEnds)
  /\ WF_pushVars(scene = "push" /\ Push!AppOpens)
  /\ WF_pushVars(scene = "push" /\ Push!ResumeDecides)
  /\ WF_pushVars(scene = "push" /\ Push!ResumeHands)
  /\ WF_pushVars(scene = "push" /\ \E t \in Tokens : Push!ResumeMints(t))
  /\ WF_pushVars(scene = "push" /\ \E ok \in BOOLEAN : Push!EnableHands(ok))
  /\ WF_pushVars(scene = "push" /\ \E f \in BOOLEAN : Push!DisableRevokes(f))

\* The sync timer ticks, and calls to the CardDAV server end.
DirFairness ==
  /\ WF_dirVars(scene = "contacts" /\ Dir!TimerSync)
  /\ \A x \in Clients \cup {"timer"} :
       WF_dirVars(scene = "contacts" /\ (\/ \E ok \in BOOLEAN : Dir!Discover(x, ok)
                                        \/ \E ok \in BOOLEAN : Dir!FetchBook(x, ok)
                                        \/ Dir!Replace(x)))
  /\ \A c \in Clients :
       WF_dirVars(scene = "contacts" /\ (\/ Dir!Write(c) \/ Dir!Answered(c)
                                        \/ \E h \in Hrefs : Dir!Delete(c, h)))

\* The outbox's queue runs and its calls end, and passes follow each other to their end.
FlagFairness ==
  /\ WF_flagVars(scene = "flags" /\ Flag!Drain)
  /\ WF_flagVars(scene = "flags" /\ Flag!Resync)

FairSpec == Init /\ [][Next]_vars /\ HostFairness /\ PushFairness /\ DirFairness /\ FlagFairness

-----------------------------------------------------------------------------
(* Properties *)

\* A lost nudge only delays work (worker/host.ts:100): rows due are drained though nudges
\* are coalesced and threads die with their inbox.
DueIsDrained == scene = "worker" => Host!DueIsDrained

\* Mail is offered to a device at most once, whatever is lost, killed or read meanwhile
\* (push/pending.ts:17).
OfferedOnce == scene = "push" => Push!OfferedOnce

\* Wherever a merge stops, what it deleted is on the survivor (contacts/merge.ts:6).
DeletedIsCopied == scene = "contacts" => Dir!DeletedIsCopied

\* What is mirrored ends up what its server has: contacts whichever syncs overlapped
\* (contacts/carddav.ts syncContacts), a flag whatever toggles, passes and other clients
\* crossed each other (imap/resync.ts resyncFlags, outbox/intents.ts:4).
MirrorConverges ==
  /\ scene = "contacts" => Dir!MirrorConverges
  /\ scene = "flags" => Flag!FlagFollows

=============================================================================
