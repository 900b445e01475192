--------------------------- MODULE ClientMailbox ---------------------------
(***************************************************************************)
(* The client's mirror of the inbox: db/cache.ts (rows and removal         *)
(* tombstones), state/signals.ts (the socket), state/data.ts (refresh and  *)
(* reconcile), state/mutate.ts (read/unread) and state/undo.ts (a delete   *)
(* staged behind the undo snackbar), against the routes they call and the  *)
(* server's outbox row.  Every `await' lets the other handlers in; calls   *)
(* may fail before or after the server served them; the socket drops.      *)
(*                                                                         *)
(* The server is coarse: one view, the inbox, one flag, and the life of an *)
(* outbox row as OutboxQueue has it (open, then committed, undone or given *)
(* up).  Lists are shorter than a page (MailViews has the pages).          *)
(***************************************************************************)
EXTENDS Naturals, Sequences

CONSTANTS Msgs,       \* messages
          Stages,     \* delete actions the user starts
          MaxEvents,  \* bound: what the user and others do
          MaxFaults,  \* bound: socket drops and failed reads
          MaxSignals  \* bound: signals queued on the socket

VARIABLES server,     \* messages: where, and read or not
          outcome,    \* outbox row of (stage, message)
          cached,     \* Dexie `messages': the row, or NoRow
          tomb,       \* removedRecently
          signals,    \* the socket's ordered stream to this client
          linked,     \* is the socket up?
          net,        \* HTTP requests in flight, outside a stage's own
          stages,     \* stage() and undoAction() runs
          pending,    \* the stage the snackbar shows, or NoStage
          timers,     \* armed window timers, by the stage that set them
          timer,      \* the one `timer' refers to
          committed,  \* ids Search goes on hiding
          refreshing, \* refreshingViewRef
          history     \* events used, and what the properties except

screen == <<cached, tomb, pending, timers, timer, committed, refreshing>>
vars == <<server, outcome, cached, tomb, signals, linked, net, stages, pending, timers, timer,
          committed, refreshing, history>>

NoStage == "no stage"
NoRow == [in |-> FALSE, seen |-> FALSE, row |-> FALSE]
Row(in, seen) == [in |-> in, seen |-> seen, row |-> TRUE]
Idle == [phase |-> "none", ids |-> {}, snap |-> [m \in Msgs |-> NoRow],
         call |-> [m \in Msgs |-> "none"]]

\* A tombstoned message is still mapped to the inbox, so GET shows it there.
Detail(m) == Row(server[m].place \in {"inbox", "hidden"}, server[m].seen)
Inbox == {m \in Msgs : server[m].place = "inbox"}

\* Signals reach a connected client in order; a disconnected one misses them.
Emit(type, m) ==
  IF linked THEN /\ Len(signals) < MaxSignals
                 /\ signals' = Append(signals, [type |-> type, msg |-> m, seen |-> server'[m].seen])
            ELSE UNCHANGED signals
Spent == [history EXCEPT !.events = @ + 1]
Noted(h) == IF linked THEN h ELSE [h EXCEPT !.missed = TRUE]

Get(m) == [kind |-> "get", msg |-> m, phase |-> "sent", data |-> NoRow, list |-> <<>>]
List == [kind |-> "list", msg |-> "all", phase |-> "sent", data |-> NoRow, list |-> <<>>]
SetSeen(m, v) == [kind |-> "flags", msg |-> m, phase |-> "sent", data |-> Row(TRUE, v), list |-> <<>>]
Becomes(r, s) == net' = (net \ {r}) \cup {s}
Done(r) == net' = net \ {r}

-----------------------------------------------------------------------------
(* The cache *)

\* removeCachedMessage: tombstone first, then the row.
Removed(S) ==
  /\ cached' = [m \in Msgs |-> IF m \in S THEN NoRow ELSE cached[m]]
  /\ tomb' = tomb \cup S

\* patchCachedFlags: a message without a row is left alone.
Patched(m, v) == [cached EXCEPT ![m] = IF @.row THEN Row(@.in, v) ELSE @]

\* Mutant: the tombstone is not consulted.
CacheEverything(list) ==
  [m \in Msgs |-> IF m \in DOMAIN list THEN Row(TRUE, list[m])
                  ELSE IF cached[m].in THEN NoRow ELSE cached[m]]

\* Mutant: nothing is dropped for not being listed.
CacheOnly(list) ==
  [m \in Msgs |-> IF m \in DOMAIN list /\ m \notin tomb THEN Row(TRUE, list[m]) ELSE cached[m]]

\* cacheMessages skips tombstoned ids, then reconcileHeadPage drops the inbox rows that
\* the (short) answer does not list.  No tombstone: other views may cache them again.
CacheList(list) ==
  [m \in Msgs |-> IF m \in DOMAIN list /\ m \notin tomb THEN Row(TRUE, list[m])
                  ELSE IF m \notin DOMAIN list /\ cached[m].in THEN NoRow ELSE cached[m]]

-----------------------------------------------------------------------------
(* The server and everyone else *)

Budgeted == history.events < MaxEvents

\* The INBOX sync stored a message.
NewMail(m) ==
  /\ Budgeted /\ server[m].place = "none"
  /\ server' = [server EXCEPT ![m].place = "inbox"]
  /\ Emit("new", m)
  /\ history' = Noted(Spent)
  /\ UNCHANGED <<outcome, screen, linked, net, stages>>

\* Deleted by another device, or moved away by another client.
LeavesElsewhere(m) ==
  /\ Budgeted /\ server[m].place = "inbox"
  /\ server' = [server EXCEPT ![m].place = "away"]
  /\ Emit("deleted", m)
  /\ history' = Noted(Spent)
  /\ UNCHANGED <<outcome, screen, linked, net, stages>>

ReadElsewhere(m) ==
  /\ Budgeted /\ server[m].place # "none"
  /\ server' = [server EXCEPT ![m].seen = ~@]
  /\ Emit("flags", m)
  /\ history' = Noted(Spent)
  /\ UNCHANGED <<outcome, screen, linked, net, stages>>

\* The outbox row comes due and its MOVE is taken.
Due(s, m) ==
  /\ outcome[s][m] \in {"open", "again"}
  /\ outcome' = [outcome EXCEPT ![s][m] = "committed"]
  /\ server' = [server EXCEPT ![m].place = IF @ = "hidden" THEN "away" ELSE @]
  /\ UNCHANGED <<screen, signals, linked, net, stages, history>>

\* revertDelete: a message that was hidden before stays hidden, and nothing is sent.
Reverted(s, m, end) ==
  /\ outcome' = [outcome EXCEPT ![s][m] = end]
  /\ IF outcome[s][m] = "open" /\ server[m].place = "hidden"
     THEN /\ server' = [server EXCEPT ![m].place = "inbox"]
          /\ Emit("restored", m)
          /\ history' = Noted(history)
     ELSE UNCHANGED <<server, signals, history>>

\* The row spent its attempts, minutes after the window: they are spaced by a backoff.
GivesUp(s, m) ==
  /\ outcome[s][m] \in {"open", "again"}
  /\ stages[s].phase = "over" /\ s \notin timers
  /\ Reverted(s, m, "failed")
  /\ UNCHANGED <<screen, linked, net, stages>>

-----------------------------------------------------------------------------
(* The socket *)

Disconnect ==
  /\ linked /\ history.faults < MaxFaults
  /\ linked' = FALSE
  /\ history' = [history EXCEPT !.faults = @ + 1, !.missed = @ \/ signals # <<>>]
  /\ signals' = <<>>
  /\ UNCHANGED <<server, outcome, screen, net, stages>>

\* refresh: one head fetch per view at a time; a call in between is dropped.
Refreshed == IF refreshing THEN UNCHANGED <<net, refreshing>>
             ELSE net' = net \cup {List} /\ refreshing' = TRUE

Reconnect ==
  /\ ~linked
  /\ linked' = TRUE
  /\ Refreshed
  /\ UNCHANGED <<server, outcome, cached, tomb, signals, stages, pending, timers, timer, committed, history>>

\* The app regains focus, or a folder signal arrives.
Refresh ==
  /\ ~refreshing
  /\ Refreshed
  /\ UNCHANGED <<server, outcome, cached, tomb, signals, linked, stages, pending, timers, timer, committed, history>>

\* clearRemovalTombstone, before the message is pulled again.
Cleared(type, m) == IF type = "restored" THEN tomb \ {m} ELSE tomb

\* uncommitDelete: a restore that any client caused shows the message to Search again.
ShownAgain(type, m) == IF type = "restored" THEN committed \ {m} ELSE committed

OnSignal ==
  /\ linked /\ signals # <<>>
  /\ LET g == Head(signals) IN
     /\ signals' = Tail(signals)
     /\ CASE g.type = "deleted" -> Removed({g.msg}) /\ UNCHANGED <<net, committed>>
          [] g.type = "flags"   -> cached' = Patched(g.msg, g.seen) /\ UNCHANGED <<tomb, net, committed>>
          [] OTHER -> /\ tomb' = Cleared(g.type, g.msg)
                      /\ committed' = ShownAgain(g.type, g.msg)
                      /\ net' = net \cup {Get(g.msg)}
                      /\ UNCHANGED cached
  /\ UNCHANGED <<server, outcome, linked, stages, pending, timers, timer, refreshing, history>>

\* A minute passed, longer than any request lives (25 s, once retried).
TombExpires(m) ==
  /\ m \in tomb
  /\ net = {} /\ pending = NoStage
  /\ \A s \in Stages : stages[s].phase \in {"none", "over"}
  /\ tomb' = tomb \ {m}
  /\ UNCHANGED <<server, outcome, cached, signals, linked, net, stages, pending, timers, timer,
                 committed, refreshing, history>>

-----------------------------------------------------------------------------
(* Requests *)

\* The server answers a list or a message as they are at that moment.
Serve(r) ==
  /\ r \in net /\ r.phase = "sent"
  /\ CASE r.kind = "list" -> /\ Becomes(r, [r EXCEPT !.phase = "answered",
                                             !.list = [m \in Inbox |-> server[m].seen]])
                             /\ UNCHANGED <<server, signals, history>>
       [] r.kind = "get" -> /\ Becomes(r, [r EXCEPT !.phase = "answered", !.data = Detail(r.msg)])
                            /\ UNCHANGED <<server, signals, history>>
       [] r.kind = "flags" -> /\ server' = [server EXCEPT ![r.msg].seen = r.data.seen]
                              /\ Emit("flags", r.msg)
                              /\ history' = Noted(history)
                              /\ Becomes(r, [r EXCEPT !.phase = "answered"])
  /\ UNCHANGED <<outcome, screen, linked, stages>>

\* The head page arrives: cache, reconcile, and the view may refresh again.
ListArrives(r) ==
  /\ r \in net /\ r.kind = "list" /\ r.phase = "answered"
  /\ cached' = CacheList(r.list)
  /\ refreshing' = FALSE
  /\ Done(r)
  /\ UNCHANGED <<server, outcome, tomb, signals, linked, stages, pending, timers, timer, committed, history>>

\* cacheBody: the tombstone is checked before the body is put ...
GetArrives(r) ==
  /\ r \in net /\ r.kind = "get" /\ r.phase = "answered"
  /\ IF r.msg \in tomb THEN Done(r) ELSE Becomes(r, [r EXCEPT !.phase = "checked"])
  /\ UNCHANGED <<server, outcome, screen, signals, linked, stages, history>>

\* ... and the row is put after that, whatever was removed in between.
GetStored(r) ==
  /\ r \in net /\ r.kind = "get" /\ r.phase = "checked"
  /\ cached' = [cached EXCEPT ![r.msg] = r.data]
  /\ Done(r)
  /\ history' = [history EXCEPT !.slipped = @ \/ r.msg \in tomb]
  /\ UNCHANGED <<server, outcome, tomb, signals, linked, stages, pending, timers, timer, committed, refreshing>>

\* mutateFlags: patch at once, ask the server.
MutateFlags(m, v) ==
  /\ Budgeted /\ linked /\ cached[m].in /\ cached[m].seen # v
  /\ cached' = Patched(m, v)
  /\ net' = net \cup {SetSeen(m, v)}
  /\ history' = Spent
  /\ UNCHANGED <<server, outcome, tomb, signals, linked, stages, pending, timers, timer, committed, refreshing>>

FlagsAnswered(r) ==
  /\ r \in net /\ r.kind = "flags" /\ r.phase = "answered"
  /\ Done(r)
  /\ UNCHANGED <<server, outcome, screen, signals, linked, stages, history>>

\* The call failed, before or after it was served: the patch is inverted.
FlagsFail(r) ==
  /\ r \in net /\ r.kind = "flags"
  /\ cached' = Patched(r.msg, ~r.data.seen)
  /\ Done(r)
  /\ UNCHANGED <<server, outcome, tomb, signals, linked, stages, pending, timers, timer, committed, refreshing, history>>

\* A read fails: what it was for is not done, and a list may be asked for again.
ReadFails(r) ==
  /\ r \in net /\ r.kind \in {"list", "get"} /\ r.phase # "checked"
  /\ Done(r)
  /\ refreshing' = (refreshing /\ r.kind # "list")
  /\ history.faults < MaxFaults
  /\ history' = [history EXCEPT !.faults = @ + 1, !.missed = TRUE]
  /\ UNCHANGED <<server, outcome, cached, tomb, signals, linked, stages, pending, timers, timer, committed>>

-----------------------------------------------------------------------------
(* Undo *)

\* commit(): the window is over for this client; the rows stay hidden.
CommitOf(p, armed, hid) ==
  IF p = NoStage THEN <<NoStage, armed, hid>>
  ELSE <<NoStage, armed \ {timer}, hid \cup stages[p].ids>>

Finalised ==
  LET c == CommitOf(pending, timers, committed) IN
  /\ pending' = c[1] /\ timers' = c[2] /\ committed' = c[3]
  /\ timer' = IF pending = NoStage THEN timer ELSE NoStage

\* stage(): finalise the one before, snapshot and remove the rows, call the server.
Stage(s, S) ==
  /\ Budgeted /\ stages[s].phase = "none" /\ S # {}
  /\ \A m \in S : cached[m].in
  /\ Finalised
  /\ Removed(S)
  /\ stages' = [stages EXCEPT ![s] = [phase |-> "calling", ids |-> S, snap |-> cached,
                                       call |-> [m \in Msgs |-> IF m \in S THEN "sent" ELSE "none"]]]
  /\ history' = [Spent EXCEPT !.overlapped = @ \/ \E t \in Stages : stages[t].phase \in {"calling", "undoing"}]
  /\ UNCHANGED <<server, outcome, signals, linked, net, refreshing>>

Answer(s, m, a) == stages' = [stages EXCEPT ![s].call[m] = a]

\* DELETE /messages/:id queues the row and tombstones the message.
ServeDelete(s, m) ==
  /\ stages[s].phase = "calling" /\ stages[s].call[m] = "sent"
  /\ outcome' = [outcome EXCEPT ![s][m] = IF server[m].place = "hidden" THEN "again" ELSE "open"]
  /\ server' = [server EXCEPT ![m].place = IF @ = "inbox" THEN "hidden" ELSE @]
  /\ Emit("deleted", m)
  /\ history' = Noted(history)
  /\ \E a \in {"ok", "lost"} : Answer(s, m, a)
  /\ UNCHANGED <<screen, linked, net>>

CallFails(s, m) ==
  /\ stages[s].phase \in {"calling", "undoing"} /\ stages[s].call[m] = "sent"
  /\ Answer(s, m, "lost")
  /\ UNCHANGED <<server, outcome, screen, signals, linked, net, history>>

With(s, a) == {m \in stages[s].ids : stages[s].call[m] = a}
Answered(s) == With(s, "sent") = {}

\* The rows of S go back as they were, tombstones lifted.
Reinserted(s, S) ==
  /\ cached' = [m \in Msgs |-> IF m \in S THEN stages[s].snap[m] ELSE cached[m]]
  /\ tomb' = tomb \ S

\* Rows the server could not queue go back.
StagedBack(s) == Reinserted(s, With(s, "lost"))

\* All calls answered: the snackbar shows what was queued, and its timer is armed.
Staged(s) ==
  /\ stages[s].phase = "calling" /\ Answered(s)
  /\ StagedBack(s)
  /\ IF With(s, "ok") = {}
     THEN /\ stages' = [stages EXCEPT ![s].phase = "over"]
          /\ UNCHANGED <<pending, timers, timer>>
     ELSE /\ stages' = [stages EXCEPT ![s].phase = "over", ![s].ids = With(s, "ok")]
          /\ pending' = s /\ timers' = timers \cup {s} /\ timer' = s
  /\ UNCHANGED <<server, outcome, signals, linked, net, committed, refreshing, history>>

\* The timeout stage s armed fires, and commits whatever is pending.
WindowTimer(s) ==
  /\ s \in timers
  /\ LET c == CommitOf(pending, timers \ {s}, committed) IN
     /\ pending' = c[1] /\ timers' = c[2] /\ committed' = c[3]
     /\ timer' = IF pending = NoStage THEN timer ELSE NoStage
  /\ UNCHANGED <<server, outcome, cached, tomb, signals, linked, net, stages, refreshing, history>>

\* undoAction: drop the snackbar, cancel every row.
Undo ==
  /\ pending # NoStage
  /\ timers' = timers \ {timer} /\ timer' = NoStage
  /\ stages' = [stages EXCEPT ![pending] = [@ EXCEPT !.phase = "undoing",
                  !.call = [m \in Msgs |-> IF m \in stages[pending].ids THEN "sent" ELSE "none"]]]
  /\ pending' = NoStage
  /\ UNCHANGED <<server, outcome, cached, tomb, signals, linked, net, committed, refreshing, history>>

\* DELETE /outbox/:id: too late once the row is committed or given up.
ServeCancel(s, m) ==
  /\ stages[s].phase = "undoing" /\ stages[s].call[m] = "sent"
  /\ IF outcome[s][m] \in {"open", "again"}
     THEN Reverted(s, m, "undone")
     ELSE UNCHANGED <<server, outcome, signals, history>>
  /\ Answer(s, m, IF outcome[s][m] \in {"open", "again"} THEN "ok" ELSE "late")
  /\ UNCHANGED <<screen, linked, net>>

\* The rows go back whether or not the cancels won.
UndoDone(s) ==
  /\ stages[s].phase = "undoing" /\ Answered(s)
  /\ Reinserted(s, stages[s].ids)
  /\ stages' = [stages EXCEPT ![s].phase = "over"]
  /\ UNCHANGED <<server, outcome, signals, linked, net, pending, timers, timer, committed, refreshing, history>>

-----------------------------------------------------------------------------

Init ==
  /\ server \in [Msgs -> [place : {"none", "inbox"}, seen : {FALSE}]]
  /\ outcome = [s \in Stages |-> [m \in Msgs |-> "none"]]
  /\ cached = [m \in Msgs |-> IF server[m].place = "inbox" THEN Row(TRUE, FALSE) ELSE NoRow]
  /\ tomb = {} /\ signals = <<>> /\ linked = TRUE /\ net = {}
  /\ stages = [s \in Stages |-> Idle]
  /\ pending = NoStage /\ timers = {} /\ timer = NoStage /\ committed = {}
  /\ refreshing = FALSE
  /\ history = [events |-> 0, faults |-> 0, missed |-> FALSE, slipped |-> FALSE,
                overlapped |-> FALSE]

Next ==
  \/ \E m \in Msgs : \/ NewMail(m) \/ LeavesElsewhere(m) \/ ReadElsewhere(m) \/ TombExpires(m)
                     \/ \E v \in BOOLEAN : MutateFlags(m, v)
  \/ \E s \in Stages, m \in Msgs :
       \/ Due(s, m) \/ GivesUp(s, m) \/ ServeDelete(s, m) \/ CallFails(s, m) \/ ServeCancel(s, m)
  \/ \E s \in Stages : \/ \E S \in SUBSET Msgs : Stage(s, S)
                       \/ Staged(s) \/ WindowTimer(s) \/ UndoDone(s)
  \/ \E r \in net : \/ Serve(r) \/ ListArrives(r) \/ GetArrives(r) \/ GetStored(r)
                    \/ FlagsAnswered(r) \/ FlagsFail(r) \/ ReadFails(r)
  \/ Disconnect \/ Reconnect \/ Refresh \/ OnSignal \/ Undo

Spec == Init /\ [][Next]_vars

\* maily's own steps end: calls settle, handlers run, the socket comes back, the user
\* looks at the list again, and a minute passes.
FairSpec ==
  /\ Spec
  /\ WF_vars(OnSignal) /\ WF_vars(Reconnect) /\ WF_vars(Refresh)
  /\ \A k \in {"list", "get", "flags"} : WF_vars(\E r \in net : r.kind = k /\ Serve(r))
  /\ WF_vars(\E r \in net : ListArrives(r))
  /\ WF_vars(\E r \in net : GetArrives(r) \/ GetStored(r))
  /\ WF_vars(\E r \in net : FlagsAnswered(r) \/ FlagsFail(r))
  /\ \A s \in Stages :
       /\ WF_vars(\E m \in Msgs : ServeDelete(s, m) \/ CallFails(s, m) \/ ServeCancel(s, m))
       /\ WF_vars(Staged(s)) /\ WF_vars(UndoDone(s)) /\ WF_vars(WindowTimer(s))
  /\ \A m \in Msgs : SF_vars(TombExpires(m))

-----------------------------------------------------------------------------
(* Properties *)

Rows == [in : BOOLEAN, seen : BOOLEAN, row : BOOLEAN]

\* Types: the cache, the requests and the undo state (db/cache.ts, state/undo.ts).
ClientTypeOK ==
  /\ cached \in [Msgs -> Rows]
  /\ \A m \in Msgs : cached[m].in => cached[m].row
  /\ tomb \subseteq Msgs /\ committed \subseteq Msgs
  /\ pending \in Stages \cup {NoStage} /\ timer \in Stages \cup {NoStage} /\ timers \subseteq Stages
  /\ \A r \in net : r.kind \in {"list", "get", "flags"} /\ r.phase \in {"sent", "answered", "checked"}
  /\ refreshing = (\E r \in net : r.kind = "list")
  /\ pending # NoStage => stages[pending].phase = "over" /\ stages[pending].ids # {}

\* What the user deleted stays off the list while Undo is offered: no late answer puts
\* it back (db/cache.ts removal tombstones), short of the server's own.  Excepted: an answer between cacheBody's
\* check and its put, a second action during the first one's calls, a missed signal.
StagedStaysHidden ==
  pending # NoStage /\ signals = <<>>
    /\ ~history.slipped /\ ~history.overlapped /\ ~history.missed
  => \A m \in stages[pending].ids \ Inbox : ~cached[m].in

Agrees(m) == /\ cached[m].in = (server[m].place = "inbox")
             /\ cached[m].in => cached[m].seen = server[m].seen

\* Whatever was lost, late or reordered, refreshing makes the list what the server has
\* (state/data.ts: "self-heal").
Converges == <>[](\A m \in Msgs : Agrees(m))

\* An action stops being offered by being undone or by being finalised, so Search goes
\* on hiding it (state/undo.ts:165).
EveryActionIsFinalised ==
  [][pending # NoStage /\ pending' # pending
     => stages'[pending].phase = "undoing" \/ stages[pending].ids \subseteq committed']_vars

\* A removed message stays away while its tombstone stands (db/cache.ts:70).
NoGhostRow == \A m \in tomb : ~cached[m].row

\* Search hides nothing that came back to the inbox (state/undo.ts:115), short of a
\* missed signal and of a message queued for deletion twice.
SearchShowsRestored ==
  signals = <<>> /\ ~history.missed
  => \A m \in committed \cap Inbox :
       \E s, t \in Stages : s # t /\ "none" \notin {outcome[s][m], outcome[t][m]}

\* What is hidden is what an action on offer hides, and what Search hides is gone.
HidingIsTrue == StagedStaysHidden /\ SearchShowsRestored

=============================================================================
