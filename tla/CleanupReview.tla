--------------------------- MODULE CleanupReview ----------------------------
(***************************************************************************)
(* Reviewing one sender's mail for cleanup and moving it to Trash: the     *)
(* drill screen (routes/CleanupMessages.tsx), the sender list and the      *)
(* "Move all" card (routes/Cleanup.tsx), the session's store of reviews    *)
(* (state/cleanupDrill.ts) and the server (routes/api/cleanup.ts,          *)
(* cleanup/slices.ts), which resolves every request afresh.                *)
(*                                                                         *)
(* Messages are numbers, the newer the larger.  The screen asks and goes   *)
(* on; requests fail, and answers come in any order.  The 300 ms a filter  *)
(* waits after a keystroke are left out, and so are byte totals.  What the *)
(* trash queue does to mail on its way is in MessageLifecycle; here it is  *)
(* moved, or given up and live again.                                      *)
(***************************************************************************)
EXTENDS Naturals, FiniteSets, Sequences, SequencesExt

CONSTANTS Size,     \* messages, of which the newest may have yet to arrive
          Hits,     \* those the filter finds
          Gated,    \* those the slice's safety gate or its own filter keeps out
          Slices,   \* of "storage", which has no gate, and "newsletters"
          Page,     \* PAGE_SIZE
          Faults,   \* what may go wrong: "list", "keep" and "run" requests; "order"
          MaxAsks,  \* bound: requests under way
          MaxRuns,  \* bound: runs
          MaxStirs  \* bound: things done elsewhere

VARIABLES store,  \* the slice reviewed and the server: here, live, kept, protected, queue
          drill,  \* the drill screen
          saved,  \* drillStore: the sender's review
          card,   \* the sender list or the slice's card: "idle", "asked", "moving"
          asks,   \* requests, oldest first
          note    \* bounds and history: runs, stirs, wish, shield, last

reviewVars == <<store, drill, saved, card, asks, note>>

Msgs == 1 .. Size

-----------------------------------------------------------------------------
(* The server *)

\* ELIGIBLE: live, not kept, not of a protected sender.
Eligible == IF store.protected THEN {} ELSE store.live \ store.kept

\* executeWhere: the audit skips the gate, the slices do not.
Movable == IF store.slice = "storage" THEN Eligible ELSE Eligible \ Gated

\* sliceMessages lists all live mail for the audit, else what a run would move.
Listed(q) ==
  LET all == IF store.slice = "storage" THEN store.live ELSE Movable
  IN IF q = "hits" THEN all \cap Hits ELSE all

NewestFirst(S) == SetToSortSeq(S, >)

Smaller(m, n) == IF m < n THEN m ELSE n

Sheet(q, offset) ==
  LET all == NewestFirst(Listed(q)) IN
  [rows |-> SubSeq(all, offset + 1, Smaller(offset + Page, Len(all))), total |-> Len(all),
   more |-> offset + Page < Len(all)]

\* sliceMessageIds: every scope narrows.
Resolved(scope) == (IF scope.all THEN Movable ELSE Movable \cap scope.ids) \ scope.except

-----------------------------------------------------------------------------
(* Requests *)

Whole == [all |-> TRUE, ids |-> {}, except |-> {}]
Ask == [kind |-> "list", by |-> "drill", served |-> FALSE, q |-> "any", offset |-> 0,
        why |-> "mount", sheet |-> [rows |-> <<>>, total |-> 0, more |-> FALSE],
        msg |-> 0, keep |-> TRUE, stands |-> TRUE, scope |-> Whole, unticked |-> {}, bound |-> Msgs]

Asking(a) == Len(asks) < MaxAsks /\ asks' = Append(asks, a)
List(q, offset, why) == [Ask EXCEPT !.q = q, !.offset = offset, !.why = why]
Forget(i) == asks' = RemoveAt(asks, i)

\* A keep of m under way has been taken back since.
Revoked(m) == [i \in DOMAIN asks |-> [asks[i] EXCEPT !.stands = @ /\ asks[i].msg # m]]

\* Requests are served, and lists answered, in the order they were sent.
InTurn(i) == "order" \in Faults \/ \A j \in 1 .. i - 1 : asks[j].served
FirstList(i) == "order" \in Faults \/ \A j \in 1 .. i - 1 : asks[j].kind # "list"

\* A fault of this kind may happen, to a request served or not.
MayFail(i) == asks[i].kind \in Faults

NoReview == [q |-> "any", mode |-> "none", off |-> {}, on |-> {}]
AllTicked == [mode |-> "all", off |-> {}, on |-> {}]
Unticked(w) == IF w.mode = "all" THEN w.off ELSE Msgs \ w.on

-----------------------------------------------------------------------------
(* The drill screen *)

Closed == [open |-> FALSE, q |-> "any", of |-> "any", rows |-> <<>>, total |-> 0, more |-> FALSE,
           loading |-> FALSE, paging |-> FALSE, restored |-> FALSE,
           mode |-> "all", off |-> {}, on |-> {}, exec |-> "idle", undo |-> 0]

\* The effect that stores the review while it says anything.
Review(d) ==
  IF d.loading THEN saved
  ELSE IF d.exec = "done" \/ (d.mode = "all" /\ d.off = {} /\ d.q = "any") THEN NoReview
  ELSE [q |-> d.q, mode |-> d.mode, off |-> d.off, on |-> d.on]

Show(d) == drill' = d /\ saved' = Review(d)

Checked(d, m) == IF d.mode = "all" THEN m \notin d.off ELSE m \in d.on
Ticks(d) == [mode |-> d.mode, off |-> d.off, on |-> d.on]
User == note.runs < MaxRuns   \* who is done after the last run
Ready == User /\ drill.open /\ ~ drill.loading /\ drill.exec = "idle"

\* drillInto, from the sender list: a saved review is taken up again.
OpenDrill ==
  /\ User /\ ~ drill.open
  /\ Asking(List(saved.q, 0, "mount"))
  /\ drill' = [Closed EXCEPT !.open = TRUE, !.q = saved.q, !.loading = TRUE,
                             !.restored = saved # NoReview,
                             !.mode = IF saved = NoReview THEN "all" ELSE saved.mode,
                             !.off = saved.off, !.on = saved.on]
  /\ card' = "idle"
  /\ UNCHANGED <<store, saved, note>>

\* Their answers will find nobody.
Orphans == [i \in DOMAIN asks |-> [asks[i] EXCEPT !.by = "nobody"]]

\* Back, or into a message: the review stays.
LeaveDrill ==
  /\ drill.open /\ User
  /\ drill' = Closed
  /\ asks' = Orphans
  /\ UNCHANGED <<store, saved, card, note>>

Filter(q) ==
  /\ User /\ drill.open /\ drill.exec # "done" /\ q # drill.q
  /\ Asking(List(q, 0, "change"))
  /\ Show([drill EXCEPT !.q = q, !.loading = TRUE])
  /\ UNCHANGED <<store, card, note>>

LoadMore ==
  /\ User /\ drill.open /\ ~ drill.loading /\ drill.exec # "done"
  /\ Len(drill.rows) > 0 /\ drill.more /\ ~ drill.paging
  /\ Asking(List(drill.q, Len(drill.rows), "more"))
  /\ Show([drill EXCEPT !.paging = TRUE])
  /\ UNCHANGED <<store, card, note>>

\* Mutant of Fresh: a restored review is not spared its first load.
FreshAlways(d) == [d EXCEPT !.restored = FALSE, !.mode = "all", !.off = {}, !.on = {}]

\* A fresh load ticks everything, but for the first one of a restored review.
Fresh(d) ==
  IF d.restored THEN [d EXCEPT !.restored = FALSE]
  ELSE [d EXCEPT !.mode = "all", !.off = {}, !.on = {}]

ListArrives(i) ==
  LET a == asks[i]
      d == [drill EXCEPT !.total = a.sheet.total, !.more = a.sheet.more,
                         !.loading = FALSE, !.paging = FALSE]
  IN /\ a.kind = "list" /\ a.served /\ FirstList(i)
     /\ Forget(i)
     /\ \/ a.by = "nobody" /\ UNCHANGED <<drill, saved, note>>
        \/ /\ a.by = "drill"
           /\ Show(IF a.offset = 0 THEN Fresh([d EXCEPT !.rows = a.sheet.rows, !.of = a.q])
                   ELSE [d EXCEPT !.rows = @ \o a.sheet.rows])
           /\ note' = [note EXCEPT !.wish = IF a.why = "change" THEN AllTicked ELSE @]
     /\ UNCHANGED <<store, card>>

ListFails(i) ==
  /\ asks[i].kind = "list" /\ MayFail(i)
  /\ Forget(i)
  /\ \/ asks[i].by = "nobody" /\ UNCHANGED <<drill, saved>>
     \/ asks[i].by = "drill" /\ Show([drill EXCEPT !.loading = FALSE, !.paging = FALSE])
  /\ UNCHANGED <<store, card, note>>

\* The user ticks: what is saved, and what is wished.
Tick(d) == Show(d) /\ note' = [note EXCEPT !.wish = Ticks(d)]
Flip(S, m) == IF m \in S THEN S \ {m} ELSE S \cup {m}

Toggle(m) ==
  /\ Ready /\ m \in Range(drill.rows)
  /\ Tick(IF drill.mode = "all" THEN [drill EXCEPT !.off = Flip(@, m)]
          ELSE [drill EXCEPT !.on = Flip(@, m)])
  /\ UNCHANGED <<store, card, asks>>

AllChecked ==
  IF drill.mode = "all" THEN drill.off = {}
  ELSE drill.rows # <<>> /\ Cardinality(drill.on) = Len(drill.rows)

SelectAll ==
  /\ Ready /\ drill.rows # <<>>
  /\ Tick(IF AllChecked THEN [drill EXCEPT !.mode = "manual", !.on = {}]
          ELSE [drill EXCEPT !.mode = "all", !.off = {}])
  /\ UNCHANGED <<store, card, asks>>

-----------------------------------------------------------------------------
(* Keeping a message *)

\* keepMessage: off the list at once, with an Undo (for six seconds, here until the next).
KeepMessage(m) ==
  /\ Ready /\ m \in Range(drill.rows)
  /\ Asking([Ask EXCEPT !.kind = "keep", !.msg = m])
  /\ LET d == [drill EXCEPT !.rows = SelectSeq(@, LAMBDA x : x # m),
                            !.total = IF @ > 0 THEN @ - 1 ELSE 0,
                            !.off = @ \ {m}, !.on = @ \ {m}, !.undo = m]
     IN Tick(d)
  /\ UNCHANGED <<store, card>>

\* undoKeep: the row goes back to its place.
UndoKeep ==
  LET m == drill.undo
      before == SelectSeq(drill.rows, LAMBDA x : x > m)
      after == SelectSeq(drill.rows, LAMBDA x : x < m)
  IN /\ User /\ m # 0
     /\ Len(asks) < MaxAsks
     /\ asks' = Append(Revoked(m), [Ask EXCEPT !.kind = "keep", !.msg = m, !.keep = FALSE])
     /\ Show([drill EXCEPT !.undo = 0, !.total = @ + 1,
                           !.rows = IF m \in Range(@) THEN @ ELSE before \o <<m>> \o after])
     /\ note' = [note EXCEPT !.shield = @ \ {m}]
     /\ UNCHANGED <<store, card>>

KeepArrives(i) ==
  /\ asks[i].kind = "keep" /\ asks[i].served
  /\ Forget(i)
  /\ note' = [note EXCEPT !.shield = IF asks[i].keep /\ asks[i].stands THEN @ \cup {asks[i].msg} ELSE @]
  /\ UNCHANGED <<store, drill, saved, card>>

\* It fails, and the list is loaded anew.
KeepFails(i) ==
  LET a == asks[i] IN
  /\ a.kind = "keep" /\ MayFail(i)
  /\ IF a.by = "nobody" THEN Forget(i) /\ UNCHANGED <<drill, saved>>
     ELSE /\ asks' = Append(RemoveAt(asks, i), List(drill.q, 0, "retry"))
          /\ Show([drill EXCEPT !.loading = TRUE])
  /\ UNCHANGED <<store, card, note>>

-----------------------------------------------------------------------------
(* Moving to Trash *)

\* "all" with no filter is the whole sender but for the unticked; else the ticked rows.
Express(d) == d.mode = "all" /\ d.q = "any"
Picked(d) == {m \in Range(d.rows) : Checked(d, m)}
Scope(d) ==
  IF Express(d) THEN [Whole EXCEPT !.except = d.off]
  ELSE [all |-> FALSE, ids |-> Picked(d), except |-> {}]
Count(d) == IF Express(d) THEN d.total - Cardinality(d.off) ELSE Cardinality(Picked(d))

\* A request of a run, with what the user has unticked and, of a filtered list, its rows.
Run(by, scope, unticked, bound) ==
  [Ask EXCEPT !.kind = "run", !.by = by, !.scope = scope, !.unticked = unticked, !.bound = bound]
Counted == User /\ note' = [note EXCEPT !.runs = @ + 1]

RunTrash ==
  /\ drill.open /\ ~ drill.loading /\ drill.rows # <<>> /\ drill.exec \in {"idle", "error"}
  /\ Count(drill) > 0
  /\ Counted
  /\ Asking(Run("drill", Scope(drill), Unticked(note.wish),
                IF drill.of = "hits" THEN Range(drill.rows) ELSE Msgs))
  /\ Show([drill EXCEPT !.exec = "running"])
  /\ UNCHANGED <<store, card>>

\* trashSelected, of the storage list: a review narrows the sender.
SenderScope ==
  CASE saved.mode = "manual" -> [all |-> FALSE, ids |-> saved.on, except |-> {}]
    [] saved.mode = "all"    -> [Whole EXCEPT !.except = saved.off]
    [] OTHER                 -> Whole

TrashSelected ==
  /\ store.slice = "storage" /\ ~ drill.open /\ card = "idle" /\ store.live # {}
  /\ saved.mode = "manual" => saved.on # {}
  /\ Counted
  /\ Asking(Run("card", SenderScope, Unticked(note.wish), Msgs))
  /\ card' = "asked"
  /\ UNCHANGED <<store, drill, saved>>

\* The card's "Move all" goes by no review.
MoveAll ==
  /\ store.slice # "storage" /\ ~ drill.open /\ card = "idle"
  /\ Counted
  /\ Asking(Run("card", Whole, {}, Msgs))
  /\ card' = "asked"
  /\ UNCHANGED <<store, drill, saved>>

RunArrives(i) ==
  LET a == asks[i] IN
  /\ a.kind = "run" /\ a.served
  /\ Forget(i)
  /\ IF a.by = "drill" THEN Show([drill EXCEPT !.exec = "moving"]) ELSE UNCHANGED <<drill, saved>>
  /\ card' = IF a.by = "card" /\ card = "asked" THEN "moving" ELSE card
  /\ UNCHANGED <<store, note>>

RunFails(i) ==
  LET a == asks[i] IN
  /\ a.kind = "run" /\ MayFail(i)
  /\ Forget(i)
  /\ IF a.by = "drill" THEN Show([drill EXCEPT !.exec = "error"]) ELSE UNCHANGED <<drill, saved>>
  /\ card' = IF a.by = "card" /\ card = "asked" THEN "idle" ELSE card
  /\ UNCHANGED <<store, note>>

\* The poll finds the queue drained: the review is consumed.
DrillDone ==
  /\ drill.exec = "moving" /\ store.queue = {}
  /\ Show([drill EXCEPT !.exec = "done"])
  /\ note' = [note EXCEPT !.wish = AllTicked]
  /\ UNCHANGED <<store, card, asks>>

CardDone ==
  /\ card = "moving" /\ store.queue = {}
  /\ card' = "idle"
  /\ IF store.slice = "storage" THEN saved' = NoReview /\ note' = [note EXCEPT !.wish = AllTicked]
     ELSE UNCHANGED <<saved, note>>
  /\ UNCHANGED <<store, drill, asks>>

\* The badge's x.
ClearReview ==
  /\ User /\ ~ drill.open /\ saved # NoReview
  /\ saved' = NoReview
  /\ note' = [note EXCEPT !.wish = AllTicked]
  /\ UNCHANGED <<store, drill, card, asks>>

-----------------------------------------------------------------------------
(* Served, and elsewhere *)

Serve(i) ==
  LET a == asks[i]
      moved == Resolved(a.scope)
  IN /\ ~ a.served /\ InTurn(i)
     /\ asks' = [asks EXCEPT ![i].served = TRUE,
                             ![i].sheet = IF a.kind = "list" THEN Sheet(a.q, a.offset) ELSE @]
     /\ store' = CASE a.kind = "keep" -> [store EXCEPT !.kept = IF a.keep THEN @ \cup {a.msg} ELSE @ \ {a.msg}]
                   [] a.kind = "run"  -> [store EXCEPT !.live = @ \ moved, !.queue = @ \cup moved]
                   [] OTHER           -> store
     /\ note' = IF a.kind # "run" THEN note
                ELSE [note EXCEPT !.last = [moved |-> moved, unticked |-> a.unticked, bound |-> a.bound,
                                            shield |-> note.shield]]
     /\ UNCHANGED <<drill, saved, card>>

Stir == note.stirs < MaxStirs
Stirred(n) == note' = [n EXCEPT !.stirs = @ + 1]

Arrive ==
  /\ Stir /\ Size \notin store.here
  /\ store' = [store EXCEPT !.here = @ \cup {Size}, !.live = @ \cup {Size}]
  /\ Stirred(note)
  /\ UNCHANGED <<drill, saved, card, asks>>

\* Another device keeps or releases it, or the Guarded section does.
KeptElsewhere(m) ==
  /\ Stir /\ m \in store.here
  /\ store' = [store EXCEPT !.kept = Flip(@, m)]
  /\ asks' = Revoked(m)
  /\ Stirred([note EXCEPT !.shield = @ \ {m}])
  /\ UNCHANGED <<drill, saved, card>>

\* The screen's shield: a protect rule for the sender (Tap in MailRules), its review dropped.
Protect ==
  /\ Stir /\ Ready /\ ~ store.protected
  /\ store' = [store EXCEPT !.protected = TRUE]
  /\ drill' = Closed /\ saved' = NoReview /\ asks' = Orphans
  /\ Stirred([note EXCEPT !.wish = AllTicked])
  /\ UNCHANGED card

\* Such a rule made elsewhere.
ProtectedElsewhere ==
  /\ Stir /\ ~ store.protected
  /\ store' = [store EXCEPT !.protected = TRUE]
  /\ Stirred(note)
  /\ UNCHANGED <<drill, saved, card, asks>>

QueueMoves(m) ==
  /\ m \in store.queue
  /\ store' = [store EXCEPT !.queue = @ \ {m}]
  /\ UNCHANGED <<drill, saved, card, asks, note>>

QueueGivesUp(m) ==
  /\ Stir /\ m \in store.queue
  /\ store' = [store EXCEPT !.queue = @ \ {m}, !.live = @ \cup {m}]
  /\ Stirred(note)
  /\ UNCHANGED <<drill, saved, card, asks>>

Init ==
  /\ store \in {[slice |-> slice, here |-> here, live |-> here, kept |-> {},
                protected |-> FALSE, queue |-> {}] :
                 slice \in Slices, here \in {Msgs, Msgs \ {Size}}}
  /\ drill = Closed
  /\ saved = NoReview
  /\ card = "idle"
  /\ asks = <<>>
  /\ note = [runs |-> 0, stirs |-> 0, wish |-> AllTicked, shield |-> {},
             last |-> [moved |-> {}, unticked |-> {}, bound |-> Msgs, shield |-> {}]]

Next ==
  \/ OpenDrill \/ LeaveDrill \/ LoadMore \/ SelectAll \/ UndoKeep
  \/ RunTrash \/ TrashSelected \/ MoveAll \/ DrillDone \/ CardDone \/ ClearReview
  \/ Arrive \/ Protect \/ ProtectedElsewhere
  \/ \E q \in {"any", "hits"} : Filter(q)
  \/ \E m \in Msgs : \/ Toggle(m) \/ KeepMessage(m) \/ KeptElsewhere(m)
                     \/ QueueMoves(m) \/ QueueGivesUp(m)
  \/ \E i \in DOMAIN asks : \/ Serve(i) \/ ListArrives(i) \/ ListFails(i) \/ KeepArrives(i)
                            \/ KeepFails(i) \/ RunArrives(i) \/ RunFails(i)

Spec == Init /\ [][Next]_reviewVars

-----------------------------------------------------------------------------
(* Properties *)

\* A run spares what the user marked: whatever was left, reloaded, kept or received in between,
\* it moves nothing that was unticked and not ticked again, in the drill or in the sender list
\* (routes/Cleanup.tsx "reviewed senders only send what you marked"; a new filter starts a new
\* review), and no message whose Keep was answered and not taken back.
MarkedIsSpared ==
  /\ note.last.moved \cap note.last.unticked = {}
  /\ note.last.moved \cap note.last.shield = {}

\* A run from a filtered list moves only rows of that list
\* (routes/CleanupMessages.tsx "it would trash beyond what's shown").
FilterBoundsRun == note.last.moved \subseteq note.last.bound

=============================================================================
