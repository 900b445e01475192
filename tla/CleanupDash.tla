---------------------------- MODULE CleanupDash ----------------------------
(***************************************************************************)
(* The cleanup dashboard: the server's figures behind a versioned cache    *)
(* (cleanup/cache.ts, db/dataVersion.ts, routes/api/cleanup.ts) and the    *)
(* screen that shows them, prices a run by them and refreshes them         *)
(* (routes/Cleanup.tsx, state/cleanupDash.ts).                             *)
(*                                                                         *)
(* One slice, large messages, stands for the four and the summary; its     *)
(* figures are the messages counted.  A message's size is its number.  The *)
(* main thread runs a request to its end, but the worker thread writes in  *)
(* between.  Reviews of senders are CleanupReview's, MOVEs the             *)
(* MessageLifecycle's.                                                     *)
(***************************************************************************)
EXTENDS Naturals, Sequences, SequencesExt

CONSTANTS Size,        \* messages 1 .. Size
          Thresholds,  \* the sizes a user may set
          Entries,     \* MAX_SLICE_ENTRIES
          MaxWrites,   \* bound: writes of the worker and of others
          MaxMoves,    \* bound: runs of the card
          MaxDeeds     \* bound: settings changed, the screen left, calls that fail

VARIABLES base,     \* the server: mail, keywords, the trash queue, the data version
          memo,     \* the cache of slices, the one used last at the end
          compute,  \* the dashboard being computed, or NoJob
          screen,   \* Cleanup()
          card,     \* ActionSliceCard
          known,    \* cachedDashboard, by threshold
          calls,    \* requests under way, oldest first
          tally     \* bounds and history

dashVars == <<base, memo, compute, screen, card, known, calls, tally>>

Msgs == 1 .. Size
NoJob == [call |-> 0, min |-> 0, version |-> 0, read |-> FALSE, figures |-> {}]
NoDash == [of |-> 0, figures |-> {}, queued |-> FALSE]

\* kind: load, status, execute, words; by: who acts on the answer, with the refresh it captured.
Call(kind, by, min) ==
  [kind |-> kind, by |-> by, min |-> min, phase |-> "sent", live |-> TRUE, data |-> NoDash]

-----------------------------------------------------------------------------
(* The server *)

\* The predicates of a slice: live, large, and not what the user's keywords protect.
Slice(min) == {m \in base.mail : m >= min /\ ~ (base.words /\ m = Size)}

\* Every write of what a slice reads bumps the version, by triggers on any connection.
Written(b) == base' = [b EXCEPT !.version = @ + 1]

\* storeSlice: the slice's entry becomes the last, and the one used longest ago may go.
Places(min) == {k \in DOMAIN memo : memo[k].min = min}
Without(min) == IF Places(min) = {} THEN memo ELSE RemoveAt(memo, CHOOSE k \in Places(min) : TRUE)
Stored(entry) ==
  LET all == Append(Without(entry.min), entry) IN IF Len(all) > Entries THEN Tail(all) ELSE all

Hit(e, min) == e.min = min /\ e.version = base.version

Payload(min, figures) == [of |-> min, figures |-> figures, queued |-> base.queue # {}]
Answer(i, data) == calls' = [calls EXCEPT ![i].phase = "answered", ![i].data = data]

\* GET dashboard: the version is read, and the cache.
Begin(i) ==
  LET c == calls[i] IN
  /\ c.kind = "load" /\ c.phase = "sent" /\ compute = NoJob
  /\ \/ \E k \in DOMAIN memo :
          /\ Hit(memo[k], c.min)
          /\ memo' = Stored(memo[k])
          /\ Answer(i, Payload(c.min, memo[k].data))
          /\ UNCHANGED compute
     \/ /\ \A k \in DOMAIN memo : ~ Hit(memo[k], c.min)
        /\ compute' = [NoJob EXCEPT !.call = i, !.min = c.min, !.version = base.version]
        /\ UNCHANGED <<memo, calls>>
  /\ UNCHANGED <<base, screen, card, known, tally>>

\* computeSliceData; the worker may write before it and after it.
Computes ==
  /\ compute # NoJob /\ ~ compute.read
  /\ compute' = [compute EXCEPT !.read = TRUE, !.figures = Slice(compute.min)]
  /\ UNCHANGED <<base, memo, screen, card, known, calls, tally>>

\* Mutant of Version: read after the slice was computed.
VersionAfter == base.version

\* What the result is stored under.
Version == compute.version

Finish ==
  /\ compute.read
  /\ memo' = Stored([min |-> compute.min, version |-> Version, data |-> compute.figures])
  /\ Answer(compute.call, Payload(compute.min, compute.figures))
  /\ compute' = NoJob
  /\ UNCHANGED <<base, screen, card, known, tally>>

\* The worker stores a message, or an enricher finds it to be a bill.
WorkerWrites(m) ==
  /\ tally.writes < MaxWrites /\ m \notin base.queue \cup tally.moved
  /\ Written([base EXCEPT !.mail = IF m \in @ THEN @ \ {m} ELSE @ \cup {m}])
  /\ tally' = [tally EXCEPT !.writes = @ + 1]
  /\ UNCHANGED <<memo, compute, screen, card, known, calls>>

\* The trash queue moves a message, or gives it up and shows it again.
Drains(m) ==
  /\ m \in base.queue /\ compute = NoJob
  /\ \/ Written([base EXCEPT !.queue = @ \ {m}]) /\ UNCHANGED tally
     \/ /\ tally.writes < MaxWrites
        /\ Written([base EXCEPT !.queue = @ \ {m}, !.mail = @ \cup {m}])
        /\ tally' = [tally EXCEPT !.writes = @ + 1, !.moved = @ \ {m}]
  /\ UNCHANGED <<memo, compute, screen, card, known, calls>>

ServeStatus(i) ==
  /\ calls[i].kind = "status" /\ calls[i].phase = "sent" /\ compute = NoJob
  /\ Answer(i, Payload(0, {}))
  /\ UNCHANGED <<base, memo, compute, screen, card, known, tally>>

\* POST execute resolves the slice anew, hides it and queues it; the reply may be lost.
ServeExecute(i) ==
  LET S == Slice(calls[i].min) IN
  /\ calls[i].kind = "execute" /\ calls[i].phase = "sent" /\ compute = NoJob
  /\ Written([base EXCEPT !.mail = @ \ S, !.queue = @ \cup S])
  /\ \/ /\ Answer(i, NoDash)
        /\ tally' = [tally EXCEPT !.moved = @ \cup S, !.astray = @ \/ ~ calls[i].live]
     \/ /\ tally.deeds < MaxDeeds
        /\ calls' = [calls EXCEPT ![i].phase = "lost"]
        /\ tally' = [tally EXCEPT !.deeds = @ + 1, !.astray = TRUE]
  /\ UNCHANGED <<memo, compute, screen, card, known>>

\* PATCH settings, with a list of keywords.
ServeWords(i) ==
  /\ calls[i].kind = "words" /\ calls[i].phase = "sent" /\ compute = NoJob
  /\ Written([base EXCEPT !.words = ~ @])
  /\ Answer(i, NoDash)
  /\ UNCHANGED <<memo, compute, screen, card, known, tally>>

-----------------------------------------------------------------------------
(* The screen *)

Deed == tally' = [tally EXCEPT !.deeds = @ + 1]
Budgeted == tally.deeds < MaxDeeds

Showing(d) == [screen EXCEPT !.dash = d, !.pending = d.queued]

\* Index i answered: the calls without it, and those that follow from it.
Settled(i, more) == calls' = RemoveAt(calls, i) \o more
Moved(i) == IF compute.call > i THEN [compute EXCEPT !.call = @ - 1] ELSE compute

\* The effect on the thresholds: cached figures at once, fresh ones asked for.
Loaded(min, cs) ==
  /\ screen' = [screen EXCEPT !.open = TRUE, !.min = min, !.dash = known[min],
                              !.pending = known[min].queued, !.error = FALSE]
  /\ calls' = Append(cs, Call("load", "effect", min))

Open ==
  /\ ~ screen.open
  /\ Loaded(screen.min, calls)
  /\ tally' = [tally EXCEPT !.recovered = FALSE]
  /\ UNCHANGED <<base, memo, compute, card, known>>

\* A threshold is changed, here or on another device: the effect before is cancelled.
Retune(min) ==
  /\ Budgeted /\ screen.open /\ min # screen.min
  /\ Loaded(min, [i \in DOMAIN calls |-> IF calls[i].by = "effect" THEN [calls[i] EXCEPT !.live = FALSE]
                                         ELSE calls[i]])
  /\ tally' = [tally EXCEPT !.deeds = @ + 1, !.recovered = FALSE,
                            !.astray = @ \/ card.mode = "running"
                                         \/ \E i \in DOMAIN calls : calls[i].by # "effect"]
  /\ UNCHANGED <<base, memo, compute, card, known>>

\* Polls end; what is under way finds nothing to show its answer on.
Leave ==
  /\ Budgeted /\ screen.open
  /\ screen' = [screen EXCEPT !.open = FALSE, !.dash = NoDash, !.pending = FALSE, !.error = FALSE]
  /\ card' = [mode |-> "idle", min |-> 0, polling |-> FALSE]
  /\ calls' = [i \in DOMAIN calls |-> [calls[i] EXCEPT !.live = FALSE]]
  /\ Deed
  /\ UNCHANGED <<base, memo, compute, known>>

\* loadDashboard: stored for its thresholds, and shown unless the effect was cancelled.
Arrives(i) ==
  LET c == calls[i] IN
  /\ c.kind = "load" /\ c.phase = "answered"
  /\ known' = [known EXCEPT ![c.min] = c.data]
  /\ screen' = IF c.live THEN Showing(c.data) ELSE screen
  /\ Settled(i, <<>>) /\ compute' = Moved(i)
  /\ tally' = [tally EXCEPT
       !.astray = @ \/ \E j \in 1 .. i - 1 : calls[j].kind = "load",
       !.recovered = @ \/ (c.live /\ screen.error)]
  /\ UNCHANGED <<base, memo, card>>

\* The interval, while the figures say that work is queued; one request of it at a time.
Polls ==
  /\ screen.pending /\ \A i \in DOMAIN calls : calls[i].kind # "status" \/ calls[i].by # "screen"
  /\ calls' = Append(calls, Call("status", "screen", screen.min))
  /\ UNCHANGED <<base, memo, compute, screen, card, known, tally>>

CardPolls ==
  /\ card.polling /\ \A i \in DOMAIN calls : calls[i].kind # "status" \/ calls[i].by # "card"
  /\ calls' = Append(calls, Call("status", "card", card.min))
  /\ UNCHANGED <<base, memo, compute, screen, card, known, tally>>

\* The poll of an execute answered after the screen was left.
Stray(min) == [Call("status", "stray", min) EXCEPT !.live = FALSE]

\* refresh, as it was when the poll was set up.
Refresh(c) == <<[Call("load", "refresh", c.min) EXCEPT !.live = c.live]>>

\* A poll whose card is gone has nothing to stop it but the queue.
Again(c) == IF c.by = "stray" THEN <<Stray(c.min)>> ELSE <<>>

\* Once nothing is queued: the run is done, and the figures are asked for again.
StatusArrives(i) ==
  LET c == calls[i]  drained == ~ c.data.queued IN
  /\ c.kind = "status" /\ c.phase = "answered"
  /\ Settled(i, IF drained THEN Refresh(c) ELSE Again(c)) /\ compute' = Moved(i)
  /\ screen' = IF c.live /\ c.by = "screen" THEN [screen EXCEPT !.pending = c.data.queued] ELSE screen
  /\ card' = IF c.live /\ c.by = "card" /\ drained
             THEN [card EXCEPT !.mode = "done", !.polling = FALSE] ELSE card
  /\ UNCHANGED <<base, memo, known, tally>>

\* applyKeywords saves the list and refreshes if it was saved.
EditWords ==
  /\ Budgeted /\ screen.open
  /\ calls' = Append(calls, Call("words", "screen", screen.min))
  /\ Deed
  /\ UNCHANGED <<base, memo, compute, screen, card, known>>

WordsArrive(i) ==
  /\ calls[i].kind = "words" /\ calls[i].phase = "answered"
  /\ Settled(i, Refresh(calls[i])) /\ compute' = Moved(i)
  /\ UNCHANGED <<base, memo, screen, card, known, tally>>

Fails(i) ==
  LET c == calls[i] IN
  /\ c.phase = "lost" \/ (c.phase = "sent" /\ compute.call # i /\ Budgeted)
  /\ screen' = [screen EXCEPT !.error = @ \/ (c.by = "effect" /\ c.live)]
  /\ card' = IF c.kind = "execute" /\ c.live THEN [card EXCEPT !.mode = "error"] ELSE card
  /\ Settled(i, Again(c)) /\ compute' = Moved(i)
  /\ tally' = [tally EXCEPT !.deeds = IF c.phase = "lost" THEN @ ELSE @ + 1,
                            !.astray = @ \/ c.kind = "load"]
  /\ UNCHANGED <<base, memo, known>>

-----------------------------------------------------------------------------
(* The card *)

Shown == screen.open /\ screen.dash.figures # {}

Confirm ==
  /\ Shown /\ card.mode = "idle"
  /\ card' = [card EXCEPT !.mode = "confirm"]
  /\ UNCHANGED <<base, memo, compute, screen, known, calls, tally>>

Cancel ==
  /\ Shown /\ card.mode \in {"confirm", "error"}
  /\ card' = [card EXCEPT !.mode = "idle"]
  /\ UNCHANGED <<base, memo, compute, screen, known, calls, tally>>

\* Sent with the thresholds set now, whichever the figures are of.
Execute ==
  /\ Shown /\ card.mode \in {"confirm", "error"} /\ tally.runs < MaxMoves
  /\ card' = [mode |-> "running", min |-> screen.min, polling |-> FALSE]
  /\ calls' = Append(calls, Call("execute", "card", screen.min))
  /\ tally' = [tally EXCEPT !.runs = @ + 1, !.mispriced = @ \/ screen.dash.of # screen.min]
  /\ UNCHANGED <<base, memo, compute, screen, known>>

\* The poll begins, even where the screen was left.
ExecuteArrives(i) ==
  /\ calls[i].kind = "execute" /\ calls[i].phase = "answered"
  /\ card' = IF calls[i].live THEN [card EXCEPT !.polling = TRUE] ELSE card
  /\ Settled(i, IF calls[i].live THEN <<>> ELSE <<Stray(calls[i].min)>>)
  /\ compute' = Moved(i)
  /\ UNCHANGED <<base, memo, screen, known, tally>>

-----------------------------------------------------------------------------

Init ==
  /\ base \in [mail : SUBSET Msgs, words : {FALSE}, queue : {{}}, version : {0}]
  /\ memo = <<>> /\ compute = NoJob
  /\ screen \in [open : {FALSE}, min : Thresholds, dash : {NoDash}, pending : {FALSE}, error : {FALSE}]
  /\ card = [mode |-> "idle", min |-> 0, polling |-> FALSE]
  /\ known = [t \in Thresholds |-> NoDash]
  /\ calls = <<>>
  /\ tally = [writes |-> 0, runs |-> 0, deeds |-> 0, moved |-> {}, astray |-> FALSE,
              mispriced |-> FALSE, recovered |-> FALSE]

Next ==
  \/ Computes \/ Finish \/ Open \/ Leave \/ Polls \/ CardPolls \/ EditWords \/ Confirm \/ Cancel \/ Execute
  \/ \E m \in Msgs : WorkerWrites(m) \/ Drains(m)
  \/ \E min \in Thresholds : Retune(min)
  \/ \E i \in DOMAIN calls :
       \/ Begin(i) \/ ServeStatus(i) \/ ServeExecute(i) \/ ServeWords(i)
       \/ Arrives(i) \/ StatusArrives(i) \/ WordsArrive(i) \/ ExecuteArrives(i) \/ Fails(i)

DashSpec == Init /\ [][Next]_dashVars

-----------------------------------------------------------------------------
(* Properties *)

AtRest ==
  screen.open /\ calls = <<>> /\ ~ screen.pending /\ card.mode # "running"

\* A cached slice of the current version is the slice (cleanup/cache.ts:47, whatever the worker
\* writes meanwhile); and at rest the figures are of the thresholds set and count nothing a
\* run of the card moved, unless thresholds were changed while one was under way, an answer
\* was overtaken or lost, or the screen left before a run was served.
FiguresAreTrue ==
  /\ \A k \in DOMAIN memo : memo[k].version = base.version => memo[k].data = Slice(memo[k].min)
  /\ AtRest /\ ~ tally.astray /\ screen.dash # NoDash
       => screen.dash.of = screen.min /\ screen.dash.figures \cap tally.moved = {}

\* The figures are those of the thresholds set (routes/Cleanup.tsx:981 "the dashboard re-fetches
\* when a threshold changes").
FiguresMatchThresholds == AtRest /\ screen.dash # NoDash => screen.dash.of = screen.min

\* What is moved is what was asked about (routes/Cleanup.tsx:989 "You always confirm before
\* anything moves").
PricedAsMoved == ~ tally.mispriced

\* The screen does not say it could not refresh once it has.
ErrorClears == ~ tally.recovered

=============================================================================
