---------------------------- MODULE ReaderScreen ----------------------------
(***************************************************************************)
(* A message being read (routes/Reader.tsx) and, in conversation view, the *)
(* cards of its thread (components/ConversationThread.tsx): what opening   *)
(* fetches and marks read, the buttons, and state/mutate.ts behind them,   *)
(* which patches the cache, asks the server and takes back what was        *)
(* refused, while the server's signals patch the same rows.                *)
(*                                                                         *)
(* Effects run again when what they depend on changed: `After' does that.  *)
(* One flag, seen, stands for both; moving mail away is ClientMailbox's.   *)
(***************************************************************************)
EXTENDS Naturals, FiniteSets, FiniteSetsExt, Sequences

CONSTANTS Views,      \* conversation view, or not: a set of BOOLEANs
          Dwells,     \* markReadSeconds: "never", "at once", "later"
          MaxUnread,  \* bound: messages unread at first
          MaxDeeds,   \* bound: what the user and other devices do
          MaxLosses   \* bound: calls that fail, connections that go

VARIABLES server,   \* messages seen, on the server
          cache,    \* and in the client's cache
          calls,    \* requests under way, a set
          signals,  \* mail:flags on the socket
          reader,   \* the screen
          cards,    \* the cards of the conversation
          tally     \* bounds and history

readerVars == <<server, cache, calls, signals, reader, cards, tally>>

Members == {1, 2}   \* one thread, oldest first

Call(kind, m, v, ui) ==
  [kind |-> kind, msg |-> m, seen |-> v, ui |-> ui, phase |-> "sent", data |-> {}, alone |-> TRUE,
   after |-> tally.deeds]

Set(S, m, v) == IF v THEN S \cup {m} ELSE S \ {m}

-----------------------------------------------------------------------------
(* The screen as one record, and its effects *)

Screen == [cache |-> cache, calls |-> calls, reader |-> reader, cards |-> cards, tally |-> tally]

Becomes(s) ==
  /\ cache' = s.cache /\ calls' = s.calls /\ reader' = s.reader /\ cards' = s.cards
  /\ tally' = s.tally

\* Something else happens to the messages S while calls for them are under way.
Touched(s, S) ==
  [s EXCEPT !.calls = {IF c.kind = "flags" /\ c.msg \in S THEN [c EXCEPT !.alone = FALSE] ELSE c : c \in @}]

\* Rows written; the button follows the opened message's.
Written(s, S, seen) ==
  LET c == (s.cache \ S) \cup (seen \cap S) IN
  [s EXCEPT !.cache = c,
            !.reader.seen = IF s.reader.open \in S THEN s.reader.open \in c ELSE @]

\* mutateFlags for one message: patch, tell the button, ask.
Mutated(s, m, v, ui) ==
  LET t == Written([Touched(s, {m}) EXCEPT !.reader.seen = IF ui THEN v ELSE @], {m}, Set({}, m, v))
      lone == (m \in s.cache) # v /\ \A c \in s.calls : c.msg # m \/ c.kind # "flags"
  IN [t EXCEPT !.calls = @ \cup {[Call("flags", m, v, ui) EXCEPT !.alone = lone]}]

\* Marked by an effect or its timer.
AutoRead(s, m, ui) ==
  LET t == Mutated(s, m, TRUE, ui) IN [t EXCEPT !.tally.fought = @ \/ m \in s.tally.hand]

\* Mutant of Evaluates: the flag decides, not the id.
EvaluatesSeen(s) == s.reader.online /\ s.reader.open # 0

\* The reader's effect considers an opened message once.
Evaluates(s) == s.reader.online /\ s.reader.open # 0 /\ s.reader.marked # s.reader.open

\* A card's considers it until it has marked it.
CardMarks(s, m) ==
  /\ s.reader.online /\ s.reader.open # 0 /\ s.reader.threaded /\ s.reader.dwell # "never"
  /\ s.cards[m].expanded /\ ~ s.cards[m].marked /\ m \notin s.cache

\* The effects run again for the messages S: timers are dropped, and marks made or timed.
After(s, S) ==
  LET open == s.reader.open
      once == open \in S /\ Evaluates(s)
      head == once /\ open \notin s.cache /\ s.reader.dwell # "never"
      due == {m \in S : CardMarks(s, m)}
      later == s.reader.dwell = "later"
      t == [s EXCEPT
              !.reader.marked = IF once THEN open ELSE @,
              !.reader.timer = IF open \in S THEN head /\ later ELSE @,
              !.cards = [m \in Members |-> [expanded |-> @[m].expanded,
                                            marked |-> @[m].marked \/ m \in due,
                                            timer |-> IF m \in S THEN m \in due /\ later ELSE @[m].timer]]]
      u == FoldSet(LAMBDA m, x : AutoRead(x, m, FALSE), t, IF later THEN {} ELSE due)
  IN IF head /\ ~ later THEN AutoRead(u, open, TRUE) ELSE u

\* The screen becomes s, and the effects follow what changed.
Renders(s) == Becomes(After(s, {m \in Members : (m \in s.cache) # (m \in cache)}))

Deed(s) == [s EXCEPT !.tally.deeds = @ + 1]
Budgeted == tally.deeds < MaxDeeds

-----------------------------------------------------------------------------
(* The user *)

\* The opened message, the latest and the unread ones start expanded; cards already there stay.
Open(m) ==
  /\ Budgeted /\ reader.open # m
  /\ LET card(x) == IF reader.open # 0 THEN cards[x]
                    ELSE [expanded |-> x \in {m, 2} \/ x \notin cache, marked |-> FALSE, timer |-> FALSE]
         s == [Deed(Screen) EXCEPT !.reader.open = m, !.reader.seen = m \in cache, !.reader.timer = FALSE,
                                   !.cards = [x \in Members |-> card(x)],
                                   !.calls = @ \cup {Call("get", m, FALSE, FALSE)},
                                   !.tally.hand = @ \ {m}]
     IN Becomes(After(s, IF reader.open = 0 THEN Members ELSE {m}))
  /\ UNCHANGED <<server, signals>>

\* The screen is gone, and with it its timers and what its calls would tell it.
Closed(s) ==
  [s EXCEPT !.reader.open = 0, !.reader.marked = 0, !.reader.timer = FALSE, !.reader.seen = FALSE,
            !.cards = [m \in Members |-> [expanded |-> FALSE, marked |-> FALSE, timer |-> FALSE]],
            !.calls = {[c EXCEPT !.ui = FALSE] : c \in @},
            !.tally.hand = {}]

Close == reader.open # 0 /\ Becomes(Closed(Screen)) /\ UNCHANGED <<server, signals>>

\* By hand, for one message.
Toggled(s, m, v, ui) ==
  LET t == Mutated(s, m, v, ui) IN [t EXCEPT !.tally.hand = IF v THEN @ \ {m} ELSE @ \cup {m}]

\* The header's button: every message of a conversation gets the opposite of what it shows.
ToggleSeen ==
  /\ Budgeted /\ reader.open # 0 /\ reader.online
  /\ LET v == ~ reader.seen
         ids == IF reader.threaded THEN Members ELSE {reader.open}
     IN Renders(FoldSet(LAMBDA m, s : Toggled(s, m, v, TRUE), Deed(Screen), ids))
  /\ UNCHANGED <<server, signals>>

\* A card's button.
MarkUnread(m) ==
  /\ Budgeted /\ reader.open # 0 /\ reader.online /\ reader.threaded /\ cards[m].expanded
  /\ Renders(Toggled(Deed(Screen), m, FALSE, FALSE))
  /\ UNCHANGED <<server, signals>>

Fold(m) ==
  /\ Budgeted /\ reader.open # 0 /\ reader.threaded
  /\ Becomes(After([Deed(Screen) EXCEPT !.cards[m].expanded = ~ @], {m} \ {reader.open}))
  /\ UNCHANGED <<server, signals>>

TimerFires(m) ==
  /\ \/ reader.timer /\ reader.open = m /\ Renders(AutoRead(Screen, m, TRUE))
     \/ cards[m].timer /\ Renders(AutoRead(Screen, m, FALSE))
  /\ UNCHANGED <<server, signals>>

\* restore, deleteForever: awaited, then the reader is closed.
Dispose ==
  /\ Budgeted /\ reader.open # 0 /\ reader.online /\ ~ reader.busy
  /\ Becomes([Deed(Screen) EXCEPT !.reader.busy = TRUE,
                                  !.calls = @ \cup {Call("dispose", reader.open, FALSE, TRUE)}])
  /\ UNCHANGED <<server, signals>>

-----------------------------------------------------------------------------
(* Calls, signals, connections *)

Taken(s, c) == [s EXCEPT !.calls = @ \ {c}]

\* PATCH flags: applied and told at once; the reply may be lost.
ServeFlags(c) ==
  /\ c.kind = "flags" /\ c.phase = "sent"
  /\ server' = Set(server, c.msg, c.seen)
  /\ signals' = Append(signals, <<c.msg, c.seen>>)
  /\ \/ Becomes(Touched(Taken(Screen, c), {c.msg}))
     \/ /\ tally.losses < MaxLosses
        /\ Becomes([Touched(Taken(Screen, c), {c.msg}) EXCEPT
                     !.calls = @ \cup {[c EXCEPT !.phase = "lost", !.alone = FALSE]}, !.tally.losses = @ + 1])

\* invert, and the button told; a conflict with another change of the message is noted.
Reverted(s, c) ==
  LET t == [Taken(s, c) EXCEPT !.reader.seen = IF c.ui THEN ~ c.seen ELSE @,
                               !.tally.strayed = IF c.alone THEN @ ELSE @ \cup {c.msg}]
  IN Written(Touched(t, {c.msg}), {c.msg}, Set({}, c.msg, ~ c.seen))

FlagsFail(c) ==
  /\ c.kind = "flags"
  /\ \/ c.phase = "lost" /\ Renders(Reverted(Screen, c))
     \/ /\ c.phase = "sent" /\ tally.losses < MaxLosses
        /\ Renders([Reverted(Screen, c) EXCEPT !.tally.losses = @ + 1])
  /\ UNCHANGED <<server, signals>>

\* The GETs of the message, which embeds images after it read the row, and of its thread: one
\* answer stands for both.
Read(c) ==
  /\ c.kind = "get" /\ c.phase = "sent"
  /\ calls' = (calls \ {c}) \cup {[c EXCEPT !.phase = "read", !.data = server]}
  /\ UNCHANGED <<server, cache, signals, reader, cards, tally>>

Arrives(c) ==
  /\ c.phase = "read"
  /\ LET s == Written(Touched(Taken(Screen, c), Members), Members, c.data)
     IN Renders([s EXCEPT !.tally.strayed = @ \cup {m \in Members : (m \in c.data) # (m \in server)}])
  /\ UNCHANGED <<server, signals>>

GetFails(c) ==
  /\ c.kind = "get" /\ tally.losses < MaxLosses
  /\ Becomes([Taken(Screen, c) EXCEPT !.tally.losses = @ + 1])
  /\ UNCHANGED <<server, signals>>

\* onClose runs whatever is open by then.
Disposed(c) ==
  /\ c.kind = "dispose"
  /\ \/ Becomes([Closed(Taken(Screen, c)) EXCEPT !.reader.busy = FALSE,
                   !.tally.shut = @ \/ reader.open \notin {0, c.msg}])
     \/ tally.losses < MaxLosses /\ Becomes([Taken(Screen, c) EXCEPT !.reader.busy = FALSE, !.tally.losses = @ + 1])
  /\ UNCHANGED <<server, signals>>

Hear ==
  /\ signals # <<>>
  /\ LET m == Head(signals)[1] IN
     Renders(Written(Touched(Screen, {m}), {m}, Set({}, m, Head(signals)[2])))
  /\ signals' = Tail(signals)
  /\ UNCHANGED server

\* Another device, or the server taking back what the provider refused.
Elsewhere(m) ==
  /\ Budgeted
  /\ server' = Set(server, m, m \notin server)
  /\ signals' = Append(signals, <<m, m \notin server>>)
  /\ Becomes(Touched(Deed(Screen), {m}))

Connection ==
  /\ ~ reader.online \/ tally.losses < MaxLosses
  /\ LET s == [Screen EXCEPT !.reader.online = ~ @, !.tally.losses = IF reader.online THEN @ + 1 ELSE @]
     IN Becomes(After(s, Members))
  /\ UNCHANGED <<server, signals>>

-----------------------------------------------------------------------------

Init ==
  /\ server \in {S \in SUBSET Members : Cardinality(Members \ S) <= MaxUnread} /\ cache = server
  /\ calls = {} /\ signals = <<>>
  /\ reader \in [open : {0}, seen : {FALSE}, marked : {0}, timer : {FALSE}, busy : {FALSE},
                 online : {TRUE}, threaded : Views, dwell : Dwells]
  /\ cards = [m \in Members |-> [expanded |-> FALSE, marked |-> FALSE, timer |-> FALSE]]
  /\ tally = [deeds |-> 0, losses |-> 0, hand |-> {}, fought |-> FALSE, strayed |-> {}, shut |-> FALSE]

Next ==
  \/ Close \/ ToggleSeen \/ Dispose \/ Hear \/ Connection
  \/ \E m \in Members : Open(m) \/ MarkUnread(m) \/ Fold(m) \/ TimerFires(m) \/ Elsewhere(m)
  \/ \E c \in calls :
       ServeFlags(c) \/ FlagsFail(c) \/ Read(c) \/ Arrives(c) \/ GetFails(c) \/ Disposed(c)

ReaderSpec == Init /\ [][Next]_readerVars

-----------------------------------------------------------------------------
(* Properties *)

AtRest == calls = {} /\ signals = <<>>

\* At rest a message is read on the screen if it is on the server (state/mutate.ts), unless a
\* refusal crossed another change of it or an answer read before a change arrived after it; and
\* outside conversations what was marked unread by hand is not marked read again by its own
\* being open (routes/Reader.tsx).
ReaderIsTrue ==
  /\ AtRest => \A m \in Members \ tally.strayed : m \in cache <=> m \in server
  /\ ~ reader.threaded => ~ tally.fought

\* Opening marks read once; marking unread by hand stands (components/ConversationThread.tsx:65
\* "Auto-mark read once when the card is expanded").
ManualUnreadStands == ~ tally.fought

\* At rest the client knows what is read (db/cache.ts cacheBody "Keep the list row's flags ...
\* in sync").
SeenAgrees == AtRest => cache = server

\* At rest the button says what the opened message is.
ButtonAgrees == AtRest /\ reader.open # 0 => (reader.seen <=> reader.open \in cache)

\* A message opened since is not closed by the end of another's restore.
StaysOpen == ~ tally.shut

=============================================================================
