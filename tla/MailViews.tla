----------------------------- MODULE MailViews ------------------------------
(***************************************************************************)
(* A list of mail on the screen: what useMessages (state/data.ts) shows of *)
(* the cache (db/cache.ts), the pages it fetches (routes/api/messages.ts,  *)
(* db/queries.ts), the infinite scroll (routes/Home.tsx) and what signals  *)
(* put into the cache in between (state/signals.ts).                       *)
(*                                                                         *)
(* Messages are numbers, the newer the larger.  The view is a folder, or   *)
(* one of the merged ones, which differ in the query only; in Starred a    *)
(* row loses its star where it is dropped here.  Rows painted until the    *)
(* cache answers are left out, and so is the body prefetch, which puts     *)
(* rows the list has anyway.  A signal's GET is one step with it, and the  *)
(* unread page one request with the head (ClientMailbox has the calls and  *)
(* the deletes of this client).                                            *)
(***************************************************************************)
EXTENDS Naturals, FiniteSets, Sequences, SequencesExt, FiniteSetsExt

CONSTANTS Length,       \* messages, those yet to arrive included
          Expected,   \* how many of them have yet to arrive
          Away,       \* how many of the others this client was never told of
          Ties,       \* messages received at the same time as the one before
          OldUnread,  \* messages unread at first
          Tops,       \* "unread at top", on or off
          PageSize,
          Failing,     \* "head" and "more" requests that may fail; "missed" signals
          MaxHeads,   \* bound: head pages under way
          MaxHitches  \* bound: failed requests, departures, things done to mail elsewhere

VARIABLES server,  \* the view: in it, and of those unread
          cached,  \* Dexie: rows, those unread, those tombstoned
          told,    \* signals on the socket, oldest first
          list,    \* useMessages
          net,     \* page requests, oldest first
          past     \* bounds and history: hitches, unheard, dropped

viewVars == <<server, cached, told, list, net, past>>

Msgs == 1 .. Length
At(m) == m - Cardinality({t \in Ties : t <= m})
Newest(S, n) == {m \in S : Cardinality({k \in S : k > m}) < n}
Oldest(S) == IF S = {} THEN 0 ELSE At(Min(S))

-----------------------------------------------------------------------------
(* The server *)

\* Mutant of Older: a cursor one off.
OlderByTwo(m, before) == before = 0 \/ At(m) + 1 < before

\* Strictly older than the cursor, if there is one.
Older(m, before) == before = 0 \/ At(m) < before

\* MAX_PAGE and UNREAD_PAGE are out of reach.
Listed(before) == Newest({m \in server.in : Older(m, before)}, PageSize)

-----------------------------------------------------------------------------
(* The list *)

\* The live query: the newest rows, up to the display limit; with unread at top, all that are
\* unread and that many of the others.
Shown ==
  IF list.top THEN cached.unread \cup Newest(cached.rows \ cached.unread, list.limit)
  ELSE Newest(cached.rows, list.limit)

\* The row the list ends with.
EndRow ==
  LET read == Shown \ cached.unread
  IN IF list.top /\ read # {} THEN Min(read) ELSE Min(Shown)

Page == [kind |-> "head", before |-> 0, phase |-> "sent", rows |-> {}, unread |-> {},
         all |-> {}, mine |-> TRUE]
Heads == Cardinality({i \in DOMAIN net : net[i].kind = "head"})
Fresh == [open |-> TRUE, top |-> list.top, limit |-> PageSize, more |-> TRUE,
          refreshing |-> TRUE, loading |-> FALSE]

\* The hook that asked is on this view again, or still.
Heard(a) == a.mine /\ list.open

\* refresh: one at a time.
Focus ==
  /\ list.open /\ ~ list.refreshing /\ Heads < MaxHeads
  /\ list' = [list EXCEPT !.refreshing = TRUE]
  /\ net' = Append(net, Page)
  /\ UNCHANGED <<server, cached, told, past>>

\* loadMore, when the end of the list comes near: the next window of the cache is shown at once,
\* and a page fetched from where the list ends now.
Scroll ==
  /\ list.open /\ list.more /\ ~ list.loading /\ Shown # {}
  /\ list' = [list EXCEPT !.loading = TRUE, !.limit = IF @ >= Length THEN @ ELSE @ + PageSize]
  /\ net' = Append(net, [Page EXCEPT !.kind = "more", !.before = At(EndRow)])
  /\ UNCHANGED <<server, cached, told, past>>

\* To another view and back, or into the reader, which takes the hook away.
Leave(how) ==
  /\ list.open /\ past.hitches < MaxHitches
  /\ list' = [list EXCEPT !.open = FALSE, !.refreshing = FALSE,
                          !.loading = how = "view" /\ list.loading]
  /\ net' = IF how = "view" THEN net ELSE [i \in DOMAIN net |-> [net[i] EXCEPT !.mine = FALSE]]
  /\ past' = [past EXCEPT !.hitches = @ + 1]
  /\ UNCHANGED <<server, cached, told>>

Return ==
  /\ ~ list.open /\ Heads < MaxHeads
  /\ list' = [Fresh EXCEPT !.loading = list.loading]
  /\ net' = Append(net, Page)
  /\ UNCHANGED <<server, cached, told, past>>

-----------------------------------------------------------------------------
(* Pages *)

Serve(i) ==
  /\ net[i].phase = "sent"
  /\ net' = [net EXCEPT ![i].phase = "served", ![i].rows = Listed(net[i].before),
                        ![i].unread = server.unread, ![i].all = server.in]
  /\ UNCHANGED <<server, cached, told, list, past>>

\* cacheMessages, of the page and of the unread ones: not what was removed lately.
Put(rows, unread) ==
  LET fresh == rows \ cached.gone
  IN cached' = [cached EXCEPT !.rows = @ \cup fresh, !.unread = (@ \ fresh) \cup (fresh \cap unread)]

HeadStored(i) ==
  /\ net[i].kind = "head" /\ net[i].phase = "served"
  /\ Put(net[i].rows \cup (IF list.top THEN net[i].unread ELSE {}), net[i].unread)
  /\ net' = [net EXCEPT ![i].phase = "stored"]
  /\ UNCHANGED <<server, told, list, past>>

\* Mutant of Stale: a full page is taken for all there is.
StaleBelow(a) == cached.rows \ a.rows

\* reconcileHeadPage: rows newer than the page's oldest that are not on it.
Stale(a) ==
  {m \in cached.rows \ a.rows : Cardinality(a.rows) < PageSize \/ At(m) > Oldest(a.rows)}

\* reconcileUnreadPage, of which one answer holds all.
ReadSince(a) == IF list.top THEN cached.unread \ a.unread ELSE {}

HeadReconciled(i) ==
  LET a == net[i] IN
  /\ a.kind = "head" /\ a.phase = "stored"
  /\ cached' = [cached EXCEPT !.rows = @ \ Stale(a), !.unread = (@ \ Stale(a)) \ ReadSince(a)]
  /\ net' = RemoveAt(net, i)
  /\ list' = [list EXCEPT !.more = IF Heard(a) THEN Cardinality(a.rows) = PageSize ELSE @,
                          !.refreshing = IF Heard(a) THEN FALSE ELSE @]
  /\ past' = [past EXCEPT !.unheard = (@ \ a.all) \cup (Stale(a) \cap server.in),
                          !.dropped = @ \cup (Stale(a) \cap server.in)]
  /\ UNCHANGED <<server, told>>

MoreStored(i) ==
  LET a == net[i] IN
  /\ a.kind = "more" /\ a.phase = "served"
  /\ Put(a.rows, a.unread)
  /\ net' = RemoveAt(net, i)
  /\ list' = [list EXCEPT !.more = IF Heard(a) THEN Cardinality(a.rows) = PageSize ELSE @,
                          !.loading = IF a.mine THEN FALSE ELSE @]
  /\ UNCHANGED <<server, told, past>>

Fails(i) ==
  LET a == net[i] IN
  /\ a.kind \in Failing /\ a.phase # "stored" /\ past.hitches < MaxHitches
  /\ net' = RemoveAt(net, i)
  /\ list' = IF a.kind = "more" THEN [list EXCEPT !.loading = IF a.mine THEN FALSE ELSE @]
             ELSE [list EXCEPT !.refreshing = IF Heard(a) THEN FALSE ELSE @]
  /\ past' = [past EXCEPT !.hitches = @ + 1]
  /\ UNCHANGED <<server, cached, told>>

-----------------------------------------------------------------------------
(* Mail, and the word of it *)

Missable == {FALSE} \cup {f \in {TRUE} : "missed" \in Failing}

\* A signal is sent, or this client misses it.
Tell(missed, kind, m) ==
  /\ told' = IF missed THEN told ELSE Append(told, [kind |-> kind, msg |-> m])
  /\ past' = [past EXCEPT !.hitches = IF kind = "new" THEN @ ELSE @ + 1,
                          !.unheard = IF missed \/ kind # "new" THEN @ \cup {m} ELSE @]

Arrive(missed) ==
  LET next == CHOOSE m \in Msgs : m \notin server.come /\ \A k \in 1 .. m - 1 : k \in server.come IN
  /\ server.come # Msgs
  /\ server' = [server EXCEPT !.come = @ \cup {next}, !.in = @ \cup {next}, !.unread = @ \cup {next}]
  /\ Tell(missed, "new", next)
  /\ UNCHANGED <<cached, list, net>>

GoElsewhere(m, missed) ==
  /\ m \in server.in /\ past.hitches < MaxHitches
  /\ server' = [server EXCEPT !.in = @ \ {m}, !.unread = @ \ {m}]
  /\ Tell(missed, "gone", m)
  /\ UNCHANGED <<cached, list, net>>

ReadElsewhere(m, missed) ==
  /\ m \in server.unread /\ past.hitches < MaxHitches
  /\ server' = [server EXCEPT !.unread = @ \ {m}]
  /\ Tell(missed, "read", m)
  /\ UNCHANGED <<cached, list, net>>

Hear ==
  /\ told # <<>> /\ told' = Tail(told)
  /\ LET m == Head(told).msg IN
       CASE Head(told).kind = "new"  -> Put({m} \cap server.in, server.unread)
         [] Head(told).kind = "gone" -> cached' = [cached EXCEPT !.rows = @ \ {m}, !.unread = @ \ {m},
                                                                 !.gone = @ \cup {m}]
         [] Head(told).kind = "read" -> cached' = [cached EXCEPT !.unread = @ \ {m}]
  /\ UNCHANGED <<server, list, net, past>>

Init ==
  LET come == 1 .. Length - Expected IN
  /\ server = [come |-> come, in |-> come, unread |-> OldUnread \cap come]
  /\ cached \in {[rows |-> S, unread |-> OldUnread \cap S, gone |-> {}] :
                   S \in {{}, 1 .. Length - Expected - Away}}
  /\ told = <<>>
  /\ list \in {[open |-> FALSE, top |-> top, limit |-> PageSize, more |-> TRUE,
                refreshing |-> FALSE, loading |-> FALSE] : top \in Tops}
  /\ net = <<>>
  /\ past = [hitches |-> 0, unheard |-> come, dropped |-> {}]

Next ==
  \/ Focus \/ Scroll \/ Return \/ Hear
  \/ \E how \in {"view", "reader"} : Leave(how)
  \/ \E i \in DOMAIN net : \/ Serve(i) \/ HeadStored(i) \/ HeadReconciled(i)
                           \/ MoreStored(i) \/ Fails(i)
  \/ \E missed \in Missable : \/ Arrive(missed)
                              \/ \E m \in Msgs : GoElsewhere(m, missed) \/ ReadElsewhere(m, missed)

\* Requests are served and answers dealt with, signals come, and the list is looked at again
\* and scrolled on.
FairSpec ==
  /\ Init /\ [][Next]_viewVars
  /\ WF_viewVars(Return) /\ WF_viewVars(Hear)
  /\ SF_viewVars(Focus) /\ SF_viewVars(Scroll)
  /\ \A kind \in {"head", "more"} :
       WF_viewVars(\E i \in DOMAIN net : net[i].kind = kind /\ Serve(i))
  /\ WF_viewVars(\E i \in DOMAIN net : HeadStored(i) \/ HeadReconciled(i))
  /\ WF_viewVars(\E i \in DOMAIN net : MoreStored(i))

-----------------------------------------------------------------------------
(* Properties *)

\* Nothing is under way, and there is a list.
Quiet == list.open /\ net = <<>> /\ told = <<>> /\ Shown # {}
Known == server.in \ past.unheard

\* At rest no message is missing from the list that is newer than its last row or, with unread
\* at top, unread, whatever arrived, went, failed or was scrolled meanwhile (state/data.ts), but
\* for what this client has yet to hear of.
NoHole ==
  Quiet => {m \in Known : IF list.top THEN m \in server.unread ELSE m >= EndRow} \subseteq Shown

\* With unread at top, too, the list misses nothing newer than its last row
\* (state/data.ts:224 "the read section fills the date-ordered window below it").
NoHoleBelow == Quiet => {m \in Known : m >= EndRow} \subseteq Shown

\* A list scrolled on and looked at again ends up as the server's view, all of it, or with
\* unread at top with every unread message (state/data.ts, "self-heals").
ListSettles ==
  <>[](list.open /\ IF list.top THEN server.unread \subseteq Shown ELSE Shown = server.in)

\* A refresh drops only rows that have left the view (db/cache.ts:245 "provably left").
DropsOnlyGone == past.dropped = {}

=============================================================================
