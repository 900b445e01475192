----------------------------- MODULE Directory -----------------------------
(***************************************************************************)
(* Contacts: the cards on the CardDAV server (dav), which other programs   *)
(* write too; the backend's mirror of them, replaced whole by every        *)
(* syncContacts run (contacts/carddav.ts, store.ts), where the timer's and *)
(* each write's runs overlap; the write routes, merge among them           *)
(* (routes/api/contacts.ts, merge.ts, duplicates.ts); and maily's clients, *)
(* each with one sheet and one request at a time (ContactEditor,           *)
(* ContactDetail, Contacts, MergeContactsDialog).                          *)
(*                                                                         *)
(* What a card says is a set of facts: a scalar, an address, a phone, a    *)
(* note line.  A name or an address is a fact two cards may share.         *)
(***************************************************************************)
EXTENDS Naturals, FiniteSets, SequencesExt

CONSTANTS Hrefs,        \* resources ...
          First,        \* ... and those that exist at first
          Books,        \* address books
          Configured,   \* the book CARDDAV_URL names
          Facts,
          Clients,
          MaxEdits,     \* bound: writes of other programs
          MaxWrites,    \* bound: requests of maily's clients
          MaxDavFaults  \* bound: calls to the server that fail

VARIABLES dav,     \* the server's cards, or NoCard
          cards,   \* the `contacts' table, by resource
          runs,    \* syncContacts: the timer's, and the one each request awaits
          req,     \* the request of each client being served
          sheet,   \* the editor open on a client: the card as it was loaded
          tally    \* bounds used; what nobody asked to remove

dirVars == <<dav, cards, runs, req, sheet, tally>>

Timer == "timer"
NoCard == [book |-> "none", rev |-> 0, facts |-> {}]
Exists(c) == c.book # "none"
Cached == {h \in Hrefs : Exists(cards[h])}
Written(c, F) == [c EXCEPT !.rev = @ + 1, !.facts = F]

NoRun == [step |-> "none", left |-> <<>>, got |-> [h \in Hrefs |-> NoCard]]
Started == [NoRun EXCEPT !.step = "discovering"]
NoReq == [kind |-> "none", step |-> "none", card |-> "none", book |-> "none", etag |-> 0,
          facts |-> {}, rest |-> {}, deleted |-> {}]
Closed == [href |-> "none", facts |-> {}]

Put(c, r) == req' = [req EXCEPT ![c] = r]
Syncs(c) == runs' = [runs EXCEPT ![c] = Started]
Spent(f) == tally' = [tally EXCEPT ![f] = @ + 1]
Faulty == tally.faults < MaxDavFaults /\ Spent("faults")
Idle(c) == req[c].step = "none"

-----------------------------------------------------------------------------
(* Duplicates and merge *)

Alike(g, h) == cards[g].facts \cap cards[h].facts # {}

\* Groups.union: card h, and every group that holds a card like it, become one.
Joined(root, seen, h) ==
  LET linked == {root[g] : g \in {x \in seen : Alike(x, h)}} IN
  [g \in DOMAIN root |-> IF root[g] \in linked THEN h ELSE root[g]]

\* findDuplicateGroups, in the table's order: clusters of two cards or more.
Clusters ==
  LET order == SetToSeq(Cached)
      Step(root, i) == Joined(root, {order[j] : j \in 1..(i - 1)}, order[i])
      root == FoldLeft(Step, [h \in Cached |-> h], [i \in 1..Len(order) |-> i])
  IN {C \in {{h \in Cached : root[h] = r} : r \in Hrefs} : Cardinality(C) > 1}

\* mergeCards: the union of what the mirror has of each.
Merged(S) == UNION {cards[h].facts : h \in S}

-----------------------------------------------------------------------------
(* The server and its other writers *)

\* A writer that had `before' in view gives up what F leaves out.
Asked(before, F) == [tally EXCEPT !.owed = @ \ (before \ F)]

OtherEdits(h, F) ==
  /\ tally.edits < MaxEdits /\ Exists(dav[h]) /\ F # dav[h].facts
  /\ dav' = [dav EXCEPT ![h] = Written(@, F)]
  /\ tally' = [Asked(dav[h].facts, F) EXCEPT !.edits = @ + 1, !.owed = @ \cup F]
  /\ UNCHANGED <<cards, runs, req, sheet>>

-----------------------------------------------------------------------------
(* syncContacts *)

\* Once at boot, then on an interval.
TimerSync ==
  /\ runs[Timer] = NoRun
  /\ Syncs(Timer)
  /\ UNCHANGED <<dav, cards, req, sheet, tally>>

\* discoverAddressbooks never throws: when it cannot list them, the configured book alone.
Discover(x, ok) ==
  /\ runs[x].step = "discovering"
  /\ runs' = [runs EXCEPT ![x].step = "fetching", ![x].left = IF ok THEN SetToSeq(Books) ELSE <<Configured>>]
  /\ IF ok THEN UNCHANGED tally ELSE Faulty
  /\ UNCHANGED <<dav, cards, req, sheet>>

\* fetchBook: a book's cards as they are now, or none when the REPORT fails.
FetchBook(x, ok) ==
  /\ runs[x].step = "fetching" /\ runs[x].left # <<>>
  /\ LET InBook(h) == dav[h].book = Head(runs[x].left) IN
     runs' = [runs EXCEPT ![x].left = Tail(@),
                ![x].got = IF ok THEN [h \in Hrefs |-> IF InBook(h) THEN dav[h] ELSE @[h]] ELSE @]
  /\ IF ok THEN UNCHANGED tally ELSE Faulty
  /\ UNCHANGED <<dav, cards, req, sheet>>

\* Mutant: the rows are put over the old ones.
MirroredOver(got) == [h \in Hrefs |-> IF Exists(got[h]) THEN got[h] ELSE cards[h]]

\* replaceContacts: one transaction deletes every row and inserts the run's.
Mirrored(got) == got

\* The request that awaited the run goes on.
Replace(x) ==
  /\ runs[x].step = "fetching" /\ runs[x].left = <<>>
  /\ cards' = Mirrored(runs[x].got)
  /\ runs' = [runs EXCEPT ![x] = NoRun]
  /\ req' = IF x = Timer THEN req
            ELSE [req EXCEPT ![x].step = IF req[x].rest = {} THEN "answered" ELSE "deleting"]
  /\ UNCHANGED <<dav, sheet, tally>>

-----------------------------------------------------------------------------
(* The clients and the routes they call *)

\* A card's page loads, and its sheet opens on what was loaded.
Opens(c, h) ==
  /\ Idle(c) /\ sheet[c] = Closed /\ h \in Cached
  /\ sheet' = [sheet EXCEPT ![c] = [href |-> h, facts |-> cards[h].facts]]
  /\ UNCHANGED <<dav, cards, runs, req, tally>>

Cancels(c) ==
  /\ Idle(c) /\ sheet[c] # Closed
  /\ sheet' = [sheet EXCEPT ![c] = Closed]
  /\ UNCHANGED <<dav, cards, runs, req, tally>>

Asks(c) == Idle(c) /\ tally.writes < MaxWrites

\* PUT /contacts/cards/:key: every field is the form's; the etag is the mirror's of now.
Save(c, F) ==
  /\ Asks(c) /\ sheet[c] # Closed /\ F \notin {sheet[c].facts, {}}
  /\ LET h == sheet[c].href IN
     Put(c, [NoReq EXCEPT !.kind = "update", !.card = h, !.etag = cards[h].rev, !.facts = F,
                          !.step = IF h \in Cached THEN "writing" ELSE "refused"])
  /\ tally' = [Asked(sheet[c].facts, F) EXCEPT !.writes = @ + 1]
  /\ UNCHANGED <<dav, cards, runs, sheet>>

\* POST /contacts/cards, or one card of an import: a fresh resource in a discovered book.
Create(c, h, b, F) ==
  /\ Asks(c) /\ sheet[c] = Closed /\ h \notin tally.names
  /\ Put(c, [NoReq EXCEPT !.kind = "create", !.card = h, !.book = b, !.facts = F, !.step = "writing"])
  /\ tally' = [tally EXCEPT !.writes = @ + 1, !.names = @ \cup {h}]
  /\ UNCHANGED <<dav, cards, runs, sheet>>

\* DELETE /contacts/cards/:key, from the sheet: the user gives up what it shows.
RemoveCard(c) ==
  /\ Asks(c) /\ sheet[c] # Closed
  /\ LET h == sheet[c].href IN
     Put(c, [NoReq EXCEPT !.kind = "delete", !.rest = {h},
                          !.step = IF h \in Cached THEN "deleting" ELSE "refused"])
  /\ tally' = [Asked(sheet[c].facts, {}) EXCEPT !.writes = @ + 1]
  /\ UNCHANGED <<dav, cards, runs, sheet>>

\* Mutant: the cards folded in are deleted before the survivor is written.
FirstStepOfMergeLate == "deleting"

\* If writing the survivor fails, nothing has been deleted.
FirstStepOfMerge == "writing"

\* POST /contacts/cards/merge, from the dialog on a cluster: all is read from the mirror at
\* once, the survivor's etag and no other.
Merge(c, C, p) ==
  /\ Asks(c) /\ sheet[c] = Closed /\ C \in Clusters /\ p \in C
  /\ Put(c, [NoReq EXCEPT !.kind = "merge", !.card = p, !.etag = cards[p].rev, !.facts = Merged(C),
                          !.rest = C \ {p}, !.step = FirstStepOfMerge])
  /\ Spent("writes")
  /\ UNCHANGED <<dav, cards, runs, sheet>>

\* If-Match on an update, If-None-Match on a new resource (etag 0).
Matches(c) == dav[req[c].card].rev = req[c].etag
Stored(c) ==
  LET r == req[c]
      card == [dav[r.card] EXCEPT !.book = IF r.kind = "create" THEN r.book ELSE @]
  IN [dav EXCEPT ![r.card] = Written(card, r.facts)]

\* The card is written and a sync started; or 412, answered as a 409.
Write(c) ==
  /\ req[c].step = "writing"
  /\ IF Matches(c)
     THEN /\ dav' = Stored(c)
          /\ Put(c, [req[c] EXCEPT !.step = "syncing"]) /\ Syncs(c)
          /\ tally' = [tally EXCEPT !.owed = @ \cup req[c].facts]
     ELSE /\ Put(c, [req[c] EXCEPT !.step = "refused"])
          /\ UNCHANGED <<dav, runs, tally>>
  /\ UNCHANGED <<cards, sheet>>

\* The PUT fails, before or after the server took it: no sync, and nothing is deleted.
WriteFails(c, taken) ==
  /\ req[c].step = "writing" /\ Faulty
  /\ dav' = IF taken /\ Matches(c) THEN Stored(c) ELSE dav
  /\ Put(c, [req[c] EXCEPT !.step = "refused"])
  /\ UNCHANGED <<cards, runs, sheet>>

\* deleteCard: whatever the card says by now; 404 is success.
Delete(c, h) ==
  /\ req[c].step = "deleting" /\ h \in req[c].rest
  /\ dav' = [dav EXCEPT ![h] = NoCard]
  /\ Put(c, [req[c] EXCEPT !.step = "syncing", !.rest = @ \ {h}, !.deleted = @ \cup {h}])
  /\ Syncs(c)
  /\ UNCHANGED <<cards, sheet, tally>>

\* A merge reports the card as left and goes on; a delete is refused.
DeleteFails(c, h, taken) ==
  /\ req[c].step = "deleting" /\ h \in req[c].rest /\ Faulty
  /\ dav' = IF taken THEN [dav EXCEPT ![h] = NoCard] ELSE dav
  /\ Put(c, [req[c] EXCEPT !.rest = @ \ {h}, !.deleted = IF taken THEN @ \cup {h} ELSE @,
               !.step = IF req[c].kind = "delete" THEN "refused"
                        ELSE IF req[c].rest = {h} THEN "answered" ELSE @])
  /\ UNCHANGED <<cards, runs, sheet>>

\* A success closes the sheet and loads the page again; a failure leaves it open.
Answered(c) ==
  /\ req[c].step \in {"answered", "refused"}
  /\ sheet' = [sheet EXCEPT ![c] = IF req[c].step = "answered" THEN Closed ELSE @]
  /\ Put(c, NoReq)
  /\ UNCHANGED <<dav, cards, runs, tally>>

-----------------------------------------------------------------------------

FactSets == (SUBSET Facts) \ {{}}

\* A short card and fuller ones, in different books, mirrored.
Short == CHOOSE h \in First : TRUE
Init ==
  /\ \E book \in [First -> Books] :
       /\ \A b \in Books : \E h \in First : book[h] = b
       /\ dav = [h \in Hrefs |-> IF h \notin First THEN NoCard ELSE
                  [book |-> book[h], rev |-> 1,
                   facts |-> IF h = Short THEN {CHOOSE f \in Facts : TRUE} ELSE Facts]]
  /\ cards = dav
  /\ runs = [x \in Clients \cup {Timer} |-> NoRun]
  /\ req = [c \in Clients |-> NoReq]
  /\ sheet = [c \in Clients |-> Closed]
  /\ tally = [edits |-> 0, writes |-> 0, faults |-> 0, names |-> First,
              owed |-> UNION {dav[h].facts : h \in Hrefs}]

Next ==
  \/ \E h \in Hrefs, F \in FactSets : OtherEdits(h, F)
  \/ TimerSync
  \/ \E x \in Clients \cup {Timer} :
       \/ Replace(x)
       \/ \E ok \in BOOLEAN : Discover(x, ok) \/ FetchBook(x, ok)
  \/ \E c \in Clients :
       \/ \E h \in Hrefs : Opens(c, h) \/ Delete(c, h) \/ \E taken \in BOOLEAN : DeleteFails(c, h, taken)
       \/ Cancels(c) \/ RemoveCard(c) \/ Write(c) \/ Answered(c)
       \/ \E F \in FactSets : Save(c, F) \/ \E h \in Hrefs, b \in Books : Create(c, h, b, F)
       \/ \E C \in SUBSET Hrefs : \E p \in C : Merge(c, C, p)
       \/ \E taken \in BOOLEAN : WriteFails(c, taken)

Spec == Init /\ [][Next]_dirVars

\* The timer ticks; calls to the server end.
FairSpec ==
  /\ Spec /\ WF_dirVars(TimerSync)
  /\ \A x \in Clients \cup {Timer} :
       /\ WF_dirVars(\E ok \in BOOLEAN : Discover(x, ok))
       /\ WF_dirVars(\E ok \in BOOLEAN : FetchBook(x, ok))
       /\ WF_dirVars(Replace(x))
  /\ \A c \in Clients : /\ WF_dirVars(Write(c)) /\ WF_dirVars(Answered(c))
                        /\ WF_dirVars(\E h \in Hrefs : Delete(c, h))

-----------------------------------------------------------------------------
(* Properties *)

\* Nothing a merge read is lost by it (merge.ts:6 "never lose data"), wherever it stops:
\* once a card is deleted, the survivor says what both said, or has been written since.
DeletedIsCopied ==
  \A c \in Clients :
    LET r == req[c] IN
    r.kind = "merge" /\ r.deleted # {} =>
      dav[r.card].facts = r.facts \/ dav[r.card].rev > r.etag + 1 \/ ~Exists(dav[r.card])

\* Whatever failed, and whichever runs overlapped, the mirror ends up what the server has
\* (carddav.ts: "Radicale stays authoritative: every write re-syncs the cache").
MirrorConverges == <>[](cards = dav)

\* The etag guards against lost updates (carddav.ts, updateCard), and a merge loses nothing:
\* what nobody asked to remove is still on some card.
NothingIsLost == tally.owed \subseteq UNION {dav[h].facts : h \in Hrefs}

=============================================================================
