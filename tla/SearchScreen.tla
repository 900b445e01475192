---------------------------- MODULE SearchScreen ----------------------------
(***************************************************************************)
(* Search: the box and the filter form (routes/Search.tsx), the operator   *)
(* string they compose, which the server parses (search/query.ts), runs    *)
(* (search/local.ts) and expands to conversations (routes/api/messages.ts),*)
(* and the screen's life: debounce, answers, a result opened and Back.     *)
(*                                                                         *)
(* Text is a sequence of chunks: a word, an operator's key with its colon, *)
(* a blank, a quote.  Of the operators one with a value, one of the state  *)
(* and the scope stand for the others; ranking is order and is left out,   *)
(* and so is the fallback to the provider, for which the screen names no   *)
(* account.  All mail says "x".                                            *)
(***************************************************************************)
EXTENDS Naturals, FiniteSets, Sequences, SequencesExt

CONSTANTS StrayQuotes,  \* may an unbalanced quote be typed
          MaxEdits,     \* bound: edits of the box and the form
          MaxDeeds      \* bound: answers that fail, mail moved, visits to the screen

VARIABLES store,  \* the server: what is unread, what is in the trash
          page,   \* the screen, and the session it leaves behind
          asked,  \* requests of this visit under way, oldest first
          away,   \* ids hidden: of a pending undo, committed
          spent   \* bounds and history: edits, deeds, astray

searchVars == <<store, page, asked, away, spent>>

Msgs == 1 .. 3
Sender(m) == IF m = 1 THEN <<"a">> ELSE <<"a", " ", "b">>
Thread(m) == IF m < 3 THEN {1, 2} ELSE {m}

Quote == "'"

-----------------------------------------------------------------------------
(* The query language *)

\* Mutant of OpValue: a value is never quoted.
OpValueBare(v) == v

OpValue(v) == IF \E i \in DOMAIN v : v[i] = " " THEN <<Quote>> \o v \o <<Quote>> ELSE v

\* buildQuery: the box, then one operator for each field that is set.
Composed(f) ==
  LET parts == <<f.text>> \o (IF f.from = <<>> THEN <<>> ELSE << <<"from:">> \o OpValue(f.from) >>)
                          \o (IF f.unread THEN << <<"is:", "unread">> >> ELSE <<>>)
  IN FoldLeft(LAMBDA all, p : IF all = <<>> \/ p = <<>> THEN all \o p ELSE all \o <<" ">> \o p, <<>>, parts)

\* The quote that closes the one at i, 0 if none does.
Closing(s, i) ==
  LET js == {j \in i + 1 .. Len(s) : s[j] = Quote}
  IN IF js = {} THEN 0 ELSE CHOOSE j \in js : \A k \in js : j <= k

\* tokenize: runs of chunks and of quoted phrases; a quote that nothing closes is skipped.
Tokens(s) ==
  LET upto[i \in 1 .. Len(s) + 1] ==   \* where the token that holds position i ends
        IF i > Len(s) \/ s[i] = " " THEN i
        ELSE IF s[i] # Quote THEN upto[i + 1]
        ELSE IF Closing(s, i) = 0 THEN i ELSE upto[Closing(s, i) + 1]
      from[i \in 1 .. Len(s) + 1] ==
        IF i > Len(s) THEN <<>>
        ELSE IF upto[i] = i THEN from[i + 1]
        ELSE <<SubSeq(s, i, upto[i] - 1)>> \o from[upto[i]]
  IN from[1]

Unquoted(v) ==
  IF Len(v) >= 2 /\ v[1] = Quote /\ v[Len(v)] = Quote THEN SubSeq(v, 2, Len(v) - 1) ELSE v

Words(v) == {v[i] : i \in DOMAIN v} \ {" ", Quote}

NoQuery == [terms |-> {}, from |-> <<>>, state |-> "any", trash |-> FALSE]

\* One turn of parseQuery; the operator is what comes before the first colon.
Read(ir, token) ==
  LET value == Unquoted(Tail(token)) IN
  CASE token[1] = "from:" -> IF value = <<>> THEN ir ELSE [ir EXCEPT !.from = value]
    [] token[1] = "is:" /\ value \in {<<"unread">>, <<"read">>} -> [ir EXCEPT !.state = value[1]]
    [] token[1] = "in:" /\ value = <<"trash">> -> [ir EXCEPT !.trash = TRUE]
    [] OTHER -> [ir EXCEPT !.terms = @ \cup Words(token)]

Parsed(s) == FoldLeft(Read, NoQuery, Tokens(s))

\* likeContains: the value anywhere in the sender, in the middle of a word too.
Within(s, v) == v \in SubSeqs(s)

\* irPredicates and the visibility of messages in and out of the trash.
Matches(m, ir) ==
  /\ ir.terms \subseteq {"x"}
  /\ Within(Sender(m), ir.from)
  /\ ir.state = "any" \/ (ir.state = "unread" <=> m \in store.unread)
  /\ ir.trash <=> m \in store.trash

Hits(s) == IF Parsed(s) = NoQuery THEN {} ELSE {m \in Msgs : Matches(m, Parsed(s))}

\* listThread, which shows no tombstones.
Members(m) == LET live == Thread(m) \ store.trash IN IF live = {} THEN {m} ELSE live

\* The answer, hits expanded to their conversations if the list shows those.
Rows(s) == IF page.threaded THEN UNION {Members(m) : m \in Hits(s)} ELSE Hits(s)

-----------------------------------------------------------------------------
(* The screen *)

Blank == [text |-> <<>>, from |-> <<>>, unread |-> FALSE]
Nothing == [of |-> Blank, rows |-> {}, meant |-> {}]

InTrash == <<"in:", "trash">>
Texts ==
  {<<>>, <<"x">>, InTrash, <<"is:", "read">>, <<Quote, "x", " ", "x", Quote>>}
    \cup {t \in {<<Quote, "x">>} : StrayQuotes}
Forms == [text : Texts, from : {<<>>, <<"b">>, <<"a", " ", "b">>}, unread : BOOLEAN]

\* What a form asks for, field by field: the filters over what is typed.
Meant(f) ==
  {m \in Msgs :
     /\ f.text = InTrash <=> m \in store.trash
     /\ Within(Sender(m), f.from)
     /\ f.unread => m \in store.unread
     /\ f.text = <<"is:", "read">> /\ ~ f.unread => m \notin store.unread}

\* The effect on a query that changed: an empty one clears the list, any other is debounced.
Requery(f) == [page EXCEPT !.form = f, !.due = Composed(f) # <<>>,
                           !.shown = IF Composed(f) = <<>> THEN Nothing ELSE @]

\* The box is typed in, or one field of the form set.
Edit(f) ==
  /\ page.open /\ spent.edits < MaxEdits
  /\ Cardinality({x \in DOMAIN f : f[x] # page.form[x]}) = 1
  /\ page' = IF Composed(f) = Composed(page.form) THEN [page EXCEPT !.form = f] ELSE Requery(f)
  /\ spent' = [spent EXCEPT !.edits = @ + 1]
  /\ UNCHANGED <<store, asked, away>>

Debounced ==
  /\ page.open /\ page.due
  /\ page' = [page EXCEPT !.due = FALSE]
  /\ asked' = Append(asked, page.form)
  /\ UNCHANGED <<store, away, spent>>

\* An answer is shown whatever has been typed or answered since.
Answered(i) ==
  LET f == asked[i] IN
  /\ page' = [page EXCEPT !.shown = [of |-> f, rows |-> Rows(Composed(f)), meant |-> Meant(f)],
                          !.error = FALSE]
  /\ asked' = RemoveAt(asked, i)
  /\ spent' = [spent EXCEPT !.astray = @ \/ i > 1 \/ Composed(page.form) = <<>>]
  /\ UNCHANGED <<store, away>>

Fails(i) ==
  /\ spent.deeds < MaxDeeds
  /\ page' = [page EXCEPT !.error = TRUE]
  /\ asked' = RemoveAt(asked, i)
  /\ spent' = [spent EXCEPT !.deeds = @ + 1, !.astray = @ \/ i > 1]
  /\ UNCHANGED <<store, away>>

\* A result opened, or Back: the session is what the screen was, rows of an older query too.
Leave ==
  /\ page.open /\ spent.deeds < MaxDeeds
  /\ page' = [page EXCEPT !.open = FALSE, !.due = FALSE, !.error = FALSE]
  /\ asked' = <<>>
  /\ spent' = [deeds |-> spent.deeds + 1, edits |-> spent.edits,
               astray |-> spent.astray \/ Composed(page.shown.of) \notin {<<>>, Composed(page.form)}]
  /\ UNCHANGED <<store, away>>

\* Opened anew, at an entry point.
Open(entry) ==
  LET f == [Blank EXCEPT !.text = entry] IN
  /\ ~ page.open
  /\ page' = [page EXCEPT !.open = TRUE, !.entry = entry, !.form = f, !.shown = Nothing,
                          !.due = entry # <<>>]
  /\ spent' = [spent EXCEPT !.astray = FALSE]
  /\ UNCHANGED <<store, asked, away>>

\* Back resumes the last session if it began at the same entry point.
Resumed(entry) == page.entry = entry

\* Rows that were there are not asked for again.
Back(entry) ==
  /\ ~ page.open /\ Resumed(entry)
  /\ page' = [IF page.shown = Nothing THEN Requery(page.form) ELSE page EXCEPT !.open = TRUE]
  /\ UNCHANGED <<store, asked, away, spent>>

-----------------------------------------------------------------------------
(* What is done to the rows *)

Visible == page.shown.rows \ (away.pending \cup away.gone)
Conversation(m) == IF page.threaded THEN Visible \cap Thread(m) ELSE {m}

\* requestDeleteMany of a row, or of rows ticked.
Discard(m) ==
  /\ page.open /\ spent.deeds < MaxDeeds
  /\ m \in Visible \ store.trash
  /\ away' = [pending |-> Conversation(m), gone |-> away.gone \cup away.pending]
  /\ store' = [store EXCEPT !.trash = @ \cup Conversation(m)]
  /\ spent' = [spent EXCEPT !.deeds = @ + 1]
  /\ UNCHANGED <<page, asked>>

Undo ==
  /\ away.pending # {}
  /\ away' = [away EXCEPT !.pending = {}]
  /\ store' = [store EXCEPT !.trash = @ \ away.pending]
  /\ UNCHANGED <<page, asked, spent>>

Expire ==
  /\ away.pending # {}
  /\ away' = [pending |-> {}, gone |-> away.gone \cup away.pending]
  /\ UNCHANGED <<store, page, asked, spent>>

\* Restored from the trash, here or elsewhere: the signal shows it again.
Restore(m) ==
  /\ m \in store.trash \ away.pending /\ spent.deeds < MaxDeeds
  /\ store' = [store EXCEPT !.trash = @ \ {m}]
  /\ away' = [away EXCEPT !.gone = @ \ {m}]
  /\ spent' = [spent EXCEPT !.deeds = @ + 1]
  /\ UNCHANGED <<page, asked>>

Init ==
  /\ store \in {[trash |-> S, unread |-> {1, 3}] : S \in {{}, {2}}}
  /\ page \in {[open |-> FALSE, threaded |-> t, entry |-> <<>>, form |-> Blank,
                 due |-> FALSE, shown |-> Nothing, error |-> FALSE] : t \in BOOLEAN}
  /\ asked = <<>>
  /\ away = [pending |-> {}, gone |-> {}]
  /\ spent = [edits |-> 0, deeds |-> 0, astray |-> FALSE]

Next ==
  \/ Debounced \/ Leave \/ Undo \/ Expire
  \/ \E f \in Forms : Edit(f)
  \/ \E i \in DOMAIN asked : Answered(i) \/ Fails(i)
  \/ \E entry \in {<<>>, InTrash} : Open(entry) \/ Back(entry)
  \/ \E m \in Msgs : Discard(m) \/ Restore(m)

SearchSpec == Init /\ [][Next]_searchVars

-----------------------------------------------------------------------------
(* Properties *)

AtRest == page.open /\ ~ page.due /\ asked = <<>> /\ ~ page.error

\* An answer holds what the form asks for, and nothing but its conversations, but that a hit in
\* the trash may be missing where conversations are shown (routes/api/messages.ts:166); at rest
\* it is the answer to the form on the screen (routes/Search.tsx), unless one answer overtook
\* another, came to an empty box or was left unanswered.
SearchIsTrue ==
  LET s == page.shown IN
  /\ IF page.threaded THEN s.rows \subseteq UNION {Thread(m) : m \in s.meant} ELSE s.rows = s.meant
  /\ page.threaded /\ s.of.text # InTrash => s.meant \subseteq s.rows
  /\ AtRest /\ ~ spent.astray => Composed(s.of) = Composed(page.form)

\* Whatever a query finds is shown (routes/api/messages.ts:168 "Never let expansion erase the
\* hit").
HitIsShown == page.shown.meant \subseteq page.shown.rows

\* The rows on the screen answer its query, rows of an earlier visit too (routes/Search.tsx:197
\* "are already the answer for that query").
RowsAreTheAnswer == AtRest => Composed(page.shown.of) = Composed(page.form)

\* A search of the trash shows what was found there (search/query.ts:59).
TrashIsSearched == page.shown.of.text = InTrash => page.shown.rows \subseteq Visible \cup away.pending

=============================================================================
