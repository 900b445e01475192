------------------------------- MODULE FlagSync -------------------------------
(***************************************************************************)
(* One flag of one message in the inbox: toggled here (outbox/runner.ts,   *)
(* outbox/intents.ts) and pushed by the outbox's batched STOREs            *)
(* (imap/flags.ts), changed by other clients, and read back by the passes  *)
(* of the IDLE connection (imap/resync.ts) since the last MODSEQ stored.   *)
(* A pass begins on an event, on a connect or by the backstop timer, thus  *)
(* at any time (FolderSync has the engine, OutboxQueue the queue in full). *)
(***************************************************************************)
EXTENDS Naturals, Sequences, SequencesExt, FiniteSetsExt

CONSTANTS CondStore,   \* does the server have CONDSTORE?
          MaxAttempts,
          MaxTaps,     \* bound: toggles
          MaxOthers,   \* bound: changes by other clients
          MaxTrouble   \* bound: passes cut short, restarts, lost replies

VARIABLES provider,  \* the flag there, the MODSEQ of its last change, and the folder's
          local,     \* messages.seen
          toggles,   \* the outbox's flags rows, oldest first; over: a pass wrote over it
          store,     \* the STORE awaited: its rows, whether the provider did it; or NoStore
          pass,      \* the pass under way, or NoPass
          modseq,    \* folders.highestModseq
          story      \* bounds used; what the properties except

flagVars == <<provider, local, toggles, store, pass, modseq, story>>

NoStore == [rows |-> {}, done |-> FALSE]
NoPass == [phase |-> "none", upto |-> 0, got |-> {}]

Live == {"pending", "sending"}
\* Of a settled row nothing but its status is read again.
Past(status) == [set |-> FALSE, prev |-> FALSE, status |-> status, tries |-> 0, over |-> FALSE]
Queued == {i \in DOMAIN toggles : toggles[i].status \in Live}
Stands(v) == [provider EXCEPT !.seen = v, !.at = provider.last + 1, !.last = @ + 1]

-----------------------------------------------------------------------------
(* Toggles and their rows *)

\* enqueueFlags with applyFlags: what shows is what the row replaces.
Toggle(v) ==
  /\ Len(toggles) < MaxTaps
  /\ toggles' = Append(toggles, [set |-> v, prev |-> local, status |-> "pending", tries |-> 0,
                                 over |-> FALSE])
  /\ local' = v
  /\ UNCHANGED <<provider, store, pass, modseq, story>>

\* claimDue: the new rows, and of those that failed the ones whose backoff is over.
Begin ==
  LET pending == {i \in DOMAIN toggles : toggles[i].status = "pending"}
      new == {i \in pending : toggles[i].tries = 0} IN
  /\ store = NoStore
  /\ \E S \in SUBSET pending :
       /\ new \subseteq S /\ S # {}
       /\ store' = [NoStore EXCEPT !.rows = S]
       /\ toggles' = [i \in DOMAIN toggles |->
                        IF i \in S THEN [toggles[i] EXCEPT !.status = "sending"] ELSE toggles[i]]
  /\ UNCHANGED <<provider, local, pass, modseq, story>>

\* The last of them decides the value; one the flag has already changes nothing.
Perform ==
  LET v == toggles[Max(store.rows)].set IN
  /\ store # NoStore /\ ~ store.done
  /\ store' = [store EXCEPT !.done = TRUE]
  /\ provider' = IF provider.seen = v THEN provider ELSE Stands(v)
  /\ UNCHANGED <<local, toggles, pass, modseq, story>>

Answered ==
  /\ store.done
  /\ toggles' = [i \in DOMAIN toggles |-> IF i \in store.rows THEN Past("done") ELSE toggles[i]]
  /\ store' = NoStore
  /\ UNCHANGED <<provider, local, pass, modseq, story>>

Mailbox == [toggles |-> toggles, local |-> local]

\* revertFlags: the next newer toggle inherits or, having landed, rules; with none the former
\* value returns where this one's still shows.
Reverted(s, i) ==
  LET newer == {j \in DOMAIN s.toggles : j > i /\ s.toggles[j].status \in Live \cup {"done"}}
      row == s.toggles[i] IN
  CASE newer = {} -> IF s.local = row.set THEN [s EXCEPT !.local = row.prev] ELSE s
    [] newer # {} /\ s.toggles[Min(newer)].status = "done" -> s
    [] OTHER -> [s EXCEPT !.toggles[Min(newer)].prev = row.prev]

\* markFailed
Failed(s, i) ==
  LET tried == [s EXCEPT !.toggles[i].tries = @ + 1] IN
  IF tried.toggles[i].tries < MaxAttempts THEN [tried EXCEPT !.toggles[i].status = "pending"]
  ELSE [Reverted(tried, i) EXCEPT !.toggles[i] = Past("dead")]

\* Refused, or done and the reply lost; the rows are marked oldest first.
Fails ==
  /\ store # NoStore /\ (store.done => story.trouble < MaxTrouble)
  /\ LET s == FoldLeft(LAMBDA r, i : IF i \in store.rows THEN Failed(r, i) ELSE r,
                       Mailbox, [i \in DOMAIN toggles |-> i]) IN
     /\ toggles' = s.toggles /\ local' = s.local
     /\ story' = [story EXCEPT
          !.trouble = IF store.done THEN @ + 1 ELSE @,
          !.crossed = @ \/ \E i \in store.rows : s.toggles[i].status = "dead" /\ toggles[i].over]
  /\ store' = NoStore
  /\ UNCHANGED <<provider, pass, modseq>>

-----------------------------------------------------------------------------
(* Passes, and others *)

\* resyncFolder opens the folder: the connection knows the MODSEQ it was last told, never one
\* below the stored.
Open ==
  /\ CondStore /\ pass = NoPass
  /\ \E upto \in modseq .. provider.last : pass' = [NoPass EXCEPT !.phase = "open", !.upto = upto]
  /\ UNCHANGED <<provider, local, toggles, store, modseq, story>>

\* CHANGEDSINCE
Fetch ==
  /\ pass.phase = "open"
  /\ pass' = [pass EXCEPT !.phase = "fetched",
                           !.got = IF provider.at > modseq THEN {provider.seen} ELSE {}]
  /\ UNCHANGED <<provider, local, toggles, store, modseq, story>>

\* resyncFlags: the provider's value, a toggle queued or not.
Apply ==
  /\ pass.phase = "fetched"
  /\ pass' = [pass EXCEPT !.phase = "applied", !.got = {}]
  /\ local' = IF pass.got = {} THEN local ELSE CHOOSE v \in pass.got : TRUE
  /\ toggles' = [i \in DOMAIN toggles |->
                   IF i \in Queued /\ pass.got # {} THEN [toggles[i] EXCEPT !.over = TRUE]
                   ELSE toggles[i]]
  /\ UNCHANGED <<provider, store, modseq, story>>

\* What is stored once new mail and the expunge scan are done with is the MODSEQ of the start.
End ==
  /\ pass.phase = "applied"
  /\ modseq' = pass.upto
  /\ pass' = NoPass
  /\ UNCHANGED <<provider, local, toggles, store, story>>

\* The connection goes.
Cut ==
  /\ pass # NoPass /\ story.trouble < MaxTrouble
  /\ pass' = NoPass
  /\ story' = [story EXCEPT !.trouble = @ + 1]
  /\ UNCHANGED <<provider, local, toggles, store, modseq>>

Restart ==
  /\ story.trouble < MaxTrouble
  /\ toggles' = [i \in DOMAIN toggles |->
                   IF toggles[i].status = "sending" THEN [toggles[i] EXCEPT !.status = "pending"]
                   ELSE toggles[i]]
  /\ store' = NoStore /\ pass' = NoPass
  /\ story' = [story EXCEPT !.trouble = @ + 1]
  /\ UNCHANGED <<provider, local, modseq>>

OthersToggle ==
  /\ story.others < MaxOthers
  /\ provider' = Stands(~ provider.seen)
  /\ story' = [story EXCEPT !.others = @ + 1]
  /\ UNCHANGED <<local, toggles, store, pass, modseq>>

-----------------------------------------------------------------------------

Init ==
  /\ provider = [seen |-> FALSE, at |-> 1, last |-> 1]
  /\ local = FALSE /\ toggles = <<>> /\ store = NoStore /\ pass = NoPass /\ modseq = 1
  /\ story = [others |-> 0, trouble |-> 0, crossed |-> FALSE]

Drain == Begin \/ Perform \/ Answered \/ Fails
Resync == Open \/ Fetch \/ Apply \/ End

Next ==
  \/ \E v \in BOOLEAN : Toggle(v)
  \/ Drain
  \/ Resync \/ Cut \/ Restart \/ OthersToggle

\* The outbox runs its queue by its tick, and its calls end; the IDLE connection's passes follow
\* each other by the backstop timer and run to their end.
FlagSpec == Init /\ [][Next]_flagVars /\ WF_flagVars(Drain) /\ WF_flagVars(Resync)

-----------------------------------------------------------------------------
(* Properties *)

\* The flag ends up as the provider has it, whatever toggles, other clients, refusals, lost
\* replies and interrupted passes crossed each other (imap/resync.ts, outbox/intents.ts:4),
\* unless a toggle is given up that a pass wrote over while it was queued.
FlagFollows == <>[](story.crossed \/ local = provider.seen)

\* A toggle given up does not bring back what the provider no longer has (outbox/intents.ts:150
\* "a sync may since have brought the provider's own value").
FlagSettles == <>[](local = provider.seen)

\* A pass does not take back a toggle that is still queued.
QueuedShows == Queued # {} => local = toggles[Max(Queued)].set

=============================================================================
