------------------------------ MODULE Composer ------------------------------
(***************************************************************************)
(* One message being written and sent: the composer in the main window or  *)
(* in a popout (routes/Compose.tsx, ui/popout.ts) and the hand-off between *)
(* them; its requests (api/compose.ts); the staged uploads on the server's *)
(* disk (storage/uploads.ts); the draft saves (mail/draft.ts) and the send *)
(* rows (mail/send.ts, outbox/runner.ts).                                  *)
(*                                                                         *)
(* What was written is a set of edits.  The autosave has what the composer *)
(* has and goes when it leaves; a reload gives both back.  Nothing in the  *)
(* composer but its Send button is disabled while it awaits an answer.     *)
(***************************************************************************)
EXTENDS Naturals, FiniteSets

CONSTANTS SendRows,     \* outbox rows a send can get
          Uploads,      \* files the user may attach
          HasDrafts,    \* the account has a \Drafts mailbox
          MaxAttempts,
          MaxWords,     \* bound: edits
          MaxTrouble    \* bound: failed or unanswered calls, restarts, dead windows

VARIABLES win,      \* the composer of each window
          handoff,  \* the prefill parked for a popout
          call,     \* the window's request
          job,      \* saveDraft on the server, for a request or for a canceled row
          row,      \* the outbox's send rows
          disk,     \* staged uploads, and which are over a day old
          drafts,   \* the \Drafts mailbox
          sent,     \* what SMTP took
          owed      \* edits not given up; what the named gaps took; bounds used

mailVars == <<win, handoff, call, job, row, disk, drafts, sent, owed>>

Windows == {"main", "popout"}
Kinds == {"send", "draft"}
Live == {"pending", "sending", "accepted"}

Shut == [open |-> FALSE, words |-> {}, ups |-> {}, base |-> {}]
NoHandoff == [parked |-> FALSE, words |-> {}, ups |-> {}]
NoCall == [kind |-> "none", step |-> "none", heard |-> FALSE, words |-> {}, ups |-> {}]
NoJob == [step |-> "none", words |-> {}, ups |-> {}, mime |-> {}]
NoSend == [status |-> "none", words |-> {}, ups |-> {}, mime |-> {}, attempts |-> 0]
Source == [words |-> {}, asked |-> {}, ups |-> {}, edited |-> TRUE]

Trouble == owed.trouble < MaxTrouble
Troubled(o) == [o EXCEPT !.trouble = @ + 1]
Forgives(o, W, U) == [o EXCEPT !.lost = @ \cup W, !.gone = @ \cup U]
GivesUp(o, W) == [o EXCEPT !.words = @ \ W]
Without(U) == [files |-> disk.files \ U, old |-> disk.old \ U]

\* Who lists a staged upload.
Lists(u, place, x) ==
  CASE place = "composer" -> x \in Windows /\ u \in win[x].ups
    [] place = "parked" -> x = "popout" /\ u \in handoff.ups
    [] place = "call" -> x \in Windows /\ u \in call[x].ups
    [] place = "job" -> u \in job[x].ups
    [] place = "row" -> x \in SendRows /\ u \in row[x].ups /\ row[x].status \in Live
Places == {"composer", "parked", "call", "job", "row"}
HeldElsewhere(U, me) ==
  {u \in U : \E p \in Places, x \in Windows \cup SendRows : <<p, x>> \notin me /\ Lists(u, p, x)}

-----------------------------------------------------------------------------
(* The composer *)

Put(w, r) == win' = [win EXCEPT ![w] = r]
Leaves(w) == Put(w, Shut)

\* isDirty, against the prefill: a handed-over text is the popout's prefill.
Dirty(w) == win[w].words # win[w].base \/ win[w].ups # {}

Type(w) ==
  /\ win[w].open /\ owed.typed < MaxWords
  /\ Put(w, [win[w] EXCEPT !.words = @ \cup {owed.typed + 1}])
  /\ owed' = [owed EXCEPT !.typed = @ + 1, !.words = @ \cup {owed.typed + 1}]
  /\ UNCHANGED <<handoff, call, job, row, disk, drafts, sent>>

\* The window is reloaded: nobody hears its request's answer.
Reload(w) ==
  /\ win[w].open /\ call[w].heard /\ Trouble
  /\ call' = [call EXCEPT ![w].heard = FALSE]
  /\ owed' = Troubled(owed)
  /\ UNCHANGED <<win, handoff, job, row, disk, drafts, sent>>

\* onPickFiles, uploadInlineImages, POST /api/uploads: staged, then listed.
Attach(w, u) ==
  /\ win[w].open /\ u \notin owed.picked
  /\ Put(w, [win[w] EXCEPT !.ups = @ \cup {u}])
  /\ disk' = [disk EXCEPT !.files = @ \cup {u}]
  /\ owed' = [owed EXCEPT !.picked = @ \cup {u}]
  /\ UNCHANGED <<handoff, call, job, row, drafts, sent>>

\* removeUpload: from the list, and from the disk.
RemoveUpload(w, u) ==
  /\ win[w].open /\ u \in win[w].ups
  /\ Put(w, [win[w] EXCEPT !.ups = @ \ {u}])
  /\ disk' = Without({u})
  /\ owed' = Forgives(owed, {}, {u})
  /\ UNCHANGED <<handoff, call, job, row, drafts, sent>>

\* Mutant: the seed's uploads are discarded with the window.
DetachedDisk == Without(win["main"].ups)

\* The uploads move by reference.
HandedDisk == disk

\* detach: the seed is parked, the new window opened, the autosave dropped.
Detach ==
  /\ win["main"].open /\ ~handoff.parked /\ ~win["popout"].open
  /\ handoff' = [parked |-> TRUE, words |-> win["main"].words, ups |-> win["main"].ups]
  /\ disk' = HandedDisk
  /\ Leaves("main")
  /\ UNCHANGED <<call, job, row, drafts, sent, owed>>

\* takeHandoff, as the popout's composer mounts.
PopoutLoads ==
  /\ handoff.parked /\ handoff' = NoHandoff
  /\ Put("popout", [open |-> TRUE, words |-> handoff.words, ups |-> handoff.ups, base |-> handoff.words])
  /\ UNCHANGED <<call, job, row, disk, drafts, sent, owed>>

\* The popout dies as it loads; sweepHandoffs drops the record a minute later.
HandoffSwept ==
  /\ handoff.parked /\ Trouble
  /\ handoff' = NoHandoff
  /\ owed' = Troubled(Forgives(owed, handoff.words, {}))
  /\ UNCHANGED <<win, call, job, row, disk, drafts, sent>>

\* discardDraft, from the dialog: the uploads go too.  An untouched composer leaves without
\* a dialog, and a popout is untouched until something is added to what it was handed.
Cancel(w) ==
  /\ win[w].open
  /\ Leaves(w)
  /\ IF Dirty(w)
     THEN disk' = Without(win[w].ups) /\ owed' = GivesUp(Forgives(owed, {}, win[w].ups), win[w].words)
     ELSE UNCHANGED disk /\ owed' = Forgives(owed, win[w].words, {})
  /\ UNCHANGED <<handoff, call, job, row, drafts, sent>>

\* send, and saveDraftToServer from the dialog of ✕; one request of a window at a time.
Ask(w, kind) ==
  /\ win[w].open /\ call[w] = NoCall
  /\ kind = "draft" => Dirty(w)
  /\ call' = [call EXCEPT ![w] = [kind |-> kind, step |-> "asked", heard |-> TRUE,
                                  words |-> win[w].words, ups |-> win[w].ups]]
  /\ UNCHANGED <<win, handoff, job, row, disk, drafts, sent, owed>>

\* Mutant: an error leaves the composer too.
LeavesAlways(step) == TRUE

\* Only an answer clears the autosave and leaves; an error stays on the screen.
LeavesAfter(step) == step = "ok"

\* The answer or the error arrives; edits made while it was on its way go with leave().
Answered(w) ==
  /\ call[w].step \in {"ok", "failed"}
  /\ call' = [call EXCEPT ![w] = NoCall]
  /\ IF call[w].heard /\ win[w].open /\ LeavesAfter(call[w].step)
     THEN /\ Leaves(w)
          /\ owed' = Forgives(owed, win[w].words \ call[w].words, {})
     ELSE UNCHANGED <<win, owed>>
  /\ UNCHANGED <<handoff, job, row, disk, drafts, sent>>

\* No network, or no answer: the composer takes it for a failure, whatever was served.
Unanswered(w) ==
  /\ call[w].step \in {"asked", "ok"} /\ call[w].heard /\ Trouble
  /\ call' = [call EXCEPT ![w].step = "failed"]
  /\ owed' = Troubled(owed)
  /\ UNCHANGED <<win, handoff, job, row, disk, drafts, sent>>

-----------------------------------------------------------------------------
(* The server *)

\* POST /accounts/:id/send: enqueueSend.
ServeSend(w) ==
  /\ call[w].kind = "send" /\ call[w].step = "asked"
  /\ \E r \in {x \in SendRows : row[x].status = "none"} :
       row' = [row EXCEPT ![r] = [NoSend EXCEPT !.status = "pending", !.words = call[w].words,
                                                !.ups = call[w].ups]]
  /\ call' = [call EXCEPT ![w].step = "ok"]
  /\ UNCHANGED <<win, handoff, job, disk, drafts, sent, owed>>

\* buildMime reads the staged files that are still there, and skips the others.
Building(m) == [step |-> "built", words |-> m.words, ups |-> m.ups, mime |-> m.ups \cap disk.files]

\* POST /accounts/:id/draft
ServeDraft(w) ==
  /\ call[w].kind = "draft" /\ call[w].step = "asked"
  /\ call' = [call EXCEPT ![w].step = "serving"]
  /\ job' = [job EXCEPT ![w] = Building(call[w])]
  /\ UNCHANGED <<win, handoff, row, disk, drafts, sent, owed>>

Ends(k, how) == call' = IF k \in Windows THEN [call EXCEPT ![k].step = how] ELSE call

\* saveDraft: the message is appended if there is a \Drafts, the staged files are dropped
\* either way, and the copy it replaces is expunged.  The composer takes an answer without
\* savedToDrafts for a success: what it said is nowhere then.
DraftSaved(k) ==
  /\ job[k].step = "built"
  /\ LET copy == [words |-> job[k].words, asked |-> job[k].ups, ups |-> job[k].mime, edited |-> FALSE]
         shared == HeldElsewhere(job[k].ups, {<<"job", k>>, <<"call", k>>}) IN
     /\ drafts' = IF HasDrafts THEN (drafts \cup {copy}) \ {Source} ELSE drafts
     /\ owed' = Forgives(owed, IF HasDrafts THEN {} ELSE job[k].words, shared)
  /\ disk' = Without(job[k].ups)
  /\ job' = [job EXCEPT ![k] = NoJob]
  /\ Ends(k, "ok")
  /\ UNCHANGED <<win, handoff, row, sent>>

\* The connection or the APPEND fails: an error for the composer, a log line for an undo.
DraftFails(k) ==
  /\ job[k].step = "built" /\ Trouble
  /\ job' = [job EXCEPT ![k] = NoJob]
  /\ Ends(k, "failed")
  /\ owed' = Troubled(Forgives(owed, IF k \in SendRows THEN job[k].words ELSE {}, {}))
  /\ UNCHANGED <<win, handoff, row, disk, drafts, sent>>

\* claim, and sendMessage's buildMime.
Claim(r) ==
  /\ row[r].status = "pending"
  /\ row' = [row EXCEPT ![r].status = "sending", ![r].mime = Building(row[r]).mime]
  /\ UNCHANGED <<win, handoff, call, job, disk, drafts, sent, owed>>

SmtpTakes(r) ==
  /\ row[r].status = "sending"
  /\ sent' = sent \cup {[row |-> r, words |-> row[r].words, asked |-> row[r].ups, ups |-> row[r].mime]}
  /\ row' = [row EXCEPT ![r].status = "accepted"]
  /\ UNCHANGED <<win, handoff, call, job, disk, drafts, owed>>

\* markFailed: the files stay for the next attempt; at the cap the row is dead, and no
\* screen lists it again.
SmtpFails(r) ==
  /\ row[r].status = "sending" /\ Trouble
  /\ LET n == row[r].attempts + 1
         dead == n >= MaxAttempts IN
     /\ row' = [row EXCEPT ![r].attempts = n, ![r].status = IF dead THEN "dead" ELSE "pending"]
     /\ owed' = Troubled(Forgives(owed, IF dead THEN row[r].words ELSE {}, {}))
  /\ UNCHANGED <<win, handoff, call, job, disk, drafts, sent>>

\* The copy in \Sent, the staged files, the draft it replaces, markDone.
Finish(r) ==
  /\ row[r].status = "accepted"
  /\ row' = [row EXCEPT ![r].status = "done"]
  /\ disk' = Without(row[r].ups)
  /\ drafts' = drafts \ {Source}
  /\ owed' = Forgives(owed, {}, HeldElsewhere(row[r].ups, {<<"row", r>>}))
  /\ UNCHANGED <<win, handoff, call, job, sent>>

\* cancelOutbox, from the snackbar or the Outbox screen: the message goes back to \Drafts.
CancelOutbox(r) ==
  /\ row[r].status = "pending"
  /\ row' = [row EXCEPT ![r].status = "canceled"]
  /\ job' = [job EXCEPT ![r] = Building(row[r])]
  /\ UNCHANGED <<win, handoff, call, disk, drafts, sent, owed>>

Ages(u) ==
  /\ u \in disk.files \ disk.old
  /\ disk' = [disk EXCEPT !.old = @ \cup {u}]
  /\ UNCHANGED <<win, handoff, call, job, row, drafts, sent, owed>>

\* What queued sends list.
Queued == UNION {row[r].ups : r \in {x \in SendRows : row[x].status \in Live}}

\* Mutant: only what waits is kept, not what was being sent.
PendingUploads == UNION {row[r].ups : r \in {x \in SendRows : row[x].status = "pending"}}

\* pendingSendUploadIds
KeptUploads == Queued

\* The server dies and boots: in-flight rows are armed again, and old uploads that no
\* queued send names are swept, a composer's too.
Restart ==
  /\ Trouble
  /\ row' = [r \in SendRows |-> IF row[r].status \in {"sending", "accepted"}
                                THEN [row[r] EXCEPT !.status = "pending"] ELSE row[r]]
  /\ call' = [w \in Windows |-> IF call[w].step \in {"asked", "serving"}
                                THEN [call[w] EXCEPT !.step = "failed"] ELSE call[w]]
  /\ job' = [k \in DOMAIN job |-> NoJob]
  /\ disk' = Without(disk.old \ KeptUploads)
  /\ owed' = Troubled(Forgives(owed, UNION {job[r].words : r \in SendRows}, disk.old \ Queued))
  /\ UNCHANGED <<win, handoff, drafts, sent>>

-----------------------------------------------------------------------------

\* A draft is opened to edit, or a reply if there are none.
Init ==
  /\ win = [w \in Windows |-> [Shut EXCEPT !.open = w = "main"]]
  /\ handoff = NoHandoff
  /\ call = [w \in Windows |-> NoCall]
  /\ job = [k \in Windows \cup SendRows |-> NoJob]
  /\ row = [r \in SendRows |-> NoSend] /\ disk = [files |-> {}, old |-> {}]
  /\ drafts = (IF HasDrafts THEN {Source} ELSE {}) /\ sent = {}
  /\ owed = [words |-> {}, lost |-> {}, gone |-> {}, typed |-> 0, picked |-> {}, trouble |-> 0]

Next ==
  \/ Detach \/ PopoutLoads \/ HandoffSwept \/ Restart
  \/ \E w \in Windows :
       \/ Type(w) \/ Reload(w) \/ Cancel(w) \/ Answered(w) \/ Unanswered(w)
       \/ ServeSend(w) \/ ServeDraft(w)
       \/ \E u \in Uploads : Attach(w, u) \/ RemoveUpload(w, u)
       \/ \E kind \in Kinds : Ask(w, kind)
  \/ \E u \in Uploads : Ages(u)
  \/ \E r \in SendRows : Claim(r) \/ SmtpTakes(r) \/ SmtpFails(r) \/ Finish(r) \/ CancelOutbox(r)
  \/ \E k \in Windows \cup SendRows : DraftSaved(k) \/ DraftFails(k)

Spec == Init /\ [][Next]_mailVars

-----------------------------------------------------------------------------
(* Properties *)

\* Where what was written can be found again.
InReach ==
  (UNION {win[w].words : w \in Windows}) \cup handoff.words
  \cup (UNION {row[r].words : r \in {x \in SendRows : row[x].status \in Live}})
  \cup (UNION {job[r].words : r \in SendRows})
  \cup (UNION {d.words : d \in drafts}) \cup (UNION {s.words : s \in sent})

\* What the user wrote and did not give up is in a composer, a hand-off, the outbox, \Drafts
\* or with SMTP (runner.ts: "so the composition isn't lost"), the gaps named in the actions
\* apart.
WordsAreKept == owed.words \ owed.lost \subseteq InReach

\* An undone send is saved to \Drafts, the only place it survives (runner.ts, cancelOutbox).
UndoneSendIsSaved ==
  \A r \in SendRows : row[r].status = "canceled" =>
    row[r].words \subseteq job[r].words \cup UNION {d.words : d \in drafts}

\* Leaving never drops what was written without asking (Compose.tsx: "never silently leaves
\* the draft").
NeverSilentlyLeft == [][\A w \in Windows : Cancel(w) => Dirty(w) \/ win[w].words = {}]_mailVars

\* A message that went out, or to \Drafts, has the files its composer listed, the gaps
\* named in the actions apart (uploads.ts: the sweep must not "strip a future send's
\* attachments").
FilesGoAlong == \A m \in drafts \cup sent : m.asked \ m.ups \subseteq owed.gone

=============================================================================
