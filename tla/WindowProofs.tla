---------------------------- MODULE WindowProofs ----------------------------
(***************************************************************************)
(* Proofs about scenes of ClientWindow: what is written is never lost      *)
(* between the composer and the mail (Composer), the cleanup dashboard     *)
(* counts what is there (CleanupDash), and the list and Search hide what   *)
(* was deleted and nothing else (ClientMailbox).                           *)
(***************************************************************************)
EXTENDS ClientWindow, Integers, FiniteSets, SequenceTheorems, TLAPS

-----------------------------------------------------------------------------
(* Writing.  Every word still owed is in a composer, in the hand-off, or   *)
(* where the server has it: a row that goes on, \Drafts or the sent mail.  *)
(* A call that is answered well has left its words there, and the job or   *)
(* the row that holds words holds all that its request had.                *)

WinSet == [open : BOOLEAN, words : SUBSET Nat, ups : SUBSET Uploads, base : SUBSET Nat]
HandoffSet == [parked : BOOLEAN, words : SUBSET Nat, ups : SUBSET Uploads]
CallSet == [kind : {"none", "send", "draft"}, step : {"none", "asked", "serving", "ok", "failed"},
            heard : BOOLEAN, words : SUBSET Nat, ups : SUBSET Uploads]
JobSet == [step : {"none", "built"}, words : SUBSET Nat, ups : SUBSET Uploads, mime : SUBSET Uploads]
RowSet == [status : {"none", "pending", "sending", "accepted", "done", "dead", "canceled"},
           words : SUBSET Nat, ups : SUBSET Uploads, mime : SUBSET Uploads, attempts : Nat]
DiskSet == [files : SUBSET Uploads, old : SUBSET Uploads]
OwedSet == [words : SUBSET Nat, lost : SUBSET Nat, gone : SUBSET Uploads, typed : Nat,
            picked : SUBSET Uploads, trouble : Nat]

WordTypes ==
  /\ win \in [Write!Windows -> WinSet] /\ handoff \in HandoffSet
  /\ call \in [Write!Windows -> CallSet]
  /\ job \in [Write!Windows \cup SendRows -> JobSet] /\ row \in [SendRows -> RowSet]
  /\ disk \in DiskSet /\ owed \in OwedSet

\* Written, not given up, and not in a named gap.
Owed(x) == x \in owed.words /\ x \notin owed.lost

\* The server has it: in a live row, a job for one, \Drafts or the sent mail.
Has(x) ==
  \/ \E r \in SendRows : row[r].status \in Write!Live /\ x \in row[r].words
  \/ \E r \in SendRows : x \in job[r].words
  \/ \E d \in drafts : x \in d.words
  \/ \E s \in sent : x \in s.words

\* What is owed is in a window, parked, or with the server.
Accounted == \A x : Owed(x) => (\E w \in Write!Windows : x \in win[w].words) \/ x \in handoff.words \/ Has(x)

\* What was answered with success is with the server.
AnswersHold == \A w \in Write!Windows : call[w].step = "ok" => \A x \in call[w].words : Owed(x) => Has(x)

\* A draft being saved for a window is what its request has.
JobsFit ==
  \A w \in Write!Windows : job[w].step = "built" => call[w].step = "serving" /\ job[w].words = call[w].words

\* SMTP took what is accepted, and only a canceled row has a job.
RowsFit ==
  \A r \in SendRows :
    /\ row[r].status = "accepted" => \A x \in row[r].words : \E s \in sent : x \in s.words
    /\ row[r].status # "canceled" => job[r] = Write!NoJob

\* A window shut has nothing, a popout is opened for a hand-off, and no word is still to come.
WindowsFit ==
  /\ \A w \in Write!Windows :
       /\ ~ win[w].open => win[w] = Write!Shut
       /\ win[w].words \subseteq 1 .. owed.typed /\ call[w].words \subseteq 1 .. owed.typed
  /\ ~ handoff.parked => handoff = Write!NoHandoff
  /\ handoff.parked => ~ win["popout"].open /\ handoff.words \subseteq 1 .. owed.typed

WordInv == WordTypes /\ Accounted /\ AnswersHold /\ JobsFit /\ RowsFit /\ WindowsFit

LEMMA WindowNames == "main" \in Write!Windows /\ "popout" \in Write!Windows /\ Write!Windows = {"main", "popout"}
BY DEF Write!Windows

LEMMA Blanks ==
  /\ Write!Shut \in WinSet /\ Write!Shut.words = {} /\ ~ Write!Shut.open
  /\ Write!NoHandoff \in HandoffSet /\ Write!NoHandoff.words = {} /\ ~ Write!NoHandoff.parked
  /\ Write!NoCall \in CallSet /\ Write!NoCall.words = {} /\ Write!NoCall.step = "none"
  /\ Write!NoJob \in JobSet /\ Write!NoJob.words = {} /\ Write!NoJob.step = "none"
  /\ Write!NoSend \in RowSet /\ Write!NoSend.words = {} /\ Write!NoSend.status = "none"
BY DEF Write!Shut, Write!NoHandoff, Write!NoCall, Write!NoJob, Write!NoSend,
       WinSet, HandoffSet, CallSet, JobSet, RowSet

\* What gaps and troubles do to what is owed.
LEMMA ForgivenTypes ==
  ASSUME NEW o \in OwedSet, NEW W \in SUBSET Nat, NEW U \in SUBSET Uploads
  PROVE  /\ Write!Forgives(o, W, U) \in OwedSet
         /\ Write!Forgives(o, W, U).typed = o.typed /\ Write!Forgives(o, W, U).words = o.words
         /\ Write!Forgives(o, W, U).lost = o.lost \cup W
<1>1. PICK l, g : l = o.lost \cup W /\ g = o.gone \cup U
  OBVIOUS
<1>2. l \in SUBSET Nat /\ g \in SUBSET Uploads
  BY <1>1 DEF OwedSet
<1>3. Write!Forgives(o, W, U) = [o EXCEPT !.lost = l, !.gone = g]
  BY <1>1 DEF Write!Forgives, OwedSet
<1>. QED  BY <1>1, <1>2, <1>3 DEF OwedSet

LEMMA TroubledTypes ==
  ASSUME NEW o \in OwedSet, NEW p, p = Write!Troubled(o)
  PROVE  p \in OwedSet /\ p.typed = o.typed /\ p.words = o.words /\ p.lost = o.lost
<1>1. PICK n : n = o.trouble + 1
  OBVIOUS
<1>2. p = [o EXCEPT !.trouble = n] /\ n \in Nat
  BY <1>1 DEF Write!Troubled, OwedSet
<1>. QED  BY <1>2 DEF OwedSet

LEMMA GivenUpTypes ==
  ASSUME NEW o \in OwedSet, NEW W \in SUBSET Nat, NEW p, p = Write!GivesUp(o, W)
  PROVE  p \in OwedSet /\ p.typed = o.typed /\ p.words = o.words \ W /\ p.lost = o.lost
<1>1. PICK w : w = o.words \ W
  OBVIOUS
<1>2. p = [o EXCEPT !.words = w] /\ w \in SUBSET Nat
  BY <1>1 DEF Write!GivesUp, OwedSet
<1>. QED  BY <1>1, <1>2 DEF OwedSet

LEMMA WithoutTypes == ASSUME disk \in DiskSet, NEW U PROVE Write!Without(U) \in DiskSet
BY DEF Write!Without, DiskSet

LEMMA HeldTypes == ASSUME NEW U, NEW me PROVE Write!HeldElsewhere(U, me) \subseteq U
BY DEF Write!HeldElsewhere

\* A window's composer is replaced, and nothing else that words are in.
LEMMA PutFacts ==
  ASSUME WordInv, NEW w \in Write!Windows, NEW r \in WinSet, Write!Put(w, r)
  PROVE  /\ win' \in [Write!Windows -> WinSet] /\ win'[w] = r
         /\ \A x \in Write!Windows \ {w} : win'[x] = win[x]
BY DEF Write!Put, WordInv, WordTypes

\* The server's part of the invariant stays while the server does.
LEMMA ServerRests ==
  ASSUME WordInv, job' = job, row' = row, drafts' = drafts, sent' = sent,
         \A x \in 1 .. owed.typed : Owed(x)' => Owed(x),
         \A w \in Write!Windows :
           /\ call'[w].step = "ok" => call[w].step = "ok" /\ call'[w].words = call[w].words
           /\ call[w].step = "serving" => call'[w].step = "serving" /\ call'[w].words = call[w].words
  PROVE  AnswersHold' /\ JobsFit' /\ RowsFit' /\ \A x : Has(x)' <=> Has(x)
<1>1. \A x : Has(x)' <=> Has(x)
  BY DEF Has
<1>2. RowsFit'
  BY DEF WordInv, RowsFit
<1>3. JobsFit'
  BY DEF WordInv, JobsFit
<1>4. AnswersHold'
  <2>1. \A w \in Write!Windows : call[w].words \subseteq 1 .. owed.typed
    BY DEF WordInv, WindowsFit
  <2>. QED  BY <1>1, <2>1 DEF WordInv, AnswersHold
<1>. QED  BY <1>1, <1>2, <1>3, <1>4

\* Neither do the windows' words change.
LEMMA WordsRest ==
  ASSUME WordInv, WordTypes', job' = job, row' = row, drafts' = drafts, sent' = sent, handoff' = handoff,
         owed'.words = owed.words, owed.lost \subseteq owed'.lost, owed'.typed = owed.typed,
         \A w \in Write!Windows :
           /\ win'[w].words = win[w].words /\ win'[w].open = win[w].open
           /\ ~ win[w].open => win'[w] = win[w]
           /\ call'[w].step = "ok" => call[w].step = "ok"
           /\ call[w].step = "serving" => call'[w].step = "serving"
           /\ call'[w].words = call[w].words \/ (call'[w].step \notin {"ok", "serving"} /\ call[w].step # "serving"
                                                 /\ call'[w].words = win[w].words)
  PROVE  WordInv'
<1>1. \A x : Owed(x)' => Owed(x)
  BY DEF Owed
<1>2. AnswersHold' /\ JobsFit' /\ RowsFit' /\ \A x : Has(x)' <=> Has(x)
  BY <1>1, ServerRests
<1>3. Accounted'
  BY <1>1, <1>2 DEF WordInv, Accounted
<1>4. WindowsFit'
  BY WindowNames DEF WordInv, WindowsFit
<1>. QED  BY <1>2, <1>3, <1>4 DEF WordInv

LEMMA FilesKeep ==
  ASSUME WordInv, NEW w \in Write!Windows, NEW u \in Uploads,
         Write!Attach(w, u) \/ Write!RemoveUpload(w, u) \/ Write!Ages(u)
  PROVE  WordInv'
<1>1. /\ win \in [Write!Windows -> WinSet] /\ win[w] \in WinSet /\ disk \in DiskSet /\ owed \in OwedSet
  BY DEF WordInv, WordTypes
<1>2. /\ win' \in [Write!Windows -> WinSet]
      /\ \A x \in Write!Windows :
           /\ win'[x].words = win[x].words /\ win'[x].open = win[x].open
           /\ ~ win[x].open => win'[x] = win[x]
  <2>1. CASE Write!Ages(u)
    BY <1>1, <2>1 DEF Write!Ages
  <2>2. CASE Write!Attach(w, u) \/ Write!RemoveUpload(w, u)
    <3>1. PICK U \in SUBSET Uploads : Write!Put(w, [win[w] EXCEPT !.ups = U])
      <4>1. win[w].ups \cup {u} \in SUBSET Uploads /\ win[w].ups \ {u} \in SUBSET Uploads
        BY <1>1 DEF WinSet
      <4>2. \/ Write!Put(w, [win[w] EXCEPT !.ups = win[w].ups \cup {u}])
            \/ Write!Put(w, [win[w] EXCEPT !.ups = win[w].ups \ {u}])
        BY <2>2 DEF Write!Attach, Write!RemoveUpload
      <4>. QED  BY <4>1, <4>2
    <3>2. PICK r : r = [win[w] EXCEPT !.ups = U]
      OBVIOUS
    <3>3. r \in WinSet /\ r.words = win[w].words /\ r.open = win[w].open
      BY <1>1, <3>2 DEF WinSet
    <3>4. win' \in [Write!Windows -> WinSet] /\ win'[w] = r
          /\ \A x \in Write!Windows \ {w} : win'[x] = win[x]
      BY <3>1, <3>2, <3>3, PutFacts
    <3>5. win[w].open
      BY <2>2 DEF Write!Attach, Write!RemoveUpload
    <3>. QED  BY <3>3, <3>4, <3>5
  <2>. QED  BY <2>1, <2>2
<1>3. owed' \in OwedSet /\ owed'.words = owed.words /\ owed.lost \subseteq owed'.lost /\ owed'.typed = owed.typed
  <2>1. CASE Write!Attach(w, u)
    <3>1. PICK P : P = owed.picked \cup {u}
      OBVIOUS
    <3>2. owed' = [owed EXCEPT !.picked = P] /\ P \in SUBSET Uploads
      BY <1>1, <2>1, <3>1 DEF Write!Attach, OwedSet
    <3>. QED  BY <1>1, <3>2 DEF OwedSet
  <2>2. CASE Write!RemoveUpload(w, u)
    <3>1. owed' = Write!Forgives(owed, {}, {u})
      BY <2>2 DEF Write!RemoveUpload
    <3>2. {} \in SUBSET Nat /\ {u} \in SUBSET Uploads
      OBVIOUS
    <3>3. /\ owed' \in OwedSet /\ owed'.typed = owed.typed /\ owed'.words = owed.words
          /\ owed'.lost = owed.lost \cup {}
      BY <1>1, <3>1, <3>2, ForgivenTypes
    <3>. QED  BY <3>3
  <2>3. CASE Write!Ages(u)
    BY <1>1, <2>3 DEF Write!Ages
  <2>. QED  BY <2>1, <2>2, <2>3
<1>4. disk' \in DiskSet
  <2>1. CASE Write!RemoveUpload(w, u)
    BY <1>1, <2>1, WithoutTypes DEF Write!RemoveUpload
  <2>2. CASE Write!Attach(w, u) \/ Write!Ages(u)
    <3>1. PICK F : F = disk.files \cup {u}
      OBVIOUS
    <3>2. PICK O : O = disk.old \cup {u}
      OBVIOUS
    <3>3. F \in SUBSET Uploads /\ O \in SUBSET Uploads
      BY <1>1, <3>1, <3>2 DEF DiskSet
    <3>4. disk' = [disk EXCEPT !.files = F] \/ disk' = [disk EXCEPT !.old = O]
      BY <1>1, <2>2, <3>1, <3>2 DEF Write!Attach, Write!Ages, DiskSet
    <3>. QED  BY <1>1, <3>3, <3>4 DEF DiskSet
  <2>. QED  BY <2>1, <2>2
<1>5. handoff' = handoff /\ call' = call /\ job' = job /\ row' = row /\ drafts' = drafts /\ sent' = sent
  BY DEF Write!Attach, Write!RemoveUpload, Write!Ages
<1>6. WordTypes'
  BY <1>2, <1>3, <1>4, <1>5 DEF WordInv, WordTypes
<1>. QED  BY <1>2, <1>3, <1>5, <1>6, WordsRest

LEMMA RequestsKeep ==
  ASSUME WordInv, NEW w \in Write!Windows,
         \/ Write!Reload(w) \/ Write!Unanswered(w) \/ \E kind \in Write!Kinds : Write!Ask(w, kind)
  PROVE  WordInv'
<1>1. call \in [Write!Windows -> CallSet] /\ call[w] \in CallSet /\ owed \in OwedSet /\ win[w] \in WinSet
  BY DEF WordInv, WordTypes
<1>2. /\ win' = win /\ handoff' = handoff /\ job' = job /\ row' = row /\ disk' = disk
      /\ drafts' = drafts /\ sent' = sent
  BY DEF Write!Reload, Write!Unanswered, Write!Ask
<1>3. owed' \in OwedSet /\ owed'.words = owed.words /\ owed'.lost = owed.lost /\ owed'.typed = owed.typed
  BY <1>1, TroubledTypes DEF Write!Reload, Write!Unanswered, Write!Ask
<1>4. PICK c \in CallSet : /\ call' = [call EXCEPT ![w] = c]
                           /\ c.step = "ok" => call[w].step = "ok"
                           /\ call[w].step = "serving" => c.step = "serving"
                           /\ \/ c.words = call[w].words
                              \/ c.step = "asked" /\ call[w].step = "none" /\ c.words = win[w].words
  <2>1. CASE Write!Reload(w)
    <3>1. PICK c : c = [call[w] EXCEPT !.heard = FALSE]
      OBVIOUS
    <3>2. call' = [call EXCEPT ![w] = c]
      BY <2>1, <3>1 DEF Write!Reload
    <3>3. c \in CallSet /\ c.step = call[w].step /\ c.words = call[w].words
      BY <1>1, <3>1 DEF CallSet
    <3>. QED  BY <3>2, <3>3
  <2>2. CASE Write!Unanswered(w)
    <3>1. PICK c : c = [call[w] EXCEPT !.step = "failed"]
      OBVIOUS
    <3>2. call' = [call EXCEPT ![w] = c] /\ call[w].step \in {"asked", "ok"}
      BY <2>2, <3>1 DEF Write!Unanswered
    <3>3. c \in CallSet /\ c.step = "failed" /\ c.words = call[w].words
      BY <1>1, <3>1 DEF CallSet
    <3>. QED  BY <3>2, <3>3
  <2>3. ASSUME NEW kind \in Write!Kinds, Write!Ask(w, kind)
        PROVE  \E c \in CallSet : /\ call' = [call EXCEPT ![w] = c]
                                  /\ c.step = "asked" /\ call[w].step = "none" /\ c.words = win[w].words
    <3>1. PICK c : c = [kind |-> kind, step |-> "asked", heard |-> TRUE, words |-> win[w].words,
                        ups |-> win[w].ups]
      OBVIOUS
    <3>2. call' = [call EXCEPT ![w] = c] /\ call[w] = Write!NoCall
      BY <2>3, <3>1 DEF Write!Ask
    <3>3. c \in CallSet /\ c.step = "asked" /\ c.words = win[w].words
      BY <1>1, <3>1 DEF CallSet, WinSet, Write!Kinds
    <3>. QED  BY <3>2, <3>3, Blanks
  <2>4. CASE \E kind \in Write!Kinds : Write!Ask(w, kind)
    <3>1. PICK c \in CallSet : /\ call' = [call EXCEPT ![w] = c]
                               /\ c.step = "asked" /\ call[w].step = "none" /\ c.words = win[w].words
      BY <2>3, <2>4
    <3>. QED  BY <3>1
  <2>. QED  BY <2>1, <2>2, <2>4
<1>5. call' \in [Write!Windows -> CallSet] /\ call'[w] = c /\ \A x \in Write!Windows \ {w} : call'[x] = call[x]
  BY <1>1, <1>4
<1>6. WordTypes'
  BY <1>2, <1>3, <1>5 DEF WordInv, WordTypes
<1>. QED  BY <1>2, <1>3, <1>4, <1>5, <1>6, WordsRest

LEMMA TypeKeeps ==
  ASSUME WordInv, NEW w \in Write!Windows, Write!Type(w)
  PROVE  WordInv'
<1>1. win[w] \in WinSet /\ owed \in OwedSet /\ win[w].open
  BY DEF WordInv, WordTypes, Write!Type
<1>2. PICK n : n = owed.typed + 1
  OBVIOUS
<1>3. n \in Nat /\ 1 .. n = (1 .. owed.typed) \cup {n} /\ n \notin 1 .. owed.typed
  BY <1>1, <1>2 DEF OwedSet
<1>4. PICK r : r = [win[w] EXCEPT !.words = win[w].words \cup {n}]
  OBVIOUS
<1>5. r \in WinSet /\ r.words = win[w].words \cup {n} /\ r.open
  BY <1>1, <1>3, <1>4 DEF WinSet
<1>6. /\ win' \in [Write!Windows -> WinSet] /\ win'[w] = r
      /\ \A x \in Write!Windows \ {w} : win'[x] = win[x]
  BY <1>2, <1>4, <1>5, PutFacts DEF Write!Type
<1>7. owed' \in OwedSet /\ owed'.typed = n /\ owed'.words = owed.words \cup {n} /\ owed'.lost = owed.lost
  <2>1. PICK W : W = owed.words \cup {n}
    OBVIOUS
  <2>2. owed' = [owed EXCEPT !.typed = n, !.words = W] /\ W \in SUBSET Nat
    BY <1>1, <1>2, <1>3, <2>1 DEF Write!Type, OwedSet
  <2>. QED  BY <1>1, <1>3, <2>1, <2>2 DEF OwedSet
<1>8. /\ handoff' = handoff /\ call' = call /\ job' = job /\ row' = row /\ disk' = disk
      /\ drafts' = drafts /\ sent' = sent
  BY DEF Write!Type
<1>9. \A x : Owed(x)' => Owed(x) \/ x = n
  BY <1>7 DEF Owed
<1>10. AnswersHold' /\ JobsFit' /\ RowsFit' /\ \A x : Has(x)' <=> Has(x)
  BY <1>3, <1>8, <1>9, ServerRests
<1>11. Accounted'
  <2>1. SUFFICES ASSUME NEW x, Owed(x)'
                 PROVE  (\E v \in Write!Windows : x \in win'[v].words) \/ x \in handoff'.words \/ Has(x)'
    BY DEF Accounted
  <2>2. CASE x = n
    BY <1>5, <1>6, <2>2
  <2>3. CASE Owed(x)
    <3>1. \A v \in Write!Windows : x \in win[v].words => x \in win'[v].words
      BY <1>5, <1>6
    <3>. QED  BY <1>8, <1>10, <2>3, <3>1 DEF WordInv, Accounted
  <2>. QED  BY <1>9, <2>1, <2>2, <2>3
<1>12. WindowsFit'
  <2>1. \A x \in Write!Windows :
          /\ ~ win'[x].open => win'[x] = Write!Shut
          /\ win'[x].words \subseteq 1 .. n /\ call'[x].words \subseteq 1 .. n
    BY <1>3, <1>5, <1>6, <1>8 DEF WordInv, WindowsFit
  <2>2. handoff.parked => ~ win'["popout"].open
    BY <1>1, <1>6, WindowNames DEF WordInv, WindowsFit
  <2>3. handoff'.words \subseteq 1 .. owed.typed
    BY <1>8, Blanks DEF WordInv, WindowsFit
  <2>. QED  BY <1>3, <1>7, <1>8, <2>1, <2>2, <2>3 DEF WordInv, WindowsFit
<1>13. WordTypes'
  BY <1>6, <1>7, <1>8 DEF WordInv, WordTypes
<1>. QED  BY <1>10, <1>11, <1>12, <1>13 DEF WordInv

\* A window leaves: what it had is parked, given up, in a gap, or was answered for.
LEMMA WindowLeaves ==
  ASSUME WordInv, WordTypes', NEW w \in Write!Windows, Write!Leaves(w),
         job' = job, row' = row, drafts' = drafts, sent' = sent,
         owed'.typed = owed.typed, \A x : Owed(x)' => Owed(x),
         \A v \in Write!Windows :
           \/ call'[v] = call[v]
           \/ call'[v].step = "none" /\ call'[v].words = {} /\ call[v].step # "serving",
         \/ handoff' = handoff /\ (\A x \in win[w].words : Owed(x)' => Has(x))
         \/ w = "main" /\ ~ handoff.parked /\ handoff'.parked /\ handoff'.words = win[w].words
            /\ ~ win["popout"].open
  PROVE  WordInv'
<1>1. /\ win' \in [Write!Windows -> WinSet] /\ win'[w] = Write!Shut
      /\ \A x \in Write!Windows \ {w} : win'[x] = win[x]
  BY Blanks, PutFacts DEF Write!Leaves
<1>2. AnswersHold' /\ JobsFit' /\ RowsFit' /\ \A x : Has(x)' <=> Has(x)
  BY ServerRests
<1>3. Accounted'
  <2>1. SUFFICES ASSUME NEW x, Owed(x)'
                 PROVE  (\E v \in Write!Windows : x \in win'[v].words) \/ x \in handoff'.words \/ Has(x)'
    BY DEF Accounted
  <2>2. (\E v \in Write!Windows : x \in win[v].words) \/ x \in handoff.words \/ Has(x)
    BY <2>1 DEF WordInv, Accounted
  <2>3. CASE \E v \in Write!Windows \ {w} : x \in win[v].words
    BY <1>1, <2>3
  <2>4. CASE x \in win[w].words
    BY <1>2, <2>1, <2>4
  <2>5. CASE x \in handoff.words
    <3>1. handoff.parked
      BY <2>5, Blanks DEF WordInv, WindowsFit
    <3>. QED  BY <2>5, <3>1
  <2>. QED  BY <1>2, <2>2, <2>3, <2>4, <2>5
<1>4. WindowsFit'
  <2>1. \A x \in Write!Windows :
          /\ ~ win'[x].open => win'[x] = Write!Shut
          /\ win'[x].words \subseteq 1 .. owed.typed /\ call'[x].words \subseteq 1 .. owed.typed
    BY <1>1, Blanks DEF WordInv, WindowsFit
  <2>2. handoff'.parked => ~ win'["popout"].open /\ handoff'.words \subseteq 1 .. owed.typed
    BY <1>1, WindowNames, Blanks DEF WordInv, WindowsFit
  <2>3. ~ handoff'.parked => handoff' = Write!NoHandoff
    BY DEF WordInv, WindowsFit
  <2>. QED  BY <2>1, <2>2, <2>3 DEF WindowsFit
<1>. QED  BY <1>2, <1>3, <1>4 DEF WordInv

LEMMA DetachKeeps == ASSUME WordInv, Write!Detach PROVE WordInv'
<1>1. /\ win \in [Write!Windows -> WinSet] /\ win["main"] \in WinSet /\ disk \in DiskSet
  BY WindowNames DEF WordInv, WordTypes
<1>2. /\ handoff' = [parked |-> TRUE, words |-> win["main"].words, ups |-> win["main"].ups]
      /\ disk' = disk /\ Write!Leaves("main") /\ ~ handoff.parked /\ ~ win["popout"].open
      /\ call' = call /\ job' = job /\ row' = row /\ drafts' = drafts /\ sent' = sent /\ owed' = owed
  BY DEF Write!Detach, Write!HandedDisk
<1>3. handoff' \in HandoffSet /\ handoff'.parked /\ handoff'.words = win["main"].words
  BY <1>1, <1>2 DEF HandoffSet, WinSet
<1>4. win' \in [Write!Windows -> WinSet]
  BY <1>2, Blanks, WindowNames, PutFacts DEF Write!Leaves
<1>5. WordTypes'
  BY <1>2, <1>3, <1>4 DEF WordInv, WordTypes
<1>6. \A x : Owed(x)' => Owed(x)
  BY <1>2 DEF Owed
<1>. QED  BY <1>2, <1>3, <1>5, <1>6, WindowNames, WindowLeaves

LEMMA CancelKeeps == ASSUME WordInv, NEW w \in Write!Windows, Write!Cancel(w) PROVE WordInv'
<1>1. /\ win[w] \in WinSet /\ disk \in DiskSet /\ owed \in OwedSet
      /\ win[w].words \in SUBSET Nat /\ win[w].ups \in SUBSET Uploads
  BY DEF WordInv, WordTypes, WinSet
<1>2. /\ Write!Leaves(w) /\ handoff' = handoff /\ call' = call /\ job' = job /\ row' = row
      /\ drafts' = drafts /\ sent' = sent
  BY DEF Write!Cancel
<1>3. disk' \in DiskSet
  BY <1>1, WithoutTypes DEF Write!Cancel
<1>4. /\ owed' \in OwedSet /\ owed'.typed = owed.typed /\ \A x : Owed(x)' => Owed(x) /\ x \notin win[w].words
  <2>1. CASE Write!Dirty(w)
    <3>1. PICK o : o = Write!Forgives(owed, {}, win[w].ups)
      OBVIOUS
    <3>2. o \in OwedSet /\ o.typed = owed.typed /\ o.words = owed.words /\ o.lost = owed.lost
      <4>1. {} \in SUBSET Nat
        OBVIOUS
      <4>2. o \in OwedSet /\ o.typed = owed.typed /\ o.words = owed.words /\ o.lost = owed.lost \cup {}
        BY <1>1, <3>1, <4>1, ForgivenTypes
      <4>. QED  BY <4>2
    <3>3. owed' = Write!GivesUp(o, win[w].words)
      BY <2>1, <3>1 DEF Write!Cancel
    <3>4. owed' \in OwedSet /\ owed'.typed = o.typed /\ owed'.words = o.words \ win[w].words /\ owed'.lost = o.lost
      BY <1>1, <3>2, <3>3, GivenUpTypes
    <3>. QED  BY <3>2, <3>4 DEF Owed
  <2>2. CASE ~ Write!Dirty(w)
    <3>1. owed' = Write!Forgives(owed, win[w].words, {})
      BY <2>2 DEF Write!Cancel
    <3>2. {} \in SUBSET Uploads
      OBVIOUS
    <3>3. /\ owed' \in OwedSet /\ owed'.typed = owed.typed /\ owed'.words = owed.words
          /\ owed'.lost = owed.lost \cup win[w].words
      BY <1>1, <3>1, <3>2, ForgivenTypes
    <3>. QED  BY <3>3 DEF Owed
  <2>. QED  BY <2>1, <2>2
<1>5. win' \in [Write!Windows -> WinSet]
  BY <1>2, Blanks, PutFacts DEF Write!Leaves
<1>6. WordTypes'
  BY <1>2, <1>3, <1>4, <1>5 DEF WordInv, WordTypes
<1>. QED  BY <1>2, <1>4, <1>6, WindowLeaves

LEMMA AnsweredKeeps == ASSUME WordInv, NEW w \in Write!Windows, Write!Answered(w) PROVE WordInv'
<1>1. /\ win \in [Write!Windows -> WinSet] /\ win[w] \in WinSet /\ owed \in OwedSet
      /\ call \in [Write!Windows -> CallSet] /\ win[w].words \in SUBSET Nat
  BY DEF WordInv, WordTypes, WinSet
<1>2. /\ handoff' = handoff /\ job' = job /\ row' = row /\ disk' = disk
      /\ drafts' = drafts /\ sent' = sent /\ call[w].step \in {"ok", "failed"}
      /\ call' = [call EXCEPT ![w] = Write!NoCall]
  BY DEF Write!Answered
<1>3. /\ call' \in [Write!Windows -> CallSet] /\ call'[w] = Write!NoCall
      /\ \A v \in Write!Windows \ {w} : call'[v] = call[v]
  BY <1>1, <1>2, Blanks
<1>4. CASE call[w].heard /\ win[w].open /\ Write!LeavesAfter(call[w].step)
  <2>1. Write!Leaves(w) /\ owed' = Write!Forgives(owed, win[w].words \ call[w].words, {}) /\ call[w].step = "ok"
    BY <1>4 DEF Write!Answered, Write!LeavesAfter
  <2>2. win[w].words \ call[w].words \in SUBSET Nat /\ {} \in SUBSET Uploads
    BY <1>1
  <2>3. /\ owed' \in OwedSet /\ owed'.typed = owed.typed /\ owed'.words = owed.words
        /\ owed'.lost = owed.lost \cup (win[w].words \ call[w].words)
    BY <1>1, <2>1, <2>2, ForgivenTypes
  <2>4. \A x : Owed(x)' => Owed(x)
    BY <2>3 DEF Owed
  <2>5. \A x \in win[w].words : Owed(x)' => Has(x)
    BY <2>1, <2>3 DEF Owed, WordInv, AnswersHold
  <2>6. win' \in [Write!Windows -> WinSet]
    BY <2>1, Blanks, PutFacts DEF Write!Leaves
  <2>7. WordTypes'
    BY <1>2, <1>3, <2>3, <2>6 DEF WordInv, WordTypes
  <2>. QED  BY <1>2, <1>3, <2>1, <2>3, <2>4, <2>5, <2>7, Blanks, WindowLeaves
<1>5. CASE ~ (call[w].heard /\ win[w].open /\ Write!LeavesAfter(call[w].step))
  <2>1. win' = win /\ owed' = owed
    BY <1>5 DEF Write!Answered
  <2>2. WordTypes'
    BY <1>2, <1>3, <2>1 DEF WordInv, WordTypes
  <2>3. \A x : Owed(x)' => Owed(x)
    BY <2>1 DEF Owed
  <2>4. AnswersHold' /\ JobsFit' /\ RowsFit' /\ \A x : Has(x)' <=> Has(x)
    BY <1>2, <1>3, <2>3, Blanks, ServerRests
  <2>5. Accounted' /\ WindowsFit'
    BY <1>2, <1>3, <2>1, <2>3, <2>4, Blanks DEF WordInv, Accounted, WindowsFit
  <2>. QED  BY <2>2, <2>4, <2>5 DEF WordInv
<1>. QED  BY <1>4, <1>5

LEMMA HandoffKeeps == ASSUME WordInv, Write!PopoutLoads \/ Write!HandoffSwept PROVE WordInv'
<1>1. /\ win \in [Write!Windows -> WinSet] /\ handoff \in HandoffSet /\ owed \in OwedSet
      /\ handoff.words \in SUBSET Nat
  BY DEF WordInv, WordTypes, HandoffSet
<1>2. /\ handoff' = Write!NoHandoff /\ handoff.parked /\ ~ win["popout"].open
      /\ handoff.words \subseteq 1 .. owed.typed
      /\ call' = call /\ job' = job /\ row' = row /\ disk' = disk /\ drafts' = drafts /\ sent' = sent
  BY DEF Write!PopoutLoads, Write!HandoffSwept, WordInv, WindowsFit
<1>3. owed' \in OwedSet /\ owed'.typed = owed.typed /\ owed'.words = owed.words
      /\ \/ Write!PopoutLoads /\ owed'.lost = owed.lost
         \/ win' = win /\ owed'.lost = owed.lost \cup handoff.words
  <2>1. CASE Write!PopoutLoads
    <3>1. owed' = owed
      BY <2>1 DEF Write!PopoutLoads
    <3>. QED  BY <1>1, <2>1, <3>1
  <2>2. CASE Write!HandoffSwept
    <3>1. PICK o : o = Write!Forgives(owed, handoff.words, {})
      OBVIOUS
    <3>2. {} \in SUBSET Uploads
      OBVIOUS
    <3>3. o \in OwedSet /\ o.typed = owed.typed /\ o.words = owed.words /\ o.lost = owed.lost \cup handoff.words
      BY <1>1, <3>1, <3>2, ForgivenTypes
    <3>4. owed' = Write!Troubled(o) /\ win' = win
      BY <2>2, <3>1 DEF Write!HandoffSwept
    <3>. QED  BY <3>3, <3>4, TroubledTypes
  <2>. QED  BY <2>1, <2>2
<1>4. win["popout"].words = {}
  BY <1>2, WindowNames, Blanks DEF WordInv, WindowsFit
<1>5. /\ win' \in [Write!Windows -> WinSet] /\ win'["main"] = win["main"]
      /\ \/ win'["popout"].words = handoff.words /\ win'["popout"].open /\ owed'.lost = owed.lost
         \/ win'["popout"] = win["popout"] /\ owed'.lost = owed.lost \cup handoff.words
  <2>1. CASE Write!PopoutLoads
    <3>1. PICK r : r = [open |-> TRUE, words |-> handoff.words, ups |-> handoff.ups, base |-> handoff.words]
      OBVIOUS
    <3>2. r \in WinSet /\ r.words = handoff.words /\ r.open
      BY <1>1, <3>1 DEF WinSet, HandoffSet
    <3>3. Write!Put("popout", r) /\ owed' = owed
      BY <2>1, <3>1 DEF Write!PopoutLoads
    <3>4. /\ win' \in [Write!Windows -> WinSet] /\ win'["popout"] = r
          /\ \A x \in Write!Windows \ {"popout"} : win'[x] = win[x]
      BY <3>2, <3>3, WindowNames, PutFacts
    <3>. QED  BY <3>2, <3>3, <3>4, WindowNames
  <2>2. CASE win' = win /\ owed'.lost = owed.lost \cup handoff.words
    BY <1>1, <2>2
  <2>. QED  BY <1>3, <2>1, <2>2
<1>6. \A x : Owed(x)' => Owed(x)
  BY <1>3 DEF Owed
<1>7. AnswersHold' /\ JobsFit' /\ RowsFit' /\ \A x : Has(x)' <=> Has(x)
  BY <1>2, <1>6, ServerRests
<1>8. Accounted'
  <2>1. SUFFICES ASSUME NEW x, Owed(x)'
                 PROVE  (\E v \in Write!Windows : x \in win'[v].words) \/ Has(x)'
    BY DEF Accounted
  <2>2. x \in win["main"].words \/ x \in handoff.words \/ Has(x)
    BY <1>4, <1>6, <2>1, WindowNames DEF WordInv, Accounted
  <2>3. CASE x \in handoff.words
    BY <1>5, <2>1, <2>3, WindowNames DEF Owed
  <2>. QED  BY <1>5, <1>7, <2>2, <2>3, WindowNames
<1>9. WindowsFit'
  <2>1. \A x \in Write!Windows :
          /\ ~ win'[x].open => win'[x] = Write!Shut
          /\ win'[x].words \subseteq 1 .. owed.typed /\ call'[x].words \subseteq 1 .. owed.typed
    BY <1>2, <1>5, WindowNames DEF WordInv, WindowsFit
  <2>. QED  BY <1>2, <1>3, <2>1, Blanks DEF WindowsFit
<1>10. WordTypes'
  BY <1>2, <1>3, <1>5, Blanks DEF WordInv, WordTypes
<1>. QED  BY <1>7, <1>8, <1>9, <1>10 DEF WordInv

\* What the server does: the windows stand still, a call that ends was served or failed, and
\* no word owed is lost to the server.
LEMMA ServerGoesOn ==
  ASSUME WordInv, WordTypes', win' = win, handoff' = handoff, owed'.typed = owed.typed,
         \A x : Owed(x)' => Owed(x), \A x : Owed(x)' /\ Has(x) => Has(x)',
         \A w \in Write!Windows :
           /\ call'[w].words = call[w].words
           /\ call'[w].step = "ok" /\ call[w].step # "ok" => \A x \in call[w].words : Owed(x)' => Has(x)',
         JobsFit', RowsFit'
  PROVE  WordInv'
<1>1. Accounted'
  BY DEF WordInv, Accounted
<1>2. AnswersHold'
  BY DEF WordInv, AnswersHold
<1>3. WindowsFit'
  BY DEF WordInv, WindowsFit
<1>. QED  BY <1>1, <1>2, <1>3 DEF WordInv

\* A row is replaced by one of the same words, or a free one by a call's.
LEMMA RowPut ==
  ASSUME WordInv, NEW r \in SendRows, NEW a \in RowSet, row' = [row EXCEPT ![r] = a],
         a.words = row[r].words \/ (row[r].status = "none" /\ a.status = "pending")
  PROVE  /\ row' \in [SendRows -> RowSet] /\ row'[r] = a /\ \A x \in SendRows \ {r} : row'[x] = row[x]
BY DEF WordInv, WordTypes

LEMMA ServeSendKeeps == ASSUME WordInv, NEW w \in Write!Windows, Write!ServeSend(w) PROVE WordInv'
<1>1. /\ call \in [Write!Windows -> CallSet] /\ call[w] \in CallSet /\ row \in [SendRows -> RowSet]
      /\ call[w].step = "asked"
  BY DEF WordInv, WordTypes, Write!ServeSend
<1>2. /\ win' = win /\ handoff' = handoff /\ job' = job /\ disk' = disk /\ drafts' = drafts
      /\ sent' = sent /\ owed' = owed /\ call' = [call EXCEPT ![w].step = "ok"]
  BY DEF Write!ServeSend
<1>3. PICK r \in SendRows : /\ row[r].status = "none"
                            /\ row' = [row EXCEPT ![r] = [Write!NoSend EXCEPT
                                         !.status = "pending", !.words = call[w].words, !.ups = call[w].ups]]
  BY DEF Write!ServeSend
<1>4. PICK a : a = [Write!NoSend EXCEPT !.status = "pending", !.words = call[w].words, !.ups = call[w].ups]
  OBVIOUS
<1>5. a \in RowSet /\ a.status = "pending" /\ a.words = call[w].words
  BY <1>1, <1>4, Blanks DEF RowSet, CallSet
<1>6. row' \in [SendRows -> RowSet] /\ row'[r] = a /\ \A x \in SendRows \ {r} : row'[x] = row[x]
  BY <1>1, <1>3, <1>4, <1>5
<1>7. PICK c : c = [call[w] EXCEPT !.step = "ok"]
  OBVIOUS
<1>8. c \in CallSet /\ c.step = "ok" /\ c.words = call[w].words
  BY <1>1, <1>7 DEF CallSet
<1>9. call' \in [Write!Windows -> CallSet] /\ call'[w] = c /\ \A x \in Write!Windows \ {w} : call'[x] = call[x]
  BY <1>1, <1>2, <1>7, <1>8
<1>10. WordTypes'
  BY <1>2, <1>6, <1>9 DEF WordInv, WordTypes
<1>11. \A x \in call[w].words : Has(x)'
  BY <1>5, <1>6 DEF Has, Write!Live
<1>12. \A x : Has(x) => Has(x)'
  <2>1. row[r].status \notin Write!Live
    BY <1>3 DEF Write!Live
  <2>. QED  BY <1>2, <1>6, <2>1 DEF Has
<1>13. JobsFit'
  BY <1>1, <1>2, <1>9 DEF WordInv, JobsFit
<1>14. RowsFit'
  BY <1>2, <1>3, <1>5, <1>6 DEF WordInv, RowsFit
<1>15. \A x : Owed(x)' => Owed(x)
  BY <1>2 DEF Owed
<1>. QED  BY <1>2, <1>8, <1>9, <1>10, <1>11, <1>12, <1>13, <1>14, <1>15, ServerGoesOn

\* buildMime
LEMMA BuildingTypes ==
  ASSUME WordInv, NEW m, m.words \in SUBSET Nat, m.ups \in SUBSET Uploads
  PROVE  /\ Write!Building(m) \in JobSet /\ Write!Building(m).words = m.words
         /\ Write!Building(m).step = "built" /\ Write!Building(m).mime \in SUBSET Uploads
<1>1. m.ups \cap disk.files \in SUBSET Uploads
  OBVIOUS
<1>. QED  BY <1>1 DEF Write!Building, JobSet

LEMMA ServeDraftKeeps ==
  ASSUME WordInv, SendRows \cap Write!Windows = {}, NEW w \in Write!Windows, Write!ServeDraft(w)
  PROVE  WordInv'
<1>1. /\ call \in [Write!Windows -> CallSet] /\ call[w] \in CallSet /\ call[w].step = "asked"
      /\ job \in [Write!Windows \cup SendRows -> JobSet]
      /\ call[w].words \in SUBSET Nat /\ call[w].ups \in SUBSET Uploads
  BY DEF WordInv, WordTypes, Write!ServeDraft, CallSet
<1>2. /\ win' = win /\ handoff' = handoff /\ row' = row /\ disk' = disk /\ drafts' = drafts
      /\ sent' = sent /\ owed' = owed /\ call' = [call EXCEPT ![w].step = "serving"]
      /\ job' = [job EXCEPT ![w] = Write!Building(call[w])]
  BY DEF Write!ServeDraft
<1>3. PICK c : c = [call[w] EXCEPT !.step = "serving"]
  OBVIOUS
<1>4. c \in CallSet /\ c.step = "serving" /\ c.words = call[w].words
  BY <1>1, <1>3 DEF CallSet
<1>5. call' \in [Write!Windows -> CallSet] /\ call'[w] = c /\ \A x \in Write!Windows \ {w} : call'[x] = call[x]
  BY <1>1, <1>2, <1>3, <1>4
<1>6. PICK b : b = Write!Building(call[w])
  OBVIOUS
<1>7. b \in JobSet /\ b.words = call[w].words
  BY <1>1, <1>6, BuildingTypes
<1>8. /\ job' \in [Write!Windows \cup SendRows -> JobSet] /\ job'[w] = b
      /\ \A x \in (Write!Windows \cup SendRows) \ {w} : job'[x] = job[x]
  BY <1>1, <1>2, <1>6, <1>7
<1>9. \A r \in SendRows : job'[r] = job[r]
  BY <1>8
<1>10. WordTypes'
  BY <1>2, <1>5, <1>8 DEF WordInv, WordTypes
<1>11. \A x : Has(x) => Has(x)'
  BY <1>2, <1>9 DEF Has
<1>12. RowsFit'
  BY <1>2, <1>9 DEF WordInv, RowsFit
<1>13. JobsFit'
  BY <1>4, <1>5, <1>7, <1>8 DEF WordInv, JobsFit
<1>14. \A x : Owed(x)' => Owed(x)
  BY <1>2 DEF Owed
<1>. QED  BY <1>2, <1>4, <1>5, <1>10, <1>11, <1>12, <1>13, <1>14, ServerGoesOn

\* A job ends: its call with it, if it is a window's.
LEMMA JobEnds ==
  ASSUME WordInv, SendRows \cap Write!Windows = {}, NEW k \in Write!Windows \cup SendRows,
         job[k].step = "built", NEW how \in {"ok", "failed"}, Write!Ends(k, how),
         job' = [job EXCEPT ![k] = Write!NoJob]
  PROVE  /\ call' \in [Write!Windows -> CallSet] /\ job' \in [Write!Windows \cup SendRows -> JobSet]
         /\ \A w \in Write!Windows :
              /\ call'[w].words = call[w].words
              /\ w = k => call'[w].step = how /\ call[w].words = job[k].words
              /\ w # k => call'[w] = call[w]
         /\ \A r \in SendRows : job'[r] = IF r = k THEN Write!NoJob ELSE job[r]
         /\ JobsFit'
<1>1. /\ call \in [Write!Windows -> CallSet] /\ job \in [Write!Windows \cup SendRows -> JobSet]
  BY DEF WordInv, WordTypes
<1>2. /\ job' \in [Write!Windows \cup SendRows -> JobSet] /\ job'[k] = Write!NoJob
      /\ \A x \in (Write!Windows \cup SendRows) \ {k} : job'[x] = job[x]
  BY <1>1, Blanks
<1>3. CASE k \in SendRows
  <2>1. call' = call /\ k \notin Write!Windows
    BY <1>3 DEF Write!Ends
  <2>2. JobsFit'
    BY <1>2, <2>1 DEF WordInv, JobsFit
  <2>. QED  BY <1>1, <1>2, <2>1, <2>2
<1>4. CASE k \in Write!Windows
  <2>1. PICK c : c = [call[k] EXCEPT !.step = how]
    OBVIOUS
  <2>2. c \in CallSet /\ c.step = how /\ c.words = call[k].words
    BY <1>1, <1>4, <2>1 DEF CallSet
  <2>3. call' = [call EXCEPT ![k] = c]
    BY <1>4, <2>1 DEF Write!Ends
  <2>4. /\ call' \in [Write!Windows -> CallSet] /\ call'[k] = c
        /\ \A x \in Write!Windows \ {k} : call'[x] = call[x]
    BY <1>1, <1>4, <2>2, <2>3
  <2>5. job[k].words = call[k].words
    BY <1>4 DEF WordInv, JobsFit
  <2>6. JobsFit'
    BY <1>2, <1>4, <2>4, Blanks DEF WordInv, JobsFit
  <2>. QED  BY <1>2, <1>4, <2>2, <2>4, <2>5, <2>6
<1>. QED  BY <1>3, <1>4

LEMMA DraftSavedKeeps ==
  ASSUME WordInv, SendRows \cap Write!Windows = {}, NEW k \in Write!Windows \cup SendRows, Write!DraftSaved(k)
  PROVE  WordInv'
<1>. DEFINE copy == [words |-> job[k].words, asked |-> job[k].ups, ups |-> job[k].mime, edited |-> FALSE]
            shared == Write!HeldElsewhere(job[k].ups, {<<"job", k>>, <<"call", k>>})
            W == IF HasDrafts THEN {} ELSE job[k].words
<1>1. /\ job[k] \in JobSet /\ owed \in OwedSet /\ disk \in DiskSet
      /\ job[k].words \in SUBSET Nat /\ job[k].ups \in SUBSET Uploads
  BY DEF WordInv, WordTypes, JobSet
<1>2. /\ job[k].step = "built" /\ win' = win /\ handoff' = handoff /\ row' = row /\ sent' = sent
      /\ job' = [job EXCEPT ![k] = Write!NoJob] /\ Write!Ends(k, "ok")
      /\ disk' = Write!Without(job[k].ups)
      /\ drafts' = (IF HasDrafts THEN (drafts \cup {copy}) \ {Write!Source} ELSE drafts)
      /\ owed' = Write!Forgives(owed, W, shared)
  BY DEF Write!DraftSaved
<1>3. /\ call' \in [Write!Windows -> CallSet] /\ job' \in [Write!Windows \cup SendRows -> JobSet]
      /\ \A w \in Write!Windows :
           /\ call'[w].words = call[w].words
           /\ w = k => call'[w].step = "ok" /\ call[w].words = job[k].words
           /\ w # k => call'[w] = call[w]
      /\ \A r \in SendRows : job'[r] = IF r = k THEN Write!NoJob ELSE job[r]
      /\ JobsFit'
  BY <1>2, JobEnds
<1>4. /\ owed' \in OwedSet /\ owed'.typed = owed.typed /\ owed'.words = owed.words
      /\ owed'.lost = owed.lost \cup W
  <2>1. shared \in SUBSET Uploads /\ W \in SUBSET Nat
    BY <1>1, HeldTypes
  <2>. HIDE DEF shared, W
  <2>. QED  BY <1>1, <1>2, <2>1, ForgivenTypes
<1>5. copy.words = job[k].words /\ copy # Write!Source /\ Write!Source.words = {}
  <2>1. copy.edited # Write!Source.edited
    BY DEF Write!Source
  <2>. QED  BY <2>1 DEF Write!Source
<1>6. \A x \in job[k].words : Owed(x)' => \E d \in drafts' : x \in d.words
  <2>1. CASE HasDrafts
    BY <1>2, <1>5, <2>1
  <2>2. CASE ~ HasDrafts
    BY <1>4, <2>2 DEF Owed
  <2>. QED  BY <2>1, <2>2
<1>7. \A x : (\E d \in drafts : x \in d.words) => \E d \in drafts' : x \in d.words
  BY <1>2, <1>5
<1>8. \A x : Owed(x)' => Owed(x)
  BY <1>4 DEF Owed
<1>. HIDE DEF copy, shared, W
<1>9. \A x : Owed(x)' /\ Has(x) => Has(x)'
  <2>1. SUFFICES ASSUME NEW x, Owed(x)', Has(x) PROVE Has(x)'
    OBVIOUS
  <2>2. CASE \E r \in SendRows : x \in job[r].words
    <3>1. PICK r \in SendRows : x \in job[r].words
      BY <2>2
    <3>2. CASE r = k
      BY <1>6, <2>1, <3>1, <3>2 DEF Has
    <3>3. CASE r # k
      BY <1>3, <3>1, <3>3 DEF Has
    <3>. QED  BY <3>2, <3>3
  <2>3. CASE \E d \in drafts : x \in d.words
    BY <1>7, <2>3 DEF Has
  <2>. QED  BY <1>2, <2>1, <2>2, <2>3 DEF Has
<1>10. RowsFit'
  BY <1>2, <1>3 DEF WordInv, RowsFit
<1>11. WordTypes'
  BY <1>1, <1>2, <1>3, <1>4, WithoutTypes DEF WordInv, WordTypes
<1>12. \A w \in Write!Windows :
         call'[w].step = "ok" /\ call[w].step # "ok" => \A x \in call[w].words : Owed(x)' => Has(x)'
  BY <1>3, <1>6 DEF Has
<1>. QED  BY <1>2, <1>3, <1>4, <1>8, <1>9, <1>10, <1>11, <1>12, ServerGoesOn

LEMMA DraftFailsKeeps ==
  ASSUME WordInv, SendRows \cap Write!Windows = {}, NEW k \in Write!Windows \cup SendRows, Write!DraftFails(k)
  PROVE  WordInv'
<1>. DEFINE W == IF k \in SendRows THEN job[k].words ELSE {}
<1>1. job[k] \in JobSet /\ owed \in OwedSet /\ job[k].words \in SUBSET Nat
  BY DEF WordInv, WordTypes, JobSet
<1>2. /\ job[k].step = "built" /\ win' = win /\ handoff' = handoff /\ row' = row /\ sent' = sent
      /\ job' = [job EXCEPT ![k] = Write!NoJob] /\ Write!Ends(k, "failed")
      /\ disk' = disk /\ drafts' = drafts /\ owed' = Write!Troubled(Write!Forgives(owed, W, {}))
  BY DEF Write!DraftFails
<1>3. /\ call' \in [Write!Windows -> CallSet] /\ job' \in [Write!Windows \cup SendRows -> JobSet]
      /\ \A w \in Write!Windows :
           /\ call'[w].words = call[w].words
           /\ w = k => call'[w].step = "failed" /\ call[w].words = job[k].words
           /\ w # k => call'[w] = call[w]
      /\ \A r \in SendRows : job'[r] = IF r = k THEN Write!NoJob ELSE job[r]
      /\ JobsFit'
  BY <1>2, JobEnds
<1>4. /\ owed' \in OwedSet /\ owed'.typed = owed.typed /\ owed'.words = owed.words
      /\ owed'.lost = owed.lost \cup W
  <2>1. {} \in SUBSET Uploads /\ W \in SUBSET Nat
    BY <1>1
  <2>. HIDE DEF W
  <2>2. /\ Write!Forgives(owed, W, {}) \in OwedSet
        /\ Write!Forgives(owed, W, {}).typed = owed.typed /\ Write!Forgives(owed, W, {}).words = owed.words
        /\ Write!Forgives(owed, W, {}).lost = owed.lost \cup W
    BY <1>1, <2>1, ForgivenTypes
  <2>. QED  BY <1>2, <2>2, TroubledTypes
<1>5. \A x : Owed(x)' => Owed(x)
  BY <1>4 DEF Owed
<1>6. \A x : Owed(x)' /\ Has(x) => Has(x)'
  <2>1. SUFFICES ASSUME NEW x, Owed(x)', Has(x) PROVE Has(x)'
    OBVIOUS
  <2>2. \A r \in SendRows : x \in job[r].words => r # k
    BY <1>4, <2>1 DEF Owed
  <2>. QED  BY <1>2, <1>3, <2>1, <2>2 DEF Has
<1>7. RowsFit'
  BY <1>2, <1>3 DEF WordInv, RowsFit
<1>8. WordTypes'
  BY <1>2, <1>3, <1>4 DEF WordInv, WordTypes
<1>9. \A w \in Write!Windows : call'[w].step = "ok" => call[w].step = "ok"
  BY <1>3
<1>. QED  BY <1>2, <1>3, <1>4, <1>5, <1>6, <1>7, <1>8, <1>9, ServerGoesOn

\* A row goes on, its words with it: it stays live, is given up, is canceled with a job for
\* its words, or is done after SMTP took them.
LEMMA RowGoesOn ==
  ASSUME WordInv, WordTypes', NEW r \in SendRows, NEW a \in RowSet, row' = [row EXCEPT ![r] = a],
         a.words = row[r].words, row[r].status \in Write!Live,
         win' = win, handoff' = handoff, call' = call, owed'.typed = owed.typed,
         \A x : Owed(x)' => Owed(x),
         \A x \in row[r].words : Owed(x)' => \/ a.status \in Write!Live \/ x \in job'[r].words
                                             \/ \E s \in sent' : x \in s.words,
         a.status = "accepted" => \A x \in row[r].words : \E s \in sent' : x \in s.words,
         job' = job \/ (job' = [job EXCEPT ![r] = Write!Building(row[r])] /\ a.status = "canceled"),
         r \notin Write!Windows, a.status # "canceled" => job' = job,
         \A s \in sent : s \in sent', \A d \in drafts : d = Write!Source \/ d \in drafts'
  PROVE  WordInv'
<1>1. /\ row \in [SendRows -> RowSet] /\ job \in [Write!Windows \cup SendRows -> JobSet] /\ row[r] \in RowSet
  BY DEF WordInv, WordTypes
<1>2. row'[r] = a /\ \A x \in SendRows \ {r} : row'[x] = row[x]
  BY <1>1
<1>3. job[r] = Write!NoJob
  BY DEF WordInv, RowsFit, Write!Live
<1>4. \A k \in (Write!Windows \cup SendRows) \ {r} : job'[k] = job[k]
  BY <1>1
<1>5. JobsFit'
  BY <1>4 DEF WordInv, JobsFit
<1>6. RowsFit'
  BY <1>2, <1>3, <1>4 DEF WordInv, RowsFit
<1>7. \A x : Owed(x)' /\ Has(x) => Has(x)'
  <2>1. SUFFICES ASSUME NEW x, Owed(x)', Has(x) PROVE Has(x)'
    OBVIOUS
  <2>2. CASE x \in row[r].words
    BY <1>2, <2>1, <2>2 DEF Has
  <2>3. CASE \E q \in SendRows \ {r} : row[q].status \in Write!Live /\ x \in row[q].words
    BY <1>2, <2>3 DEF Has
  <2>4. CASE \E q \in SendRows : x \in job[q].words
    BY <1>3, <1>4, <2>4, Blanks DEF Has
  <2>5. CASE \E d \in drafts : x \in d.words
    <3>1. Write!Source.words = {}
      BY DEF Write!Source
    <3>. QED  BY <2>5, <3>1 DEF Has
  <2>6. CASE \E s \in sent : x \in s.words
    BY <2>6 DEF Has
  <2>. QED  BY <2>1, <2>2, <2>3, <2>4, <2>5, <2>6 DEF Has
<1>. QED  BY <1>5, <1>6, <1>7, ServerGoesOn

LEMMA RowsKeep ==
  ASSUME WordInv, SendRows \cap Write!Windows = {}, NEW r \in SendRows,
         \/ Write!Claim(r) \/ Write!SmtpTakes(r) \/ Write!SmtpFails(r) \/ Write!Finish(r)
         \/ Write!CancelOutbox(r)
  PROVE  WordInv'
<1>1. /\ row \in [SendRows -> RowSet] /\ job \in [Write!Windows \cup SendRows -> JobSet] /\ row[r] \in RowSet
      /\ row[r].words \in SUBSET Nat /\ row[r].ups \in SUBSET Uploads /\ row[r].attempts \in Nat
      /\ owed \in OwedSet /\ disk \in DiskSet /\ r \notin Write!Windows
  BY DEF WordInv, WordTypes, RowSet
<1>2. win' = win /\ handoff' = handoff /\ call' = call
  BY DEF Write!Claim, Write!SmtpTakes, Write!SmtpFails, Write!Finish, Write!CancelOutbox
<1>3. Write!Building(row[r]) \in JobSet /\ Write!Building(row[r]).words = row[r].words
      /\ Write!Building(row[r]).mime \in SUBSET Uploads
  BY <1>1, BuildingTypes
<1>4. CASE Write!Claim(r)
  <2>1. PICK a : a = [row[r] EXCEPT !.status = "sending", !.mime = Write!Building(row[r]).mime]
    OBVIOUS
  <2>2. a \in RowSet /\ a.words = row[r].words /\ a.status = "sending"
    BY <1>1, <1>3, <2>1 DEF RowSet
  <2>3. /\ row' = [row EXCEPT ![r] = a] /\ row[r].status = "pending"
        /\ job' = job /\ disk' = disk /\ drafts' = drafts /\ sent' = sent /\ owed' = owed
    BY <1>1, <1>4, <2>1 DEF Write!Claim, RowSet
  <2>4. WordTypes'
    BY <1>2, <2>2, <2>3 DEF WordInv, WordTypes
  <2>5. \A x : Owed(x)' => Owed(x)
    BY <2>3 DEF Owed
  <2>. QED  BY <1>1, <1>2, <2>2, <2>3, <2>4, <2>5, RowGoesOn DEF Write!Live
<1>5. CASE Write!SmtpTakes(r)
  <2>1. PICK a : a = [row[r] EXCEPT !.status = "accepted"]
    OBVIOUS
  <2>2. a \in RowSet /\ a.words = row[r].words /\ a.status = "accepted"
    BY <1>1, <2>1 DEF RowSet
  <2>3. /\ row' = [row EXCEPT ![r] = a] /\ row[r].status = "sending"
        /\ job' = job /\ disk' = disk /\ drafts' = drafts /\ owed' = owed
        /\ sent' = sent \cup {[row |-> r, words |-> row[r].words, asked |-> row[r].ups, ups |-> row[r].mime]}
    BY <1>5, <2>1 DEF Write!SmtpTakes
  <2>4. \A x \in row[r].words : \E s \in sent' : x \in s.words
    <3>1. PICK m : m = [row |-> r, words |-> row[r].words, asked |-> row[r].ups, ups |-> row[r].mime]
      OBVIOUS
    <3>2. m \in sent' /\ m.words = row[r].words
      BY <2>3, <3>1
    <3>. QED  BY <3>2
  <2>5. WordTypes'
    BY <1>2, <2>2, <2>3 DEF WordInv, WordTypes
  <2>6. \A x : Owed(x)' => Owed(x)
    BY <2>3 DEF Owed
  <2>7. \A s \in sent : s \in sent'
    BY <2>3
  <2>. QED  BY <1>1, <1>2, <2>2, <2>3, <2>4, <2>5, <2>6, <2>7, RowGoesOn DEF Write!Live
<1>6. CASE Write!SmtpFails(r)
  <2>1. PICK n : n = row[r].attempts + 1
    OBVIOUS
  <2>2. PICK end : end = IF n >= MaxAttempts THEN "dead" ELSE "pending"
    OBVIOUS
  <2>3. PICK a : a = [row[r] EXCEPT !.attempts = n, !.status = end]
    OBVIOUS
  <2>4. a \in RowSet /\ a.words = row[r].words /\ a.status = end /\ end \in {"dead", "pending"}
    <3>1. n \in Nat /\ end \in {"dead", "pending"}
      BY <1>1, <2>1, <2>2
    <3>. QED  BY <1>1, <2>3, <3>1 DEF RowSet
  <2>5. PICK W : W = IF end = "dead" THEN row[r].words ELSE {}
    OBVIOUS
  <2>6. /\ row' = [row EXCEPT ![r] = a] /\ row[r].status = "sending"
        /\ job' = job /\ disk' = disk /\ drafts' = drafts /\ sent' = sent
        /\ owed' = Write!Troubled(Write!Forgives(owed, W, {}))
    BY <1>1, <1>6, <2>1, <2>2, <2>3, <2>5 DEF Write!SmtpFails, RowSet
  <2>7. /\ owed' \in OwedSet /\ owed'.typed = owed.typed /\ owed'.words = owed.words
        /\ owed'.lost = owed.lost \cup W
    <3>1. W \in SUBSET Nat /\ {} \in SUBSET Uploads
      BY <1>1, <2>5
    <3>2. /\ Write!Forgives(owed, W, {}) \in OwedSet
          /\ Write!Forgives(owed, W, {}).typed = owed.typed /\ Write!Forgives(owed, W, {}).words = owed.words
          /\ Write!Forgives(owed, W, {}).lost = owed.lost \cup W
      BY <1>1, <3>1, ForgivenTypes
    <3>. QED  BY <2>6, <3>2, TroubledTypes
  <2>8. WordTypes'
    BY <1>2, <2>4, <2>6, <2>7 DEF WordInv, WordTypes
  <2>9. \A x : Owed(x)' => Owed(x)
    BY <2>7 DEF Owed
  <2>10. \A x \in row[r].words : Owed(x)' => a.status \in Write!Live
    BY <2>4, <2>5, <2>7 DEF Owed, Write!Live
  <2>11. row[r].status \in Write!Live /\ a.status \notin {"accepted", "canceled"}
    BY <2>4, <2>6 DEF Write!Live
  <2>. QED  BY <1>1, <1>2, <2>4, <2>6, <2>7, <2>8, <2>9, <2>10, <2>11, RowGoesOn
<1>7. CASE Write!Finish(r)
  <2>1. PICK a : a = [row[r] EXCEPT !.status = "done"]
    OBVIOUS
  <2>2. a \in RowSet /\ a.words = row[r].words /\ a.status = "done"
    BY <1>1, <2>1 DEF RowSet
  <2>3. PICK U : U = Write!HeldElsewhere(row[r].ups, {<<"row", r>>})
    OBVIOUS
  <2>4. /\ row' = [row EXCEPT ![r] = a] /\ row[r].status = "accepted"
        /\ job' = job /\ disk' = Write!Without(row[r].ups) /\ drafts' = drafts \ {Write!Source}
        /\ sent' = sent /\ owed' = Write!Forgives(owed, {}, U)
    BY <1>7, <2>1, <2>3 DEF Write!Finish
  <2>5. /\ owed' \in OwedSet /\ owed'.typed = owed.typed /\ owed'.words = owed.words
        /\ owed'.lost = owed.lost \cup {}
    <3>1. {} \in SUBSET Nat /\ U \in SUBSET Uploads
      BY <1>1, <2>3, HeldTypes
    <3>2. /\ Write!Forgives(owed, {}, U) \in OwedSet
          /\ Write!Forgives(owed, {}, U).typed = owed.typed /\ Write!Forgives(owed, {}, U).words = owed.words
          /\ Write!Forgives(owed, {}, U).lost = owed.lost \cup {}
      BY <1>1, <3>1, ForgivenTypes
    <3>. QED  BY <2>4, <3>2
  <2>6. disk' \in DiskSet
    BY <1>1, <2>4, WithoutTypes
  <2>7. WordTypes'
    BY <1>2, <2>2, <2>4, <2>5, <2>6 DEF WordInv, WordTypes
  <2>8. \A x : Owed(x)' => Owed(x)
    BY <2>5 DEF Owed
  <2>9. \A x \in row[r].words : \E s \in sent' : x \in s.words
    BY <2>4 DEF WordInv, RowsFit
  <2>10. row[r].status \in Write!Live
    BY <2>4 DEF Write!Live
  <2>11. \A d \in drafts : d = Write!Source \/ d \in drafts'
    BY <2>4
  <2>. QED  BY <1>1, <1>2, <2>2, <2>4, <2>5, <2>7, <2>8, <2>9, <2>10, <2>11, RowGoesOn
<1>8. CASE Write!CancelOutbox(r)
  <2>1. PICK a : a = [row[r] EXCEPT !.status = "canceled"]
    OBVIOUS
  <2>2. a \in RowSet /\ a.words = row[r].words /\ a.status = "canceled"
    BY <1>1, <2>1 DEF RowSet
  <2>3. /\ row' = [row EXCEPT ![r] = a] /\ row[r].status = "pending"
        /\ job' = [job EXCEPT ![r] = Write!Building(row[r])]
        /\ disk' = disk /\ drafts' = drafts /\ sent' = sent /\ owed' = owed
    BY <1>8, <2>1 DEF Write!CancelOutbox
  <2>4. job' \in [Write!Windows \cup SendRows -> JobSet] /\ job'[r].words = row[r].words
    BY <1>1, <1>3, <2>3
  <2>5. WordTypes'
    BY <1>2, <2>2, <2>3, <2>4 DEF WordInv, WordTypes
  <2>6. \A x : Owed(x)' => Owed(x)
    BY <2>3 DEF Owed
  <2>7. row[r].status \in Write!Live
    BY <2>3 DEF Write!Live
  <2>. QED  BY <1>1, <1>2, <2>2, <2>3, <2>4, <2>5, <2>6, <2>7, RowGoesOn
<1>. QED  BY <1>4, <1>5, <1>6, <1>7, <1>8

LEMMA RestartKeeps == ASSUME WordInv, SendRows \cap Write!Windows = {}, Write!Restart PROVE WordInv'
<1>1. /\ row \in [SendRows -> RowSet] /\ job \in [Write!Windows \cup SendRows -> JobSet]
      /\ call \in [Write!Windows -> CallSet] /\ owed \in OwedSet /\ disk \in DiskSet
      /\ \A r \in SendRows : row[r] \in RowSet /\ job[r] \in JobSet
      /\ \A w \in Write!Windows : call[w] \in CallSet
  BY DEF WordInv, WordTypes
<1>2. win' = win /\ handoff' = handoff /\ drafts' = drafts /\ sent' = sent
  BY DEF Write!Restart
<1>3. /\ row' \in [SendRows -> RowSet]
      /\ \A r \in SendRows : /\ row'[r].words = row[r].words /\ row'[r].status # "accepted"
                             /\ row[r].status \in Write!Live => row'[r].status \in Write!Live
  <2>1. row' = [r \in SendRows |-> IF row[r].status \in {"sending", "accepted"}
                                   THEN [row[r] EXCEPT !.status = "pending"] ELSE row[r]]
    BY DEF Write!Restart
  <2>2. \A r \in SendRows : /\ [row[r] EXCEPT !.status = "pending"] \in RowSet
                            /\ [row[r] EXCEPT !.status = "pending"].words = row[r].words
                            /\ [row[r] EXCEPT !.status = "pending"].status = "pending"
    BY <1>1 DEF RowSet
  <2>3. \A r \in SendRows : row'[r] = IF row[r].status \in {"sending", "accepted"}
                                      THEN [row[r] EXCEPT !.status = "pending"] ELSE row[r]
    BY <2>1
  <2>4. row' \in [SendRows -> RowSet]
    BY <1>1, <2>1, <2>2
  <2>. QED  BY <2>2, <2>3, <2>4 DEF Write!Live
<1>4. /\ call' \in [Write!Windows -> CallSet]
      /\ \A w \in Write!Windows : call'[w].words = call[w].words /\ (call'[w].step = "ok" => call[w].step = "ok")
  <2>1. call' = [w \in Write!Windows |-> IF call[w].step \in {"asked", "serving"}
                                         THEN [call[w] EXCEPT !.step = "failed"] ELSE call[w]]
    BY DEF Write!Restart
  <2>2. \A w \in Write!Windows : /\ [call[w] EXCEPT !.step = "failed"] \in CallSet
                                 /\ [call[w] EXCEPT !.step = "failed"].words = call[w].words
                                 /\ [call[w] EXCEPT !.step = "failed"].step = "failed"
    BY <1>1 DEF CallSet
  <2>3. \A w \in Write!Windows : call'[w] = IF call[w].step \in {"asked", "serving"}
                                            THEN [call[w] EXCEPT !.step = "failed"] ELSE call[w]
    BY <2>1
  <2>4. call' \in [Write!Windows -> CallSet]
    BY <1>1, <2>1, <2>2
  <2>. QED  BY <2>2, <2>3, <2>4
<1>5. /\ job' \in [Write!Windows \cup SendRows -> JobSet]
      /\ \A k \in Write!Windows \cup SendRows : job'[k] = Write!NoJob
  BY <1>1, Blanks DEF Write!Restart
<1>6. disk' \in DiskSet
  BY <1>1, WithoutTypes DEF Write!Restart
<1>7. /\ owed' \in OwedSet /\ owed'.typed = owed.typed /\ owed'.words = owed.words
      /\ owed'.lost = owed.lost \cup UNION {job[r].words : r \in SendRows}
  <2>1. PICK W : W = UNION {job[r].words : r \in SendRows}
    OBVIOUS
  <2>2. PICK U : U = disk.old \ Write!Queued
    OBVIOUS
  <2>3. W \in SUBSET Nat /\ U \in SUBSET Uploads
    BY <1>1, <2>1, <2>2 DEF JobSet, DiskSet
  <2>4. owed' = Write!Troubled(Write!Forgives(owed, W, U))
    BY <2>1, <2>2 DEF Write!Restart
  <2>5. /\ Write!Forgives(owed, W, U) \in OwedSet
        /\ Write!Forgives(owed, W, U).typed = owed.typed /\ Write!Forgives(owed, W, U).words = owed.words
        /\ Write!Forgives(owed, W, U).lost = owed.lost \cup W
    BY <1>1, <2>3, ForgivenTypes
  <2>. QED  BY <2>1, <2>4, <2>5, TroubledTypes
<1>8. \A x : Owed(x)' => Owed(x) /\ \A r \in SendRows : x \notin job[r].words
  BY <1>7 DEF Owed
<1>9. \A x : Owed(x)' /\ Has(x) => Has(x)'
  BY <1>2, <1>3, <1>8 DEF Has
<1>10. JobsFit' /\ RowsFit'
  BY <1>3, <1>5, Blanks DEF JobsFit, RowsFit
<1>11. WordTypes'
  BY <1>2, <1>3, <1>4, <1>5, <1>6, <1>7 DEF WordInv, WordTypes
<1>. QED  BY <1>2, <1>4, <1>7, <1>8, <1>9, <1>10, <1>11, ServerGoesOn

LEMMA WordsKeep ==
  ASSUME WordInv, SendRows \cap Write!Windows = {}, [Write!Next]_writeVars
  PROVE  WordInv'
<1>1. CASE UNCHANGED writeVars
  BY <1>1 DEF writeVars, WordInv, WordTypes, Accounted, AnswersHold, JobsFit, RowsFit, WindowsFit, Owed, Has
<1>2. CASE Write!Detach \/ Write!PopoutLoads \/ Write!HandoffSwept \/ Write!Restart
  BY <1>2, DetachKeeps, HandoffKeeps, RestartKeeps
<1>3. ASSUME NEW w \in Write!Windows,
             \/ Write!Type(w) \/ Write!Reload(w) \/ Write!Cancel(w) \/ Write!Answered(w)
             \/ Write!Unanswered(w) \/ Write!ServeSend(w) \/ Write!ServeDraft(w)
             \/ \E u \in Uploads : Write!Attach(w, u) \/ Write!RemoveUpload(w, u)
             \/ \E kind \in Write!Kinds : Write!Ask(w, kind)
      PROVE  WordInv'
  BY <1>3, TypeKeeps, RequestsKeep, CancelKeeps, AnsweredKeeps, ServeSendKeeps, ServeDraftKeeps, FilesKeep
<1>4. ASSUME NEW u \in Uploads, Write!Ages(u) PROVE WordInv'
  BY <1>4, WindowNames, FilesKeep
<1>5. ASSUME NEW r \in SendRows,
             \/ Write!Claim(r) \/ Write!SmtpTakes(r) \/ Write!SmtpFails(r) \/ Write!Finish(r)
             \/ Write!CancelOutbox(r)
      PROVE  WordInv'
  BY <1>5, RowsKeep
<1>6. ASSUME NEW k \in Write!Windows \cup SendRows, Write!DraftSaved(k) \/ Write!DraftFails(k) PROVE WordInv'
  BY <1>6, DraftSavedKeeps, DraftFailsKeeps
<1>. QED  BY <1>1, <1>2, <1>3, <1>4, <1>5, <1>6 DEF Write!Next

LEMMA WordsStart == ASSUME Write!Init PROVE WordInv
<1>1. /\ win = [w \in Write!Windows |-> [Write!Shut EXCEPT !.open = w = "main"]]
      /\ handoff = Write!NoHandoff /\ call = [w \in Write!Windows |-> Write!NoCall]
      /\ job = [k \in Write!Windows \cup SendRows |-> Write!NoJob] /\ row = [r \in SendRows |-> Write!NoSend]
      /\ disk = [files |-> {}, old |-> {}]
      /\ owed = [words |-> {}, lost |-> {}, gone |-> {}, typed |-> 0, picked |-> {}, trouble |-> 0]
  BY DEF Write!Init
<1>2. win \in [Write!Windows -> WinSet] /\ win["main"].open /\ win["popout"] = Write!Shut
      /\ \A w \in Write!Windows : win[w].words = {}
  BY <1>1, WindowNames, Blanks DEF Write!Shut, WinSet
<1>3. owed \in OwedSet /\ disk \in DiskSet /\ \A x : ~ Owed(x)
  BY <1>1 DEF OwedSet, DiskSet, Owed
<1>4. WordTypes
  BY <1>1, <1>2, <1>3, Blanks DEF WordTypes
<1>5. Accounted /\ AnswersHold /\ JobsFit /\ RowsFit
  BY <1>1, <1>3, Blanks DEF Accounted, AnswersHold, JobsFit, RowsFit
<1>6. WindowsFit
  BY <1>1, <1>2, Blanks, WindowNames DEF WindowsFit
<1>. QED  BY <1>4, <1>5, <1>6 DEF WordInv

\* Whatever was typed and neither given up nor excepted is within reach at every moment: in a
\* composer, its hand-off, a live row, a draft being saved, \Drafts or the sent mail
\* (routes/Compose.tsx, ui/popout.ts, routes/api/compose.ts, outbox/runner.ts).
THEOREM WordsSurvive == FairSpec => []WordsAreKept
<1>. DEFINE Inv == scene = "composer" => WordInv
<1>1. Init => Inv
  BY WordsStart DEF Init
<1>2. Inv /\ [Next]_vars => Inv'
  <2>1. SUFFICES ASSUME WordInv, [Next]_vars, scene = "composer" PROVE WordInv'
    BY DEF Next, vars
  <2>2. Write!Next \/ UNCHANGED writeVars
    BY <2>1 DEF Next, vars
  <2>3. SendRows \cap Write!Windows = {}
    BY WindowAssumption DEF Write!Windows
  <2>. QED  BY <2>1, <2>2, <2>3, WordsKeep
<1>3. Inv => WordsAreKept
  <2>1. SUFFICES ASSUME WordInv, NEW x, Owed(x) PROVE x \in Write!InReach
    BY DEF Owed, WordsAreKept, Write!WordsAreKept
  <2>2. (\E w \in Write!Windows : x \in win[w].words) \/ x \in handoff.words \/ Has(x)
    BY <2>1 DEF WordInv, Accounted
  <2>. DEFINE A == UNION {win[w].words : w \in Write!Windows}
              B == UNION {row[r].words : r \in {q \in SendRows : row[q].status \in Write!Live}}
              C == UNION {job[r].words : r \in SendRows}
              D == UNION {d.words : d \in drafts}
              E == UNION {s.words : s \in sent}
  <2>3. Write!InReach = A \cup handoff.words \cup B \cup C \cup D \cup E
    BY Zenon DEF Write!InReach
  <2>4. (\E w \in Write!Windows : x \in win[w].words) => x \in A
    OBVIOUS
  <2>5. (\E r \in SendRows : row[r].status \in Write!Live /\ x \in row[r].words) => x \in B
    OBVIOUS
  <2>6. (\E r \in SendRows : x \in job[r].words) => x \in C
    OBVIOUS
  <2>7. ((\E d \in drafts : x \in d.words) => x \in D) /\ ((\E s \in sent : x \in s.words) => x \in E)
    OBVIOUS
  <2>. HIDE DEF A, B, C, D, E
  <2>. QED  BY <2>2, <2>3, <2>4, <2>5, <2>6, <2>7 DEF Has
<1>. QED  BY <1>1, <1>2, <1>3, PTL DEF FairSpec

-----------------------------------------------------------------------------
(* Sequences *)

\* A sequence with one element taken out.
LEMMA OneGone ==
  ASSUME NEW S, NEW s \in Seq(S), NEW i \in 1 .. Len(s),
         NEW t, t = Sums!RemoveAt(s, i)
  PROVE  /\ t \in Seq(S) /\ Len(t) = Len(s) - 1
         /\ \A j \in 1 .. Len(t) : t[j] = IF j < i THEN s[j] ELSE s[j + 1]
<1>. DEFINE n == Len(s)
            A == SubSeq(s, 1, i - 1)
            B == SubSeq(s, i + 1, n)
<1>1. n \in Nat /\ i \in 1 .. n /\ \A j \in 1 .. n : s[j] \in S
  BY LenProperties
<1>2. A \in Seq(S) /\ Len(A) = i - 1 /\ \A j \in 1 .. i - 1 : A[j] = s[j]
  <2>1. 1 \in Int /\ i - 1 \in Int /\ \A j \in 1 .. i - 1 : s[j] \in S
    BY <1>1
  <2>2. /\ A \in Seq(S) /\ Len(A) = IF 1 <= i - 1 THEN (i - 1) - 1 + 1 ELSE 0
        /\ \A j \in 1 .. (i - 1) - 1 + 1 : A[j] = s[1 + j - 1]
    BY <2>1, SubSeqProperties
  <2>. QED  BY <1>1, <2>2
<1>3. B \in Seq(S) /\ Len(B) = n - i /\ \A j \in 1 .. n - i : B[j] = s[i + j]
  <2>1. i + 1 \in Int /\ n \in Int /\ \A j \in i + 1 .. n : s[j] \in S
    BY <1>1
  <2>2. /\ B \in Seq(S) /\ Len(B) = IF i + 1 <= n THEN n - (i + 1) + 1 ELSE 0
        /\ \A j \in 1 .. n - (i + 1) + 1 : B[j] = s[i + 1 + j - 1]
    BY <2>1, SubSeqProperties
  <2>. QED  BY <1>1, <2>2
<1>4. t = A \o B
  BY DEF Sums!RemoveAt
<1>. HIDE DEF A, B
<1>5. /\ t \in Seq(S) /\ Len(t) = Len(A) + Len(B)
      /\ \A j \in 1 .. Len(A) + Len(B) : t[j] = IF j <= Len(A) THEN A[j] ELSE B[j - Len(A)]
  <2>1. /\ A \o B \in Seq(S) /\ Len(A \o B) = Len(A) + Len(B)
        /\ \A j \in 1 .. Len(A) + Len(B) : (A \o B)[j] = IF j <= Len(A) THEN A[j] ELSE B[j - Len(A)]
    BY <1>2, <1>3, ConcatProperties
  <2>. QED  BY <1>4, <2>1
<1>6. Len(t) = n - 1
  BY <1>1, <1>2, <1>3, <1>5
<1>7. ASSUME NEW j \in 1 .. n - 1 PROVE t[j] = IF j < i THEN s[j] ELSE s[j + 1]
  <2>1. CASE j < i
    <3>1. j \in 1 .. i - 1 /\ j <= Len(A) /\ j \in 1 .. Len(A) + Len(B)
      BY <1>1, <1>2, <1>3, <2>1
    <3>2. t[j] = A[j]
      BY <1>5, <3>1
    <3>. QED  BY <1>2, <2>1, <3>1, <3>2
  <2>2. CASE ~ (j < i)
    <3>1. j - (i - 1) \in 1 .. n - i /\ i + (j - (i - 1)) = j + 1
      BY <1>1, <2>2
    <3>2. j \in 1 .. Len(A) + Len(B) /\ ~ (j <= Len(A)) /\ j - Len(A) = j - (i - 1)
      BY <1>1, <1>2, <1>3, <2>2
    <3>3. t[j] = B[j - (i - 1)]
      BY <1>5, <3>2
    <3>. QED  BY <1>3, <2>2, <3>1, <3>3
  <2>. QED  BY <2>1, <2>2
<1>. QED  BY <1>5, <1>6, <1>7

LEMMA OneAppended ==
  ASSUME NEW S, NEW s \in Seq(S), NEW e \in S, NEW t, t = Append(s, e)
  PROVE  /\ t \in Seq(S) /\ Len(s) \in Nat /\ t[Len(s) + 1] = e
         /\ DOMAIN t = 1 .. Len(s) + 1 /\ DOMAIN s = 1 .. Len(s)
         /\ \A j \in DOMAIN s : t[j] = s[j]
BY AppendProperties, LenProperties

\* A function on the places of a sequence is a sequence as long.
LEMMA Touched ==
  ASSUME NEW S, NEW s \in Seq(S), NEW T, NEW t \in [DOMAIN s -> T]
  PROVE  t \in Seq(T) /\ DOMAIN t = DOMAIN s /\ DOMAIN s = 1 .. Len(s) /\ Len(s) \in Nat
<1>1. Len(s) \in Nat /\ DOMAIN s = 1 .. Len(s)
  BY LenProperties
<1>. QED  BY <1>1, SeqDef

-----------------------------------------------------------------------------
(* The cleanup dashboard.  Cached figures are dated: those of an old       *)
(* version are never taken for the current one's, and those of the         *)
(* current one are the slice.  While no run of the card has moved what is  *)
(* still waited for, the load whose answer will be shown last, or else     *)
(* what is shown, is of the thresholds set and counts nothing moved.       *)

Dashes == [of : Nat, figures : SUBSET Sums!Msgs, queued : BOOLEAN]
DashCalls == [kind : {"load", "status", "execute", "words"},
              by : {"effect", "refresh", "screen", "card", "stray"},
              min : Thresholds, phase : {"sent", "answered", "lost"}, live : BOOLEAN, data : Dashes]
Slices == [min : Thresholds, version : Nat, data : SUBSET Sums!Msgs]

Bases == [mail : SUBSET Sums!Msgs, words : BOOLEAN, queue : SUBSET Sums!Msgs, version : Nat]
Jobs == [call : Nat, min : Nat, version : Nat, read : BOOLEAN, figures : SUBSET Sums!Msgs]
Screens == [open : BOOLEAN, min : Thresholds, dash : Dashes, pending : BOOLEAN, error : BOOLEAN]
Cards == [mode : {"idle", "confirm", "running", "error", "done"}, min : Nat, polling : BOOLEAN]
Records == [writes : Nat, runs : Nat, deeds : Nat, moved : SUBSET Sums!Msgs, astray : BOOLEAN,
            mispriced : BOOLEAN, recovered : BOOLEAN]

DashTypes ==
  /\ base \in Bases /\ memo \in Seq(Slices) /\ compute \in Jobs /\ screen \in Screens /\ card \in Cards
  /\ known \in [Thresholds -> Dashes] /\ requests \in Seq(DashCalls) /\ record \in Records

\* Figures of a version are not of a later one, and if it is the current one they are right.
Dated(v, S, min) == v <= base.version /\ (v = base.version => S = Sums!Slice(min))

\* What a run moved is not in the mailbox, nor among figures being computed.
CacheInv ==
  /\ base.mail \cap record.moved = {}
  /\ \A k \in DOMAIN memo : Dated(memo[k].version, memo[k].data, memo[k].min)
  /\ compute # Sums!NoJob =>
       /\ compute.version <= base.version
       /\ compute.read => /\ Dated(compute.version, compute.figures, compute.min)
                          /\ compute.figures \cap record.moved = {}

\* The dashboard being computed is asked for by a call under way.
JobInv ==
  compute # Sums!NoJob =>
    /\ compute.call \in DOMAIN requests
    /\ requests[compute.call].kind = "load" /\ requests[compute.call].phase = "sent"
    /\ requests[compute.call].min = compute.min

\* A call whose answer someone still waits for.
Fits(c, s, d, astray) ==
  /\ c.phase = "lost" => astray
  /\ c.by = "stray" => ~ c.live
  /\ c.kind = "execute" => c.by = "card"
  /\ c.kind = "load" => c.by \in {"effect", "refresh"}
  /\ c.live => /\ s.open
               /\ c.kind = "execute" => d.mode = "running" /\ ~ d.polling
               /\ c.kind = "status" /\ c.by = "card" => d.polling
               /\ ~ astray => c.min = s.min

CardStatus(c) == c.kind = "status" /\ c.by = "card"
LiveRun(c) == c.kind = "execute" /\ c.live

CallsInv ==
  /\ \A i \in DOMAIN requests : Fits(requests[i], screen, card, record.astray)
  /\ \A i, j \in DOMAIN requests :
       i # j => /\ ~ (CardStatus(requests[i]) /\ CardStatus(requests[j]))
                /\ ~ (LiveRun(requests[i]) /\ LiveRun(requests[j]))

CardInv ==
  /\ screen.pending => screen.open
  /\ card.mode = "running" => screen.open /\ card.min \in Thresholds
  /\ card.polling => card.mode = "running"
  /\ ~ record.astray /\ card.mode = "running" => card.min = screen.min

Load(c) == c.kind = "load" /\ c.live
Good(d, min, moved) == d.of = min /\ d.figures \cap moved = {}

\* No run of the card has moved anything that is still being waited for.
Calm ==
  card.mode = "running" =>
    \E i \in DOMAIN requests : LiveRun(requests[i]) /\ requests[i].phase = "sent"

\* The load whose answer will be shown last, or else what is shown, is right.
LoadsTrue ==
  /\ \A i \in DOMAIN requests :
       Load(requests[i]) => \/ requests[i].phase = "sent"
                            \/ Good(requests[i].data, screen.min, record.moved)
                            \/ \E j \in DOMAIN requests : i < j /\ Load(requests[j])
  /\ (\A i \in DOMAIN requests : ~ Load(requests[i]))
       => screen.dash = Sums!NoDash \/ Good(screen.dash, screen.min, record.moved)

ScreenInv == ~ record.astray /\ screen.open /\ Calm => LoadsTrue

DashInv == DashTypes /\ CacheInv /\ JobInv /\ CallsInv /\ CardInv /\ ScreenInv

-----------------------------------------------------------------------------
(* The requests under way *)

\* Those of K go on in the places f gives, in order, and at m there is a new one.
Placed(K, f, m) ==
  /\ K \subseteq DOMAIN requests /\ f \in [K -> DOMAIN requests'] /\ m \in Nat
  /\ \A k, l \in K : k < l <=> f[k] < f[l]
  /\ \A k, l \in K : f[k] = f[l] => k = l
  /\ m # 0 => m \in DOMAIN requests' /\ \A k \in K : f[k] < m
  /\ \A j \in DOMAIN requests' : (m # 0 /\ j = m) \/ \E k \in K : j = f[k]

Same(k, j) ==
  /\ requests'[j].kind = requests[k].kind /\ requests'[j].by = requests[k].by
  /\ requests'[j].min = requests[k].min
  /\ requests'[j].live => requests[k].live

\* One is sent.
Joins(q, c, f, m) ==
  /\ Placed(DOMAIN requests, f, m) /\ m # 0 /\ requests'[m] = c
  /\ \A k \in DOMAIN requests : f[k] = k /\ requests'[f[k]] = q[k]

LEMMA RequestSent ==
  ASSUME requests \in Seq(DashCalls), NEW q \in Seq(DashCalls), DOMAIN q = DOMAIN requests,
         NEW c \in DashCalls, requests' = Append(q, c)
  PROVE  requests' \in Seq(DashCalls) /\ \E f, m : Joins(q, c, f, m)
<1>. DEFINE n == Len(q)
            f == [k \in DOMAIN requests |-> k]
<1>1. /\ requests' \in Seq(DashCalls) /\ n \in Nat /\ requests'[n + 1] = c
      /\ DOMAIN requests' = 1 .. n + 1 /\ DOMAIN requests = 1 .. n
      /\ \A j \in DOMAIN requests : requests'[j] = q[j]
  BY OneAppended
<1>2. \A k \in DOMAIN requests : f[k] = k /\ requests'[f[k]] = q[k]
  BY <1>1
<1>3. f \in [DOMAIN requests -> DOMAIN requests']
  BY <1>1
<1>4. n + 1 \in Nat /\ n + 1 # 0
  BY <1>1
<1>. HIDE DEF f, n
<1>5. \A j \in DOMAIN requests' : j = n + 1 \/ \E k \in DOMAIN requests : j = f[k]
  BY <1>1, <1>2
<1>6. Placed(DOMAIN requests, f, n + 1)
  BY <1>1, <1>2, <1>3, <1>4, <1>5 DEF Placed
<1>. QED  BY <1>1, <1>2, <1>4, <1>6 DEF Joins

LEMMA RequestsTouched ==
  ASSUME requests \in Seq(DashCalls), requests' \in [DOMAIN requests -> DashCalls]
  PROVE  /\ requests' \in Seq(DashCalls) /\ DOMAIN requests' = DOMAIN requests
         /\ \E f : Placed(DOMAIN requests, f, 0) /\ \A k \in DOMAIN requests : f[k] = k
<1>. DEFINE f == [k \in DOMAIN requests |-> k]
<1>1. requests' \in Seq(DashCalls) /\ DOMAIN requests' = DOMAIN requests
      /\ DOMAIN requests = 1 .. Len(requests) /\ Len(requests) \in Nat
  BY Touched
<1>2. \A k \in DOMAIN requests : f[k] = k
  OBVIOUS
<1>3. f \in [DOMAIN requests -> DOMAIN requests']
  BY <1>1
<1>. HIDE DEF f
<1>4. Placed(DOMAIN requests, f, 0)
  BY <1>1, <1>2, <1>3 DEF Placed
<1>. QED  BY <1>1, <1>2, <1>4

\* One ends, and another may follow from it.
Follows(i, more, f, m) ==
  /\ Placed(DOMAIN requests \ {i}, f, m)
  /\ \A k \in DOMAIN requests \ {i} :
       f[k] = (IF k < i THEN k ELSE k - 1) /\ requests'[f[k]] = requests[k]
  /\ more = <<>> => m = 0
  /\ more # <<>> => m # 0 /\ more = <<requests'[m]>>

LEMMA RequestEnds ==
  ASSUME requests \in Seq(DashCalls), NEW i \in DOMAIN requests, NEW more, Sums!Settled(i, more),
         more = <<>> \/ \E c \in DashCalls : more = <<c>>
  PROVE  requests' \in Seq(DashCalls) /\ \E f, m : Follows(i, more, f, m)
<1>. DEFINE n == Len(requests)
            K == DOMAIN requests \ {i}
            f == [k \in K |-> IF k < i THEN k ELSE k - 1]
<1>1. n \in Nat /\ DOMAIN requests = 1 .. n /\ i \in 1 .. Len(requests)
  BY LenProperties
<1>2. PICK t : t = Sums!RemoveAt(requests, i)
  OBVIOUS
<1>3. /\ t \in Seq(DashCalls) /\ Len(t) = n - 1
      /\ \A j \in 1 .. n - 1 : t[j] = IF j < i THEN requests[j] ELSE requests[j + 1]
  <2>1. /\ t \in Seq(DashCalls) /\ Len(t) = Len(requests) - 1
        /\ \A j \in 1 .. Len(t) : t[j] = IF j < i THEN requests[j] ELSE requests[j + 1]
    BY <1>2, <1>1, OneGone
  <2>. QED  BY <2>1
<1>4. requests' = t \o more
  BY <1>2 DEF Sums!Settled
<1>. HIDE DEF n
<1>5. DOMAIN t = 1 .. n - 1 /\ n - 1 \in Nat
  BY <1>1, <1>3, LenProperties
<1>6. \A k \in K : f[k] = (IF k < i THEN k ELSE k - 1) /\ f[k] \in 1 .. n - 1 /\ t[f[k]] = requests[k]
  BY <1>1, <1>3
<1>7. \A k, l \in K : (k < l <=> f[k] < f[l]) /\ (f[k] = f[l] => k = l)
  BY <1>1
<1>8. \A j \in 1 .. n - 1 : \E k \in K : j = f[k]
  <2>1. ASSUME NEW j \in 1 .. n - 1 PROVE \E k \in K : j = f[k]
    <3>1. CASE j < i
      <4>1. j \in K /\ f[j] = j
        BY <1>1, <2>1, <3>1
      <4>. QED  BY <4>1
    <3>2. CASE ~ (j < i)
      <4>1. j + 1 \in K /\ f[j + 1] = j
        BY <1>1, <2>1, <3>2
      <4>. QED  BY <4>1
    <3>. QED  BY <3>1, <3>2
  <2>. QED  BY <2>1
<1>9. f \in [K -> 1 .. n - 1] /\ K \subseteq DOMAIN requests
  BY <1>6
<1>. HIDE DEF f, K
<1>10. CASE more = <<>>
  <2>1. requests' = t
    BY <1>3, <1>4, <1>10
  <2>2. Placed(K, f, 0)
    BY <1>5, <1>6, <1>7, <1>8, <1>9, <2>1 DEF Placed
  <2>. QED  BY <1>3, <1>6, <1>10, <2>1, <2>2 DEF K, Follows
<1>11. CASE more # <<>>
  <2>1. PICK c \in DashCalls : more = <<c>>
    BY <1>11
  <2>2. requests' = Append(t, c)
    BY <1>3, <1>4, <2>1
  <2>3. /\ requests' \in Seq(DashCalls) /\ Len(t) \in Nat /\ requests'[Len(t) + 1] = c
        /\ DOMAIN requests' = 1 .. Len(t) + 1 /\ DOMAIN t = 1 .. Len(t)
        /\ \A j \in DOMAIN t : requests'[j] = t[j]
    BY <1>3, <2>2, OneAppended
  <2>4. Len(t) + 1 = n /\ n \in Nat /\ n # 0 /\ requests'[n] = c /\ DOMAIN requests' = 1 .. n
    BY <1>1, <1>3, <2>3
  <2>5. \A k \in K : requests'[f[k]] = requests[k]
    BY <1>5, <1>6, <2>3
  <2>6. f \in [K -> DOMAIN requests'] /\ \A k \in K : f[k] < n
    BY <1>1, <1>6, <1>9, <2>4
  <2>7. \A j \in DOMAIN requests' : j = n \/ \E k \in K : j = f[k]
    <3>1. \A j \in DOMAIN requests' : j = n \/ j \in 1 .. n - 1
      BY <2>4
    <3>. QED  BY <1>8, <3>1
  <2>8. n \in DOMAIN requests'
    BY <2>4
  <2>9. Placed(K, f, n)
    BY <1>7, <1>9, <2>4, <2>6, <2>7, <2>8 DEF Placed
  <2>10. /\ Placed(DOMAIN requests \ {i}, f, n) /\ more = <<requests'[n]>>
         /\ \A k \in DOMAIN requests \ {i} :
              f[k] = (IF k < i THEN k ELSE k - 1) /\ requests'[f[k]] = requests[k]
    BY <1>6, <2>1, <2>4, <2>5, <2>9 DEF K
  <2>. QED  BY <1>11, <2>3, <2>4, <2>10 DEF Follows
<1>. QED  BY <1>10, <1>11

-----------------------------------------------------------------------------
(* What goes on as it was *)

LEMMA Stores ==
  ASSUME memo \in Seq(Slices), NEW e \in Slices, NEW s, s = Sums!Stored(e)
  PROVE  /\ s \in Seq(Slices)
         /\ \A k \in DOMAIN s : s[k] = e \/ \E j \in DOMAIN memo : s[k] = memo[j]
<1>1. PICK w : w = Sums!Without(e.min)
  OBVIOUS
<1>2. Len(memo) \in Nat /\ DOMAIN memo = 1 .. Len(memo)
  BY LenProperties
<1>3. w \in Seq(Slices) /\ \A k \in DOMAIN w : \E j \in DOMAIN memo : w[k] = memo[j]
  <2>1. CASE Sums!Places(e.min) = {}
    BY <1>1, <2>1 DEF Sums!Without
  <2>2. CASE Sums!Places(e.min) # {}
    <3>1. PICK i : i = CHOOSE k \in Sums!Places(e.min) : TRUE
      OBVIOUS
    <3>2. i \in 1 .. Len(memo)
      BY <1>2, <2>2, <3>1 DEF Sums!Places
    <3>3. w = Sums!RemoveAt(memo, i)
      BY <1>1, <2>2, <3>1 DEF Sums!Without
    <3>4. /\ w \in Seq(Slices) /\ Len(w) = Len(memo) - 1
          /\ \A j \in 1 .. Len(w) : w[j] = IF j < i THEN memo[j] ELSE memo[j + 1]
      BY <3>2, <3>3, OneGone
    <3>5. DOMAIN w = 1 .. Len(w)
      BY <3>4, LenProperties
    <3>. QED  BY <1>2, <3>2, <3>4, <3>5
  <2>. QED  BY <2>1, <2>2
<1>4. PICK a : a = Append(w, e)
  OBVIOUS
<1>5. /\ a \in Seq(Slices) /\ Len(w) \in Nat /\ a[Len(w) + 1] = e
      /\ DOMAIN a = 1 .. Len(w) + 1 /\ DOMAIN w = 1 .. Len(w)
      /\ \A j \in DOMAIN w : a[j] = w[j]
  BY <1>3, <1>4, OneAppended
<1>6. \A k \in DOMAIN a : a[k] = e \/ \E j \in DOMAIN memo : a[k] = memo[j]
  <2>1. \A k \in DOMAIN a : k = Len(w) + 1 \/ k \in DOMAIN w
    BY <1>5
  <2>. QED  BY <1>3, <1>5, <2>1
<1>7. s = a \/ s = Tail(a)
  BY <1>1, <1>4 DEF Sums!Stored
<1>8. CASE s = a
  BY <1>5, <1>6, <1>8
<1>9. CASE s = Tail(a)
  <2>1. a # <<>>
    BY <1>5, <1>4, AppendProperties, <1>3
  <2>2. /\ Tail(a) \in Seq(Slices) /\ Len(Tail(a)) = Len(a) - 1
        /\ \A i \in 1 .. Len(Tail(a)) : Tail(a)[i] = a[i + 1]
    BY <1>5, <2>1, HeadTailProperties
  <2>3. DOMAIN s = 1 .. Len(a) - 1 /\ DOMAIN a = 1 .. Len(a) /\ Len(a) \in Nat
    BY <1>5, <1>9, <2>2, LenProperties
  <2>4. \A i \in DOMAIN s : i + 1 \in DOMAIN a /\ s[i] = a[i + 1]
    BY <1>9, <2>2, <2>3
  <2>. QED  BY <1>6, <1>9, <2>2, <2>4
<1>. QED  BY <1>7, <1>8, <1>9

\* What is counted is in the mailbox.
LEMMA Counted == ASSUME NEW min PROVE Sums!Slice(min) \subseteq base.mail
BY DEF Sums!Slice

\* The server's figures stay as they are, and the place of the call they are computed for may not.
LEMMA CacheRests ==
  ASSUME CacheInv, base' = base, memo' = memo, record'.moved = record.moved,
         \/ compute' = compute
         \/ /\ compute # Sums!NoJob /\ compute'.version = compute.version
            /\ compute'.read = compute.read /\ compute'.figures = compute.figures
            /\ compute'.min = compute.min
  PROVE  CacheInv'
BY DEF CacheInv, Dated, Sums!Slice

LEMMA FitsStays ==
  ASSUME NEW c, NEW s, NEW d, NEW a, NEW s1, NEW d1, NEW a1, Fits(c, s, d, a),
         s1.open = s.open, s1.min = s.min, d1 = d, a => a1
  PROVE  Fits(c, s1, d1, a1)
BY DEF Fits

LEMMA CallsGoOn ==
  ASSUME CallsInv, NEW K, NEW f, NEW m, Placed(K, f, m),
         \A k \in K : Same(k, f[k]) /\ Fits(requests'[f[k]], screen', card', record'.astray),
         m # 0 => /\ Fits(requests'[m], screen', card', record'.astray)
                  /\ CardStatus(requests'[m]) => \A k \in K : ~ CardStatus(requests[k])
                  /\ LiveRun(requests'[m]) => \A k \in K : ~ LiveRun(requests[k])
  PROVE  CallsInv'
<1>1. \A j \in DOMAIN requests' : (m # 0 /\ j = m) \/ \E k \in K : j = f[k]
  BY DEF Placed
<1>2. K \subseteq DOMAIN requests
  BY DEF Placed
<1>3. \A j \in DOMAIN requests' : Fits(requests'[j], screen', card', record'.astray)
  BY <1>1
<1>4. \A k \in K : /\ CardStatus(requests'[f[k]]) => CardStatus(requests[k])
                   /\ LiveRun(requests'[f[k]]) => LiveRun(requests[k])
  BY DEF Same, CardStatus, LiveRun
<1>5. ASSUME NEW k \in K, NEW l \in K, f[k] # f[l]
      PROVE  /\ ~ (CardStatus(requests'[f[k]]) /\ CardStatus(requests'[f[l]]))
             /\ ~ (LiveRun(requests'[f[k]]) /\ LiveRun(requests'[f[l]]))
  <2>1. k # l
    BY <1>5
  <2>2. /\ ~ (CardStatus(requests[k]) /\ CardStatus(requests[l]))
        /\ ~ (LiveRun(requests[k]) /\ LiveRun(requests[l]))
    BY <1>2, <2>1 DEF CallsInv
  <2>. QED  BY <1>4, <2>2
<1>6. ASSUME NEW k \in K, m # 0
      PROVE  /\ ~ (CardStatus(requests'[f[k]]) /\ CardStatus(requests'[m]))
             /\ ~ (LiveRun(requests'[f[k]]) /\ LiveRun(requests'[m]))
  BY <1>4, <1>6
<1>7. ASSUME NEW i \in DOMAIN requests', NEW j \in DOMAIN requests', i # j
      PROVE  /\ ~ (CardStatus(requests'[i]) /\ CardStatus(requests'[j]))
             /\ ~ (LiveRun(requests'[i]) /\ LiveRun(requests'[j]))
  BY <1>1, <1>5, <1>6, <1>7
<1>. HIDE DEF Placed
<1>8. CallsInv' <=>
        /\ \A i \in DOMAIN requests' : Fits(requests'[i], screen', card', record'.astray)
        /\ \A i, j \in DOMAIN requests' :
             i # j => /\ ~ (CardStatus(requests'[i]) /\ CardStatus(requests'[j]))
                      /\ ~ (LiveRun(requests'[i]) /\ LiveRun(requests'[j]))
  BY DEF CallsInv
<1>. QED  BY <1>3, <1>7, <1>8

\* The call a dashboard is computed for keeps being under way.
LEMMA JobGoesOn ==
  ASSUME JobInv, NEW K, NEW f, NEW m, Placed(K, f, m),
         compute' # Sums!NoJob => /\ compute # Sums!NoJob /\ compute.call \in K
                                  /\ compute'.call = f[compute.call] /\ compute'.min = compute.min,
         \A k \in K : /\ Same(k, f[k])
                      /\ (requests[k].kind = "load" => requests'[f[k]].phase = requests[k].phase)
  PROVE  JobInv'
BY DEF JobInv, Placed, Same

\* A load sent last will be shown last.
LEMMA LoadLast ==
  ASSUME NEW K, NEW f, NEW m, Placed(K, f, m), m # 0, Load(requests'[m]), requests'[m].phase = "sent"
  PROVE  LoadsTrue'
<1>1. m \in DOMAIN requests' /\ \A j \in DOMAIN requests' : j = m \/ \E k \in K : j = f[k] /\ f[k] < m
  BY DEF Placed
<1>2. \A j \in DOMAIN requests' : Load(requests'[j]) =>
        \/ requests'[j].phase = "sent" \/ \E i \in DOMAIN requests' : j < i /\ Load(requests'[i])
  BY <1>1
<1>. QED  BY <1>1, <1>2 DEF LoadsTrue

\* Where no load ends or begins, loads stay right.
LEMMA LoadsGoOn ==
  ASSUME LoadsTrue, NEW K, NEW f, NEW m, Placed(K, f, m),
         \A k \in DOMAIN requests \ K : ~ Load(requests[k]),
         m # 0 => ~ Load(requests'[m]), screen'.min = screen.min, screen'.dash = screen.dash,
         record'.moved \subseteq record.moved,
         \A k \in K : /\ Load(requests'[f[k]]) <=> Load(requests[k])
                      /\ Load(requests[k]) =>
                           \/ requests'[f[k]].phase = "sent"
                           \/ requests'[f[k]].phase = requests[k].phase /\ requests'[f[k]].data = requests[k].data
                           \/ Good(requests'[f[k]].data, screen'.min, record'.moved)
  PROVE  LoadsTrue'
<1>1. \A d : Good(d, screen.min, record.moved) => Good(d, screen'.min, record'.moved)
  BY DEF Good
<1>2. ASSUME NEW j \in DOMAIN requests', Load(requests'[j])
      PROVE  \/ requests'[j].phase = "sent" \/ Good(requests'[j].data, screen'.min, record'.moved)
             \/ \E i \in DOMAIN requests' : j < i /\ Load(requests'[i])
  <2>1. PICK k \in K : j = f[k] /\ Load(requests[k]) /\ k \in DOMAIN requests
    BY <1>2 DEF Placed
  <2>2. \/ requests[k].phase = "sent" \/ Good(requests[k].data, screen.min, record.moved)
        \/ \E l \in DOMAIN requests : k < l /\ Load(requests[l])
    BY <2>1 DEF LoadsTrue
  <2>3. CASE \E l \in DOMAIN requests : k < l /\ Load(requests[l])
    <3>1. PICK l \in K : k < l /\ Load(requests[l])
      BY <2>3
    <3>2. f[l] \in DOMAIN requests' /\ j < f[l] /\ Load(requests'[f[l]])
      BY <2>1, <3>1 DEF Placed
    <3>. QED  BY <3>2
  <2>4. CASE requests[k].phase = "sent" \/ Good(requests[k].data, screen.min, record.moved)
    BY <1>1, <2>1, <2>4
  <2>. QED  BY <2>2, <2>3, <2>4
<1>3. ASSUME \A j \in DOMAIN requests' : ~ Load(requests'[j])
      PROVE  screen'.dash = Sums!NoDash \/ Good(screen'.dash, screen'.min, record'.moved)
  <2>1. \A k \in DOMAIN requests : ~ Load(requests[k])
    BY <1>3 DEF Placed
  <2>. QED  BY <1>1, <2>1 DEF LoadsTrue
<1>. QED  BY <1>2, <1>3 DEF LoadsTrue

\* A run that moved nothing yet had moved nothing before.
LEMMA CalmBefore ==
  ASSUME Calm', NEW K, NEW f, NEW m, Placed(K, f, m), card.mode = "running" => card'.mode = "running",
         card.mode = "running" /\ m # 0 => ~ LiveRun(requests'[m]),
         \A k \in K : /\ Same(k, f[k])
                      /\ requests'[f[k]].kind = "execute" /\ requests'[f[k]].phase = "sent"
                           => requests[k].phase = "sent"
  PROVE  Calm
<1>. SUFFICES ASSUME card.mode = "running"
              PROVE  \E i \in DOMAIN requests : LiveRun(requests[i]) /\ requests[i].phase = "sent"
  BY DEF Calm
<1>1. PICK j \in DOMAIN requests' : LiveRun(requests'[j]) /\ requests'[j].phase = "sent"
  BY DEF Calm
<1>2. PICK k \in K : j = f[k] /\ k \in DOMAIN requests
  BY <1>1 DEF Placed
<1>. QED  BY <1>1, <1>2 DEF Same, LiveRun

-----------------------------------------------------------------------------
(* The three ways in which the requests under way change *)

\* What is shown and waited for stays, and loads go on.
Steady ==
  /\ screen'.min = screen.min /\ screen'.dash = screen.dash /\ screen'.open = screen.open
  /\ (card.mode = "running" => card'.mode = "running")
  /\ (record.astray => record'.astray) /\ record'.moved \subseteq record.moved

LEMMA Sent ==
  ASSUME DashInv, NEW c \in DashCalls, requests' = Append(requests, c), c.phase = "sent",
         UNCHANGED <<base, memo, compute>>, DashTypes', CardInv', record'.moved = record.moved,
         \A k \in DOMAIN requests : Fits(requests[k], screen', card', record'.astray),
         Fits(c, screen', card', record'.astray),
         CardStatus(c) => \A k \in DOMAIN requests : ~ CardStatus(requests[k]),
         LiveRun(c) => card.mode # "running",
         Load(c) \/ Steady
  PROVE  DashInv'
<1>1. requests \in Seq(DashCalls)
  BY DEF DashInv, DashTypes
<1>. DEFINE K == DOMAIN requests
<1>2. PICK f, m : /\ Placed(K, f, m) /\ m # 0 /\ requests'[m] = c
                  /\ \A k \in K : f[k] = k /\ requests'[f[k]] = requests[k]
  <2>1. \E f, m : Joins(requests, c, f, m)
    BY <1>1, RequestSent
  <2>. QED  BY <2>1 DEF Joins
<1>3. CacheInv'
  BY CacheRests DEF DashInv
<1>4. \A k \in K : Same(k, f[k]) /\ requests'[f[k]] = requests[k]
  BY <1>2 DEF Same
<1>5. JobInv'
  BY <1>2, <1>4, JobGoesOn DEF DashInv, JobInv
<1>6. \A k \in DOMAIN requests \ K : ~ Load(requests[k])
  OBVIOUS
<1>7. \A k \in K : Fits(requests[k], screen', card', record'.astray)
  OBVIOUS
<1>8. LiveRun(c) => \A k \in K : ~ LiveRun(requests[k])
  BY <1>2 DEF DashInv, CallsInv, Fits, LiveRun
<1>9. CardStatus(c) => \A k \in K : ~ CardStatus(requests[k])
  OBVIOUS
<1>. HIDE DEF K
<1>10. CallsInv'
  <2>1. \A k \in K : Same(k, f[k]) /\ Fits(requests'[f[k]], screen', card', record'.astray)
    BY <1>4, <1>7
  <2>2. m # 0 => /\ Fits(requests'[m], screen', card', record'.astray)
                 /\ CardStatus(requests'[m]) => \A k \in K : ~ CardStatus(requests[k])
                 /\ LiveRun(requests'[m]) => \A k \in K : ~ LiveRun(requests[k])
    BY <1>2, <1>8, <1>9
  <2>. QED  BY <1>2, <2>1, <2>2, CallsGoOn DEF DashInv
<1>11. ScreenInv'
  <2>1. CASE Load(c)
    <3>1. Load(requests'[m]) /\ requests'[m].phase = "sent"
      BY <1>2, <2>1
    <3>. QED  BY <1>2, <3>1, LoadLast DEF ScreenInv
  <2>2. CASE ~ Load(c)
    <3>. SUFFICES ASSUME ~ record'.astray, screen'.open, Calm' PROVE LoadsTrue'
      BY DEF ScreenInv
    <3>1. Calm
      <4>1. card.mode = "running" => card'.mode = "running" /\ ~ LiveRun(requests'[m])
        BY <1>2, <2>2 DEF Steady
      <4>2. \A k \in K : /\ Same(k, f[k])
                         /\ requests'[f[k]].kind = "execute" /\ requests'[f[k]].phase = "sent"
                              => requests[k].phase = "sent"
        BY <1>4
      <4>3. Placed(K, f, m)
        BY <1>2
      <4>. QED  BY <4>1, <4>2, <4>3, CalmBefore
    <3>2. LoadsTrue
      BY <2>2, <3>1 DEF Steady, DashInv, ScreenInv
    <3>3. ~ Load(requests'[m])
      BY <1>2, <2>2
    <3>4. \A k \in K :
            /\ Load(requests'[f[k]]) <=> Load(requests[k])
            /\ Load(requests[k]) =>
                 \/ requests'[f[k]].phase = "sent"
                 \/ requests'[f[k]].phase = requests[k].phase /\ requests'[f[k]].data = requests[k].data
                 \/ Good(requests'[f[k]].data, screen'.min, record'.moved)
      BY <1>4
    <3>5. Placed(K, f, m)
      BY <1>2
    <3>6. screen'.min = screen.min /\ screen'.dash = screen.dash /\ record'.moved \subseteq record.moved
      BY <2>2 DEF Steady
    <3>. QED  BY <1>6, <3>2, <3>3, <3>4, <3>5, <3>6, LoadsGoOn
  <2>. QED  BY <2>1, <2>2
<1>. QED  BY <1>3, <1>5, <1>10, <1>11 DEF DashInv

LEMMA Ended ==
  ASSUME DashInv, NEW i \in DOMAIN requests, NEW more, Sums!Settled(i, more), compute' = Sums!Moved(i),
         more = <<>> \/ \E c \in DashCalls : more = <<c>>,
         compute # Sums!NoJob => compute.call # i,
         UNCHANGED <<base, memo>>, DashTypes', CardInv', record'.moved = record.moved,
         \A k \in DOMAIN requests \ {i} : Fits(requests[k], screen', card', record'.astray),
         \A c \in DashCalls : more = <<c>> => /\ c.phase = "sent" /\ ~ CardStatus(c) /\ ~ LiveRun(c)
                                              /\ Fits(c, screen', card', record'.astray),
         \/ ScreenInv'
         \/ \E c \in DashCalls : more = <<c>> /\ Load(c)
         \/ Steady /\ ~ Load(requests[i]) /\ \A c \in DashCalls : more = <<c>> => ~ Load(c)
  PROVE  DashInv'
<1>. DEFINE K == DOMAIN requests \ {i}
<1>1. PICK f, m : /\ Placed(K, f, m)
                  /\ \A k \in K : f[k] = (IF k < i THEN k ELSE k - 1) /\ requests'[f[k]] = requests[k]
                  /\ more = <<>> => m = 0
                  /\ more # <<>> => m # 0 /\ more = <<requests'[m]>>
  <2>1. requests \in Seq(DashCalls)
    BY DEF DashInv, DashTypes
  <2>2. \E f, m : Follows(i, more, f, m)
    BY <2>1, RequestEnds
  <2>. QED  BY <2>2 DEF K, Follows
<1>2. m # 0 => requests'[m] \in DashCalls /\ more = <<requests'[m]>>
  <2>1. m # 0 => more # <<>> /\ more = <<requests'[m]>>
    BY <1>1
  <2>2. \A c : more = <<c>> => more[1] = c
    OBVIOUS
  <2>. QED  BY <2>1, <2>2
<1>3. m = 0 => more = <<>>
  BY <1>1
<1>4. CacheInv' /\ JobInv'
  <2>1. CASE compute = Sums!NoJob
    <3>1. compute' = compute
      BY <2>1 DEF Sums!Moved, Sums!NoJob, DashInv, DashTypes
    <3>. QED  BY <2>1, <3>1, CacheRests DEF DashInv, JobInv
  <2>2. CASE compute # Sums!NoJob
    <3>1. compute.call \in K /\ compute.call \in Nat /\ i \in Nat
      BY <2>2, LenProperties DEF DashInv, JobInv, DashTypes, Jobs
    <3>2. /\ compute'.version = compute.version /\ compute'.read = compute.read
          /\ compute'.figures = compute.figures /\ compute'.min = compute.min
          /\ compute'.call = IF compute.call > i THEN compute.call - 1 ELSE compute.call
      BY DEF Sums!Moved, DashInv, DashTypes, Jobs
    <3>3. CacheInv'
      BY <2>2, <3>2, CacheRests DEF DashInv
    <3>4. compute'.call = f[compute.call]
      BY <1>1, <3>1, <3>2
    <3>5. \A k \in K : Same(k, f[k]) /\ requests'[f[k]].phase = requests[k].phase
      BY <1>1 DEF Same
    <3>. QED  BY <1>1, <2>2, <3>1, <3>2, <3>3, <3>4, <3>5, JobGoesOn DEF DashInv
  <2>. QED  BY <2>1, <2>2
<1>. HIDE DEF K
<1>5. \A k \in K : Same(k, f[k]) /\ k \in DOMAIN requests \ {i}
  BY <1>1 DEF Same, K
<1>6. CallsInv'
  <2>1. \A k \in K : Same(k, f[k]) /\ Fits(requests'[f[k]], screen', card', record'.astray)
    BY <1>1, <1>5
  <2>2. m # 0 => /\ Fits(requests'[m], screen', card', record'.astray)
                 /\ ~ CardStatus(requests'[m]) /\ ~ LiveRun(requests'[m])
    BY <1>2
  <2>. QED  BY <1>1, <2>1, <2>2, CallsGoOn DEF DashInv
<1>7. ScreenInv'
  <2>1. CASE \E c \in DashCalls : more = <<c>> /\ Load(c)
    <3>1. m # 0
      BY <1>3, <2>1
    <3>2. PICK c \in DashCalls : more = <<c>> /\ Load(c)
      BY <2>1
    <3>3. more[1] = c /\ more[1] = requests'[m]
      BY <1>2, <3>1, <3>2
    <3>4. Load(requests'[m]) /\ requests'[m].phase = "sent"
      BY <3>2, <3>3
    <3>. QED  BY <1>1, <3>1, <3>4, LoadLast DEF ScreenInv
  <2>2. CASE Steady /\ ~ Load(requests[i]) /\ \A c \in DashCalls : more = <<c>> => ~ Load(c)
    <3>. SUFFICES ASSUME ~ record'.astray, screen'.open, Calm' PROVE LoadsTrue'
      BY DEF ScreenInv
    <3>1. m # 0 => ~ LiveRun(requests'[m]) /\ ~ Load(requests'[m])
      BY <1>2, <2>2
    <3>2. Calm
      BY <1>1, <1>5, <2>2, <3>1, CalmBefore DEF Steady
    <3>3. LoadsTrue
      BY <2>2, <3>2 DEF Steady, DashInv, ScreenInv
    <3>4. \A k \in DOMAIN requests \ K : ~ Load(requests[k])
      BY <2>2 DEF K
    <3>. QED  BY <1>1, <2>2, <3>1, <3>3, <3>4, LoadsGoOn DEF Steady
  <2>. QED  BY <2>1, <2>2
<1>. QED  BY <1>4, <1>6, <1>7 DEF DashInv

\* One is served, or answered, or its answer is lost.
Served(i, d) ==
  /\ requests' \in [DOMAIN requests -> DashCalls]
  /\ \A k \in DOMAIN requests \ {i} : requests'[k] = requests[k]
  /\ Same(i, i) /\ requests'[i].live = requests[i].live /\ requests'[i].phase # "sent"
  /\ requests'[i].data = d

LEMMA Answers ==
  ASSUME DashTypes, NEW i \in DOMAIN requests, NEW d \in Dashes, Sums!Answer(i, d)
  PROVE  Served(i, d) /\ requests'[i].phase = "answered"
<1>1. requests \in [DOMAIN requests -> DashCalls]
  BY LenProperties DEF DashTypes
<1>. QED  BY <1>1 DEF Sums!Answer, Served, Same, DashCalls

LEMMA Serves ==
  ASSUME DashInv, NEW i \in DOMAIN requests, NEW d, Served(i, d), compute' = Sums!NoJob,
         base' \in Bases, memo' \in Seq(Slices), record' \in Records, CacheInv',
         UNCHANGED <<screen, card, known>>, record.astray => record'.astray,
         requests'[i].phase = "lost" => record'.astray,
         \/ ScreenInv'
         \/ /\ record'.moved \subseteq record.moved
            /\ Load(requests[i]) /\ ~ record.astray => Good(d, screen.min, record'.moved)
  PROVE  DashInv'
<1>1. /\ requests' \in Seq(DashCalls) /\ DOMAIN requests' = DOMAIN requests
      /\ \E f : Placed(DOMAIN requests, f, 0) /\ \A k \in DOMAIN requests : f[k] = k
  BY RequestsTouched DEF DashInv, DashTypes, Served
<1>2. PICK f : Placed(DOMAIN requests, f, 0) /\ \A k \in DOMAIN requests : f[k] = k
  BY <1>1
<1>3. DashTypes' /\ JobInv'
  <2>1. Sums!NoJob \in Jobs
    BY DEF Sums!NoJob, Jobs
  <2>. QED  BY <1>1, <2>1 DEF DashInv, DashTypes, JobInv
<1>4. CardInv'
  BY DEF DashInv, CardInv
<1>5. \A k \in DOMAIN requests : Same(k, k) /\ requests'[k].live = requests[k].live
  BY DEF Served, Same
<1>6. \A k \in DOMAIN requests : Fits(requests'[k], screen', card', record'.astray)
  BY DEF Served, Same, Fits, DashInv, CallsInv
<1>7. CallsInv'
  BY <1>2, <1>5, <1>6, CallsGoOn DEF DashInv
<1>8. ScreenInv'
  <2>. SUFFICES ASSUME ~ record'.astray, screen'.open, Calm', record'.moved \subseteq record.moved,
                       Load(requests[i]) /\ ~ record.astray => Good(d, screen.min, record'.moved)
                PROVE  LoadsTrue'
    BY DEF ScreenInv
  <2>1. \A k \in DOMAIN requests : requests'[k].phase = "sent" => requests[k].phase = "sent"
    BY DEF Served
  <2>2. Calm
    BY <1>2, <1>5, <2>1, CalmBefore
  <2>3. LoadsTrue
    BY <2>2 DEF DashInv, ScreenInv
  <2>4. \A k \in DOMAIN requests :
          /\ Load(requests'[k]) <=> Load(requests[k])
          /\ Load(requests[k]) => \/ requests'[k].phase = requests[k].phase /\ requests'[k].data = requests[k].data
                                  \/ Good(requests'[k].data, screen'.min, record'.moved)
    BY DEF Served, Same, Load
  <2>. QED  BY <1>2, <2>3, <2>4, LoadsGoOn
<1>. QED  BY <1>3, <1>4, <1>7, <1>8 DEF DashInv


-----------------------------------------------------------------------------
(* The server *)

LEMMA Sizes == Thresholds \subseteq Nat \ {0} /\ Thresholds \subseteq Sums!Msgs
<1>1. Size \in Nat /\ Thresholds \subseteq 1 .. Size
  BY WindowAssumption
<1>. QED  BY <1>1 DEF Sums!Msgs

LEMMA CountedTypes == ASSUME DashTypes, NEW min PROVE Sums!Slice(min) \in SUBSET Sums!Msgs
BY DEF Sums!Slice, DashTypes, Bases

LEMMA PayloadTypes ==
  ASSUME DashTypes, NEW min \in Nat, NEW S \in SUBSET Sums!Msgs
  PROVE  /\ Sums!Payload(min, S) \in Dashes
         /\ Sums!Payload(min, S).of = min /\ Sums!Payload(min, S).figures = S
BY DEF Sums!Payload, Dashes, DashTypes, Bases

\* Nothing is asked, answered or shown, and nothing more is moved.
LEMMA ServerOnly ==
  ASSUME DashInv, UNCHANGED <<screen, card, known, requests>>, record'.astray = record.astray,
         record'.moved \subseteq record.moved, base' \in Bases, memo' \in Seq(Slices), compute' \in Jobs,
         record' \in Records, CacheInv', JobInv'
  PROVE  DashInv'
<1>1. DashTypes' /\ CardInv'
  BY DEF DashInv, DashTypes, CardInv
<1>2. CallsInv'
  BY DEF DashInv, CallsInv
<1>3. Calm' => Calm
  BY DEF Calm
<1>4. \A d : Good(d, screen.min, record.moved) => Good(d, screen.min, record'.moved)
  BY DEF Good
<1>5. LoadsTrue => LoadsTrue'
  BY <1>4 DEF LoadsTrue
<1>. QED  BY <1>1, <1>2, <1>3, <1>5 DEF DashInv, ScreenInv

LEMMA BeginSafe ==
  ASSUME DashInv, NEW i \in DOMAIN requests, Sums!Begin(i)
  PROVE  DashInv'
<1>. DEFINE c == requests[i]
<1>1. /\ c \in DashCalls /\ c.kind = "load" /\ c.phase = "sent" /\ compute = Sums!NoJob
      /\ UNCHANGED <<base, screen, card, known, record>> /\ i \in Nat \ {0}
  BY LenProperties DEF DashInv, DashTypes, Sums!Begin
<1>2. CASE \E k \in DOMAIN memo : /\ Sums!Hit(memo[k], c.min)
                                  /\ memo' = Sums!Stored(memo[k])
                                  /\ Sums!Answer(i, Sums!Payload(c.min, memo[k].data))
                                  /\ UNCHANGED compute
  <2>1. PICK k \in DOMAIN memo : /\ Sums!Hit(memo[k], c.min)
                                 /\ memo' = Sums!Stored(memo[k])
                                 /\ Sums!Answer(i, Sums!Payload(c.min, memo[k].data))
                                 /\ compute' = compute
    BY <1>2
  <2>2. PICK e, d : e = memo[k] /\ d = Sums!Payload(c.min, e.data)
    OBVIOUS
  <2>3. e \in Slices /\ e.min = c.min /\ e.version = base.version /\ memo \in Seq(Slices)
    BY <2>1, <2>2, LenProperties DEF DashInv, DashTypes, Sums!Hit
  <2>4. d \in Dashes /\ d.of = c.min /\ d.figures = e.data
    <3>1. c.min \in Nat /\ e.data \in SUBSET Sums!Msgs
      BY <1>1, <2>3, Sizes DEF DashCalls, Slices
    <3>. QED  BY <2>2, <3>1, PayloadTypes DEF DashInv
  <2>5. /\ memo' \in Seq(Slices)
        /\ \A j \in DOMAIN memo' : memo'[j] = e \/ \E l \in DOMAIN memo : memo'[j] = memo[l]
    BY <2>1, <2>2, <2>3, Stores
  <2>6. CacheInv'
    <3>1. \A j \in DOMAIN memo' : \E l \in DOMAIN memo : memo'[j] = memo[l]
      BY <2>1, <2>2, <2>5
    <3>. QED  BY <1>1, <2>1, <3>1 DEF DashInv, CacheInv, Dated, Sums!Slice
  <2>7. e.data \cap record.moved = {}
    <3>1. Dated(e.version, e.data, e.min)
      BY <2>1, <2>2 DEF DashInv, CacheInv
    <3>. QED  BY <2>3, <3>1, Counted DEF Dated, DashInv, CacheInv
  <2>8. Load(c) /\ ~ record.astray => Good(d, screen.min, record'.moved)
    BY <1>1, <2>4, <2>7 DEF Load, Good, DashInv, CallsInv, Fits
  <2>9. Served(i, d) /\ requests'[i].phase = "answered"
    BY <2>1, <2>2, <2>4, Answers DEF DashInv
  <2>10. base' \in Bases /\ record' \in Records
    BY <1>1 DEF DashInv, DashTypes
  <2>11. requests'[i].phase # "lost" /\ record'.moved \subseteq record.moved /\ (record.astray => record'.astray)
    BY <1>1, <2>9
  <2>. QED  BY <1>1, <2>1, <2>5, <2>6, <2>8, <2>9, <2>10, <2>11, Serves
<1>3. CASE /\ compute' = [Sums!NoJob EXCEPT !.call = i, !.min = c.min, !.version = base.version]
           /\ UNCHANGED <<memo, requests>>
  <2>1. /\ compute'.call = i /\ compute'.min = c.min /\ compute'.version = base.version
        /\ compute'.read = FALSE
    BY <1>3 DEF Sums!NoJob
  <2>2. compute' \in Jobs
    BY <1>1, <1>3, Sizes DEF Sums!NoJob, Jobs, DashInv, DashTypes, Bases, DashCalls
  <2>3. base.version <= base.version
    BY DEF DashInv, DashTypes, Bases
  <2>4. CacheInv'
    BY <1>1, <1>3, <2>1, <2>3 DEF DashInv, CacheInv, Dated, Sums!Slice
  <2>5. JobInv'
    BY <1>1, <1>3, <2>1 DEF JobInv
  <2>. QED  BY <1>1, <1>3, <2>2, <2>4, <2>5, ServerOnly DEF DashInv, DashTypes
<1>. QED  BY <1>2, <1>3 DEF Sums!Begin

LEMMA ComputesSafe == ASSUME DashInv, Sums!Computes PROVE DashInv'
<1>1. /\ compute # Sums!NoJob /\ UNCHANGED <<base, memo, screen, card, known, requests, record>>
      /\ compute' = [compute EXCEPT !.read = TRUE, !.figures = Sums!Slice(compute.min)]
  BY DEF Sums!Computes
<1>2. compute' \in Jobs /\ compute'.read /\ compute'.figures = Sums!Slice(compute.min)
      /\ compute'.version = compute.version /\ compute'.min = compute.min /\ compute'.call = compute.call
  BY <1>1, CountedTypes DEF DashInv, DashTypes, Jobs
<1>3. CacheInv'
  <2>1. Sums!Slice(compute.min) \cap record.moved = {}
    BY Counted DEF DashInv, CacheInv
  <2>. QED  BY <1>1, <1>2, <2>1 DEF DashInv, CacheInv, Dated, Sums!Slice
<1>4. JobInv'
  BY <1>1, <1>2 DEF DashInv, JobInv
<1>. QED  BY <1>1, <1>2, <1>3, <1>4, ServerOnly DEF DashInv, DashTypes

LEMMA FinishSafe == ASSUME DashInv, Sums!Finish PROVE DashInv'
<1>. DEFINE i == compute.call
            e == [min |-> compute.min, version |-> compute.version, data |-> compute.figures]
            d == Sums!Payload(compute.min, compute.figures)
<1>1. /\ compute.read /\ memo' = Sums!Stored(e) /\ Sums!Answer(i, d) /\ compute' = Sums!NoJob
      /\ UNCHANGED <<base, screen, card, known, record>>
  BY DEF Sums!Finish, Sums!Version
<1>2. compute # Sums!NoJob
  BY <1>1 DEF Sums!NoJob
<1>3. /\ i \in DOMAIN requests /\ requests[i].kind = "load" /\ requests[i].min = compute.min
      /\ requests[i] \in DashCalls
  BY <1>2, LenProperties DEF DashInv, JobInv, DashTypes
<1>4. /\ compute.min \in Thresholds /\ compute.min \in Nat /\ compute.figures \in SUBSET Sums!Msgs
      /\ compute.version \in Nat
  BY <1>3, Sizes DEF DashCalls, DashInv, DashTypes, Jobs
<1>5. d \in Dashes /\ d.of = compute.min /\ d.figures = compute.figures
  BY <1>4, PayloadTypes DEF DashInv
<1>6. e \in Slices /\ e.min = compute.min /\ e.version = compute.version /\ e.data = compute.figures
  BY <1>4 DEF Slices
<1>. HIDE DEF d, e, i
<1>7. /\ memo' \in Seq(Slices)
      /\ \A j \in DOMAIN memo' : memo'[j] = e \/ \E l \in DOMAIN memo : memo'[j] = memo[l]
  BY <1>1, <1>6, Stores DEF DashInv, DashTypes
<1>8. CacheInv'
  <2>1. Dated(e.version, e.data, e.min)
    BY <1>1, <1>2, <1>6 DEF DashInv, CacheInv
  <2>2. \A j \in DOMAIN memo' : Dated(memo'[j].version, memo'[j].data, memo'[j].min)
    BY <1>7, <2>1 DEF DashInv, CacheInv
  <2>. QED  BY <1>1, <2>2 DEF DashInv, CacheInv, Dated, Sums!Slice
<1>9. Load(requests[i]) /\ ~ record.astray => Good(d, screen.min, record'.moved)
  BY <1>1, <1>2, <1>3, <1>5 DEF Load, Good, DashInv, CallsInv, Fits, CacheInv
<1>10. Served(i, d) /\ requests'[i].phase = "answered"
  BY <1>1, <1>3, <1>5, Answers DEF DashInv
<1>11. /\ base' \in Bases /\ record' \in Records /\ requests'[i].phase # "lost"
       /\ record'.moved \subseteq record.moved /\ (record.astray => record'.astray)
  BY <1>1, <1>10 DEF DashInv, DashTypes
<1>. QED  BY <1>1, <1>3, <1>7, <1>8, <1>9, <1>10, <1>11, Serves


\* A write makes every figure of before an old one.
LEMMA Outdated ==
  ASSUME CacheInv, DashTypes, NEW b, b \in Bases, Sums!Written(b), memo' = memo,
         compute' = compute, b.version = base.version, b.mail \cap record'.moved = {},
         compute # Sums!NoJob /\ compute.read => compute.figures \cap record'.moved = {}
  PROVE  base' \in Bases /\ CacheInv'
<1>1. PICK n : n = base.version + 1
  OBVIOUS
<1>2. base' = [b EXCEPT !.version = n] /\ n \in Nat /\ base.version \in Nat /\ n > base.version
  BY <1>1 DEF Sums!Written, Bases, DashTypes
<1>3. base' \in Bases /\ base'.version = n /\ base'.mail = b.mail
  BY <1>2 DEF Bases
<1>4. \A v, S, min : v \in Nat /\ Dated(v, S, min) => v <= n /\ v # n
  BY <1>2 DEF Dated
<1>5. \A k \in DOMAIN memo : memo[k].version <= n /\ memo[k].version # n
  <2>1. \A k \in DOMAIN memo : memo[k].version \in Nat
    <3>1. \A k \in DOMAIN memo : memo[k] \in Slices
      BY LenProperties DEF DashTypes
    <3>. QED  BY <3>1 DEF Slices
  <2>. QED  BY <1>4, <2>1 DEF CacheInv
<1>6. compute # Sums!NoJob => compute.version <= n /\ compute.version # n
  BY <1>2 DEF CacheInv, DashTypes, Jobs
<1>. QED  BY <1>3, <1>5, <1>6 DEF CacheInv, Dated

LEMMA WorkerSafe ==
  ASSUME DashInv, NEW x \in Sums!Msgs, Sums!WorkerWrites(x)
  PROVE  DashInv'
<1>1. PICK b, n : /\ b = [base EXCEPT !.mail = IF x \in @ THEN @ \ {x} ELSE @ \cup {x}]
                  /\ n = record.writes + 1
  OBVIOUS
<1>2. /\ x \notin record.moved /\ Sums!Written(b) /\ record' = [record EXCEPT !.writes = n]
      /\ UNCHANGED <<memo, compute, screen, card, known, requests>>
  BY <1>1 DEF Sums!WorkerWrites, DashInv, DashTypes, Records
<1>3. /\ record' \in Records /\ record'.moved = record.moved /\ record'.astray = record.astray
  <2>1. n \in Nat
    BY <1>1 DEF DashInv, DashTypes, Records
  <2>. QED  BY <1>2, <2>1 DEF DashInv, DashTypes, Records
<1>4. b \in Bases /\ b.version = base.version /\ b.mail \subseteq base.mail \cup {x}
  BY <1>1 DEF DashInv, DashTypes, Bases
<1>5. b.mail \cap record'.moved = {}
  BY <1>2, <1>3, <1>4 DEF DashInv, CacheInv
<1>6. base' \in Bases /\ CacheInv'
  BY <1>2, <1>3, <1>4, <1>5, Outdated DEF DashInv, CacheInv
<1>7. JobInv'
  BY <1>2 DEF DashInv, JobInv
<1>. QED  BY <1>2, <1>3, <1>6, <1>7, ServerOnly DEF DashInv, DashTypes

LEMMA DrainsSafe ==
  ASSUME DashInv, NEW x \in Sums!Msgs, Sums!Drains(x)
  PROVE  DashInv'
<1>1. compute = Sums!NoJob /\ UNCHANGED <<memo, compute, screen, card, known, requests>>
  BY DEF Sums!Drains
<1>2. PICK b : /\ b \in Bases /\ b.version = base.version /\ Sums!Written(b)
               /\ record' \in Records /\ record'.astray = record.astray
               /\ record'.moved \subseteq record.moved /\ b.mail \cap record'.moved = {}
  <2>1. CASE Sums!Written([base EXCEPT !.queue = @ \ {x}]) /\ UNCHANGED record
    <3>1. PICK b : b = [base EXCEPT !.queue = @ \ {x}]
      OBVIOUS
    <3>2. b \in Bases /\ b.version = base.version /\ b.mail = base.mail
      BY <3>1 DEF DashInv, DashTypes, Bases
    <3>. QED  BY <2>1, <3>1, <3>2 DEF DashInv, DashTypes, CacheInv
  <2>2. CASE /\ Sums!Written([base EXCEPT !.queue = @ \ {x}, !.mail = @ \cup {x}])
             /\ record' = [record EXCEPT !.writes = @ + 1, !.moved = @ \ {x}]
    <3>1. PICK b, n, v : /\ b = [base EXCEPT !.queue = @ \ {x}, !.mail = @ \cup {x}]
                         /\ n = record.writes + 1 /\ v = record.moved \ {x}
      OBVIOUS
    <3>2. b \in Bases /\ b.version = base.version /\ b.mail = base.mail \cup {x}
      BY <3>1 DEF DashInv, DashTypes, Bases
    <3>3. record' = [record EXCEPT !.writes = n, !.moved = v]
      BY <2>2, <3>1 DEF DashInv, DashTypes, Records
    <3>4. n \in Nat /\ v \in SUBSET Sums!Msgs
      BY <3>1 DEF DashInv, DashTypes, Records
    <3>5. record' \in Records /\ record'.astray = record.astray /\ record'.moved = v
      BY <3>3, <3>4 DEF DashInv, DashTypes, Records
    <3>. QED  BY <2>2, <3>1, <3>2, <3>5 DEF DashInv, CacheInv
  <2>. QED  BY <2>1, <2>2 DEF Sums!Drains
<1>3. base' \in Bases /\ CacheInv'
  BY <1>1, <1>2, Outdated DEF DashInv
<1>4. JobInv'
  BY <1>1 DEF DashInv, JobInv
<1>. QED  BY <1>1, <1>2, <1>3, <1>4, ServerOnly DEF DashInv, DashTypes

LEMMA NoDashTypes == Sums!NoDash \in Dashes
BY DEF Sums!NoDash, Dashes

LEMMA ServeStatusSafe ==
  ASSUME DashInv, NEW i \in DOMAIN requests, Sums!ServeStatus(i)
  PROVE  DashInv'
<1>1. PICK d : d = Sums!Payload(0, {})
  OBVIOUS
<1>2. /\ requests[i].kind = "status" /\ compute = Sums!NoJob /\ Sums!Answer(i, d)
      /\ UNCHANGED <<base, memo, compute, screen, card, known, record>>
  BY <1>1 DEF Sums!ServeStatus
<1>3. d \in Dashes
  BY <1>1, PayloadTypes DEF DashInv
<1>4. Served(i, d) /\ requests'[i].phase = "answered"
  BY <1>2, <1>3, Answers DEF DashInv
<1>5. CacheInv'
  BY <1>2, CacheRests DEF DashInv
<1>6. /\ base' \in Bases /\ memo' \in Seq(Slices) /\ record' \in Records /\ ~ Load(requests[i])
      /\ requests'[i].phase # "lost" /\ record'.moved \subseteq record.moved /\ (record.astray => record'.astray)
  BY <1>2, <1>4 DEF DashInv, DashTypes, Load
<1>. QED  BY <1>2, <1>4, <1>5, <1>6, Serves

LEMMA ServeWordsSafe ==
  ASSUME DashInv, NEW i \in DOMAIN requests, Sums!ServeWords(i)
  PROVE  DashInv'
<1>1. PICK b : b = [base EXCEPT !.words = ~ @]
  OBVIOUS
<1>2. /\ requests[i].kind = "words" /\ compute = Sums!NoJob /\ Sums!Answer(i, Sums!NoDash)
      /\ Sums!Written(b) /\ UNCHANGED <<memo, compute, screen, card, known, record>>
  BY <1>1 DEF Sums!ServeWords
<1>3. b \in Bases /\ b.version = base.version /\ b.mail = base.mail
  BY <1>1 DEF DashInv, DashTypes, Bases
<1>4. Served(i, Sums!NoDash) /\ requests'[i].phase = "answered"
  BY <1>2, NoDashTypes, Answers DEF DashInv
<1>5. base' \in Bases /\ CacheInv'
  BY <1>2, <1>3, Outdated DEF DashInv, CacheInv
<1>6. /\ memo' \in Seq(Slices) /\ record' \in Records /\ ~ Load(requests[i])
      /\ requests'[i].phase # "lost" /\ record'.moved \subseteq record.moved /\ (record.astray => record'.astray)
  BY <1>2, <1>4 DEF DashInv, DashTypes, Load
<1>. QED  BY <1>2, <1>4, <1>5, <1>6, Serves

\* A run that moved something is not calm: its answer is still to come, and its polls.
LEMMA ServeExecuteSafe ==
  ASSUME DashInv, NEW i \in DOMAIN requests, Sums!ServeExecute(i)
  PROVE  DashInv'
<1>1. PICK S, b : /\ S = Sums!Slice(requests[i].min)
                  /\ b = [base EXCEPT !.mail = @ \ S, !.queue = @ \cup S]
  OBVIOUS
<1>2. /\ requests[i].kind = "execute" /\ compute = Sums!NoJob /\ Sums!Written(b)
      /\ UNCHANGED <<memo, compute, screen, card, known>> /\ requests[i] \in DashCalls
  BY <1>1, LenProperties DEF Sums!ServeExecute, DashInv, DashTypes
<1>3. b \in Bases /\ b.version = base.version /\ b.mail = base.mail \ S /\ S \in SUBSET Sums!Msgs
  BY <1>1, CountedTypes DEF DashInv, DashTypes, Bases
<1>4. CASE Sums!Answer(i, Sums!NoDash)
           /\ record' = [record EXCEPT !.moved = @ \cup S, !.astray = @ \/ ~ requests[i].live]
  <2>1. /\ record' \in Records /\ record'.moved = record.moved \cup S
        /\ record'.astray = (record.astray \/ ~ requests[i].live)
    BY <1>2, <1>3, <1>4 DEF DashInv, DashTypes, Records, DashCalls
  <2>2. Served(i, Sums!NoDash) /\ requests'[i].phase = "answered"
    BY <1>4, NoDashTypes, Answers DEF DashInv
  <2>3. base' \in Bases /\ CacheInv'
    BY <1>2, <1>3, <2>1, Outdated DEF DashInv, CacheInv
  <2>4. ScreenInv'
    <3>. SUFFICES ASSUME ~ record'.astray, Calm' PROVE FALSE
      BY DEF ScreenInv
    <3>1. LiveRun(requests[i]) /\ card'.mode = "running"
      BY <1>2, <2>1 DEF LiveRun, DashInv, CallsInv, Fits
    <3>2. PICK j \in DOMAIN requests' : LiveRun(requests'[j]) /\ requests'[j].phase = "sent"
      BY <3>1 DEF Calm
    <3>3. j \in DOMAIN requests /\ j # i /\ LiveRun(requests[j])
      BY <2>2, <3>2 DEF Served
    <3>. QED  BY <3>1, <3>3 DEF DashInv, CallsInv
  <2>5. memo' \in Seq(Slices) /\ (record.astray => record'.astray) /\ requests'[i].phase # "lost"
    BY <1>2, <2>1, <2>2 DEF DashInv, DashTypes
  <2>. QED  BY <1>2, <2>1, <2>2, <2>3, <2>4, <2>5, Serves
<1>5. CASE /\ requests' = [requests EXCEPT ![i].phase = "lost"]
           /\ record' = [record EXCEPT !.deeds = @ + 1, !.astray = TRUE]
  <2>1. PICK n : n = record.deeds + 1
    OBVIOUS
  <2>2. record' \in Records /\ record'.moved = record.moved /\ record'.astray
    <3>1. n \in Nat
      BY <2>1 DEF DashInv, DashTypes, Records
    <3>2. record' = [record EXCEPT !.deeds = n, !.astray = TRUE]
      BY <1>5, <2>1 DEF DashInv, DashTypes, Records
    <3>. QED  BY <3>1, <3>2 DEF DashInv, DashTypes, Records
  <2>3. PICK d : d = requests[i].data
    OBVIOUS
  <2>4. Served(i, d)
    <3>1. requests \in [DOMAIN requests -> DashCalls]
      BY LenProperties DEF DashInv, DashTypes
    <3>. QED  BY <1>2, <1>5, <2>3, <3>1 DEF Served, Same, DashCalls
  <2>5. base' \in Bases /\ CacheInv'
    BY <1>2, <1>3, <2>2, Outdated DEF DashInv, CacheInv
  <2>6. ScreenInv' /\ memo' \in Seq(Slices)
    BY <1>2, <2>2 DEF ScreenInv, DashInv, DashTypes
  <2>. QED  BY <1>2, <2>2, <2>4, <2>5, <2>6, Serves
<1>. QED  BY <1>1, <1>4, <1>5 DEF Sums!ServeExecute


-----------------------------------------------------------------------------
(* The screen *)

LEMMA OpenSafe == ASSUME DashInv, Sums!Open PROVE DashInv'
<1>. DEFINE c == Sums!Call("load", "effect", screen.min)
<1>1. PICK d : d = known[screen.min]
  OBVIOUS
<1>2. /\ screen \in Screens /\ screen.min \in Thresholds /\ d \in Dashes /\ ~ screen.open
  BY <1>1 DEF Sums!Open, DashInv, DashTypes, Screens
<1>3. /\ UNCHANGED <<base, memo, compute, card, known>> /\ requests' = Append(requests, c)
      /\ record' = [record EXCEPT !.recovered = FALSE]
      /\ screen' = [screen EXCEPT !.open = TRUE, !.min = screen.min, !.dash = d,
                                  !.pending = d.queued, !.error = FALSE]
  BY <1>1 DEF Sums!Open, Sums!Loaded
<1>4. /\ c \in DashCalls /\ c.kind = "load" /\ c.by = "effect" /\ c.min = screen.min
      /\ c.phase = "sent" /\ c.live
  BY <1>2, NoDashTypes DEF Sums!Call, DashCalls
<1>. HIDE DEF c
<1>5. /\ screen' \in Screens /\ screen'.open /\ screen'.min = screen.min
      /\ record' \in Records /\ record'.moved = record.moved /\ record'.astray = record.astray
  BY <1>2, <1>3 DEF DashInv, DashTypes, Screens, Records, Dashes
<1>6. requests \in Seq(DashCalls) /\ requests' \in Seq(DashCalls)
  BY <1>3, <1>4, AppendProperties DEF DashInv, DashTypes
<1>7. DashTypes'
  BY <1>3, <1>5, <1>6 DEF DashInv, DashTypes
<1>8. CardInv'
  BY <1>2, <1>3, <1>5 DEF DashInv, CardInv
<1>9. \A k \in DOMAIN requests : Fits(requests[k], screen', card', record'.astray)
  BY <1>2, <1>5 DEF DashInv, CallsInv, Fits
<1>10. Fits(c, screen', card', record'.astray) /\ Load(c) /\ ~ CardStatus(c) /\ ~ LiveRun(c)
  BY <1>4, <1>5 DEF Fits, Load, CardStatus, LiveRun
<1>. QED  BY <1>3, <1>4, <1>5, <1>7, <1>8, <1>9, <1>10, Sent

\* The effect before is cancelled, and what others asked for is astray.
LEMMA RetuneSafe ==
  ASSUME DashInv, NEW min \in Thresholds, Sums!Retune(min)
  PROVE  DashInv'
<1>. DEFINE c == Sums!Call("load", "effect", min)
<1>1. PICK d, q, n : /\ d = known[min] /\ n = record.deeds + 1
                     /\ q = [k \in DOMAIN requests |->
                               IF requests[k].by = "effect" THEN [requests[k] EXCEPT !.live = FALSE]
                               ELSE requests[k]]
  OBVIOUS
<1>2. /\ screen \in Screens /\ d \in Dashes /\ n \in Nat /\ screen.open
      /\ requests \in Seq(DashCalls) /\ \A k \in DOMAIN requests : requests[k] \in DashCalls
  BY <1>1, LenProperties DEF Sums!Retune, DashInv, DashTypes, Screens, Records
<1>3. /\ UNCHANGED <<base, memo, compute, card, known>> /\ requests' = Append(q, c)
      /\ screen' = [screen EXCEPT !.open = TRUE, !.min = min, !.dash = d,
                                  !.pending = d.queued, !.error = FALSE]
  BY <1>1 DEF Sums!Retune, Sums!Loaded
<1>4. record' = [record EXCEPT !.deeds = n, !.recovered = FALSE,
                               !.astray = @ \/ card.mode = "running"
                                            \/ \E i \in DOMAIN requests : requests[i].by # "effect"]
  BY <1>1 DEF Sums!Retune, DashInv, DashTypes, Records
<1>5. /\ c \in DashCalls /\ c.kind = "load" /\ c.by = "effect" /\ c.min = min /\ c.phase = "sent" /\ c.live
  BY NoDashTypes DEF Sums!Call, DashCalls
<1>6. /\ q \in [DOMAIN requests -> DashCalls]
      /\ \A k \in DOMAIN requests :
           /\ q[k].kind = requests[k].kind /\ q[k].by = requests[k].by /\ q[k].min = requests[k].min
           /\ q[k].phase = requests[k].phase /\ (q[k].live => requests[k].live /\ requests[k].by # "effect")
  BY <1>1, <1>2 DEF DashCalls
<1>. HIDE DEF c
<1>7. q \in Seq(DashCalls) /\ DOMAIN q = DOMAIN requests
  BY <1>2, <1>6, Touched
<1>8. /\ screen' \in Screens /\ screen'.open /\ screen'.min = min
  BY <1>2, <1>3 DEF Screens, Dashes
<1>9. /\ record' \in Records /\ record'.moved = record.moved
      /\ record'.astray = (record.astray \/ card.mode = "running"
                             \/ \E i \in DOMAIN requests : requests[i].by # "effect")
  BY <1>2, <1>4 DEF DashInv, DashTypes, Records
<1>. DEFINE K == DOMAIN requests
<1>10. PICK f, m : /\ Placed(K, f, m) /\ m # 0 /\ requests'[m] = c
                   /\ \A k \in K : f[k] = k /\ requests'[f[k]] = q[k]
  <2>1. \E f, m : Joins(q, c, f, m)
    BY <1>2, <1>3, <1>5, <1>7, RequestSent
  <2>. QED  BY <2>1 DEF Joins
<1>11. requests' \in Seq(DashCalls)
  BY <1>3, <1>5, <1>7, AppendProperties
<1>12. DashTypes' /\ CacheInv'
  BY <1>3, <1>8, <1>9, <1>11, CacheRests DEF DashInv, DashTypes
<1>13. CardInv'
  BY <1>3, <1>8, <1>9 DEF DashInv, CardInv
<1>14. \A k \in K : /\ Same(k, f[k]) /\ requests'[f[k]].phase = requests[k].phase
                    /\ Fits(requests'[f[k]], screen', card', record'.astray)
  <2>1. \A k \in K : Fits(q[k], screen', card', record'.astray)
    <3>. SUFFICES ASSUME NEW k \in DOMAIN requests PROVE Fits(q[k], screen', card', record'.astray)
      OBVIOUS
    <3>1. Fits(requests[k], screen, card, record.astray)
      BY DEF DashInv, CallsInv
    <3>2. record.astray => record'.astray
      BY <1>9
    <3>3. requests[k].by # "effect" => record'.astray
      BY <1>9
    <3>. QED  BY <1>3, <1>6, <1>8, <3>1, <3>2, <3>3 DEF Fits
  <2>. QED  BY <1>6, <1>10, <2>1 DEF Same
<1>15. JobInv'
  <2>. SUFFICES ASSUME compute # Sums!NoJob PROVE JobInv'
    BY <1>3 DEF JobInv
  <2>1. compute.call \in DOMAIN requests /\ f[compute.call] = compute.call
    BY <1>10 DEF DashInv, JobInv
  <2>2. compute.call \in DOMAIN requests'
    BY <1>10, <2>1 DEF Placed
  <2>3. Same(compute.call, compute.call) /\ requests'[compute.call].phase = requests[compute.call].phase
    BY <1>14, <2>1
  <2>. QED  BY <1>3, <2>2, <2>3 DEF DashInv, JobInv, Same
<1>. HIDE DEF K
<1>16. CallsInv'
  <2>1. /\ Fits(requests'[m], screen', card', record'.astray)
        /\ ~ CardStatus(requests'[m]) /\ ~ LiveRun(requests'[m])
    BY <1>5, <1>8, <1>10 DEF Fits, CardStatus, LiveRun
  <2>2. Placed(K, f, m) /\ \A k \in K : Same(k, f[k]) /\ Fits(requests'[f[k]], screen', card', record'.astray)
    BY <1>10, <1>14
  <2>. QED  BY <2>1, <2>2, CallsGoOn DEF DashInv
<1>17. ScreenInv'
  <2>1. Load(requests'[m]) /\ requests'[m].phase = "sent" /\ Placed(K, f, m) /\ m # 0
    BY <1>5, <1>10 DEF Load
  <2>. QED  BY <2>1, LoadLast DEF ScreenInv
<1>. QED  BY <1>12, <1>13, <1>15, <1>16, <1>17 DEF DashInv

LEMMA LeaveSafe == ASSUME DashInv, Sums!Leave PROVE DashInv'
<1>1. PICK n : n = record.deeds + 1
  OBVIOUS
<1>2. /\ UNCHANGED <<base, memo, compute, known>>
      /\ screen' = [screen EXCEPT !.open = FALSE, !.dash = Sums!NoDash, !.pending = FALSE, !.error = FALSE]
      /\ card' = [mode |-> "idle", min |-> 0, polling |-> FALSE]
      /\ requests' = [k \in DOMAIN requests |-> [requests[k] EXCEPT !.live = FALSE]]
      /\ record' = [record EXCEPT !.deeds = n]
  BY <1>1 DEF Sums!Leave, Sums!Deed, DashInv, DashTypes, Records
<1>3. screen' \in Screens /\ ~ screen'.open /\ ~ screen'.pending
  BY <1>2, NoDashTypes DEF DashInv, DashTypes, Screens
<1>4. record' \in Records /\ record'.moved = record.moved /\ record'.astray = record.astray
  <2>1. n \in Nat
    BY <1>1 DEF DashInv, DashTypes, Records
  <2>. QED  BY <1>2, <2>1 DEF DashInv, DashTypes, Records
<1>5. card' \in Cards
  BY <1>2 DEF Cards
<1>6. /\ requests' \in [DOMAIN requests -> DashCalls]
      /\ \A k \in DOMAIN requests : /\ Same(k, k) /\ requests'[k].phase = requests[k].phase /\ ~ requests'[k].live
  <2>1. \A k \in DOMAIN requests : requests[k] \in DashCalls
    BY LenProperties DEF DashInv, DashTypes
  <2>. QED  BY <1>2, <2>1 DEF DashCalls, Same
<1>7. /\ requests' \in Seq(DashCalls) /\ DOMAIN requests' = DOMAIN requests
      /\ \E f : Placed(DOMAIN requests, f, 0) /\ \A k \in DOMAIN requests : f[k] = k
  BY <1>6, RequestsTouched DEF DashInv, DashTypes
<1>8. PICK f : Placed(DOMAIN requests, f, 0) /\ \A k \in DOMAIN requests : f[k] = k
  BY <1>7
<1>9. DashTypes' /\ CardInv' /\ ScreenInv' /\ CacheInv'
  BY <1>2, <1>3, <1>4, <1>5, <1>7, CacheRests DEF DashInv, DashTypes, CardInv, ScreenInv
<1>10. JobInv'
  BY <1>2, <1>6, <1>7 DEF DashInv, JobInv, Same
<1>11. \A k \in DOMAIN requests : Fits(requests'[k], screen', card', record'.astray)
  BY <1>4, <1>6 DEF DashInv, CallsInv, Fits, Same
<1>12. CallsInv'
  BY <1>6, <1>8, <1>11, CallsGoOn DEF DashInv
<1>. QED  BY <1>9, <1>10, <1>12 DEF DashInv


\* What an answer leaves behind: nothing, a refresh, or a stray poll.
LEMMA Sequels ==
  ASSUME DashInv, NEW i \in DOMAIN requests
  PROVE  LET c == requests[i]  r == [Sums!Call("load", "refresh", c.min) EXCEPT !.live = c.live]
             s == Sums!Stray(c.min) IN
         /\ Sums!Refresh(c) = <<r>> /\ r \in DashCalls /\ r.phase = "sent" /\ Load(r) = c.live
         /\ r.by = "refresh" /\ r.kind = "load" /\ r.min = c.min /\ r.live = c.live
         /\ Sums!Again(c) = <<>> \/ Sums!Again(c) = <<s>>
         /\ s \in DashCalls /\ s.phase = "sent" /\ s.kind = "status" /\ s.by = "stray" /\ ~ s.live
<1>. DEFINE c == requests[i]
<1>1. c \in DashCalls
  BY LenProperties DEF DashInv, DashTypes
<1>2. c.min \in Thresholds /\ c.live \in BOOLEAN
  BY <1>1 DEF DashCalls
<1>. HIDE DEF c
<1>3. LET r == [Sums!Call("load", "refresh", c.min) EXCEPT !.live = c.live] IN
      /\ Sums!Refresh(c) = <<r>> /\ r \in DashCalls /\ r.phase = "sent" /\ Load(r) = c.live
      /\ r.by = "refresh" /\ r.kind = "load" /\ r.min = c.min /\ r.live = c.live
  BY <1>2, NoDashTypes DEF Sums!Refresh, Sums!Call, DashCalls, Load
<1>4. LET s == Sums!Stray(c.min) IN
      /\ Sums!Again(c) = <<>> \/ Sums!Again(c) = <<s>>
      /\ s \in DashCalls /\ s.phase = "sent" /\ s.kind = "status" /\ s.by = "stray" /\ ~ s.live
  BY <1>2, NoDashTypes DEF Sums!Again, Sums!Stray, Sums!Call, DashCalls
<1>. QED  BY <1>3, <1>4 DEF c

\* One answered is not being computed.
LEMMA NotComputed ==
  ASSUME DashInv, NEW i \in DOMAIN requests, requests[i].phase # "sent"
  PROVE  compute # Sums!NoJob => compute.call # i
BY DEF DashInv, JobInv

LEMMA MovedTypes ==
  ASSUME DashInv, NEW i \in DOMAIN requests, compute' = Sums!Moved(i)
  PROVE  compute' \in Jobs
<1>1. i \in Nat \ {0} /\ compute.call \in Nat
  BY LenProperties DEF DashInv, DashTypes, Jobs
<1>2. compute.call > i => compute.call - 1 \in Nat
  BY <1>1
<1>. QED  BY <1>1, <1>2 DEF Sums!Moved, DashInv, DashTypes, Jobs

LEMMA SettledTypes ==
  ASSUME DashInv, NEW i \in DOMAIN requests, NEW more, Sums!Settled(i, more),
         more = <<>> \/ \E c \in DashCalls : more = <<c>>
  PROVE  requests' \in Seq(DashCalls)
BY RequestEnds DEF DashInv, DashTypes

LEMMA ArrivesSafe ==
  ASSUME DashInv, NEW i \in DOMAIN requests, Sums!Arrives(i)
  PROVE  DashInv'
<1>. DEFINE c == requests[i]
            K == DOMAIN requests \ {i}
            over == \E j \in 1 .. i - 1 : requests[j].kind = "load"
<1>1. /\ c.kind = "load" /\ c.phase = "answered" /\ known' = [known EXCEPT ![c.min] = c.data]
      /\ screen' = (IF c.live THEN Sums!Showing(c.data) ELSE screen)
      /\ Sums!Settled(i, <<>>) /\ compute' = Sums!Moved(i) /\ UNCHANGED <<base, memo, card>>
      /\ record' = [record EXCEPT !.astray = @ \/ over, !.recovered = @ \/ (c.live /\ screen.error)]
  BY DEF Sums!Arrives
<1>2. c \in DashCalls /\ c.data \in Dashes /\ c.min \in Thresholds /\ c.live \in BOOLEAN
  <2>1. c \in DashCalls
    BY LenProperties DEF DashInv, DashTypes
  <2>. QED  BY <2>1 DEF DashCalls
<1>3. /\ screen' \in Screens /\ screen'.open = screen.open /\ screen'.min = screen.min
      /\ c.live => screen'.dash = c.data
      /\ ~ c.live => screen' = screen
  BY <1>1, <1>2 DEF Sums!Showing, DashInv, DashTypes, Screens, Dashes
<1>4. /\ record' \in Records /\ record'.moved = record.moved /\ record'.astray = (record.astray \/ over)
  BY <1>1, <1>2 DEF DashInv, DashTypes, Records, Screens
<1>5. requests' \in Seq(DashCalls) /\ compute' \in Jobs
  BY <1>1, SettledTypes, MovedTypes
<1>6. known' \in [Thresholds -> Dashes]
  BY <1>1, <1>2 DEF DashInv, DashTypes
<1>7. DashTypes'
  BY <1>1, <1>3, <1>4, <1>5, <1>6 DEF DashInv, DashTypes
<1>8. CardInv'
  <2>1. c.live => screen.open
    BY DEF DashInv, CallsInv, Fits
  <2>. QED  BY <1>1, <1>3, <1>4, <2>1 DEF DashInv, CardInv
<1>9. \A k \in K : Fits(requests[k], screen', card', record'.astray)
  <2>1. \A k \in K : Fits(requests[k], screen, card, record.astray)
    BY DEF DashInv, CallsInv
  <2>. QED  BY <1>1, <1>3, <1>4, <2>1 DEF Fits
<1>10. PICK f, m : /\ Placed(K, f, m) /\ m = 0 /\ \A k \in K : requests'[f[k]] = requests[k]
  <2>1. \E f, m : Follows(i, <<>>, f, m)
    BY <1>1, RequestEnds DEF DashInv, DashTypes
  <2>. QED  BY <2>1 DEF Follows
<1>11. ScreenInv'
  <2>. SUFFICES ASSUME ~ record'.astray, screen'.open, Calm' PROVE LoadsTrue'
    BY DEF ScreenInv
  <2>1. \A k \in K : Same(k, f[k])
    BY <1>10 DEF Same
  <2>2. Calm
    <3>1. \A k \in K : Same(k, f[k]) /\ (requests'[f[k]].kind = "execute" /\ requests'[f[k]].phase = "sent"
                                          => requests[k].phase = "sent")
      BY <1>10, <2>1
    <3>2. Placed(K, f, m) /\ m = 0
      BY <1>10
    <3>. HIDE DEF K
    <3>. QED  BY <1>1, <3>1, <3>2, CalmBefore
  <2>3. LoadsTrue
    BY <1>3, <1>4, <2>2 DEF DashInv, ScreenInv
  <2>4. CASE c.live
    <3>1. Load(c) /\ c.phase # "sent" /\ ~ over
      BY <1>1, <1>4, <2>4 DEF Load
    <3>2. Good(c.data, screen.min, record.moved) \/ \E j \in DOMAIN requests : i < j /\ Load(requests[j])
      BY <2>3, <3>1 DEF LoadsTrue
    <3>3. \A k \in K : Load(requests[k]) => i < k
      <4>1. ASSUME NEW k \in K, Load(requests[k]) PROVE i < k
        <5>1. k \in Nat \ {0} /\ i \in Nat /\ k # i
          BY LenProperties DEF DashInv, DashTypes
        <5>2. k < i => k \in 1 .. i - 1
          BY <5>1
        <5>. QED  BY <3>1, <4>1, <5>1, <5>2 DEF Load
      <4>. QED  BY <4>1
    <3>4. ASSUME NEW j \in DOMAIN requests', Load(requests'[j])
          PROVE  \/ requests'[j].phase = "sent" \/ Good(requests'[j].data, screen'.min, record'.moved)
                 \/ \E l \in DOMAIN requests' : j < l /\ Load(requests'[l])
      <4>1. PICK k \in K : j = f[k] /\ requests'[j] = requests[k]
        BY <1>10 DEF Placed
      <4>2. \/ requests[k].phase = "sent" \/ Good(requests[k].data, screen.min, record.moved)
            \/ \E l \in DOMAIN requests : k < l /\ Load(requests[l])
        BY <2>3, <3>4, <4>1 DEF LoadsTrue
      <4>3. CASE \E l \in DOMAIN requests : k < l /\ Load(requests[l])
        <5>1. PICK l \in DOMAIN requests : k < l /\ Load(requests[l])
          BY <4>3
        <5>2. l # i
          <6>1. i < k
            BY <3>3, <3>4, <4>1
          <6>2. k \in Nat /\ l \in Nat /\ i \in Nat
            BY LenProperties DEF DashInv, DashTypes
          <6>. QED  BY <5>1, <6>1, <6>2
        <5>3. f[l] \in DOMAIN requests' /\ f[k] < f[l] /\ requests'[f[l]] = requests[l]
          BY <1>10, <5>1, <5>2 DEF Placed
        <5>. QED  BY <4>1, <5>1, <5>3
      <4>. QED  BY <1>3, <1>4, <4>1, <4>2, <4>3
    <3>5. ASSUME \A j \in DOMAIN requests' : ~ Load(requests'[j])
          PROVE  Good(screen'.dash, screen'.min, record'.moved)
      <4>1. \A k \in K : ~ Load(requests[k])
        BY <1>10, <3>5 DEF Placed
      <4>2. ~ \E j \in DOMAIN requests : i < j /\ Load(requests[j])
        <5>1. i \in Nat
          BY LenProperties DEF DashInv, DashTypes
        <5>. QED  BY <4>1, <5>1
      <4>. QED  BY <1>3, <1>4, <2>4, <3>2, <4>2
    <3>. QED  BY <3>4, <3>5 DEF LoadsTrue
  <2>5. CASE ~ c.live
    <3>1. \A k \in DOMAIN requests \ K : ~ Load(requests[k])
      BY <2>5 DEF Load
    <3>2. \A k \in K :
            /\ Load(requests'[f[k]]) <=> Load(requests[k])
            /\ Load(requests[k]) =>
                 \/ requests'[f[k]].phase = "sent"
                 \/ requests'[f[k]].phase = requests[k].phase /\ requests'[f[k]].data = requests[k].data
                 \/ Good(requests'[f[k]].data, screen'.min, record'.moved)
      BY <1>10
    <3>3. screen'.min = screen.min /\ screen'.dash = screen.dash /\ record'.moved \subseteq record.moved
      BY <1>3, <1>4, <2>5
    <3>4. Placed(K, f, m) /\ m = 0
      BY <1>10
    <3>. HIDE DEF K
    <3>. QED  BY <2>3, <3>1, <3>2, <3>3, <3>4, LoadsGoOn
  <2>. QED  BY <1>2, <2>4, <2>5
<1>12. compute # Sums!NoJob => compute.call # i
  BY <1>1, NotComputed
<1>13. \A x \in DashCalls : <<>> # <<x>>
  OBVIOUS
<1>. QED  BY <1>1, <1>4, <1>7, <1>8, <1>9, <1>11, <1>12, <1>13, Ended


\* One more request, and the screen as it was.
LEMMA AskedSafe ==
  ASSUME DashInv, NEW c \in DashCalls, requests' = Append(requests, c), c.phase = "sent",
         UNCHANGED <<base, memo, compute, screen, card, known>>,
         record' \in Records, record'.moved = record.moved, record'.astray = record.astray,
         Fits(c, screen, card, record.astray), ~ LiveRun(c), ~ Load(c),
         CardStatus(c) => \A k \in DOMAIN requests : ~ CardStatus(requests[k])
  PROVE  DashInv'
<1>1. requests' \in Seq(DashCalls)
  BY AppendProperties DEF DashInv, DashTypes
<1>2. DashTypes' /\ CardInv'
  BY <1>1 DEF DashInv, DashTypes, CardInv
<1>3. Steady
  BY DEF Steady
<1>4. /\ \A k \in DOMAIN requests : Fits(requests[k], screen', card', record'.astray)
      /\ Fits(c, screen', card', record'.astray)
  BY DEF DashInv, CallsInv
<1>. QED  BY <1>2, <1>3, <1>4, Sent

LEMMA PollsSafe == ASSUME DashInv, Sums!Polls PROVE DashInv'
<1>. DEFINE c == Sums!Call("status", "screen", screen.min)
<1>1. /\ screen.pending /\ requests' = Append(requests, c)
      /\ UNCHANGED <<base, memo, compute, screen, card, known, record>>
  BY DEF Sums!Polls
<1>2. /\ c \in DashCalls /\ c.kind = "status" /\ c.by = "screen" /\ c.min = screen.min
      /\ c.phase = "sent" /\ c.live
  BY NoDashTypes DEF Sums!Call, DashCalls, DashInv, DashTypes, Screens
<1>. HIDE DEF c
<1>3. Fits(c, screen, card, record.astray) /\ ~ LiveRun(c) /\ ~ Load(c) /\ ~ CardStatus(c)
  BY <1>1, <1>2 DEF Fits, LiveRun, Load, CardStatus, DashInv, CardInv
<1>4. record' \in Records
  BY <1>1 DEF DashInv, DashTypes
<1>. QED  BY <1>1, <1>2, <1>3, <1>4, AskedSafe

LEMMA CardPollsSafe == ASSUME DashInv, Sums!CardPolls PROVE DashInv'
<1>. DEFINE c == Sums!Call("status", "card", card.min)
<1>1. /\ card.polling /\ requests' = Append(requests, c)
      /\ \A k \in DOMAIN requests : ~ CardStatus(requests[k])
      /\ UNCHANGED <<base, memo, compute, screen, card, known, record>>
  BY DEF Sums!CardPolls, CardStatus
<1>2. card.min \in Thresholds
  BY <1>1 DEF DashInv, CardInv
<1>3. /\ c \in DashCalls /\ c.kind = "status" /\ c.by = "card" /\ c.min = card.min
      /\ c.phase = "sent" /\ c.live
  BY <1>2, NoDashTypes DEF Sums!Call, DashCalls
<1>. HIDE DEF c
<1>4. Fits(c, screen, card, record.astray) /\ ~ LiveRun(c) /\ ~ Load(c)
  BY <1>1, <1>3 DEF Fits, LiveRun, Load, DashInv, CardInv
<1>5. record' \in Records
  BY <1>1 DEF DashInv, DashTypes
<1>. QED  BY <1>1, <1>3, <1>4, <1>5, AskedSafe

LEMMA EditWordsSafe == ASSUME DashInv, Sums!EditWords PROVE DashInv'
<1>. DEFINE c == Sums!Call("words", "screen", screen.min)
<1>1. PICK n : n = record.deeds + 1
  OBVIOUS
<1>2. /\ screen.open /\ requests' = Append(requests, c) /\ record' = [record EXCEPT !.deeds = n]
      /\ UNCHANGED <<base, memo, compute, screen, card, known>>
  BY <1>1 DEF Sums!EditWords, Sums!Deed, DashInv, DashTypes, Records
<1>3. /\ c \in DashCalls /\ c.kind = "words" /\ c.by = "screen" /\ c.min = screen.min
      /\ c.phase = "sent" /\ c.live
  BY NoDashTypes DEF Sums!Call, DashCalls, DashInv, DashTypes, Screens
<1>. HIDE DEF c
<1>4. Fits(c, screen, card, record.astray) /\ ~ LiveRun(c) /\ ~ Load(c) /\ ~ CardStatus(c)
  BY <1>2, <1>3 DEF Fits, LiveRun, Load, CardStatus
<1>5. n \in Nat
  BY <1>1 DEF DashInv, DashTypes, Records
<1>6. record' \in Records /\ record'.moved = record.moved /\ record'.astray = record.astray
  BY <1>2, <1>5 DEF DashInv, DashTypes, Records
<1>. QED  BY <1>2, <1>3, <1>4, <1>6, AskedSafe

LEMMA WordsArriveSafe ==
  ASSUME DashInv, NEW i \in DOMAIN requests, Sums!WordsArrive(i)
  PROVE  DashInv'
<1>. DEFINE c == requests[i]
            r == [Sums!Call("load", "refresh", c.min) EXCEPT !.live = c.live]
<1>1. /\ c.kind = "words" /\ c.phase = "answered" /\ compute' = Sums!Moved(i)
      /\ Sums!Settled(i, Sums!Refresh(c)) /\ UNCHANGED <<base, memo, screen, card, known, record>>
  BY DEF Sums!WordsArrive
<1>2. /\ Sums!Refresh(c) = <<r>> /\ r \in DashCalls /\ r.phase = "sent" /\ Load(r) = c.live
      /\ r.by = "refresh" /\ r.kind = "load" /\ r.min = c.min /\ r.live = c.live
  BY Sequels
<1>. HIDE DEF r
<1>3. Fits(r, screen, card, record.astray) /\ ~ CardStatus(r) /\ ~ LiveRun(r)
  BY <1>1, <1>2 DEF Fits, LiveRun, CardStatus, DashInv, CallsInv
<1>4. requests' \in Seq(DashCalls) /\ compute' \in Jobs
  BY <1>1, <1>2, SettledTypes, MovedTypes
<1>5. DashTypes' /\ CardInv'
  BY <1>1, <1>4 DEF DashInv, DashTypes, CardInv
<1>6. \A x : <<r>> = <<x>> => x = r
  OBVIOUS
<1>7. \A k \in DOMAIN requests \ {i} : Fits(requests[k], screen', card', record'.astray)
  BY <1>1 DEF DashInv, CallsInv
<1>8. \A x \in DashCalls : <<r>> = <<x>> => /\ x.phase = "sent" /\ ~ CardStatus(x) /\ ~ LiveRun(x)
                                          /\ Fits(x, screen', card', record'.astray)
  BY <1>1, <1>2, <1>3, <1>6
<1>9. \/ \E x \in DashCalls : <<r>> = <<x>> /\ Load(x)
      \/ Steady /\ ~ Load(c) /\ \A x \in DashCalls : <<r>> = <<x>> => ~ Load(x)
  BY <1>1, <1>2, <1>6 DEF Steady, Load
<1>10. compute # Sums!NoJob => compute.call # i
  BY <1>1, NotComputed
<1>11. PICK more : more = <<r>>
  OBVIOUS
<1>12. Sums!Settled(i, more) /\ \E x \in DashCalls : more = <<x>>
  BY <1>1, <1>2, <1>11
<1>. QED  BY <1>1, <1>5, <1>7, <1>8, <1>9, <1>10, <1>11, <1>12, Ended

\* Once nothing is queued the run is over, and nothing moves while the figures are asked for.
LEMMA StatusArrivesSafe ==
  ASSUME DashInv, NEW i \in DOMAIN requests, Sums!StatusArrives(i)
  PROVE  DashInv'
<1>. DEFINE c == requests[i]
            drained == ~ c.data.queued
            r == [Sums!Call("load", "refresh", c.min) EXCEPT !.live = c.live]
            s == Sums!Stray(c.min)
            over == c.live /\ c.by = "card" /\ drained
<1>1. PICK more : more = IF drained THEN Sums!Refresh(c) ELSE Sums!Again(c)
  OBVIOUS
<1>2. /\ c.kind = "status" /\ c.phase = "answered" /\ Sums!Settled(i, more)
      /\ compute' = Sums!Moved(i) /\ UNCHANGED <<base, memo, known, record>>
      /\ screen' = (IF c.live /\ c.by = "screen" THEN [screen EXCEPT !.pending = c.data.queued] ELSE screen)
      /\ card' = (IF over THEN [card EXCEPT !.mode = "done", !.polling = FALSE] ELSE card)
  BY <1>1 DEF Sums!StatusArrives
<1>3. c \in DashCalls /\ c.data.queued \in BOOLEAN /\ c.live \in BOOLEAN
  <2>1. c \in DashCalls
    BY LenProperties DEF DashInv, DashTypes
  <2>. QED  BY <2>1 DEF DashCalls, Dashes
<1>4. /\ Sums!Refresh(c) = <<r>> /\ r \in DashCalls /\ r.phase = "sent" /\ Load(r) = c.live
      /\ r.by = "refresh" /\ r.kind = "load" /\ r.min = c.min /\ r.live = c.live
      /\ Sums!Again(c) = <<>> \/ Sums!Again(c) = <<s>>
      /\ s \in DashCalls /\ s.phase = "sent" /\ s.kind = "status" /\ s.by = "stray" /\ ~ s.live
  BY Sequels
<1>. HIDE DEF r, s
<1>5. more = <<>> \/ (more = <<r>> /\ drained) \/ more = <<s>>
  BY <1>1, <1>4
<1>6. c.live => screen.open
  BY DEF DashInv, CallsInv, Fits
<1>7. /\ screen' \in Screens /\ screen'.open = screen.open /\ screen'.min = screen.min
      /\ screen'.dash = screen.dash /\ (screen'.pending => screen'.open)
  BY <1>2, <1>3, <1>6 DEF DashInv, DashTypes, Screens, CardInv
<1>8. /\ over => card'.mode = "done" /\ ~ card'.polling
      /\ ~ over => card' = card
      /\ card' \in Cards
  BY <1>2 DEF DashInv, DashTypes, Cards
<1>9. DashTypes'
  <2>1. more = <<>> \/ \E x \in DashCalls : more = <<x>>
    BY <1>4, <1>5
  <2>2. requests' \in Seq(DashCalls) /\ compute' \in Jobs
    BY <1>2, <2>1, SettledTypes, MovedTypes
  <2>. QED  BY <1>2, <1>7, <1>8, <2>2 DEF DashInv, DashTypes
<1>10. CardInv'
  BY <1>2, <1>7, <1>8 DEF DashInv, CardInv
<1>11. over => card.polling
  BY <1>2 DEF DashInv, CallsInv, Fits
<1>12. \A k \in DOMAIN requests \ {i} : Fits(requests[k], screen', card', record'.astray)
  <2>. SUFFICES ASSUME NEW k \in DOMAIN requests \ {i} PROVE Fits(requests[k], screen', card', record'.astray)
    OBVIOUS
  <2>1. Fits(requests[k], screen, card, record.astray)
    BY DEF DashInv, CallsInv
  <2>2. over => ~ CardStatus(requests[k])
    BY <1>2 DEF DashInv, CallsInv, CardStatus
  <2>. QED  BY <1>2, <1>7, <1>8, <1>11, <2>1, <2>2 DEF Fits, CardStatus
<1>13. Fits(r, screen', card', record'.astray) /\ ~ CardStatus(r) /\ ~ LiveRun(r)
  BY <1>2, <1>4, <1>7 DEF Fits, LiveRun, CardStatus, DashInv, CallsInv
<1>14. Fits(s, screen', card', record'.astray) /\ ~ CardStatus(s) /\ ~ LiveRun(s) /\ ~ Load(s)
  BY <1>4 DEF Fits, LiveRun, CardStatus, Load
<1>15. \A x : more = <<x>> => (x = r /\ drained) \/ x = s
  BY <1>5
<1>16. /\ more = <<>> \/ \E x \in DashCalls : more = <<x>>
       /\ \A x \in DashCalls : more = <<x>> => /\ x.phase = "sent" /\ ~ CardStatus(x) /\ ~ LiveRun(x)
                                               /\ Fits(x, screen', card', record'.astray)
  BY <1>4, <1>5, <1>13, <1>14, <1>15
<1>17. \/ \E x \in DashCalls : more = <<x>> /\ Load(x)
       \/ Steady /\ ~ Load(c) /\ \A x \in DashCalls : more = <<x>> => ~ Load(x)
  <2>1. CASE c.live /\ drained
    BY <1>1, <1>4, <2>1
  <2>2. CASE ~ (c.live /\ drained)
    <3>1. \A x \in DashCalls : more = <<x>> => ~ Load(x)
      BY <1>4, <1>14, <1>15, <2>2
    <3>2. Steady
      BY <1>2, <1>7, <1>8, <2>2 DEF Steady
    <3>. QED  BY <1>2, <3>1, <3>2 DEF Load
  <2>. QED  BY <2>1, <2>2
<1>18. compute # Sums!NoJob => compute.call # i
  BY <1>2, NotComputed
<1>. QED  BY <1>2, <1>9, <1>10, <1>12, <1>16, <1>17, <1>18, Ended

LEMMA FailsSafe ==
  ASSUME DashInv, NEW i \in DOMAIN requests, Sums!Fails(i)
  PROVE  DashInv'
<1>. DEFINE c == requests[i]
            s == Sums!Stray(c.min)
            run == c.kind = "execute" /\ c.live
<1>1. PICK more, n : more = Sums!Again(c) /\ n = IF c.phase = "lost" THEN record.deeds ELSE record.deeds + 1
  OBVIOUS
<1>2. /\ c.phase = "lost" \/ (c.phase = "sent" /\ compute.call # i)
      /\ Sums!Settled(i, more) /\ compute' = Sums!Moved(i) /\ UNCHANGED <<base, memo, known>>
      /\ screen' = [screen EXCEPT !.error = @ \/ (c.by = "effect" /\ c.live)]
      /\ card' = (IF run THEN [card EXCEPT !.mode = "error"] ELSE card)
      /\ record' = [record EXCEPT !.deeds = n, !.astray = @ \/ c.kind = "load"]
  BY <1>1 DEF Sums!Fails, DashInv, DashTypes, Records
<1>3. c \in DashCalls /\ c.live \in BOOLEAN
  <2>1. c \in DashCalls
    BY LenProperties DEF DashInv, DashTypes
  <2>. QED  BY <2>1 DEF DashCalls
<1>4. /\ Sums!Again(c) = <<>> \/ Sums!Again(c) = <<s>>
      /\ s \in DashCalls /\ s.phase = "sent" /\ s.kind = "status" /\ s.by = "stray" /\ ~ s.live
  BY Sequels
<1>. HIDE DEF s
<1>5. /\ more = <<>> \/ more = <<s>>
      /\ \A x : more = <<x>> => x = s
  <2>1. more = <<>> \/ more = <<s>>
    BY <1>1, <1>4
  <2>. QED  BY <2>1
<1>6. n \in Nat
  BY <1>1 DEF DashInv, DashTypes, Records
<1>7. /\ screen' \in Screens /\ screen'.open = screen.open /\ screen'.min = screen.min
      /\ screen'.dash = screen.dash /\ screen'.pending = screen.pending
  BY <1>2, <1>3 DEF DashInv, DashTypes, Screens
<1>8. /\ card' \in Cards /\ card'.min = card.min /\ card'.polling = card.polling
      /\ run => card'.mode = "error"
      /\ ~ run => card' = card
  BY <1>2 DEF DashInv, DashTypes, Cards
<1>9. /\ record' \in Records /\ record'.moved = record.moved
      /\ record'.astray = (record.astray \/ c.kind = "load")
  BY <1>2, <1>6 DEF DashInv, DashTypes, Records
<1>10. DashTypes'
  <2>1. more = <<>> \/ \E x \in DashCalls : more = <<x>>
    BY <1>4, <1>5
  <2>2. requests' \in Seq(DashCalls) /\ compute' \in Jobs
    BY <1>2, <2>1, SettledTypes, MovedTypes
  <2>. QED  BY <1>2, <1>7, <1>8, <1>9, <2>2 DEF DashInv, DashTypes
<1>11. run => card.mode = "running" /\ ~ card.polling
  BY DEF DashInv, CallsInv, Fits
<1>12. CardInv'
  BY <1>7, <1>8, <1>9, <1>11 DEF DashInv, CardInv
<1>13. \A k \in DOMAIN requests \ {i} : Fits(requests[k], screen', card', record'.astray)
  <2>. SUFFICES ASSUME NEW k \in DOMAIN requests \ {i} PROVE Fits(requests[k], screen', card', record'.astray)
    OBVIOUS
  <2>1. Fits(requests[k], screen, card, record.astray)
    BY DEF DashInv, CallsInv
  <2>2. run => ~ LiveRun(requests[k])
    BY DEF DashInv, CallsInv, LiveRun
  <2>3. record.astray => record'.astray
    BY <1>9
  <2>. QED  BY <1>7, <1>8, <2>1, <2>2, <2>3 DEF Fits, LiveRun
<1>14. Fits(s, screen', card', record'.astray) /\ ~ CardStatus(s) /\ ~ LiveRun(s) /\ ~ Load(s)
  BY <1>4 DEF Fits, LiveRun, CardStatus, Load
<1>15. /\ more = <<>> \/ \E x \in DashCalls : more = <<x>>
       /\ \A x \in DashCalls : more = <<x>> => /\ x.phase = "sent" /\ ~ CardStatus(x) /\ ~ LiveRun(x)
                                               /\ Fits(x, screen', card', record'.astray)
  BY <1>4, <1>5, <1>14
<1>16. \/ ScreenInv'
       \/ Steady /\ ~ Load(c) /\ \A x \in DashCalls : more = <<x>> => ~ Load(x)
  <2>1. CASE record'.astray
    BY <2>1 DEF ScreenInv
  <2>2. CASE ~ record'.astray /\ ~ run
    <3>1. Steady
      BY <1>7, <1>8, <1>9, <2>2 DEF Steady
    <3>2. ~ Load(c) /\ \A x \in DashCalls : more = <<x>> => ~ Load(x)
      BY <1>5, <1>9, <1>14, <2>2 DEF Load
    <3>. QED  BY <3>1, <3>2
  <2>3. CASE ~ record'.astray /\ run
    <3>1. c.phase = "sent"
      BY <1>2, <1>9, <2>3 DEF DashInv, CallsInv, Fits
    <3>2. Calm
      BY <2>3, <3>1 DEF Calm, LiveRun
    <3>3. screen.open => LoadsTrue
      BY <1>9, <2>3, <3>2 DEF DashInv, ScreenInv
    <3>4. LoadsTrue => LoadsTrue'
      <4>. DEFINE K == DOMAIN requests \ {i}
      <4>1. PICK f, m : /\ Placed(K, f, m) /\ \A k \in K : requests'[f[k]] = requests[k]
                        /\ m # 0 => more = <<requests'[m]>>
        <5>1. \E f, m : Follows(i, more, f, m)
          BY <1>2, <1>15, RequestEnds DEF DashInv, DashTypes
        <5>. QED  BY <5>1 DEF Follows
      <4>2. \A k \in DOMAIN requests \ K : ~ Load(requests[k])
        BY <2>3 DEF Load
      <4>3. m # 0 => ~ Load(requests'[m])
        BY <1>5, <1>14, <4>1
      <4>4. \A k \in K :
              /\ Load(requests'[f[k]]) <=> Load(requests[k])
              /\ Load(requests[k]) =>
                   \/ requests'[f[k]].phase = "sent"
                   \/ requests'[f[k]].phase = requests[k].phase /\ requests'[f[k]].data = requests[k].data
                   \/ Good(requests'[f[k]].data, screen'.min, record'.moved)
        BY <4>1
      <4>5. record'.moved \subseteq record.moved
        BY <1>9
      <4>. HIDE DEF K
      <4>. QED  BY <1>7, <4>1, <4>2, <4>3, <4>4, <4>5, LoadsGoOn
    <3>. QED  BY <1>7, <3>3, <3>4 DEF ScreenInv
  <2>. QED  BY <2>1, <2>2, <2>3
<1>17. compute # Sums!NoJob => compute.call # i
  BY <1>2, NotComputed
<1>. QED  BY <1>2, <1>9, <1>10, <1>12, <1>13, <1>15, <1>16, <1>17, Ended

-----------------------------------------------------------------------------
(* The card *)

\* The card asks, and nothing runs.
LEMMA CardTurns ==
  ASSUME DashInv, UNCHANGED <<base, memo, compute, screen, known, requests, record>>, card' \in Cards,
         card.mode # "running", card'.mode # "running", ~ card'.polling
  PROVE  DashInv'
<1>1. ~ card.polling
  BY DEF DashInv, CardInv
<1>2. DashTypes' /\ CacheInv' /\ JobInv' /\ CardInv'
  BY CacheRests DEF DashInv, DashTypes, JobInv, CardInv
<1>3. CallsInv'
  BY <1>1 DEF DashInv, CallsInv, Fits
<1>4. Calm /\ (LoadsTrue => LoadsTrue')
  BY DEF Calm, LoadsTrue
<1>. QED  BY <1>2, <1>3, <1>4 DEF DashInv, ScreenInv

LEMMA ConfirmSafe == ASSUME DashInv, Sums!Confirm \/ Sums!Cancel PROVE DashInv'
<1>1. /\ UNCHANGED <<base, memo, compute, screen, known, requests, record>> /\ card.mode # "running"
      /\ card' = [card EXCEPT !.mode = "confirm"] \/ card' = [card EXCEPT !.mode = "idle"]
  BY DEF Sums!Confirm, Sums!Cancel
<1>2. card' \in Cards /\ card'.mode # "running" /\ card'.polling = card.polling
  BY <1>1 DEF DashInv, DashTypes, Cards
<1>3. ~ card.polling
  BY <1>1 DEF DashInv, CardInv
<1>. QED  BY <1>1, <1>2, <1>3, CardTurns

LEMMA ExecuteSafe == ASSUME DashInv, Sums!Execute PROVE DashInv'
<1>. DEFINE c == Sums!Call("execute", "card", screen.min)
<1>1. PICK n : n = record.runs + 1
  OBVIOUS
<1>2. /\ screen.open /\ card.mode # "running" /\ requests' = Append(requests, c)
      /\ card' = [mode |-> "running", min |-> screen.min, polling |-> FALSE]
      /\ record' = [record EXCEPT !.runs = n, !.mispriced = @ \/ screen.dash.of # screen.min]
      /\ UNCHANGED <<base, memo, compute, screen, known>>
  BY <1>1 DEF Sums!Execute, Sums!Shown, DashInv, DashTypes, Records
<1>3. screen.min \in Thresholds /\ screen.min \in Nat
  BY Sizes DEF DashInv, DashTypes, Screens
<1>4. /\ c \in DashCalls /\ c.kind = "execute" /\ c.by = "card" /\ c.min = screen.min
      /\ c.phase = "sent" /\ c.live
  BY <1>3, NoDashTypes DEF Sums!Call, DashCalls
<1>. HIDE DEF c
<1>5. n \in Nat
  BY <1>1 DEF DashInv, DashTypes, Records
<1>6. record' \in Records /\ record'.moved = record.moved /\ record'.astray = record.astray
  BY <1>2, <1>5 DEF DashInv, DashTypes, Records
<1>7. card' \in Cards /\ card'.mode = "running" /\ card'.min = screen.min /\ ~ card'.polling
  BY <1>2, <1>3 DEF Cards
<1>8. requests' \in Seq(DashCalls)
  BY <1>2, <1>4, AppendProperties DEF DashInv, DashTypes
<1>9. DashTypes' /\ CardInv'
  BY <1>2, <1>3, <1>6, <1>7, <1>8 DEF DashInv, DashTypes, CardInv
<1>10. ~ card.polling
  BY <1>2 DEF DashInv, CardInv
<1>11. \A k \in DOMAIN requests : Fits(requests[k], screen', card', record'.astray)
  BY <1>2, <1>6, <1>7, <1>10 DEF DashInv, CallsInv, Fits
<1>12. /\ Fits(c, screen', card', record'.astray) /\ ~ CardStatus(c) /\ ~ Load(c)
       /\ LiveRun(c) => card.mode # "running"
  BY <1>2, <1>4, <1>7 DEF Fits, CardStatus, Load
<1>13. Steady
  BY <1>2, <1>6 DEF Steady
<1>. QED  BY <1>2, <1>4, <1>6, <1>9, <1>11, <1>12, <1>13, Sent

LEMMA ExecuteArrivesSafe ==
  ASSUME DashInv, NEW i \in DOMAIN requests, Sums!ExecuteArrives(i)
  PROVE  DashInv'
<1>. DEFINE c == requests[i]
            s == Sums!Stray(c.min)
<1>1. PICK more : more = IF c.live THEN <<>> ELSE <<s>>
  OBVIOUS
<1>2. /\ c.kind = "execute" /\ c.phase = "answered" /\ Sums!Settled(i, more)
      /\ compute' = Sums!Moved(i) /\ UNCHANGED <<base, memo, screen, known, record>>
      /\ card' = (IF c.live THEN [card EXCEPT !.polling = TRUE] ELSE card)
  BY <1>1 DEF Sums!ExecuteArrives
<1>3. s \in DashCalls /\ s.phase = "sent" /\ s.kind = "status" /\ s.by = "stray" /\ ~ s.live
  BY Sequels
<1>. HIDE DEF s
<1>4. /\ more = <<>> \/ more = <<s>>
      /\ \A x : more = <<x>> => x = s
  BY <1>1
<1>5. c.live => card.mode = "running"
  BY <1>2 DEF DashInv, CallsInv, Fits
<1>6. /\ card' \in Cards /\ card'.mode = card.mode /\ card'.min = card.min
      /\ c.live => card'.polling
      /\ ~ c.live => card' = card
  BY <1>2 DEF DashInv, DashTypes, Cards
<1>7. requests' \in Seq(DashCalls) /\ compute' \in Jobs
  <2>1. more = <<>> \/ \E x \in DashCalls : more = <<x>>
    BY <1>3, <1>4
  <2>. QED  BY <1>2, <2>1, SettledTypes, MovedTypes
<1>8. DashTypes'
  BY <1>2, <1>6, <1>7 DEF DashInv, DashTypes
<1>9. CardInv'
  BY <1>2, <1>5, <1>6 DEF DashInv, CardInv
<1>10. \A k \in DOMAIN requests \ {i} : Fits(requests[k], screen', card', record'.astray)
  <2>. SUFFICES ASSUME NEW k \in DOMAIN requests \ {i} PROVE Fits(requests[k], screen', card', record'.astray)
    OBVIOUS
  <2>1. Fits(requests[k], screen, card, record.astray)
    BY DEF DashInv, CallsInv
  <2>2. c.live => ~ LiveRun(requests[k])
    BY <1>2 DEF DashInv, CallsInv, LiveRun
  <2>. QED  BY <1>2, <1>6, <2>1, <2>2 DEF Fits, LiveRun
<1>11. Fits(s, screen', card', record'.astray) /\ ~ CardStatus(s) /\ ~ LiveRun(s) /\ ~ Load(s)
  BY <1>3 DEF Fits, LiveRun, CardStatus, Load
<1>12. /\ more = <<>> \/ \E x \in DashCalls : more = <<x>>
       /\ \A x \in DashCalls : more = <<x>> => /\ x.phase = "sent" /\ ~ CardStatus(x) /\ ~ LiveRun(x)
                                               /\ Fits(x, screen', card', record'.astray)
  BY <1>3, <1>4, <1>11
<1>13. Steady /\ ~ Load(c) /\ \A x \in DashCalls : more = <<x>> => ~ Load(x)
  BY <1>2, <1>4, <1>6, <1>11 DEF Steady, Load
<1>14. compute # Sums!NoJob => compute.call # i
  BY <1>2, NotComputed
<1>15. record'.moved = record.moved
  BY <1>2
<1>. QED  BY <1>2, <1>8, <1>9, <1>10, <1>12, <1>13, <1>14, <1>15, Ended

-----------------------------------------------------------------------------

LEMMA DashStarts == ASSUME Sums!Init PROVE DashInv
<1>1. DashTypes
  <2>1. /\ base \in [mail : SUBSET Sums!Msgs, words : {FALSE}, queue : {{}}, version : {0}]
        /\ memo = <<>> /\ compute = Sums!NoJob /\ requests = <<>>
        /\ screen \in [open : {FALSE}, min : Thresholds, dash : {Sums!NoDash}, pending : {FALSE}, error : {FALSE}]
        /\ card = [mode |-> "idle", min |-> 0, polling |-> FALSE]
        /\ known = [t \in Thresholds |-> Sums!NoDash]
        /\ record = [writes |-> 0, runs |-> 0, deeds |-> 0, moved |-> {}, astray |-> FALSE,
                     mispriced |-> FALSE, recovered |-> FALSE]
    BY DEF Sums!Init
  <2>2. base \in Bases /\ card \in Cards /\ record \in Records
    <3>1. base \in Bases
      <4>1. {FALSE} \subseteq BOOLEAN /\ {{}} \subseteq SUBSET Sums!Msgs /\ {0} \subseteq Nat
        OBVIOUS
      <4>2. /\ base.mail \in SUBSET Sums!Msgs /\ base.words \in {FALSE} /\ base.queue \in {{}}
            /\ base.version \in {0}
            /\ base = [mail |-> base.mail, words |-> base.words, queue |-> base.queue, version |-> base.version]
        BY <2>1
      <4>. QED  BY <4>1, <4>2 DEF Bases
    <3>2. card \in Cards /\ record \in Records
      BY <2>1 DEF Cards, Records
    <3>. QED  BY <3>1, <3>2
  <2>3. screen \in Screens /\ known \in [Thresholds -> Dashes]
    BY <2>1, NoDashTypes DEF Screens
  <2>4. compute \in Jobs
    BY <2>1 DEF Sums!NoJob, Jobs
  <2>5. memo \in Seq(Slices) /\ requests \in Seq(DashCalls)
    BY <2>1
  <2>. QED  BY <2>2, <2>3, <2>4, <2>5 DEF DashTypes
<1>2. memo = <<>> /\ requests = <<>> /\ DOMAIN memo = {} /\ DOMAIN requests = {}
      /\ record.moved = {} /\ compute = Sums!NoJob
  BY DEF Sums!Init
<1>3. ~ screen.open /\ ~ screen.pending /\ card.mode = "idle" /\ ~ card.polling
  BY DEF Sums!Init
<1>. QED  BY <1>1, <1>2, <1>3 DEF DashInv, CacheInv, JobInv, CallsInv, CardInv, ScreenInv

LEMMA DashStep == ASSUME DashInv, Sums!Next PROVE DashInv'
<1>1. CASE Sums!Computes \/ Sums!Finish
  BY <1>1, ComputesSafe, FinishSafe
<1>2. CASE Sums!Open \/ Sums!Leave
  BY <1>2, OpenSafe, LeaveSafe
<1>3. CASE Sums!Polls \/ Sums!CardPolls \/ Sums!EditWords
  BY <1>3, PollsSafe, CardPollsSafe, EditWordsSafe
<1>4. CASE Sums!Confirm \/ Sums!Cancel \/ Sums!Execute
  BY <1>4, ConfirmSafe, ExecuteSafe
<1>5. CASE \E x \in Sums!Msgs : Sums!WorkerWrites(x) \/ Sums!Drains(x)
  BY <1>5, WorkerSafe, DrainsSafe
<1>6. CASE \E min \in Thresholds : Sums!Retune(min)
  BY <1>6, RetuneSafe
<1>7. CASE \E i \in DOMAIN requests :
             \/ Sums!Begin(i) \/ Sums!ServeStatus(i) \/ Sums!ServeExecute(i) \/ Sums!ServeWords(i)
             \/ Sums!Arrives(i) \/ Sums!StatusArrives(i) \/ Sums!WordsArrive(i)
             \/ Sums!ExecuteArrives(i) \/ Sums!Fails(i)
  BY <1>7, BeginSafe, ServeStatusSafe, ServeExecuteSafe, ServeWordsSafe, ArrivesSafe,
     StatusArrivesSafe, WordsArriveSafe, ExecuteArrivesSafe, FailsSafe
<1>. QED  BY <1>1, <1>2, <1>3, <1>4, <1>5, <1>6, <1>7 DEF Sums!Next

LEMMA DashRests == ASSUME DashInv, UNCHANGED dashVars PROVE DashInv'
<1>1. /\ base' = base /\ memo' = memo /\ compute' = compute /\ screen' = screen /\ card' = card
      /\ known' = known /\ requests' = requests /\ record' = record
  BY DEF dashVars
<1>2. DashTypes' /\ JobInv'
  BY <1>1 DEF DashInv, DashTypes, JobInv
<1>3. CacheInv'
  BY <1>1, CacheRests DEF DashInv
<1>. QED  BY <1>1, <1>2, <1>3, ServerOnly DEF DashInv, DashTypes

\* At rest nothing runs and nothing is under way: what is shown is right.
LEMMA RestIsTrue == ASSUME DashInv PROVE Sums!FiguresAreTrue
<1>1. \A k \in DOMAIN memo : memo[k].version = base.version => memo[k].data = Sums!Slice(memo[k].min)
  BY DEF DashInv, CacheInv, Dated
<1>2. ASSUME Sums!AtRest, ~ record.astray, screen.dash # Sums!NoDash
      PROVE  screen.dash.of = screen.min /\ screen.dash.figures \cap record.moved = {}
  <2>1. screen.open /\ Calm /\ \A i \in DOMAIN requests : ~ Load(requests[i])
    BY <1>2 DEF Sums!AtRest, Calm
  <2>2. Good(screen.dash, screen.min, record.moved)
    BY <1>2, <2>1 DEF DashInv, ScreenInv, LoadsTrue
  <2>. QED  BY <2>2 DEF Good
<1>. QED  BY <1>1, <1>2 DEF Sums!FiguresAreTrue

\* Cached figures of the current data are what the data gives, whatever another thread writes
\* while they are computed; and the dashboard at rest shows those of its thresholds, without
\* what it moved (cleanup/cache.ts, routes/Cleanup.tsx), but for what the module excepts.
THEOREM FiguresStayTrue == FairSpec => []FiguresAreTrue
<1>. DEFINE Inv == scene = "dash" => DashInv
<1>1. Init => Inv
  BY DashStarts DEF Init
<1>2. Inv /\ [Next]_vars => Inv'
  <2>. SUFFICES ASSUME Inv, [Next]_vars, scene' = "dash" PROVE DashInv'
    OBVIOUS
  <2>1. CASE Next
    <3>1. scene = "dash" /\ (Sums!Next \/ UNCHANGED dashVars)
      BY <2>1 DEF Next
    <3>. QED  BY <3>1, DashStep, DashRests
  <2>2. CASE UNCHANGED vars
    BY <2>2, DashRests DEF vars
  <2>. QED  BY <2>1, <2>2
<1>3. Inv => FiguresAreTrue
  BY RestIsTrue DEF FiguresAreTrue
<1>. QED  BY <1>1, <1>2, <1>3, PTL DEF FairSpec

-----------------------------------------------------------------------------
(* The inbox.  What an action on offer deleted is gone from the list: its  *)
(* removal is still to be heard of on the socket, with no restore behind   *)
(* it, or it was, and the tombstone stands.  What was finalised is not in  *)
(* the inbox unless its restore is still to be heard of.                   *)

SigKinds == {"new", "deleted", "flags", "restored"}
SigSet == [type : SigKinds, msg : Mails, seen : BOOLEAN]
Listings == UNION {[S -> BOOLEAN] : S \in SUBSET Mails}
NetSet == [kind : {"list", "get", "flags"}, msg : Mails \cup {"all"},
           phase : {"sent", "answered", "checked"}, data : Box!Rows, list : Listings]
CallKinds == {"none", "sent", "ok", "lost", "late"}
StageSet == [phase : {"none", "calling", "over", "undoing"}, ids : SUBSET Mails,
             snap : [Mails -> Box!Rows], call : [Mails -> CallKinds]]
HistorySet == [events : Nat, faults : Nat, missed : BOOLEAN, slipped : BOOLEAN, overlapped : BOOLEAN]
ServerSet == [place : {"none", "inbox", "hidden", "away"}, seen : BOOLEAN]
RowKinds == {"none", "open", "again", "committed", "failed", "undone"}

BoxTypes ==
  /\ server \in [Mails -> ServerSet]
  /\ outcome \in [Stages -> [Mails -> RowKinds]]
  /\ cached \in [Mails -> Box!Rows] /\ signals \in Seq(SigSet) /\ net \subseteq NetSet
  /\ \A r \in net : r.kind # "list" => r.msg \in Mails
  /\ stages \in [Stages -> StageSet] /\ history \in HistorySet

Busy(s) == stages[s].phase \in {"calling", "undoing"}

\* Action s deleted m, and may still be undone.
Taken(s, m) ==
  \/ stages[s].phase = "calling" /\ stages[s].call[m] = "ok"
  \/ pending # Box!NoStage /\ pending = s /\ m \in stages[s].ids

Twice(m) == \E s, t \in Stages : s # t /\ "none" \notin {outcome[s][m], outcome[t][m]}

\* The action on offer has its timer; short of an overlap one action at a time makes calls.
StagesInv ==
  /\ pending # Box!NoStage =>
       pending \in Stages /\ stages[pending].phase = "over" /\ timer = pending /\ pending \in timers
  /\ ~ history.overlapped =>
       \A s, t \in Stages : Busy(s) => pending = Box!NoStage /\ (Busy(t) => s = t)
  /\ \A s \in Stages :
       /\ Busy(s) => \A m \in Mails : stages[s].call[m] # "none" => m \in stages[s].ids
       /\ stages[s].phase = "none" => \A m \in Mails : outcome[s][m] = "none"

\* Mail that has yet to arrive is nowhere on the client.
Unborn(m) ==
  /\ ~ cached[m].in /\ m \notin committed
  /\ \A s \in Stages : m \notin stages[s].ids
  /\ \A r \in net : /\ r.kind = "list" => m \notin DOMAIN r.list
                    /\ r.kind = "get" /\ r.msg = m => ~ r.data.in
Born == \A m \in Mails : server[m].place = "none" => Unborn(m)

TakenInv ==
  \A s \in Stages, m \in Mails : Taken(s, m) => outcome[s][m] # "none" /\ (m \notin Box!Inbox \/ Twice(m))

\* The socket still has a signal of that kind about m.
ToldOf(m, type) == \E i \in DOMAIN signals : signals[i].type = type /\ signals[i].msg = m

ShownInv ==
  ~ history.missed => \A m \in committed \cap Box!Inbox : Twice(m) \/ ToldOf(m, "restored")

\* The removal of m is still to be heard of, and no restore after it.
Going(m) ==
  \E i \in DOMAIN signals :
    /\ signals[i].type = "deleted" /\ signals[i].msg = m
    /\ \A j \in DOMAIN signals : j > i /\ signals[j].msg = m => signals[j].type # "restored"

Unseen(m) == m \in tomb /\ ~ cached[m].in /\ ~ ToldOf(m, "restored")

Clean == ~ history.slipped /\ ~ history.overlapped /\ ~ history.missed

HiddenInv ==
  Clean => \A s \in Stages, m \in Mails : Taken(s, m) /\ m \notin Box!Inbox => Going(m) \/ Unseen(m)

BoxInv == BoxTypes /\ StagesInv /\ Born /\ TakenInv /\ ShownInv /\ HiddenInv

-----------------------------------------------------------------------------

LEMMA RowTypes ==
  /\ Box!NoRow \in Box!Rows /\ ~ Box!NoRow.in
  /\ \A i, v \in BOOLEAN : Box!Row(i, v) \in Box!Rows /\ Box!Row(i, v).in = i /\ Box!Row(i, v).seen = v
BY DEF Box!NoRow, Box!Row, Box!Rows

LEMMA NoAnswer == <<>> \in Listings /\ DOMAIN <<>> = {}
<1>1. <<>> \in [{} -> BOOLEAN] /\ DOMAIN <<>> = {}
  OBVIOUS
<1>2. {} \in SUBSET Mails
  OBVIOUS
<1>. QED  BY <1>1, <1>2 DEF Listings

LEMMA AskTypes ==
  /\ Box!List \in NetSet /\ Box!List.kind = "list" /\ DOMAIN Box!List.list = {}
  /\ \A m \in Mails : Box!Get(m) \in NetSet /\ Box!Get(m).kind = "get" /\ Box!Get(m).msg = m /\ ~ Box!Get(m).data.in
  /\ \A m \in Mails, v \in BOOLEAN :
       Box!SetSeen(m, v) \in NetSet /\ Box!SetSeen(m, v).kind = "flags" /\ Box!SetSeen(m, v).msg = m
BY RowTypes, NoAnswer DEF Box!List, Box!Get, Box!SetSeen, NetSet

LEMMA SpentTypes ==
  ASSUME history \in HistorySet
  PROVE  /\ Box!Spent \in HistorySet /\ Box!Spent.missed = history.missed
         /\ Box!Spent.slipped = history.slipped /\ Box!Spent.overlapped = history.overlapped
<1>1. PICK n : n = history.events + 1
  OBVIOUS
<1>2. Box!Spent = [history EXCEPT !.events = n] /\ n \in Nat
  BY <1>1 DEF Box!Spent, HistorySet
<1>. QED  BY <1>2 DEF HistorySet

LEMMA NotedTypes ==
  ASSUME NEW h \in HistorySet, NEW g, g = Box!Noted(h)
  PROVE  /\ g \in HistorySet /\ g.slipped = h.slipped /\ g.overlapped = h.overlapped
         /\ (g.missed <=> h.missed \/ ~ linked)
BY DEF Box!Noted, HistorySet

\* A signal sent comes last; one that is missed is noted.
LEMMA Emits ==
  ASSUME BoxTypes, NEW type \in SigKinds, NEW m \in Mails, Box!Emit(type, m), server'[m].seen \in BOOLEAN
  PROVE  /\ signals' \in Seq(SigSet)
         /\ linked => ToldOf(m, type)' /\ (type = "deleted" => Going(m)')
         /\ \A n, k : ToldOf(n, k) => ToldOf(n, k)'
         /\ \A n, k : ToldOf(n, k)' => ToldOf(n, k) \/ (n = m /\ k = type)
         /\ \A n : Going(n) /\ (n # m \/ type # "restored") => Going(n)'
<1>1. CASE ~ linked
  <2>1. signals' = signals
    BY <1>1 DEF Box!Emit
  <2>. QED  BY <1>1, <2>1 DEF BoxTypes, ToldOf, Going
<1>2. CASE linked
  <2>1. PICK e : e = [type |-> type, msg |-> m, seen |-> server'[m].seen]
    OBVIOUS
  <2>2. signals' = Append(signals, e) /\ e \in SigSet /\ e.type = type /\ e.msg = m
    BY <1>2, <2>1 DEF Box!Emit, SigSet
  <2>3. /\ signals' \in Seq(SigSet) /\ Len(signals) \in Nat /\ signals'[Len(signals) + 1] = e
        /\ DOMAIN signals' = 1 .. Len(signals) + 1 /\ DOMAIN signals = 1 .. Len(signals)
        /\ \A j \in DOMAIN signals : signals'[j] = signals[j]
    BY <2>2, OneAppended DEF BoxTypes
  <2>. DEFINE last == Len(signals) + 1
  <2>4. /\ last \in DOMAIN signals' /\ DOMAIN signals \subseteq DOMAIN signals'
        /\ \A j \in DOMAIN signals' : j = last \/ j \in DOMAIN signals
        /\ \A j \in DOMAIN signals' : ~ (j > last)
    BY <2>3
  <2>5. ToldOf(m, type)'
    BY <2>2, <2>3, <2>4 DEF ToldOf
  <2>6. type = "deleted" => Going(m)'
    BY <2>2, <2>3, <2>4 DEF Going
  <2>7. \A n, k : ToldOf(n, k) => ToldOf(n, k)'
    BY <2>3, <2>4 DEF ToldOf
  <2>8. \A n, k : ToldOf(n, k)' => ToldOf(n, k) \/ (n = m /\ k = type)
    BY <2>2, <2>3, <2>4 DEF ToldOf
  <2>9. ASSUME NEW n, Going(n), n # m \/ type # "restored" PROVE Going(n)'
    <3>1. PICK i \in DOMAIN signals :
            /\ signals[i].type = "deleted" /\ signals[i].msg = n
            /\ \A j \in DOMAIN signals : j > i /\ signals[j].msg = n => signals[j].type # "restored"
      BY <2>9 DEF Going
    <3>2. \A j \in DOMAIN signals' : j > i /\ signals'[j].msg = n => signals'[j].type # "restored"
      BY <2>2, <2>3, <2>4, <2>9, <3>1
    <3>. QED  BY <2>3, <2>4, <3>1, <3>2 DEF Going
  <2>. QED  BY <2>3, <2>5, <2>6, <2>7, <2>8, <2>9
<1>. QED  BY <1>1, <1>2

\* The first signal is taken off the socket.
LEMMA Hears ==
  ASSUME BoxTypes, signals # <<>>, signals' = Tail(signals), NEW g, g = Head(signals)
  PROVE  /\ signals' \in Seq(SigSet) /\ g \in SigSet
         /\ \A n, k : ToldOf(n, k)' => ToldOf(n, k)
         /\ \A n, k : ToldOf(n, k) => ToldOf(n, k)' \/ (n = g.msg /\ k = g.type)
         /\ \A n : Going(n) => Going(n)' \/ (g.msg = n /\ g.type = "deleted" /\ ~ ToldOf(n, "restored")')
<1>1. /\ signals' \in Seq(SigSet) /\ Len(signals) \in Nat \ {0} /\ Len(signals') = Len(signals) - 1
      /\ DOMAIN signals = 1 .. Len(signals) /\ DOMAIN signals' = 1 .. Len(signals) - 1
      /\ \A j \in 1 .. Len(signals) - 1 : signals'[j] = signals[j + 1]
      /\ g = signals[1] /\ g \in SigSet
  BY HeadTailProperties, LenProperties, EmptySeq DEF BoxTypes
<1>2. \A n, k : ToldOf(n, k)' => ToldOf(n, k)
  BY <1>1 DEF ToldOf
<1>3. \A j \in DOMAIN signals : j = 1 \/ (j - 1 \in DOMAIN signals' /\ signals'[j - 1] = signals[j])
  BY <1>1
<1>4. \A n, k : ToldOf(n, k) => ToldOf(n, k)' \/ (n = g.msg /\ k = g.type)
  BY <1>1, <1>3 DEF ToldOf
<1>5. ASSUME NEW n, Going(n), ~ Going(n)'
      PROVE  g.msg = n /\ g.type = "deleted" /\ ~ ToldOf(n, "restored")'
  <2>1. PICK i \in DOMAIN signals :
          /\ signals[i].type = "deleted" /\ signals[i].msg = n
          /\ \A j \in DOMAIN signals : j > i /\ signals[j].msg = n => signals[j].type # "restored"
    BY <1>5 DEF Going
  <2>2. \A j \in DOMAIN signals' : j + 1 \in DOMAIN signals /\ signals'[j] = signals[j + 1] /\ j \in Nat
    BY <1>1
  <2>3. i = 1
    <3>1. SUFFICES ASSUME i # 1 PROVE FALSE
      OBVIOUS
    <3>2. i - 1 \in DOMAIN signals' /\ signals'[i - 1] = signals[i] /\ i \in Nat
      BY <1>1, <1>3, <3>1
    <3>3. \A j \in DOMAIN signals' : j > i - 1 /\ signals'[j].msg = n => signals'[j].type # "restored"
      BY <2>1, <2>2, <3>2
    <3>. QED  BY <1>5, <2>1, <3>2, <3>3 DEF Going
  <2>4. ~ ToldOf(n, "restored")'
    <3>1. \A j \in DOMAIN signals' : j + 1 > 1
      BY <2>2
    <3>. QED  BY <2>1, <2>2, <2>3, <3>1 DEF ToldOf
  <2>. QED  BY <1>1, <2>1, <2>3, <2>4
<1>. QED  BY <1>1, <1>2, <1>4, <1>5

-----------------------------------------------------------------------------
(* Frames *)

LEMMA OnceTwice ==
  ASSUME \A s \in Stages, n \in Mails : outcome[s][n] # "none" => outcome'[s][n] # "none"
  PROVE  \A n \in Mails : Twice(n) => Twice(n)'
BY DEF Twice

LEMMA StagesRest ==
  ASSUME BoxInv, stages' = stages, pending' = pending, timers' = timers, timer' = timer,
         history.overlapped => history'.overlapped,
         \A s \in Stages : stages[s].phase = "none" => outcome'[s] = outcome[s]
  PROVE  StagesInv' /\ \A s, m : Taken(s, m)' <=> Taken(s, m)
<1>1. \A s, m : Taken(s, m)' <=> Taken(s, m)
  BY DEF Taken, Box!NoStage
<1>2. StagesInv'
  <2>1. StagesInv /\ \A s : Busy(s)' <=> Busy(s)
    BY DEF BoxInv, Busy
  <2>2. pending # Box!NoStage =>
         pending' \in Stages /\ stages'[pending'].phase = "over" /\ timer' = pending' /\ pending' \in timers'
    BY <2>1 DEF StagesInv
  <2>3. ~ history'.overlapped =>
         \A s, t \in Stages : Busy(s)' => pending' = Box!NoStage /\ (Busy(t)' => s = t)
    BY <2>1 DEF StagesInv
  <2>4. ASSUME NEW s \in Stages
        PROVE  /\ Busy(s)' => \A m \in Mails : stages'[s].call[m] # "none" => m \in stages'[s].ids
               /\ stages'[s].phase = "none" => \A m \in Mails : outcome'[s][m] = "none"
    BY <2>1 DEF StagesInv
  <2>. QED  BY <2>2, <2>3, <2>4 DEF StagesInv, Box!NoStage
<1>. QED  BY <1>1, <1>2

\* Mail moves at the server and signals are sent, while the client rests.
LEMMA WorldStep ==
  ASSUME BoxInv, BoxTypes', StagesInv',
         history.missed => history'.missed, history.slipped => history'.slipped,
         history.overlapped => history'.overlapped,
         cached' = cached, tomb' = tomb, committed' = committed,
         \A r \in net' : r \in net \/ r.kind = "flags",
         \A n \in Mails : server'[n].place = "none" => server[n].place = "none",
         \A s \in Stages, n \in Mails : outcome[s][n] # "none" => outcome'[s][n] # "none",
         \A s \in Stages : stages'[s].ids = stages[s].ids,
         \A s \in Stages, n \in Mails :
           Taken(s, n)' => \/ Taken(s, n)
                           \/ outcome'[s][n] # "none" /\ n \notin Box!Inbox' /\ (~ history'.missed => Going(n)'),
         \A n \in Box!Inbox' \ Box!Inbox :
           /\ server[n].place = "none" \/ \A s \in Stages : Taken(s, n) => Twice(n)'
           /\ ~ history'.missed => server[n].place = "none" \/ ToldOf(n, "restored")',
         ~ history'.missed => \A n \in Box!Inbox \ Box!Inbox' : Going(n)',
         \A n \in Mails : ToldOf(n, "restored") => ToldOf(n, "restored")',
         \A n \in Mails \ Box!Inbox' :
           (Going(n) => Going(n)') /\ (ToldOf(n, "restored")' => ToldOf(n, "restored"))
  PROVE  BoxInv'
<1>1. \A n \in Mails : Twice(n) => Twice(n)'
  BY OnceTwice
<1>2. Born'
  BY DEF BoxInv, Born, Unborn
<1>3. \A s \in Stages, n \in Mails : Taken(s, n) => server[n].place # "none"
  BY DEF BoxInv, Born, Unborn, Taken, StagesInv, Busy
<1>4. TakenInv'
  BY <1>1, <1>3 DEF BoxInv, TakenInv, Box!Inbox
<1>5. ShownInv'
  BY <1>1 DEF BoxInv, ShownInv, Born, Unborn, Box!Inbox
<1>6. HiddenInv'
  <2>. SUFFICES ASSUME Clean', NEW s \in Stages, NEW n \in Mails, Taken(s, n)', n \notin Box!Inbox'
                PROVE  Going(n)' \/ Unseen(n)'
    BY DEF HiddenInv
  <2>1. Clean /\ ~ history'.missed
    BY DEF Clean
  <2>2. CASE Taken(s, n) /\ n \notin Box!Inbox
    <3>1. Going(n) \/ Unseen(n)
      BY <2>1, <2>2 DEF BoxInv, HiddenInv
    <3>. QED  BY <3>1 DEF Unseen
  <2>3. CASE ~ (Taken(s, n) /\ n \notin Box!Inbox)
    BY <2>1, <2>3
  <2>. QED  BY <2>2, <2>3
<1>. QED  BY <1>2, <1>4, <1>5, <1>6 DEF BoxInv

\* An answer is dealt with, or something is asked for, while the server and the actions rest.
LEMMA CacheStep ==
  ASSUME BoxInv, server' = server, outcome' = outcome, signals' = signals, stages' = stages,
         pending' = pending, timers' = timers, timer' = timer, committed' = committed, tomb' = tomb,
         cached' \in [Mails -> Box!Rows], history' \in HistorySet,
         history.missed => history'.missed,
         history.slipped => history'.slipped, history'.overlapped = history.overlapped,
         \A n \in Mails : cached'[n].in /\ ~ cached[n].in
           => server[n].place # "none" /\ (n \in tomb => history'.slipped),
         \A r \in net' : \/ r \in net
                         \/ /\ r \in NetSet /\ (r.kind # "list" => r.msg \in Mails)
                            /\ r.kind = "list" => \A n \in DOMAIN r.list : server[n].place # "none"
                            /\ r.kind = "get" /\ r.data.in => server[r.msg].place # "none"
  PROVE  BoxInv'
<1>1. StagesInv' /\ \A s, m : Taken(s, m)' <=> Taken(s, m)
  BY StagesRest
<1>2. BoxTypes'
  BY DEF BoxInv, BoxTypes
<1>3. Born'
  BY DEF BoxInv, Born, Unborn
<1>4. /\ \A n : Twice(n)' <=> Twice(n)
      /\ \A n, k : ToldOf(n, k)' <=> ToldOf(n, k)
      /\ \A n : Going(n)' <=> Going(n)
      /\ Box!Inbox' = Box!Inbox
  BY DEF Twice, ToldOf, Going, Box!Inbox
<1>5. TakenInv'
  BY <1>1, <1>4 DEF BoxInv, TakenInv
<1>6. ShownInv'
  BY <1>4 DEF BoxInv, ShownInv
<1>7. HiddenInv'
  <2>. SUFFICES ASSUME Clean', NEW s \in Stages, NEW n \in Mails, Taken(s, n)', n \notin Box!Inbox'
                PROVE  Going(n)' \/ Unseen(n)'
    BY DEF HiddenInv
  <2>1. Clean /\ ~ history'.slipped
    BY DEF Clean
  <2>2. Going(n) \/ Unseen(n)
    BY <1>1, <1>4, <2>1 DEF BoxInv, HiddenInv
  <2>. QED  BY <1>4, <2>1, <2>2 DEF Unseen
<1>. QED  BY <1>1, <1>2, <1>3, <1>5, <1>6, <1>7 DEF BoxInv

\* An action goes on, and no mail is taken that was not: the server and the socket rest.
LEMMA ActionStep ==
  ASSUME BoxInv, BoxTypes', StagesInv', server' = server, outcome' = outcome, signals' = signals, net' = net,
         history.missed => history'.missed, history.slipped => history'.slipped,
         history.overlapped => history'.overlapped,
         \A n \in Mails : cached'[n].in => server[n].place # "none",
         \A s \in Stages : \A n \in stages'[s].ids : server[n].place # "none",
         \A n \in committed' \ committed :
           n \in Mails => server[n].place # "none" /\ (n \notin Box!Inbox \/ Twice(n)),
         \A s \in Stages, n \in Mails : Taken(s, n)' => Taken(s, n),
         Clean' => \A s \in Stages, n \in Mails :
                     Taken(s, n)' => (n \in tomb => n \in tomb') /\ (cached'[n].in => cached[n].in)
  PROVE  BoxInv'
<1>1. /\ \A n : Twice(n)' <=> Twice(n)
      /\ \A n, k : ToldOf(n, k)' <=> ToldOf(n, k)
      /\ \A n : Going(n)' <=> Going(n)
      /\ Box!Inbox' = Box!Inbox
  BY DEF Twice, ToldOf, Going, Box!Inbox
<1>2. Born'
  BY DEF BoxInv, Born, Unborn
<1>3. TakenInv'
  BY <1>1 DEF BoxInv, TakenInv
<1>4. ShownInv'
  <2>1. Box!Inbox \subseteq Mails
    BY DEF Box!Inbox
  <2>. QED  BY <1>1, <2>1 DEF BoxInv, ShownInv
<1>5. HiddenInv'
  <2>. SUFFICES ASSUME Clean', NEW s \in Stages, NEW n \in Mails, Taken(s, n)', n \notin Box!Inbox'
                PROVE  Going(n)' \/ Unseen(n)'
    BY DEF HiddenInv
  <2>1. Clean
    BY DEF Clean
  <2>2. Going(n) \/ Unseen(n)
    BY <1>1, <2>1 DEF BoxInv, HiddenInv
  <2>. QED  BY <1>1, <2>1, <2>2 DEF Unseen
<1>. QED  BY <1>2, <1>3, <1>4, <1>5 DEF BoxInv

-----------------------------------------------------------------------------
(* The server and everyone else *)

LEMMA MovedThere ==
  ASSUME BoxInv, NEW m \in Mails, NEW p \in {"none", "inbox", "hidden", "away"},
         server' = [server EXCEPT ![m].place = p]
  PROVE  /\ server' \in [Mails -> ServerSet] /\ server'[m].place = p /\ server'[m].seen \in BOOLEAN
         /\ \A n \in Mails \ {m} : server'[n] = server[n]
<1>1. server \in [Mails -> ServerSet] /\ server[m] \in ServerSet
  BY DEF BoxInv, BoxTypes
<1>2. PICK r : r = [server[m] EXCEPT !.place = p]
  OBVIOUS
<1>3. r \in ServerSet /\ r.place = p /\ r.seen \in BOOLEAN
  BY <1>1, <1>2 DEF ServerSet
<1>4. server' = [server EXCEPT ![m] = r]
  BY <1>1, <1>2
<1>. QED  BY <1>1, <1>3, <1>4

LEMMA Seen ==
  ASSUME BoxInv, NEW m \in Mails, NEW v \in BOOLEAN,
         server' = [server EXCEPT ![m].seen = v]
  PROVE  /\ server' \in [Mails -> ServerSet] /\ server'[m].seen \in BOOLEAN
         /\ \A n \in Mails : server'[n].place = server[n].place
<1>1. server \in [Mails -> ServerSet] /\ server[m] \in ServerSet
  BY DEF BoxInv, BoxTypes
<1>2. PICK r : r = [server[m] EXCEPT !.seen = v]
  OBVIOUS
<1>3. r \in ServerSet /\ r.place = server[m].place /\ r.seen \in BOOLEAN
  BY <1>1, <1>2 DEF ServerSet
<1>4. server' = [server EXCEPT ![m] = r]
  BY <1>1, <1>2
<1>. QED  BY <1>1, <1>3, <1>4

LEMMA ElsewhereSafe ==
  ASSUME BoxInv, NEW m \in Mails, Box!NewMail(m) \/ Box!LeavesElsewhere(m) \/ Box!ReadElsewhere(m)
  PROVE  BoxInv'
<1>1. /\ outcome' = outcome /\ cached' = cached /\ tomb' = tomb /\ pending' = pending /\ timers' = timers
      /\ timer' = timer /\ committed' = committed /\ net' = net /\ stages' = stages
      /\ history' = Box!Noted(Box!Spent)
  BY DEF Box!NewMail, Box!LeavesElsewhere, Box!ReadElsewhere, Box!screen
<1>2. /\ history' \in HistorySet /\ history'.slipped = history.slipped
      /\ history'.overlapped = history.overlapped /\ (history'.missed <=> history.missed \/ ~ linked)
  <2>1. PICK h : h = Box!Spent
    OBVIOUS
  <2>2. h \in HistorySet /\ h.missed = history.missed /\ h.slipped = history.slipped
        /\ h.overlapped = history.overlapped
    BY <2>1, SpentTypes DEF BoxInv, BoxTypes
  <2>3. history' = Box!Noted(h)
    BY <1>1, <2>1
  <2>. QED  BY <2>2, <2>3, NotedTypes
<1>3. PICK type \in SigKinds :
        /\ Box!Emit(type, m) /\ server' \in [Mails -> ServerSet] /\ server'[m].seen \in BOOLEAN
        /\ \A n \in Mails \ {m} : server'[n].place = server[n].place
        /\ \/ server[m].place = "none" /\ server'[m].place = "inbox" /\ type = "new"
           \/ server[m].place = "inbox" /\ server'[m].place = "away" /\ type = "deleted"
           \/ server'[m].place = server[m].place /\ type = "flags"
  <2>1. CASE Box!NewMail(m)
    <3>1. server[m].place = "none" /\ server' = [server EXCEPT ![m].place = "inbox"] /\ Box!Emit("new", m)
      BY <2>1 DEF Box!NewMail
    <3>. QED  BY <3>1, MovedThere DEF SigKinds
  <2>2. CASE Box!LeavesElsewhere(m)
    <3>1. server[m].place = "inbox" /\ server' = [server EXCEPT ![m].place = "away"] /\ Box!Emit("deleted", m)
      BY <2>2 DEF Box!LeavesElsewhere
    <3>. QED  BY <3>1, MovedThere DEF SigKinds
  <2>3. CASE Box!ReadElsewhere(m)
    <3>1. PICK v : v = ~ server[m].seen
      OBVIOUS
    <3>2. server' = [server EXCEPT ![m].seen = v] /\ v \in BOOLEAN /\ Box!Emit("flags", m)
      BY <2>3, <3>1 DEF Box!ReadElsewhere, BoxInv, BoxTypes, ServerSet
    <3>. QED  BY <3>2, Seen DEF SigKinds
  <2>. QED  BY <2>1, <2>2, <2>3
<1>4. /\ signals' \in Seq(SigSet)
      /\ linked /\ type = "deleted" => Going(m)'
      /\ \A n, k : ToldOf(n, k) => ToldOf(n, k)'
      /\ \A n, k : ToldOf(n, k)' => ToldOf(n, k) \/ (n = m /\ k = type)
      /\ \A n : Going(n) /\ (n # m \/ type # "restored") => Going(n)'
  BY <1>3, Emits DEF BoxInv
<1>5. BoxTypes'
  BY <1>1, <1>2, <1>3, <1>4 DEF BoxInv, BoxTypes
<1>6. StagesInv' /\ \A s, n : Taken(s, n)' <=> Taken(s, n)
  BY <1>1, <1>2, StagesRest
<1>7. /\ \A n \in Mails : server'[n].place = "none" => server[n].place = "none"
      /\ \A n \in Box!Inbox' \ Box!Inbox : server[n].place = "none"
      /\ ~ history'.missed => \A n \in Box!Inbox \ Box!Inbox' : Going(n)'
  BY <1>2, <1>3, <1>4 DEF Box!Inbox
<1>8. \A n \in Mails : /\ ToldOf(n, "restored") => ToldOf(n, "restored")'
                       /\ Going(n) => Going(n)'
                       /\ ToldOf(n, "restored")' => ToldOf(n, "restored")
  BY <1>3, <1>4
<1>. QED  BY <1>1, <1>2, <1>5, <1>6, <1>7, <1>8, WorldStep

\* An outbox row ends, and nothing is signalled.
LEMMA RowEnds ==
  ASSUME BoxInv, NEW s \in Stages, NEW m \in Mails, NEW end \in RowKinds \ {"none"},
         outcome' = [outcome EXCEPT ![s][m] = end]
  PROVE  /\ outcome' \in [Stages -> [Mails -> RowKinds]] /\ outcome'[s][m] = end
         /\ \A t \in Stages \ {s} : outcome'[t] = outcome[t]
         /\ \A t \in Stages, n \in Mails : outcome[t][n] # "none" => outcome'[t][n] # "none"
BY DEF BoxInv, BoxTypes

LEMMA DueSafe ==
  ASSUME BoxInv, NEW s \in Stages, NEW m \in Mails, Box!Due(s, m)
  PROVE  BoxInv'
<1>1. /\ outcome[s][m] \in {"open", "again"} /\ outcome' = [outcome EXCEPT ![s][m] = "committed"]
      /\ cached' = cached /\ tomb' = tomb /\ pending' = pending /\ timers' = timers
      /\ timer' = timer /\ committed' = committed /\ net' = net /\ stages' = stages
      /\ history' = history /\ signals' = signals
  BY DEF Box!Due, Box!screen
<1>2. /\ outcome' \in [Stages -> [Mails -> RowKinds]] /\ \A t \in Stages \ {s} : outcome'[t] = outcome[t]
      /\ \A t \in Stages, n \in Mails : outcome[t][n] # "none" => outcome'[t][n] # "none"
  BY <1>1, RowEnds DEF RowKinds
<1>3. PICK p : p = IF server[m].place = "hidden" THEN "away" ELSE server[m].place
  OBVIOUS
<1>4. p \in {"none", "inbox", "hidden", "away"} /\ server' = [server EXCEPT ![m].place = p]
  BY <1>3 DEF Box!Due, BoxInv, BoxTypes, ServerSet
<1>5. /\ server' \in [Mails -> ServerSet] /\ server'[m].place = p
      /\ \A n \in Mails \ {m} : server'[n] = server[n]
  BY <1>4, MovedThere
<1>6. /\ \A n \in Mails : server'[n].place = "none" => server[n].place = "none"
      /\ Box!Inbox' = Box!Inbox
  BY <1>3, <1>5 DEF Box!Inbox
<1>7. stages[s].phase # "none"
  BY <1>1 DEF BoxInv, StagesInv
<1>8. StagesInv' /\ \A t, n : Taken(t, n)' <=> Taken(t, n)
  BY <1>1, <1>2, <1>7, StagesRest
<1>9. BoxTypes'
  BY <1>1, <1>2, <1>5 DEF BoxInv, BoxTypes
<1>10. \A n : (ToldOf(n, "restored")' <=> ToldOf(n, "restored")) /\ (Going(n)' <=> Going(n))
  BY <1>1 DEF ToldOf, Going
<1>. QED  BY <1>1, <1>2, <1>6, <1>8, <1>9, <1>10, WorldStep

\* A row is reverted: unless its message was hidden, or not by it, nothing moves.
LEMMA RevertedFacts ==
  ASSUME BoxInv, NEW s \in Stages, NEW m \in Mails, NEW end \in RowKinds \ {"none"},
         outcome[s][m] # "none", Box!Reverted(s, m, end)
  PROVE  /\ server' \in [Mails -> ServerSet] /\ outcome' \in [Stages -> [Mails -> RowKinds]]
         /\ signals' \in Seq(SigSet) /\ history' \in HistorySet
         /\ history'.slipped = history.slipped /\ history'.overlapped = history.overlapped
         /\ history.missed => history'.missed
         /\ \A t \in Stages \ {s} : outcome'[t] = outcome[t]
         /\ \A t \in Stages, n \in Mails : outcome[t][n] # "none" => outcome'[t][n] # "none"
         /\ \A n \in Mails : server'[n].place = "none" => server[n].place = "none"
         /\ Box!Inbox \subseteq Box!Inbox' /\ \A n \in Box!Inbox' \ Box!Inbox : n = m
         /\ ~ history'.missed => \A n \in Box!Inbox' \ Box!Inbox : ToldOf(n, "restored")'
         /\ \A n \in Mails : ToldOf(n, "restored") => ToldOf(n, "restored")'
         /\ \A n \in Mails \ Box!Inbox' :
              (Going(n) => Going(n)') /\ (ToldOf(n, "restored")' => ToldOf(n, "restored"))
<1>1. outcome' = [outcome EXCEPT ![s][m] = end]
  BY DEF Box!Reverted
<1>2. /\ outcome' \in [Stages -> [Mails -> RowKinds]] /\ \A t \in Stages \ {s} : outcome'[t] = outcome[t]
      /\ \A t \in Stages, n \in Mails : outcome[t][n] # "none" => outcome'[t][n] # "none"
  BY <1>1, RowEnds
<1>3. CASE outcome[s][m] = "open" /\ server[m].place = "hidden"
  <2>1. server' = [server EXCEPT ![m].place = "inbox"] /\ Box!Emit("restored", m) /\ history' = Box!Noted(history)
    BY <1>3 DEF Box!Reverted
  <2>2. /\ server' \in [Mails -> ServerSet] /\ server'[m].place = "inbox" /\ server'[m].seen \in BOOLEAN
        /\ \A n \in Mails \ {m} : server'[n] = server[n]
    BY <2>1, MovedThere
  <2>3. /\ history' \in HistorySet /\ history'.slipped = history.slipped
        /\ history'.overlapped = history.overlapped /\ (history'.missed <=> history.missed \/ ~ linked)
    BY <2>1, NotedTypes DEF BoxInv, BoxTypes
  <2>4. /\ signals' \in Seq(SigSet) /\ (linked => ToldOf(m, "restored")')
        /\ \A n, k : ToldOf(n, k) => ToldOf(n, k)'
        /\ \A n, k : ToldOf(n, k)' => ToldOf(n, k) \/ (n = m /\ k = "restored")
        /\ \A n : Going(n) /\ n # m => Going(n)'
    BY <2>1, <2>2, Emits DEF BoxInv, SigKinds
  <2>5. /\ m \in Box!Inbox' /\ Box!Inbox \subseteq Box!Inbox' /\ \A n \in Box!Inbox' \ Box!Inbox : n = m
        /\ \A n \in Mails : server'[n].place = "none" => server[n].place = "none"
    BY <2>2 DEF Box!Inbox
  <2>6. ~ history'.missed => \A n \in Box!Inbox' \ Box!Inbox : ToldOf(n, "restored")'
    BY <2>3, <2>4, <2>5
  <2>7. \A n \in Mails \ Box!Inbox' :
          (Going(n) => Going(n)') /\ (ToldOf(n, "restored")' => ToldOf(n, "restored"))
    BY <2>4, <2>5
  <2>. QED  BY <1>2, <2>2, <2>3, <2>4, <2>5, <2>6, <2>7
<1>4. CASE ~ (outcome[s][m] = "open" /\ server[m].place = "hidden")
  <2>1. server' = server /\ signals' = signals /\ history' = history
    BY <1>4 DEF Box!Reverted
  <2>2. /\ \A n : (ToldOf(n, "restored")' <=> ToldOf(n, "restored")) /\ (Going(n)' <=> Going(n))
        /\ Box!Inbox' = Box!Inbox
    BY <2>1 DEF ToldOf, Going, Box!Inbox
  <2>. QED  BY <1>2, <2>1, <2>2 DEF BoxInv, BoxTypes
<1>. QED  BY <1>3, <1>4

\* Whoever has taken a message whose row of another action is reverted has queued it as well.
LEMMA RevertedTwice ==
  ASSUME BoxInv, NEW s \in Stages, NEW m \in Mails, outcome[s][m] # "none", ~ Taken(s, m),
         NEW t \in Stages, Taken(t, m)
  PROVE  Twice(m)
<1>1. t # s /\ outcome[t][m] # "none"
  BY DEF BoxInv, TakenInv
<1>. QED  BY <1>1 DEF Twice

LEMMA GivesUpSafe ==
  ASSUME BoxInv, NEW s \in Stages, NEW m \in Mails, Box!GivesUp(s, m)
  PROVE  BoxInv'
<1>1. /\ outcome[s][m] # "none" /\ stages[s].phase = "over" /\ s \notin timers /\ Box!Reverted(s, m, "failed")
      /\ cached' = cached /\ tomb' = tomb /\ pending' = pending /\ timers' = timers
      /\ timer' = timer /\ committed' = committed /\ net' = net /\ stages' = stages
  BY DEF Box!GivesUp, Box!screen
<1>2. /\ server' \in [Mails -> ServerSet] /\ outcome' \in [Stages -> [Mails -> RowKinds]]
      /\ signals' \in Seq(SigSet) /\ history' \in HistorySet
      /\ history'.slipped = history.slipped /\ history'.overlapped = history.overlapped
      /\ history.missed => history'.missed
      /\ \A t \in Stages \ {s} : outcome'[t] = outcome[t]
      /\ \A t \in Stages, n \in Mails : outcome[t][n] # "none" => outcome'[t][n] # "none"
      /\ \A n \in Mails : server'[n].place = "none" => server[n].place = "none"
      /\ Box!Inbox \subseteq Box!Inbox' /\ \A n \in Box!Inbox' \ Box!Inbox : n = m
      /\ ~ history'.missed => \A n \in Box!Inbox' \ Box!Inbox : ToldOf(n, "restored")'
      /\ \A n \in Mails : ToldOf(n, "restored") => ToldOf(n, "restored")'
      /\ \A n \in Mails \ Box!Inbox' :
           (Going(n) => Going(n)') /\ (ToldOf(n, "restored")' => ToldOf(n, "restored"))
  BY <1>1, RevertedFacts DEF RowKinds
<1>3. StagesInv' /\ \A t, n : Taken(t, n)' <=> Taken(t, n)
  BY <1>1, <1>2, StagesRest
<1>4. BoxTypes'
  BY <1>1, <1>2 DEF BoxInv, BoxTypes
<1>5. ~ Taken(s, m)
  BY <1>1 DEF BoxInv, StagesInv, Taken
<1>6. \A n \in Box!Inbox' \ Box!Inbox : \A t \in Stages : Taken(t, n) => Twice(n)'
  BY <1>1, <1>2, <1>5, RevertedTwice, OnceTwice
<1>. QED  BY <1>1, <1>2, <1>3, <1>4, <1>6, WorldStep

-----------------------------------------------------------------------------
(* The socket *)

LEMMA DisconnectSafe == ASSUME BoxInv, Box!Disconnect PROVE BoxInv'
<1>1. /\ server' = server /\ outcome' = outcome /\ cached' = cached /\ tomb' = tomb /\ pending' = pending
      /\ timers' = timers /\ timer' = timer /\ committed' = committed /\ net' = net /\ stages' = stages
      /\ signals' = <<>>
  BY DEF Box!Disconnect, Box!screen
<1>2. /\ history' \in HistorySet /\ history'.slipped = history.slipped
      /\ history'.overlapped = history.overlapped
      /\ history.missed => history'.missed
      /\ signals # <<>> => history'.missed
  <2>1. PICK n, b : n = history.faults + 1 /\ b = (history.missed \/ signals # <<>>)
    OBVIOUS
  <2>2. history' = [history EXCEPT !.faults = n, !.missed = b] /\ n \in Nat /\ b \in BOOLEAN
    BY <2>1 DEF Box!Disconnect, BoxInv, BoxTypes, HistorySet
  <2>. QED  BY <2>1, <2>2 DEF BoxInv, BoxTypes, HistorySet
<1>3. CASE signals = <<>>
  <2>1. signals' = signals
    BY <1>1, <1>3
  <2>. QED  BY <1>1, <1>2, <2>1, CacheStep DEF BoxInv, BoxTypes
<1>4. CASE signals # <<>>
  <2>1. history'.missed
    BY <1>2, <1>4
  <2>2. StagesInv' /\ \A t, n : Taken(t, n)' <=> Taken(t, n)
    BY <1>1, <1>2, StagesRest
  <2>3. BoxTypes'
    BY <1>1, <1>2 DEF BoxInv, BoxTypes
  <2>4. Born' /\ TakenInv'
    BY <1>1, <2>2 DEF BoxInv, Born, Unborn, TakenInv, Twice, Box!Inbox
  <2>5. ShownInv' /\ HiddenInv'
    BY <2>1 DEF ShownInv, HiddenInv, Clean
  <2>. QED  BY <2>2, <2>3, <2>4, <2>5 DEF BoxInv
<1>. QED  BY <1>3, <1>4

\* One fetch of the head page more, or none.
LEMMA RefreshedNet == ASSUME Box!Refreshed PROVE \A r \in net' : r \in net \/ r = Box!List
BY DEF Box!Refreshed

LEMMA RefreshSafe == ASSUME BoxInv, Box!Reconnect \/ Box!Refresh PROVE BoxInv'
<1>1. /\ server' = server /\ outcome' = outcome /\ cached' = cached /\ tomb' = tomb /\ pending' = pending
      /\ timers' = timers /\ timer' = timer /\ committed' = committed /\ stages' = stages
      /\ signals' = signals /\ history' = history /\ Box!Refreshed
  BY DEF Box!Reconnect, Box!Refresh
<1>2. \A r \in net' : r \in net \/ (r \in NetSet /\ r.kind = "list" /\ \A n \in DOMAIN r.list : FALSE)
  BY <1>1, RefreshedNet, AskTypes
<1>. QED  BY <1>1, <1>2, CacheStep DEF BoxInv, BoxTypes

LEMMA OnSignalSafe == ASSUME BoxInv, Box!OnSignal PROVE BoxInv'
<1>. DEFINE g == Head(signals)
<1>1. /\ server' = server /\ outcome' = outcome /\ pending' = pending
      /\ timers' = timers /\ timer' = timer /\ stages' = stages /\ history' = history
      /\ signals # <<>> /\ signals' = Tail(signals)
  BY DEF Box!OnSignal
<1>2. /\ signals' \in Seq(SigSet) /\ g \in SigSet
      /\ \A n, k : ToldOf(n, k)' => ToldOf(n, k)
      /\ \A n, k : ToldOf(n, k) => ToldOf(n, k)' \/ (n = g.msg /\ k = g.type)
      /\ \A n : Going(n) => Going(n)' \/ (g.msg = n /\ g.type = "deleted" /\ ~ ToldOf(n, "restored")')
  BY <1>1, Hears DEF BoxInv
<1>3. g.msg \in Mails /\ g.seen \in BOOLEAN /\ g.type \in SigKinds /\ ToldOf(g.msg, g.type)
  <2>1. 1 \in DOMAIN signals /\ g = signals[1]
    BY <1>1, HeadTailProperties, LenProperties, EmptySeq DEF BoxInv, BoxTypes
  <2>. QED  BY <1>2, <2>1 DEF SigSet, ToldOf
<1>4. /\ cached' \in [Mails -> Box!Rows] /\ \A n \in Mails : cached'[n].in => cached[n].in
      /\ \A r \in net' : r \in net \/ r = Box!Get(g.msg)
      /\ committed' \subseteq committed /\ (g.type = "restored" => g.msg \notin committed')
      /\ \A n : n \in tomb => n \in tomb' \/ (n = g.msg /\ g.type = "restored")
      /\ g.type = "deleted" => g.msg \in tomb' /\ ~ cached'[g.msg].in
  <2>1. cached \in [Mails -> Box!Rows]
    BY DEF BoxInv, BoxTypes
  <2>2. CASE g.type = "deleted"
    <3>1. Box!Removed({g.msg}) /\ net' = net /\ committed' = committed
      BY <2>2 DEF Box!OnSignal
    <3>2. cached' = [n \in Mails |-> IF n \in {g.msg} THEN Box!NoRow ELSE cached[n]] /\ tomb' = tomb \cup {g.msg}
      BY <3>1 DEF Box!Removed
    <3>. QED  BY <1>3, <2>1, <2>2, <3>1, <3>2, RowTypes
  <2>3. CASE g.type = "flags"
    <3>1. cached' = Box!Patched(g.msg, g.seen) /\ tomb' = tomb /\ net' = net /\ committed' = committed
      BY <2>3 DEF Box!OnSignal
    <3>2. /\ cached' \in [Mails -> Box!Rows]
          /\ \A n \in Mails : cached'[n].in = cached[n].in
      <4>1. PICK r : r = IF cached[g.msg].row THEN Box!Row(cached[g.msg].in, g.seen) ELSE cached[g.msg]
        OBVIOUS
      <4>2. r \in Box!Rows /\ r.in = cached[g.msg].in
        <5>1. cached[g.msg] \in Box!Rows /\ cached[g.msg].in \in BOOLEAN
          BY <1>3, <2>1 DEF Box!Rows
        <5>. QED  BY <1>3, <4>1, <5>1, RowTypes
      <4>3. cached' = [cached EXCEPT ![g.msg] = r]
        BY <2>1, <3>1, <4>1 DEF Box!Patched
      <4>. QED  BY <2>1, <4>2, <4>3
    <3>. QED  BY <2>3, <3>1, <3>2
  <2>4. CASE g.type \notin {"deleted", "flags"}
    <3>1. /\ tomb' = Box!Cleared(g.type, g.msg) /\ committed' = Box!ShownAgain(g.type, g.msg)
          /\ net' = net \cup {Box!Get(g.msg)} /\ cached' = cached
      BY <2>4 DEF Box!OnSignal
    <3>. QED  BY <2>1, <2>4, <3>1 DEF Box!Cleared, Box!ShownAgain
  <2>. QED  BY <2>2, <2>3, <2>4
<1>5. \A r \in net' : r \in net \/ (r \in NetSet /\ r.kind = "get" /\ r.msg = g.msg /\ ~ r.data.in)
  BY <1>3, <1>4, AskTypes
<1>6. BoxTypes'
  BY <1>1, <1>2, <1>3, <1>4, <1>5 DEF BoxInv, BoxTypes
<1>7. StagesInv' /\ \A t, n : Taken(t, n)' <=> Taken(t, n)
  BY <1>1, StagesRest
<1>8. Born'
  BY <1>1, <1>4, <1>5 DEF BoxInv, Born, Unborn
<1>9. Box!Inbox' = Box!Inbox /\ \A n : Twice(n)' <=> Twice(n)
  BY <1>1 DEF Box!Inbox, Twice
<1>10. TakenInv'
  BY <1>1, <1>7, <1>9 DEF BoxInv, TakenInv
<1>11. ShownInv'
  BY <1>1, <1>2, <1>4, <1>9 DEF BoxInv, ShownInv
<1>12. HiddenInv'
  <2>. SUFFICES ASSUME Clean', NEW s \in Stages, NEW n \in Mails, Taken(s, n)', n \notin Box!Inbox'
                PROVE  Going(n)' \/ Unseen(n)'
    BY DEF HiddenInv
  <2>1. Going(n) \/ Unseen(n)
    BY <1>1, <1>7, <1>9 DEF BoxInv, HiddenInv, Clean
  <2>2. CASE Going(n)
    BY <1>2, <1>4, <2>2 DEF Unseen
  <2>3. CASE Unseen(n)
    <3>1. ~ (g.msg = n /\ g.type = "restored")
      BY <1>3, <2>3 DEF Unseen
    <3>. QED  BY <1>2, <1>4, <2>3, <3>1 DEF Unseen
  <2>. QED  BY <2>1, <2>2, <2>3
<1>. QED  BY <1>6, <1>7, <1>8, <1>10, <1>11, <1>12 DEF BoxInv

LEMMA TombExpiresSafe == ASSUME BoxInv, NEW m \in Mails, Box!TombExpires(m) PROVE BoxInv'
<1>1. /\ server' = server /\ outcome' = outcome /\ cached' = cached /\ pending' = pending
      /\ timers' = timers /\ timer' = timer /\ committed' = committed /\ net' = net /\ stages' = stages
      /\ signals' = signals /\ history' = history
      /\ pending = Box!NoStage /\ \A s \in Stages : stages[s].phase \in {"none", "over"}
  BY DEF Box!TombExpires
<1>2. StagesInv' /\ \A t, n : Taken(t, n)' <=> Taken(t, n)
  BY <1>1, StagesRest
<1>3. \A s \in Stages, n \in Mails : ~ Taken(s, n)
  BY <1>1 DEF Taken
<1>4. BoxTypes' /\ Born' /\ TakenInv' /\ ShownInv'
  BY <1>1, <1>2 DEF BoxInv, BoxTypes, Born, Unborn, TakenInv, ShownInv, Twice, ToldOf, Box!Inbox
<1>5. HiddenInv'
  BY <1>2, <1>3 DEF HiddenInv
<1>. QED  BY <1>2, <1>4, <1>5 DEF BoxInv

-----------------------------------------------------------------------------
(* Requests *)

LEMMA PatchedTypes ==
  ASSUME BoxInv, NEW m \in Mails, NEW v \in BOOLEAN
  PROVE  /\ Box!Patched(m, v) \in [Mails -> Box!Rows]
         /\ \A n \in Mails : Box!Patched(m, v)[n].in = cached[n].in
<1>1. cached \in [Mails -> Box!Rows] /\ cached[m] \in Box!Rows /\ cached[m].in \in BOOLEAN
  BY DEF BoxInv, BoxTypes, Box!Rows
<1>2. PICK r : r = IF cached[m].row THEN Box!Row(cached[m].in, v) ELSE cached[m]
  OBVIOUS
<1>3. r \in Box!Rows /\ r.in = cached[m].in
  BY <1>1, <1>2, RowTypes
<1>4. Box!Patched(m, v) = [cached EXCEPT ![m] = r]
  BY <1>1, <1>2 DEF Box!Patched
<1>. QED  BY <1>1, <1>3, <1>4

LEMMA ReadServedTypes ==
  ASSUME BoxInv, NEW r \in net, r.kind \in {"list", "get"}, Box!Serve(r)
  PROVE  \E q \in NetSet :
           /\ net' = (net \ {r}) \cup {q} /\ q.kind = r.kind /\ q.msg = r.msg
           /\ q.kind = "list" => \A n \in DOMAIN q.list : server[n].place # "none"
           /\ q.kind = "get" /\ q.data.in => server[q.msg].place # "none"
<1>1. r \in NetSet
  BY DEF BoxInv, BoxTypes
<1>2. CASE r.kind = "list"
  <2>1. PICK l : l = [n \in Box!Inbox |-> server[n].seen]
    OBVIOUS
  <2>2. l \in Listings /\ \A n \in DOMAIN l : server[n].place # "none"
    <3>1. Box!Inbox \in SUBSET Mails /\ \A n \in Box!Inbox : server[n].place = "inbox"
      BY DEF Box!Inbox
    <3>2. l \in [Box!Inbox -> BOOLEAN] /\ DOMAIN l = Box!Inbox
      BY <2>1, <3>1 DEF BoxInv, BoxTypes, ServerSet
    <3>. QED  BY <3>1, <3>2 DEF Listings
  <2>3. PICK q : q = [r EXCEPT !.phase = "answered", !.list = l]
    OBVIOUS
  <2>4. net' = (net \ {r}) \cup {q}
    BY <1>2, <2>1, <2>3 DEF Box!Serve, Box!Becomes
  <2>5. q \in NetSet /\ q.kind = "list" /\ q.msg = r.msg /\ q.list = l
    BY <1>1, <1>2, <2>2, <2>3 DEF NetSet
  <2>. QED  BY <1>2, <2>2, <2>4, <2>5
<1>3. CASE r.kind = "get"
  <2>1. PICK d : d = Box!Detail(r.msg)
    OBVIOUS
  <2>2. r.msg \in Mails
    BY <1>3 DEF BoxInv, BoxTypes
  <2>3. d \in Box!Rows /\ (d.in => server[r.msg].place # "none")
    <3>1. PICK v \in BOOLEAN : v = server[r.msg].seen
      BY <2>2 DEF BoxInv, BoxTypes, ServerSet
    <3>2. d = [in |-> server[r.msg].place \in {"inbox", "hidden"}, seen |-> v, row |-> TRUE]
      BY <2>1, <3>1 DEF Box!Detail, Box!Row
    <3>3. d.in => server[r.msg].place # "none"
      BY <3>2
    <3>4. (server[r.msg].place \in {"inbox", "hidden"}) \in BOOLEAN
      OBVIOUS
    <3>5. d \in Box!Rows
      BY <3>1, <3>2, <3>4 DEF Box!Rows
    <3>. QED  BY <3>3, <3>5
  <2>4. PICK q : q = [r EXCEPT !.phase = "answered", !.data = d]
    OBVIOUS
  <2>5. net' = (net \ {r}) \cup {q}
    BY <1>3, <2>1, <2>4 DEF Box!Serve, Box!Becomes
  <2>6. q \in NetSet /\ q.kind = "get" /\ q.msg = r.msg /\ q.data = d
    BY <1>1, <1>3, <2>3, <2>4 DEF NetSet
  <2>. QED  BY <1>3, <2>3, <2>5, <2>6
<1>. QED  BY <1>2, <1>3

LEMMA ServeSafe == ASSUME BoxInv, NEW r \in net, Box!Serve(r) PROVE BoxInv'
<1>1. /\ outcome' = outcome /\ cached' = cached /\ tomb' = tomb /\ pending' = pending /\ timers' = timers
      /\ timer' = timer /\ committed' = committed /\ stages' = stages
  BY DEF Box!Serve, Box!screen
<1>2. r \in NetSet /\ r.kind \in {"list", "get", "flags"}
  BY DEF BoxInv, BoxTypes, NetSet
<1>3. CASE r.kind \in {"list", "get"}
  <2>1. server' = server /\ signals' = signals /\ history' = history
    BY <1>3 DEF Box!Serve
  <2>2. PICK q \in NetSet :
          /\ net' = (net \ {r}) \cup {q} /\ q.kind = r.kind /\ q.msg = r.msg
          /\ q.kind = "list" => \A n \in DOMAIN q.list : server[n].place # "none"
          /\ q.kind = "get" /\ q.data.in => server[q.msg].place # "none"
    BY <1>3, ReadServedTypes
  <2>3. q.kind # "list" => q.msg \in Mails
    BY <2>2 DEF BoxInv, BoxTypes
  <2>. QED  BY <1>1, <2>1, <2>2, <2>3, CacheStep DEF BoxInv, BoxTypes
<1>4. CASE r.kind = "flags"
  <2>1. r.msg \in Mails /\ r.data.seen \in BOOLEAN
    BY <1>2, <1>4 DEF BoxInv, BoxTypes, NetSet, Box!Rows
  <2>2. /\ server' = [server EXCEPT ![r.msg].seen = r.data.seen] /\ Box!Emit("flags", r.msg)
        /\ history' = Box!Noted(history) /\ Box!Becomes(r, [r EXCEPT !.phase = "answered"])
    BY <1>4 DEF Box!Serve
  <2>3. /\ server' \in [Mails -> ServerSet] /\ server'[r.msg].seen \in BOOLEAN
        /\ \A n \in Mails : server'[n].place = server[n].place
    BY <2>1, <2>2, Seen
  <2>4. /\ history' \in HistorySet /\ history'.slipped = history.slipped
        /\ history'.overlapped = history.overlapped /\ (history'.missed <=> history.missed \/ ~ linked)
    BY <2>2, NotedTypes DEF BoxInv, BoxTypes
  <2>5. /\ signals' \in Seq(SigSet)
        /\ \A n, k : ToldOf(n, k) => ToldOf(n, k)'
        /\ \A n, k : ToldOf(n, k)' => ToldOf(n, k) \/ (n = r.msg /\ k = "flags")
        /\ \A n : Going(n) => Going(n)'
    BY <2>1, <2>2, <2>3, Emits DEF BoxInv, SigKinds
  <2>6. PICK q : q = [r EXCEPT !.phase = "answered"]
    OBVIOUS
  <2>7. net' = (net \ {r}) \cup {q} /\ q \in NetSet /\ q.kind = "flags" /\ q.msg = r.msg
    BY <1>2, <1>4, <2>2, <2>6 DEF Box!Becomes, NetSet
  <2>8. BoxTypes'
    BY <1>1, <2>1, <2>3, <2>4, <2>5, <2>7 DEF BoxInv, BoxTypes
  <2>9. StagesInv' /\ \A t, n : Taken(t, n)' <=> Taken(t, n)
    BY <1>1, <2>4, StagesRest
  <2>10. Box!Inbox' = Box!Inbox
    BY <2>3 DEF Box!Inbox
  <2>11. \A n : (ToldOf(n, "restored")' <=> ToldOf(n, "restored")) /\ (Going(n) => Going(n)')
    BY <2>5
  <2>. QED  BY <1>1, <2>3, <2>4, <2>7, <2>8, <2>9, <2>10, <2>11, WorldStep
<1>. QED  BY <1>2, <1>3, <1>4

LEMMA ListArrivesSafe == ASSUME BoxInv, NEW r \in net, Box!ListArrives(r) PROVE BoxInv'
<1>1. /\ server' = server /\ outcome' = outcome /\ signals' = signals /\ tomb' = tomb /\ pending' = pending
      /\ timers' = timers /\ timer' = timer /\ committed' = committed /\ stages' = stages
      /\ history' = history /\ net' = net \ {r} /\ r.kind = "list" /\ cached' = Box!CacheList(r.list)
  BY DEF Box!ListArrives, Box!Done
<1>2. r.list \in Listings
  BY DEF BoxInv, BoxTypes, NetSet
<1>3. \A n \in DOMAIN r.list : r.list[n] \in BOOLEAN
  BY <1>2 DEF Listings
<1>4. cached' \in [Mails -> Box!Rows]
      /\ \A n \in Mails : cached'[n].in /\ ~ cached[n].in => n \in DOMAIN r.list /\ n \notin tomb
  BY <1>1, <1>3, RowTypes DEF Box!CacheList, BoxInv, BoxTypes
<1>5. \A n \in Mails : n \in DOMAIN r.list => server[n].place # "none"
  BY <1>1 DEF BoxInv, Born, Unborn
<1>. QED  BY <1>1, <1>4, <1>5, CacheStep DEF BoxInv, BoxTypes

LEMMA GetArrivesSafe == ASSUME BoxInv, NEW r \in net, Box!GetArrives(r) PROVE BoxInv'
<1>1. /\ server' = server /\ outcome' = outcome /\ signals' = signals /\ tomb' = tomb /\ pending' = pending
      /\ timers' = timers /\ timer' = timer /\ committed' = committed /\ stages' = stages
      /\ history' = history /\ cached' = cached /\ r.kind = "get"
  BY DEF Box!GetArrives, Box!screen
<1>2. PICK q : q = [r EXCEPT !.phase = "checked"]
  OBVIOUS
<1>3. \A x \in net' : x \in net \/ x = q
  BY <1>2 DEF Box!GetArrives, Box!Done, Box!Becomes
<1>4. q \in NetSet /\ q.kind = "get" /\ q.msg = r.msg /\ q.data = r.data
  BY <1>1, <1>2 DEF BoxInv, BoxTypes, NetSet
<1>5. r.msg \in Mails /\ (r.data.in => server[r.msg].place # "none")
  BY <1>1 DEF BoxInv, BoxTypes, Born, Unborn
<1>. QED  BY <1>1, <1>3, <1>4, <1>5, CacheStep DEF BoxInv, BoxTypes

LEMMA GetStoredSafe == ASSUME BoxInv, NEW r \in net, Box!GetStored(r) PROVE BoxInv'
<1>1. /\ server' = server /\ outcome' = outcome /\ signals' = signals /\ tomb' = tomb /\ pending' = pending
      /\ timers' = timers /\ timer' = timer /\ committed' = committed /\ stages' = stages
      /\ net' = net \ {r} /\ r.kind = "get" /\ cached' = [cached EXCEPT ![r.msg] = r.data]
      /\ history' = [history EXCEPT !.slipped = history.slipped \/ r.msg \in tomb]
  BY DEF Box!GetStored, Box!Done
<1>2. /\ history' \in HistorySet /\ history'.missed = history.missed
      /\ history'.overlapped = history.overlapped /\ (history.slipped => history'.slipped)
      /\ r.msg \in tomb => history'.slipped
  <2>1. PICK b : b = (history.slipped \/ r.msg \in tomb)
    OBVIOUS
  <2>2. history' = [history EXCEPT !.slipped = b] /\ b \in BOOLEAN
    BY <1>1, <2>1
  <2>. QED  BY <2>1, <2>2 DEF BoxInv, BoxTypes, HistorySet
<1>3. r.msg \in Mails /\ r.data \in Box!Rows /\ (r.data.in => server[r.msg].place # "none")
  BY <1>1 DEF BoxInv, BoxTypes, NetSet, Born, Unborn
<1>4. cached' \in [Mails -> Box!Rows] /\ cached'[r.msg] = r.data /\ \A n \in Mails \ {r.msg} : cached'[n] = cached[n]
  BY <1>1, <1>3 DEF BoxInv, BoxTypes
<1>. QED  BY <1>1, <1>2, <1>3, <1>4, CacheStep

LEMMA FlagsSafe ==
  ASSUME BoxInv, \/ \E m \in Mails, v \in BOOLEAN : Box!MutateFlags(m, v)
                 \/ \E r \in net : Box!FlagsAnswered(r) \/ Box!FlagsFail(r)
  PROVE  BoxInv'
<1>1. /\ server' = server /\ outcome' = outcome /\ signals' = signals /\ tomb' = tomb /\ pending' = pending
      /\ timers' = timers /\ timer' = timer /\ committed' = committed /\ stages' = stages
  BY DEF Box!MutateFlags, Box!FlagsAnswered, Box!FlagsFail, Box!screen
<1>2. history' = history \/ history' = Box!Spent
  BY DEF Box!MutateFlags, Box!FlagsAnswered, Box!FlagsFail
<1>3. /\ history' \in HistorySet /\ history'.missed = history.missed
      /\ history'.slipped = history.slipped /\ history'.overlapped = history.overlapped
  BY <1>2, SpentTypes DEF BoxInv, BoxTypes
<1>4. cached' = cached \/ \E m \in Mails, v \in BOOLEAN : cached' = Box!Patched(m, v)
  <2>1. ASSUME NEW m \in Mails, NEW v \in BOOLEAN, Box!MutateFlags(m, v)
        PROVE  cached' = Box!Patched(m, v)
    BY <2>1 DEF Box!MutateFlags
  <2>2. ASSUME NEW r \in net, Box!FlagsFail(r)
        PROVE  \E m \in Mails, v \in BOOLEAN : cached' = Box!Patched(m, v)
    <3>1. PICK v : v = ~ r.data.seen
      OBVIOUS
    <3>2. v \in BOOLEAN
      BY <3>1
    <3>3. cached' = Box!Patched(r.msg, v) /\ r.msg \in Mails
      BY <2>2, <3>1 DEF Box!FlagsFail, BoxInv, BoxTypes
    <3>. QED  BY <3>2, <3>3
  <2>3. ASSUME NEW r \in net, Box!FlagsAnswered(r) PROVE cached' = cached
    BY <2>3 DEF Box!FlagsAnswered, Box!screen
  <2>. QED  BY <2>1, <2>2, <2>3
<1>6. cached' \in [Mails -> Box!Rows] /\ \A n \in Mails : cached'[n].in = cached[n].in
  BY <1>4, PatchedTypes DEF BoxInv, BoxTypes
<1>5. \A x \in net' : x \in net \/ (x \in NetSet /\ x.kind = "flags" /\ x.msg \in Mails)
  BY AskTypes DEF Box!MutateFlags, Box!FlagsAnswered, Box!FlagsFail, Box!Done
<1>. QED  BY <1>1, <1>3, <1>5, <1>6, CacheStep

LEMMA ReadFailsSafe == ASSUME BoxInv, NEW r \in net, Box!ReadFails(r) PROVE BoxInv'
<1>1. /\ server' = server /\ outcome' = outcome /\ signals' = signals /\ tomb' = tomb /\ pending' = pending
      /\ timers' = timers /\ timer' = timer /\ committed' = committed /\ stages' = stages
      /\ cached' = cached /\ net' = net \ {r}
  BY DEF Box!ReadFails, Box!Done
<1>2. /\ history' \in HistorySet /\ history'.missed
      /\ history'.slipped = history.slipped /\ history'.overlapped = history.overlapped
  <2>1. PICK n : n = history.faults + 1
    OBVIOUS
  <2>2. history' = [history EXCEPT !.faults = n, !.missed = TRUE] /\ n \in Nat
    BY <2>1 DEF Box!ReadFails, BoxInv, BoxTypes, HistorySet
  <2>. QED  BY <2>2 DEF BoxInv, BoxTypes, HistorySet
<1>. QED  BY <1>1, <1>2, CacheStep DEF BoxInv, BoxTypes

-----------------------------------------------------------------------------
(* Undo *)

\* Commit: the action on offer is offered no more, and its mail goes on being hidden.
LEMMA Finalises ==
  ASSUME BoxInv, NEW armed, NEW c, c = Box!CommitOf(pending, armed, committed)
  PROVE  /\ c[1] = Box!NoStage /\ c[2] \subseteq armed
         /\ \A n \in c[3] \ committed :
              n \in Mails => server[n].place # "none" /\ (n \notin Box!Inbox \/ Twice(n))
<1>1. CASE pending = Box!NoStage
  BY <1>1 DEF Box!CommitOf
<1>2. CASE pending # Box!NoStage
  <2>1. c = <<Box!NoStage, armed \ {timer}, committed \cup stages[pending].ids>>
    BY <1>2 DEF Box!CommitOf
  <2>2. pending \in Stages
    BY <1>2 DEF BoxInv, StagesInv
  <2>3. ASSUME NEW n \in Mails, n \in stages[pending].ids
        PROVE  server[n].place # "none" /\ (n \notin Box!Inbox \/ Twice(n))
    <3>1. Taken(pending, n)
      BY <1>2, <2>3 DEF Taken
    <3>. QED  BY <2>2, <2>3, <3>1 DEF BoxInv, TakenInv, Born, Unborn
  <2>. QED  BY <2>1, <2>3
<1>. QED  BY <1>1, <1>2

LEMMA StageSafe ==
  ASSUME BoxInv, NEW s \in Stages, NEW S \in SUBSET Mails, Box!Stage(s, S)
  PROVE  BoxInv'
<1>1. /\ server' = server /\ outcome' = outcome /\ signals' = signals /\ net' = net
      /\ stages[s].phase = "none" /\ \A n \in S : cached[n].in
      /\ Box!Finalised /\ Box!Removed(S)
  BY DEF Box!Stage
<1>2. PICK e : e = [phase |-> "calling", ids |-> S, snap |-> cached,
                    call |-> [n \in Mails |-> IF n \in S THEN "sent" ELSE "none"]]
  OBVIOUS
<1>3. e \in StageSet /\ stages' = [stages EXCEPT ![s] = e]
  BY <1>2 DEF Box!Stage, StageSet, CallKinds, BoxInv, BoxTypes
<1>4. /\ stages' \in [Stages -> StageSet] /\ stages'[s] = e
      /\ \A t \in Stages \ {s} : stages'[t] = stages[t]
  BY <1>3 DEF BoxInv, BoxTypes
<1>5. /\ history' \in HistorySet /\ history'.missed = history.missed /\ history'.slipped = history.slipped
      /\ history.overlapped => history'.overlapped
      /\ ~ history'.overlapped => \A t \in Stages : ~ Busy(t)
  <2>1. PICK h, b : h = Box!Spent /\ b = (h.overlapped \/ \E t \in Stages : Busy(t))
    OBVIOUS
  <2>2. h \in HistorySet /\ h.missed = history.missed /\ h.slipped = history.slipped
        /\ h.overlapped = history.overlapped
    BY <2>1, SpentTypes DEF BoxInv, BoxTypes
  <2>3. history' = [h EXCEPT !.overlapped = b] /\ b \in BOOLEAN
    BY <2>1 DEF Box!Stage, Busy
  <2>. QED  BY <2>1, <2>2, <2>3 DEF HistorySet
<1>6. /\ pending' = Box!NoStage
      /\ \A n \in committed' \ committed :
           n \in Mails => server[n].place # "none" /\ (n \notin Box!Inbox \/ Twice(n))
  <2>1. PICK c : c = Box!CommitOf(pending, timers, committed)
    OBVIOUS
  <2>2. pending' = c[1] /\ committed' = c[3]
    BY <1>1, <2>1 DEF Box!Finalised
  <2>. QED  BY <2>1, <2>2, Finalises
<1>7. /\ cached' \in [Mails -> Box!Rows] /\ \A n \in Mails : cached'[n].in => cached[n].in
      /\ tomb \subseteq tomb'
  BY <1>1, RowTypes DEF Box!Removed, BoxInv, BoxTypes
<1>8. BoxTypes'
  BY <1>1, <1>4, <1>5, <1>7 DEF BoxInv, BoxTypes
<1>9. StagesInv'
  <2>1. \A t \in Stages \ {s} : Busy(t)' <=> Busy(t)
    BY <1>4 DEF Busy
  <2>2. ~ history'.overlapped =>
         \A t, u \in Stages : Busy(t)' => pending' = Box!NoStage /\ (Busy(u)' => t = u)
    BY <1>5, <1>6, <2>1
  <2>3. ASSUME NEW t \in Stages
        PROVE  /\ Busy(t)' => \A n \in Mails : stages'[t].call[n] # "none" => n \in stages'[t].ids
               /\ stages'[t].phase = "none" => \A n \in Mails : outcome'[t][n] = "none"
    <3>1. CASE t = s
      BY <1>2, <1>4, <3>1
    <3>2. CASE t # s
      BY <1>1, <1>4, <2>1, <3>2 DEF BoxInv, StagesInv
    <3>. QED  BY <3>1, <3>2
  <2>4. pending' # Box!NoStage =>
          pending' \in Stages /\ stages'[pending'].phase = "over" /\ timer' = pending' /\ pending' \in timers'
    BY <1>6
  <2>. QED  BY <2>2, <2>3, <2>4 DEF StagesInv, Box!NoStage
<1>10. ASSUME NEW t \in Stages, NEW n \in Mails, Taken(t, n)' PROVE Taken(t, n)
  <2>1. stages'[t].phase = "calling" /\ stages'[t].call[n] = "ok"
    BY <1>6, <1>10 DEF Taken, Box!NoStage
  <2>2. stages'[s].call[n] # "ok"
    BY <1>2, <1>4
  <2>3. stages'[t] = stages[t]
    BY <1>4, <2>1, <2>2
  <2>. QED  BY <2>1, <2>3 DEF Taken
<1>11. \A n \in Mails : cached[n].in => server[n].place # "none"
  BY DEF BoxInv, Born, Unborn
<1>12. ASSUME NEW t \in Stages, NEW n \in stages'[t].ids PROVE server[n].place # "none"
  <2>1. n \in Mails
    BY <1>4 DEF StageSet
  <2>. QED  BY <1>1, <1>2, <1>4, <1>11, <2>1 DEF BoxInv, Born, Unborn
<1>. QED  BY <1>1, <1>5, <1>6, <1>7, <1>8, <1>9, <1>10, <1>11, <1>12, ActionStep

\* A call of an action is answered.
LEMMA AnswerTypes ==
  ASSUME BoxInv, NEW s \in Stages, NEW m \in Mails, NEW a \in CallKinds, Box!Answer(s, m, a)
  PROVE  /\ stages' \in [Stages -> StageSet] /\ \A t \in Stages \ {s} : stages'[t] = stages[t]
         /\ stages'[s].phase = stages[s].phase /\ stages'[s].ids = stages[s].ids
         /\ stages'[s].call[m] = a /\ \A n \in Mails \ {m} : stages'[s].call[n] = stages[s].call[n]
<1>1. stages[s] \in StageSet /\ stages[s].call \in [Mails -> CallKinds]
  BY DEF BoxInv, BoxTypes, StageSet
<1>2. PICK c : c = [stages[s].call EXCEPT ![m] = a]
  OBVIOUS
<1>3. c \in [Mails -> CallKinds] /\ c[m] = a /\ \A n \in Mails \ {m} : c[n] = stages[s].call[n]
  BY <1>1, <1>2
<1>4. PICK e : e = [stages[s] EXCEPT !.call = c]
  OBVIOUS
<1>5. e \in StageSet /\ e.phase = stages[s].phase /\ e.ids = stages[s].ids /\ e.call = c
  BY <1>1, <1>3, <1>4 DEF StageSet
<1>6. stages' = [stages EXCEPT ![s] = e]
  BY <1>2, <1>4 DEF Box!Answer
<1>7. stages' \in [Stages -> StageSet] /\ stages'[s] = e /\ \A t \in Stages \ {s} : stages'[t] = stages[t]
  BY <1>5, <1>6 DEF BoxInv, BoxTypes
<1>. QED  BY <1>3, <1>5, <1>7

\* The answer leaves the actions' own invariant, unless it changes a row of an idle action.
LEMMA AnswerRests ==
  ASSUME BoxInv, NEW s \in Stages, NEW m \in Mails, NEW a \in CallKinds, Box!Answer(s, m, a),
         stages[s].phase \in {"calling", "undoing"}, stages[s].call[m] = "sent",
         pending' = pending, timers' = timers, timer' = timer, history.overlapped => history'.overlapped,
         \A t \in Stages \ {s} : outcome'[t] = outcome[t]
  PROVE  /\ StagesInv' /\ m \in stages[s].ids
         /\ \A t \in Stages, n \in Mails :
              Taken(t, n)' => Taken(t, n) \/ (t = s /\ n = m /\ stages[s].phase = "calling" /\ a = "ok")
<1>1. /\ \A t \in Stages \ {s} : stages'[t] = stages[t]
      /\ stages'[s].phase = stages[s].phase /\ stages'[s].ids = stages[s].ids
      /\ stages'[s].call[m] = a /\ \A n \in Mails \ {m} : stages'[s].call[n] = stages[s].call[n]
  BY AnswerTypes
<1>2. \A t \in Stages : stages'[t].phase = stages[t].phase /\ stages'[t].ids = stages[t].ids
  BY <1>1
<1>3. Busy(s) /\ \A t \in Stages : Busy(t)' <=> Busy(t)
  BY <1>2 DEF Busy
<1>4. m \in stages[s].ids
  BY <1>3 DEF BoxInv, StagesInv
<1>5. pending # Box!NoStage =>
       pending' \in Stages /\ stages'[pending'].phase = "over" /\ timer' = pending' /\ pending' \in timers'
  BY <1>2 DEF BoxInv, StagesInv
<1>6. ~ history'.overlapped =>
       \A t, u \in Stages : Busy(t)' => pending' = Box!NoStage /\ (Busy(u)' => t = u)
  BY <1>3 DEF BoxInv, StagesInv
<1>7. ASSUME NEW t \in Stages
      PROVE  /\ Busy(t)' => \A n \in Mails : stages'[t].call[n] # "none" => n \in stages'[t].ids
             /\ stages'[t].phase = "none" => \A n \in Mails : outcome'[t][n] = "none"
  <2>1. CASE t = s
    BY <1>1, <1>3, <1>4, <2>1 DEF BoxInv, StagesInv
  <2>2. CASE t # s
    BY <1>1, <1>3, <2>2 DEF BoxInv, StagesInv
  <2>. QED  BY <2>1, <2>2
<1>8. StagesInv'
  BY <1>5, <1>6, <1>7 DEF StagesInv, Box!NoStage
<1>9. ASSUME NEW t \in Stages, NEW n \in Mails, Taken(t, n)'
      PROVE  Taken(t, n) \/ (t = s /\ n = m /\ stages[s].phase = "calling" /\ a = "ok")
  BY <1>1, <1>2, <1>9 DEF Taken, Box!NoStage
<1>. QED  BY <1>4, <1>8, <1>9

LEMMA CallFailsSafe ==
  ASSUME BoxInv, NEW s \in Stages, NEW m \in Mails, Box!CallFails(s, m)
  PROVE  BoxInv'
<1>1. /\ server' = server /\ outcome' = outcome /\ cached' = cached /\ tomb' = tomb /\ pending' = pending
      /\ timers' = timers /\ timer' = timer /\ committed' = committed /\ net' = net
      /\ signals' = signals /\ history' = history
      /\ stages[s].phase \in {"calling", "undoing"} /\ stages[s].call[m] = "sent" /\ Box!Answer(s, m, "lost")
  BY DEF Box!CallFails, Box!screen
<1>2. "lost" \in CallKinds
  BY DEF CallKinds
<1>3. StagesInv' /\ \A t \in Stages, n \in Mails : Taken(t, n)' => Taken(t, n)
  BY <1>1, <1>2, AnswerRests
<1>4. stages' \in [Stages -> StageSet] /\ \A t \in Stages : stages'[t].ids = stages[t].ids
  BY <1>1, <1>2, AnswerTypes
<1>5. BoxTypes'
  BY <1>1, <1>4 DEF BoxInv, BoxTypes
<1>6. /\ \A n \in Mails : cached'[n].in => server[n].place # "none"
      /\ \A t \in Stages : \A n \in stages'[t].ids : server[n].place # "none"
  <2>1. ASSUME NEW t \in Stages, NEW n \in stages'[t].ids PROVE n \in Mails /\ n \in stages[t].ids
    BY <1>4 DEF StageSet
  <2>. QED  BY <1>1, <2>1 DEF BoxInv, Born, Unborn
<1>. QED  BY <1>1, <1>3, <1>5, <1>6, ActionStep

LEMMA ServeDeleteSafe ==
  ASSUME BoxInv, NEW s \in Stages, NEW m \in Mails, Box!ServeDelete(s, m)
  PROVE  BoxInv'
<1>1. /\ cached' = cached /\ tomb' = tomb /\ pending' = pending
      /\ timers' = timers /\ timer' = timer /\ committed' = committed /\ net' = net
      /\ stages[s].phase = "calling" /\ stages[s].call[m] = "sent"
      /\ Box!Emit("deleted", m) /\ history' = Box!Noted(history)
  BY DEF Box!ServeDelete, Box!screen
<1>2. PICK a \in CallKinds : Box!Answer(s, m, a)
  BY DEF Box!ServeDelete, CallKinds
<1>3. PICK end \in RowKinds \ {"none"} : outcome' = [outcome EXCEPT ![s][m] = end]
  BY DEF Box!ServeDelete, RowKinds
<1>4. /\ outcome' \in [Stages -> [Mails -> RowKinds]] /\ outcome'[s][m] # "none"
      /\ \A t \in Stages \ {s} : outcome'[t] = outcome[t]
      /\ \A t \in Stages, n \in Mails : outcome[t][n] # "none" => outcome'[t][n] # "none"
  BY <1>3, RowEnds
<1>5. PICK p : p = IF server[m].place = "inbox" THEN "hidden" ELSE server[m].place
  OBVIOUS
<1>6. p \in {"none", "inbox", "hidden", "away"} /\ server' = [server EXCEPT ![m].place = p]
  BY <1>5 DEF Box!ServeDelete, BoxInv, BoxTypes, ServerSet
<1>7. /\ server' \in [Mails -> ServerSet] /\ server'[m].place = p /\ server'[m].seen \in BOOLEAN
      /\ \A n \in Mails \ {m} : server'[n] = server[n]
  BY <1>6, MovedThere
<1>8. /\ history' \in HistorySet /\ history'.slipped = history.slipped
      /\ history'.overlapped = history.overlapped /\ (history'.missed <=> history.missed \/ ~ linked)
  BY <1>1, NotedTypes DEF BoxInv, BoxTypes
<1>9. /\ signals' \in Seq(SigSet) /\ (linked => Going(m)')
      /\ \A n, k : ToldOf(n, k) => ToldOf(n, k)'
      /\ \A n, k : ToldOf(n, k)' => ToldOf(n, k) \/ (n = m /\ k = "deleted")
      /\ \A n : Going(n) => Going(n)'
  BY <1>1, <1>7, Emits DEF BoxInv, SigKinds
<1>10. /\ StagesInv'
       /\ \A t \in Stages, n \in Mails : Taken(t, n)' => Taken(t, n) \/ (t = s /\ n = m)
  BY <1>1, <1>2, <1>4, <1>8, AnswerRests
<1>11. stages' \in [Stages -> StageSet] /\ \A t \in Stages : stages'[t].ids = stages[t].ids
  BY <1>2, AnswerTypes
<1>12. BoxTypes'
  BY <1>1, <1>4, <1>7, <1>8, <1>9, <1>11 DEF BoxInv, BoxTypes
<1>13. /\ \A n \in Mails : server'[n].place = "none" => server[n].place = "none"
       /\ Box!Inbox' \subseteq Box!Inbox /\ m \notin Box!Inbox' /\ \A n \in Box!Inbox \ Box!Inbox' : n = m
  BY <1>5, <1>7 DEF Box!Inbox
<1>14. \A t \in Stages, n \in Mails :
         Taken(t, n)' => \/ Taken(t, n)
                         \/ outcome'[t][n] # "none" /\ n \notin Box!Inbox' /\ (~ history'.missed => Going(n)')
  BY <1>4, <1>8, <1>9, <1>10, <1>13
<1>15. ~ history'.missed => \A n \in Box!Inbox \ Box!Inbox' : Going(n)'
  BY <1>8, <1>9, <1>13
<1>16. \A n \in Mails : /\ ToldOf(n, "restored") => ToldOf(n, "restored")'
                        /\ Going(n) => Going(n)'
                        /\ ToldOf(n, "restored")' => ToldOf(n, "restored")
  BY <1>9
<1>. QED  BY <1>1, <1>4, <1>8, <1>10, <1>11, <1>12, <1>13, <1>14, <1>15, <1>16, WorldStep

LEMMA ServeCancelSafe ==
  ASSUME BoxInv, NEW s \in Stages, NEW m \in Mails, Box!ServeCancel(s, m)
  PROVE  BoxInv'
<1>1. /\ cached' = cached /\ tomb' = tomb /\ pending' = pending
      /\ timers' = timers /\ timer' = timer /\ committed' = committed /\ net' = net
      /\ stages[s].phase = "undoing" /\ stages[s].call[m] = "sent"
  BY DEF Box!ServeCancel, Box!screen
<1>2. PICK a \in CallKinds : Box!Answer(s, m, a)
  BY DEF Box!ServeCancel, CallKinds
<1>3. stages' \in [Stages -> StageSet] /\ \A t \in Stages : stages'[t].ids = stages[t].ids
  BY <1>2, AnswerTypes
<1>4. CASE outcome[s][m] \in {"open", "again"}
  <2>1. Box!Reverted(s, m, "undone") /\ outcome[s][m] # "none"
    BY <1>4 DEF Box!ServeCancel
  <2>2. /\ server' \in [Mails -> ServerSet] /\ outcome' \in [Stages -> [Mails -> RowKinds]]
        /\ signals' \in Seq(SigSet) /\ history' \in HistorySet
        /\ history'.slipped = history.slipped /\ history'.overlapped = history.overlapped
        /\ history.missed => history'.missed
        /\ \A t \in Stages \ {s} : outcome'[t] = outcome[t]
        /\ \A t \in Stages, n \in Mails : outcome[t][n] # "none" => outcome'[t][n] # "none"
        /\ \A n \in Mails : server'[n].place = "none" => server[n].place = "none"
        /\ Box!Inbox \subseteq Box!Inbox' /\ \A n \in Box!Inbox' \ Box!Inbox : n = m
        /\ ~ history'.missed => \A n \in Box!Inbox' \ Box!Inbox : ToldOf(n, "restored")'
        /\ \A n \in Mails : ToldOf(n, "restored") => ToldOf(n, "restored")'
        /\ \A n \in Mails \ Box!Inbox' :
             (Going(n) => Going(n)') /\ (ToldOf(n, "restored")' => ToldOf(n, "restored"))
    BY <2>1, RevertedFacts DEF RowKinds
  <2>3. StagesInv' /\ \A t \in Stages, n \in Mails : Taken(t, n)' => Taken(t, n)
    BY <1>1, <1>2, <2>2, AnswerRests
  <2>4. BoxTypes'
    BY <1>1, <1>3, <2>2 DEF BoxInv, BoxTypes
  <2>5. ~ Taken(s, m)
    BY <1>1 DEF BoxInv, StagesInv, Taken
  <2>6. \A n \in Box!Inbox' \ Box!Inbox : \A t \in Stages : Taken(t, n) => Twice(n)'
    BY <2>1, <2>2, <2>5, RevertedTwice, OnceTwice
  <2>. QED  BY <1>1, <1>3, <2>2, <2>3, <2>4, <2>6, WorldStep
<1>5. CASE outcome[s][m] \notin {"open", "again"}
  <2>1. server' = server /\ outcome' = outcome /\ signals' = signals /\ history' = history
    BY <1>5 DEF Box!ServeCancel
  <2>2. StagesInv' /\ \A t \in Stages, n \in Mails : Taken(t, n)' => Taken(t, n)
    BY <1>1, <1>2, <2>1, AnswerRests
  <2>3. BoxTypes'
    BY <1>1, <1>3, <2>1 DEF BoxInv, BoxTypes
  <2>4. \A n : (ToldOf(n, "restored")' <=> ToldOf(n, "restored")) /\ (Going(n)' <=> Going(n))
    BY <2>1 DEF ToldOf, Going
  <2>5. Box!Inbox' = Box!Inbox
    BY <2>1 DEF Box!Inbox
  <2>. QED  BY <1>1, <1>3, <2>1, <2>2, <2>3, <2>4, <2>5, WorldStep
<1>. QED  BY <1>4, <1>5

\* An action ends its calls: its record is over, whichever ids it keeps.
LEMMA OverTypes ==
  ASSUME BoxInv, NEW s \in Stages, NEW e \in StageSet, stages' = [stages EXCEPT ![s] = e]
  PROVE  /\ stages' \in [Stages -> StageSet] /\ stages'[s] = e
         /\ \A t \in Stages \ {s} : stages'[t] = stages[t]
BY DEF BoxInv, BoxTypes

\* The rows of S, of mail the client has had, go back.
LEMMA ReinsertTypes ==
  ASSUME BoxInv, NEW s \in Stages, NEW S \in SUBSET stages[s].ids, Box!Reinserted(s, S)
  PROVE  /\ cached' \in [Mails -> Box!Rows] /\ tomb' = tomb \ S
         /\ \A n \in Mails : cached'[n].in => server[n].place # "none"
         /\ \A n \in Mails \ S : cached'[n] = cached[n]
<1>1. cached \in [Mails -> Box!Rows] /\ stages[s].snap \in [Mails -> Box!Rows]
  BY DEF BoxInv, BoxTypes, StageSet
<1>2. /\ cached' = [n \in Mails |-> IF n \in S THEN stages[s].snap[n] ELSE cached[n]]
      /\ tomb' = tomb \ S
  BY DEF Box!Reinserted
<1>3. \A n \in Mails : n \in S \/ cached[n].in => server[n].place # "none"
  BY DEF BoxInv, Born, Unborn
<1>. QED  BY <1>1, <1>2, <1>3

\* While an action makes its calls nothing else is taken, short of an overlap.
LEMMA BusyAlone ==
  ASSUME BoxInv, ~ history.overlapped, NEW s \in Stages, Busy(s), NEW t \in Stages, NEW n \in Mails, Taken(t, n)
  PROVE  t = s /\ stages[s].phase = "calling" /\ stages[s].call[n] = "ok"
<1>1. pending = Box!NoStage /\ (Busy(t) => t = s)
  BY DEF BoxInv, StagesInv
<1>2. stages[t].phase = "calling" /\ stages[t].call[n] = "ok"
  BY <1>1 DEF Taken
<1>. QED  BY <1>1, <1>2 DEF Busy

LEMMA StagedSafe == ASSUME BoxInv, NEW s \in Stages, Box!Staged(s) PROVE BoxInv'
<1>. DEFINE okd == Box!With(s, "ok")
            lost == Box!With(s, "lost")
<1>1. /\ server' = server /\ outcome' = outcome /\ signals' = signals /\ net' = net
      /\ committed' = committed /\ history' = history
      /\ stages[s].phase = "calling" /\ Box!Reinserted(s, lost)
  BY DEF Box!Staged, Box!StagedBack
<1>2. /\ stages[s] \in StageSet /\ Busy(s)
      /\ \A n \in okd : n \in stages[s].ids /\ stages[s].call[n] = "ok"
      /\ \A n \in lost : n \in stages[s].ids /\ stages[s].call[n] = "lost"
  BY <1>1 DEF BoxInv, BoxTypes, Busy, Box!With
<1>3. PICK e \in StageSet :
        /\ e.phase = "over" /\ stages' = [stages EXCEPT ![s] = e]
        /\ \/ pending' = pending /\ timers' = timers /\ timer' = timer /\ e.ids = stages[s].ids
           \/ pending' = s /\ timer' = s /\ s \in timers' /\ e.ids = okd
  <2>1. CASE okd = {}
    <3>1. PICK e : e = [stages[s] EXCEPT !.phase = "over"]
      OBVIOUS
    <3>2. e \in StageSet /\ e.phase = "over" /\ e.ids = stages[s].ids
      BY <1>2, <3>1 DEF StageSet
    <3>3. stages' = [stages EXCEPT ![s] = e] /\ pending' = pending /\ timers' = timers /\ timer' = timer
      BY <2>1, <3>1 DEF Box!Staged
    <3>. QED  BY <3>2, <3>3
  <2>2. CASE okd # {}
    <3>1. PICK e : e = [stages[s] EXCEPT !.phase = "over", !.ids = okd]
      OBVIOUS
    <3>2. okd \subseteq Mails
      BY <1>2 DEF StageSet
    <3>3. e \in StageSet /\ e.phase = "over" /\ e.ids = okd
      BY <1>2, <3>1, <3>2 DEF StageSet
    <3>4. stages' = [stages EXCEPT ![s] = e] /\ pending' = s /\ timer' = s /\ s \in timers'
      BY <2>2, <3>1 DEF Box!Staged
    <3>. QED  BY <3>3, <3>4
  <2>. QED  BY <2>1, <2>2
<1>4. /\ stages' \in [Stages -> StageSet] /\ stages'[s] = e
      /\ \A t \in Stages \ {s} : stages'[t] = stages[t]
  BY <1>3, OverTypes
<1>5. /\ cached' \in [Mails -> Box!Rows] /\ tomb' = tomb \ lost
      /\ \A n \in Mails : cached'[n].in => server[n].place # "none"
      /\ \A n \in Mails \ lost : cached'[n] = cached[n]
  <2>1. lost \in SUBSET stages[s].ids
    BY <1>2
  <2>. QED  BY <1>1, <2>1, ReinsertTypes
<1>6. BoxTypes'
  BY <1>1, <1>4, <1>5 DEF BoxInv, BoxTypes
<1>7. pending # Box!NoStage => pending \in Stages \ {s} /\ stages[pending].phase = "over"
  BY <1>1 DEF BoxInv, StagesInv
<1>8. \A t \in Stages : Busy(t)' => Busy(t) /\ t # s
  BY <1>3, <1>4 DEF Busy
<1>9. StagesInv'
  <2>1. pending' # Box!NoStage =>
          pending' \in Stages /\ stages'[pending'].phase = "over" /\ timer' = pending' /\ pending' \in timers'
    BY <1>3, <1>4, <1>7 DEF BoxInv, StagesInv
  <2>2. ~ history'.overlapped =>
          \A t, u \in Stages : Busy(t)' => pending' = Box!NoStage /\ (Busy(u)' => t = u)
    BY <1>1, <1>2, <1>8 DEF BoxInv, StagesInv
  <2>3. ASSUME NEW t \in Stages
        PROVE  /\ Busy(t)' => \A n \in Mails : stages'[t].call[n] # "none" => n \in stages'[t].ids
               /\ stages'[t].phase = "none" => \A n \in Mails : outcome'[t][n] = "none"
    <3>1. CASE t = s
      BY <1>3, <1>4, <1>8, <3>1
    <3>2. CASE t # s
      BY <1>1, <1>4, <1>8, <3>2 DEF BoxInv, StagesInv
    <3>. QED  BY <3>1, <3>2
  <2>. QED  BY <2>1, <2>2, <2>3 DEF StagesInv, Box!NoStage
<1>10. ASSUME NEW t \in Stages, NEW n \in Mails, Taken(t, n)' PROVE Taken(t, n)
  <2>1. CASE t = s
    <3>1. pending' # Box!NoStage /\ pending' = s /\ n \in e.ids
      BY <1>3, <1>4, <1>10, <2>1 DEF Taken, Box!NoStage
    <3>2. n \in okd
      BY <1>3, <1>7, <3>1
    <3>. QED  BY <1>1, <1>2, <2>1, <3>2 DEF Taken
  <2>2. CASE t # s
    BY <1>3, <1>4, <1>10, <2>2 DEF Taken, Box!NoStage
  <2>. QED  BY <2>1, <2>2
<1>11. ASSUME NEW t \in Stages, NEW n \in stages'[t].ids PROVE server[n].place # "none"
  <2>1. n \in stages[t].ids /\ n \in Mails
    BY <1>2, <1>3, <1>4 DEF StageSet
  <2>. QED  BY <2>1 DEF BoxInv, Born, Unborn
<1>12. ASSUME Clean', NEW t \in Stages, NEW n \in Mails, Taken(t, n)'
       PROVE  (n \in tomb => n \in tomb') /\ (cached'[n].in => cached[n].in)
  <2>1. n \notin lost
    BY <1>1, <1>2, <1>10, <1>12, BusyAlone DEF Clean
  <2>. QED  BY <1>5, <2>1
<1>. QED  BY <1>1, <1>5, <1>6, <1>9, <1>10, <1>11, <1>12, ActionStep

LEMMA UndoDoneSafe == ASSUME BoxInv, NEW s \in Stages, Box!UndoDone(s) PROVE BoxInv'
<1>1. /\ server' = server /\ outcome' = outcome /\ signals' = signals /\ net' = net /\ pending' = pending
      /\ timers' = timers /\ timer' = timer /\ committed' = committed /\ history' = history
      /\ stages[s].phase = "undoing" /\ Box!Reinserted(s, stages[s].ids) /\ Busy(s)
  BY DEF Box!UndoDone, Busy
<1>2. PICK e : e = [stages[s] EXCEPT !.phase = "over"]
  OBVIOUS
<1>3. /\ e \in StageSet /\ e.phase = "over" /\ e.ids = stages[s].ids /\ stages' = [stages EXCEPT ![s] = e]
  BY <1>2 DEF BoxInv, BoxTypes, StageSet, Box!UndoDone
<1>4. /\ stages' \in [Stages -> StageSet] /\ stages'[s] = e
      /\ \A t \in Stages \ {s} : stages'[t] = stages[t]
  BY <1>3, OverTypes
<1>5. /\ cached' \in [Mails -> Box!Rows] /\ tomb' = tomb \ stages[s].ids
      /\ \A n \in Mails : cached'[n].in => server[n].place # "none"
      /\ \A n \in Mails \ stages[s].ids : cached'[n] = cached[n]
  BY <1>1, ReinsertTypes
<1>6. BoxTypes'
  BY <1>1, <1>4, <1>5 DEF BoxInv, BoxTypes
<1>7. pending # Box!NoStage => pending \in Stages \ {s} /\ stages[pending].phase = "over"
  BY <1>1 DEF BoxInv, StagesInv
<1>8. \A t \in Stages : Busy(t)' => Busy(t) /\ t # s
  BY <1>3, <1>4 DEF Busy
<1>9. StagesInv'
  <2>1. pending' # Box!NoStage =>
          pending' \in Stages /\ stages'[pending'].phase = "over" /\ timer' = pending' /\ pending' \in timers'
    BY <1>1, <1>4, <1>7 DEF BoxInv, StagesInv
  <2>2. ~ history'.overlapped =>
          \A t, u \in Stages : Busy(t)' => pending' = Box!NoStage /\ (Busy(u)' => t = u)
    BY <1>1, <1>8 DEF BoxInv, StagesInv
  <2>3. ASSUME NEW t \in Stages
        PROVE  /\ Busy(t)' => \A n \in Mails : stages'[t].call[n] # "none" => n \in stages'[t].ids
               /\ stages'[t].phase = "none" => \A n \in Mails : outcome'[t][n] = "none"
    <3>1. CASE t = s
      BY <1>3, <1>4, <1>8, <3>1
    <3>2. CASE t # s
      BY <1>1, <1>4, <1>8, <3>2 DEF BoxInv, StagesInv
    <3>. QED  BY <3>1, <3>2
  <2>. QED  BY <2>1, <2>2, <2>3 DEF StagesInv, Box!NoStage
<1>10. ASSUME NEW t \in Stages, NEW n \in Mails, Taken(t, n)' PROVE Taken(t, n)
  <2>1. t # s
    BY <1>1, <1>3, <1>4, <1>7, <1>10 DEF Taken, Box!NoStage
  <2>. QED  BY <1>1, <1>4, <1>10, <2>1 DEF Taken, Box!NoStage
<1>11. ASSUME NEW t \in Stages, NEW n \in stages'[t].ids PROVE server[n].place # "none"
  <2>1. n \in stages[t].ids /\ n \in Mails
    BY <1>3, <1>4 DEF StageSet
  <2>. QED  BY <2>1 DEF BoxInv, Born, Unborn
<1>12. Clean' => \A t \in Stages, n \in Mails : ~ Taken(t, n)'
  BY <1>1, <1>10, BusyAlone DEF Clean
<1>. QED  BY <1>1, <1>5, <1>6, <1>9, <1>10, <1>11, <1>12, ActionStep

LEMMA WindowTimerSafe == ASSUME BoxInv, NEW s \in Stages, Box!WindowTimer(s) PROVE BoxInv'
<1>1. /\ server' = server /\ outcome' = outcome /\ cached' = cached /\ tomb' = tomb
      /\ signals' = signals /\ net' = net /\ stages' = stages /\ history' = history
  BY DEF Box!WindowTimer
<1>2. /\ pending' = Box!NoStage
      /\ \A n \in committed' \ committed :
           n \in Mails => server[n].place # "none" /\ (n \notin Box!Inbox \/ Twice(n))
  <2>1. PICK c : c = Box!CommitOf(pending, timers \ {s}, committed)
    OBVIOUS
  <2>2. pending' = c[1] /\ committed' = c[3]
    BY <2>1 DEF Box!WindowTimer
  <2>. QED  BY <2>1, <2>2, Finalises
<1>3. StagesInv'
  <2>1. \A t : Busy(t)' <=> Busy(t)
    BY <1>1 DEF Busy
  <2>2. ~ history'.overlapped =>
          \A t, u \in Stages : Busy(t)' => pending' = Box!NoStage /\ (Busy(u)' => t = u)
    BY <1>1, <1>2, <2>1 DEF BoxInv, StagesInv
  <2>3. ASSUME NEW t \in Stages
        PROVE  /\ Busy(t)' => \A n \in Mails : stages'[t].call[n] # "none" => n \in stages'[t].ids
               /\ stages'[t].phase = "none" => \A n \in Mails : outcome'[t][n] = "none"
    BY <1>1, <2>1 DEF BoxInv, StagesInv
  <2>. QED  BY <1>2, <2>2, <2>3 DEF StagesInv, Box!NoStage
<1>4. \A t \in Stages, n \in Mails : Taken(t, n)' => Taken(t, n)
  BY <1>1, <1>2 DEF Taken, Box!NoStage
<1>5. BoxTypes'
  BY <1>1 DEF BoxInv, BoxTypes
<1>6. /\ \A n \in Mails : cached'[n].in => server[n].place # "none"
      /\ \A t \in Stages : \A n \in stages'[t].ids : server[n].place # "none"
  <2>1. \A t \in Stages : stages[t].ids \subseteq Mails
    BY DEF BoxInv, BoxTypes, StageSet
  <2>. QED  BY <1>1, <2>1 DEF BoxInv, Born, Unborn
<1>. QED  BY <1>1, <1>2, <1>3, <1>4, <1>5, <1>6, ActionStep

LEMMA UndoSafe == ASSUME BoxInv, Box!Undo PROVE BoxInv'
<1>1. /\ server' = server /\ outcome' = outcome /\ cached' = cached /\ tomb' = tomb
      /\ signals' = signals /\ net' = net /\ committed' = committed /\ history' = history
      /\ pending # Box!NoStage /\ pending' = Box!NoStage
  BY DEF Box!Undo
<1>2. pending \in Stages /\ stages[pending] \in StageSet /\ stages[pending].phase = "over"
  BY <1>1 DEF BoxInv, BoxTypes, StagesInv
<1>3. PICK e : e = [stages[pending] EXCEPT !.phase = "undoing",
                      !.call = [n \in Mails |-> IF n \in stages[pending].ids THEN "sent" ELSE "none"]]
  OBVIOUS
<1>4. /\ e \in StageSet /\ e.phase = "undoing" /\ e.ids = stages[pending].ids
      /\ \A n \in Mails : e.call[n] # "none" => n \in e.ids
  <2>1. PICK c : c = [n \in Mails |-> IF n \in stages[pending].ids THEN "sent" ELSE "none"]
    OBVIOUS
  <2>2. c \in [Mails -> CallKinds] /\ \A n \in Mails : c[n] # "none" => n \in stages[pending].ids
    BY <2>1 DEF CallKinds
  <2>3. e = [stages[pending] EXCEPT !.phase = "undoing", !.call = c]
    BY <1>3, <2>1
  <2>. QED  BY <1>2, <2>2, <2>3 DEF StageSet
<1>5. stages' = [stages EXCEPT ![pending] = e]
  BY <1>3 DEF Box!Undo
<1>6. /\ stages' \in [Stages -> StageSet] /\ stages'[pending] = e
      /\ \A t \in Stages \ {pending} : stages'[t] = stages[t]
  BY <1>2, <1>4, <1>5, OverTypes
<1>7. StagesInv'
  <2>1. ~ history.overlapped => \A t \in Stages : ~ Busy(t)
    BY <1>1 DEF BoxInv, StagesInv
  <2>2. \A t \in Stages \ {pending} : Busy(t)' <=> Busy(t)
    BY <1>6 DEF Busy
  <2>3. ~ history'.overlapped =>
          \A t, u \in Stages : Busy(t)' => pending' = Box!NoStage /\ (Busy(u)' => t = u)
    BY <1>1, <2>1, <2>2
  <2>4. ASSUME NEW t \in Stages
        PROVE  /\ Busy(t)' => \A n \in Mails : stages'[t].call[n] # "none" => n \in stages'[t].ids
               /\ stages'[t].phase = "none" => \A n \in Mails : outcome'[t][n] = "none"
    <3>1. CASE t = pending
      BY <1>4, <1>6, <3>1
    <3>2. CASE t # pending
      BY <1>1, <1>6, <2>2, <3>2 DEF BoxInv, StagesInv
    <3>. QED  BY <3>1, <3>2
  <2>. QED  BY <1>1, <2>3, <2>4 DEF StagesInv, Box!NoStage
<1>8. \A t \in Stages, n \in Mails : Taken(t, n)' => Taken(t, n)
  BY <1>1, <1>4, <1>6 DEF Taken, Box!NoStage
<1>9. BoxTypes'
  BY <1>1, <1>6 DEF BoxInv, BoxTypes
<1>10. /\ \A n \in Mails : cached'[n].in => server[n].place # "none"
       /\ \A t \in Stages : \A n \in stages'[t].ids : server[n].place # "none"
  <2>1. \A t \in Stages : stages'[t].ids = stages[t].ids /\ stages[t].ids \subseteq Mails
    BY <1>4, <1>6 DEF BoxInv, BoxTypes, StageSet
  <2>. QED  BY <1>1, <2>1 DEF BoxInv, Born, Unborn
<1>. QED  BY <1>1, <1>7, <1>8, <1>9, <1>10, ActionStep

-----------------------------------------------------------------------------

LEMMA BoxStarts == Box!Init => BoxInv
<1>. SUFFICES ASSUME Box!Init PROVE BoxInv
  OBVIOUS
<1>1. /\ server \in [Mails -> [place : {"none", "inbox"}, seen : {FALSE}]]
      /\ outcome = [s \in Stages |-> [m \in Mails |-> "none"]]
      /\ cached = [m \in Mails |-> IF server[m].place = "inbox" THEN Box!Row(TRUE, FALSE) ELSE Box!NoRow]
      /\ signals = <<>> /\ net = {} /\ stages = [s \in Stages |-> Box!Idle]
      /\ pending = Box!NoStage /\ committed = {}
  BY DEF Box!Init
<1>2. /\ Box!Idle \in StageSet /\ Box!Idle.phase = "none" /\ Box!Idle.ids = {}
  BY RowTypes DEF Box!Idle, StageSet, CallKinds
<1>3. BoxTypes
  <2>1. history \in HistorySet
    BY DEF Box!Init, HistorySet
  <2>2. signals \in Seq(SigSet)
    BY <1>1
  <2>3. server \in [Mails -> ServerSet]
    BY <1>1 DEF ServerSet
  <2>. QED  BY <1>1, <1>2, <2>1, <2>2, <2>3, RowTypes DEF BoxTypes, RowKinds
<1>4. \A s \in Stages : stages[s].phase = "none" /\ stages[s].ids = {}
  BY <1>1, <1>2
<1>5. StagesInv /\ \A s \in Stages, m \in Mails : ~ Taken(s, m)
  BY <1>1, <1>4 DEF StagesInv, Busy, Taken
<1>6. Born
  BY <1>1, <1>4, RowTypes DEF Born, Unborn
<1>7. TakenInv /\ HiddenInv /\ ShownInv
  BY <1>1, <1>5 DEF TakenInv, HiddenInv, ShownInv
<1>. QED  BY <1>3, <1>5, <1>6, <1>7 DEF BoxInv

LEMMA BoxStep == ASSUME BoxInv, Box!Next PROVE BoxInv'
<1>1. ASSUME NEW m \in Mails,
             \/ Box!NewMail(m) \/ Box!LeavesElsewhere(m) \/ Box!ReadElsewhere(m) \/ Box!TombExpires(m)
             \/ \E v \in BOOLEAN : Box!MutateFlags(m, v)
      PROVE  BoxInv'
  BY <1>1, ElsewhereSafe, TombExpiresSafe, FlagsSafe
<1>2. ASSUME NEW s \in Stages, NEW m \in Mails,
             \/ Box!Due(s, m) \/ Box!GivesUp(s, m) \/ Box!ServeDelete(s, m) \/ Box!CallFails(s, m)
             \/ Box!ServeCancel(s, m)
      PROVE  BoxInv'
  BY <1>2, DueSafe, GivesUpSafe, ServeDeleteSafe, CallFailsSafe, ServeCancelSafe
<1>3. ASSUME NEW s \in Stages,
             \/ \E S \in SUBSET Mails : Box!Stage(s, S)
             \/ Box!Staged(s) \/ Box!WindowTimer(s) \/ Box!UndoDone(s)
      PROVE  BoxInv'
  BY <1>3, StageSafe, StagedSafe, WindowTimerSafe, UndoDoneSafe
<1>4. ASSUME NEW r \in net,
             \/ Box!Serve(r) \/ Box!ListArrives(r) \/ Box!GetArrives(r) \/ Box!GetStored(r)
             \/ Box!FlagsAnswered(r) \/ Box!FlagsFail(r) \/ Box!ReadFails(r)
      PROVE  BoxInv'
  BY <1>4, ServeSafe, ListArrivesSafe, GetArrivesSafe, GetStoredSafe, FlagsSafe, ReadFailsSafe
<1>5. ASSUME Box!Disconnect \/ Box!Reconnect \/ Box!Refresh \/ Box!OnSignal \/ Box!Undo
      PROVE  BoxInv'
  BY <1>5, DisconnectSafe, RefreshSafe, OnSignalSafe, UndoSafe
<1>. QED  BY <1>1, <1>2, <1>3, <1>4, <1>5 DEF Box!Next

LEMMA BoxRests == ASSUME BoxInv, UNCHANGED boxVars PROVE BoxInv'
<1>1. /\ server' = server /\ outcome' = outcome /\ cached' = cached /\ tomb' = tomb /\ signals' = signals
      /\ net' = net /\ stages' = stages /\ pending' = pending /\ timers' = timers /\ timer' = timer
      /\ committed' = committed /\ history' = history
  BY DEF boxVars
<1>. QED  BY <1>1, CacheStep DEF BoxInv, BoxTypes

LEMMA BoxIsTrue == ASSUME BoxInv PROVE Box!HidingIsTrue
<1>1. ASSUME signals = <<>>, NEW m, NEW k, ToldOf(m, k) PROVE FALSE
  BY <1>1 DEF ToldOf
<1>2. Box!StagedStaysHidden
  <2>. SUFFICES ASSUME pending # Box!NoStage, signals = <<>>, Clean, NEW m \in stages[pending].ids \ Box!Inbox
                PROVE  ~ cached[m].in
    BY DEF Box!StagedStaysHidden, Clean
  <2>1. pending \in Stages /\ m \in Mails
    BY DEF BoxInv, BoxTypes, StagesInv, StageSet
  <2>2. Taken(pending, m)
    BY DEF Taken
  <2>3. ~ Going(m)
    BY DEF Going
  <2>. QED  BY <2>1, <2>2, <2>3 DEF BoxInv, HiddenInv, Unseen
<1>3. Box!SearchShowsRestored
  BY <1>1 DEF BoxInv, ShownInv, Twice, Box!SearchShowsRestored
<1>. QED  BY <1>2, <1>3 DEF Box!HidingIsTrue

\* What an action on offer deleted is not in the list, short of the server's own word, and
\* Search hides nothing that is in the inbox once the socket has been heard out
\* (db/cache.ts removal tombstones, state/undo.ts:115).
THEOREM HiddenIsGone == FairSpec => []HidingIsTrue
<1>. DEFINE Inv == scene = "mailbox" => BoxInv
<1>1. Init => Inv
  BY BoxStarts DEF Init
<1>2. Inv /\ [Next]_vars => Inv'
  <2>. SUFFICES ASSUME Inv, [Next]_vars, scene' = "mailbox" PROVE BoxInv'
    OBVIOUS
  <2>1. scene = "mailbox" /\ (Box!Next \/ UNCHANGED boxVars)
    BY DEF Next, vars
  <2>. QED  BY <2>1, BoxStep, BoxRests
<1>3. Inv => HidingIsTrue
  BY BoxIsTrue DEF HidingIsTrue
<1>. QED  BY <1>1, <1>2, <1>3, PTL DEF FairSpec

=============================================================================
