---------------------------- MODULE PushDelivery ----------------------------
(***************************************************************************)
(* New-mail notifications on the Android app: the server's device rows and *)
(* their cursor (push/pending.ts, devices.ts), the shell's credential,     *)
(* alarm and poll (MailyPush*.java, MailyNativePlugin.java), and the web   *)
(* layer that turns them on and off and reconciles the two                 *)
(* (frontend/api/push.ts).  The installed PWA's subscription rides along.  *)
(*                                                                         *)
(* receivedAt is the provider's INTERNALDATE, in steps of `clock'; mail is *)
(* stored then or later.                                                   *)
(***************************************************************************)
EXTENDS Naturals, FiniteSets, FiniteSetsExt

CONSTANTS Msgs,
          Tokens,     \* device secrets that can be minted
          Limit,      \* PENDING_LIMIT
          MaxTime,    \* bound: the clock
          MaxToggles, \* bound: taps on the switch
          MaxFaults   \* bound: lost calls, revocations, kills, cleared data

VARIABLES mail,     \* stored messages: receivedAt, unread
          clock,
          rows,     \* push_devices: token -> lastEventAt, or NoRow
          phone,    \* shell: credential, alarm, POST_NOTIFICATIONS
          poll,     \* the receiver's background thread
          marker,   \* localStorage: the switch was turned on here
          resume,   \* resumeNativePush in flight
          switch,   \* enablePush or disablePush in flight, and what Settings shows
          offers,   \* answers to a credential that a message was in
          webpush,  \* the PWA's subscription: "none", "live", "dead" (stored, expired)
          past      \* bounds used; what the properties except

vars == <<mail, clock, rows, phone, poll, marker, resume, switch, offers, webpush, past>>

NoToken == "no token"
NoRow == MaxTime + 1
Absent == [at |-> 0, stored |-> FALSE, unread |-> FALSE]
Free == {t \in Tokens : t \notin past.minted}
Rests == [step |-> "idle", token |-> NoToken]
NoPoll == [step |-> "none", token |-> NoToken, mail |-> {}, known |-> FALSE]
Fault(h) == past.faults < MaxFaults /\ past' = [h EXCEPT !.faults = @ + 1]

-----------------------------------------------------------------------------
(* The server *)

\* savePushDevice: the cursor of a new row starts at now.
Minted(t) == rows' = [rows EXCEPT ![t] = clock]
Forgotten(t) == [rows EXCEPT ![t] = NoRow]

Unread == {m \in Msgs : mail[m].stored /\ mail[m].unread}

\* listUnifiedByRole('inbox', limit, undefined, true): the newest unread.
Newest == {S \in kSubset(Min({Limit, Cardinality(Unread)}), Unread) :
             \A m \in S, n \in Unread \ S : mail[m].at >= mail[n].at}

\* Mutant: an arrival at the cursor counts as after it.
PendingFrom(cursor, S) == {m \in S : mail[m].at >= cursor}

\* pendingForDevice: of those, the ones after the cursor ...
Pending(cursor, S) == {m \in S : mail[m].at > cursor}

\* ... which moves past everything returned, never back.
Advanced(cursor, S) == Max({cursor} \cup {mail[m].at : m \in S})

-----------------------------------------------------------------------------
(* Mail *)

Second == /\ clock < MaxTime /\ clock' = clock + 1
          /\ UNCHANGED <<mail, rows, phone, poll, marker, resume, switch, offers, webpush, past>>

\* An INBOX arrival, stored at its second or at a later one; mail:new is broadcast, and a
\* dead subscription is pruned.
Arrives(m, at) ==
  /\ ~mail[m].stored /\ at <= clock
  /\ mail' = [mail EXCEPT ![m] = [at |-> at, stored |-> TRUE, unread |-> TRUE]]
  /\ webpush' = IF webpush = "dead" THEN "none" ELSE webpush
  /\ UNCHANGED <<clock, rows, phone, poll, marker, resume, switch, offers, past>>

ReadElsewhere(m) ==
  /\ m \in Unread
  /\ mail' = [mail EXCEPT ![m].unread = FALSE]
  /\ UNCHANGED <<clock, rows, phone, poll, marker, resume, switch, offers, webpush, past>>

-----------------------------------------------------------------------------
(* The alarm and the poll *)

\* ACTION_POLL: the one-shot alarm is spent, a thread reads the credential.
AlarmFires ==
  /\ phone.armed /\ poll = NoPoll
  /\ IF phone.token = NoToken
     THEN UNCHANGED <<phone, poll>>  \* nothing to ask with, and armNext all the same
     ELSE /\ phone' = [phone EXCEPT !.armed = FALSE]
          /\ poll' = [step |-> "asking", token |-> phone.token, mail |-> {}, known |-> TRUE]
  /\ UNCHANGED <<mail, clock, rows, marker, resume, switch, offers, webpush, past>>

\* GET /api/push/pending: 401, or the answer, and the cursor moves as it is written.
ServePoll ==
  /\ poll.step = "asking"
  /\ LET cursor == rows[poll.token] IN
     IF cursor = NoRow
     THEN /\ poll' = [poll EXCEPT !.step = "answered", !.known = FALSE]
          /\ UNCHANGED <<rows, offers>>
     ELSE \E S \in Newest : LET P == Pending(cursor, S) IN
          /\ poll' = [poll EXCEPT !.step = "answered", !.mail = P]
          /\ rows' = [rows EXCEPT ![poll.token] = Advanced(cursor, P)]
          /\ offers' = [offers EXCEPT ![poll.token] = [m \in Msgs |-> @[m] + (IF m \in P THEN 1 ELSE 0)]]
  /\ UNCHANGED <<mail, clock, phone, marker, resume, switch, webpush, past>>

\* The answer is posted, or the credential dropped; the next alarm is armed whatever
\* was found.
PollEnds ==
  /\ poll.step = "answered"
  /\ phone' = [phone EXCEPT !.armed = TRUE, !.token = IF poll.known THEN @ ELSE NoToken]
  /\ poll' = NoPoll
  /\ UNCHANGED <<mail, clock, rows, marker, resume, switch, offers, webpush, past>>

PollFails ==
  /\ poll # NoPoll /\ Fault(past)
  /\ phone' = [phone EXCEPT !.armed = TRUE]
  /\ poll' = NoPoll
  /\ UNCHANGED <<mail, clock, rows, marker, resume, switch, offers, webpush>>

\* The system kills the process, or the user force-stops it: what it was doing ends, and a
\* force stop cancels the alarm.
Killed(forced) ==
  /\ Fault(past)
  /\ phone' = [phone EXCEPT !.armed = @ /\ ~forced]
  /\ poll' = NoPoll
  /\ resume' = Rests
  /\ switch' = [Rests EXCEPT !.step = "closed"]
  /\ UNCHANGED <<mail, clock, rows, marker, offers, webpush>>

\* MailyPushAlarm.enable
Armed(p) == [p EXCEPT !.armed = @ \/ p.token # NoToken]

\* Boot, or an update of the app.
Reboot ==
  /\ Fault(past)
  /\ phone' = Armed([phone EXCEPT !.armed = FALSE])
  /\ poll' = NoPoll /\ resume' = Rests /\ switch' = [Rests EXCEPT !.step = "closed"]
  /\ UNCHANGED <<mail, clock, rows, marker, offers, webpush>>

\* The row is revoked on another client or the shell's storage cleared.
Revoked(t) == /\ rows[t] # NoRow /\ Fault(past) /\ rows' = Forgotten(t)
              /\ UNCHANGED <<mail, clock, phone, poll, marker, resume, switch, offers, webpush>>
ShellCleared == /\ phone.token # NoToken /\ Fault(past)
                /\ phone' = [phone EXCEPT !.token = NoToken, !.armed = FALSE]
                /\ UNCHANGED <<mail, clock, rows, poll, marker, resume, switch, offers, webpush>>
PermissionRevoked == /\ phone.granted /\ Fault(past) /\ phone' = [phone EXCEPT !.granted = FALSE]
                     /\ UNCHANGED <<mail, clock, rows, poll, marker, resume, switch, offers, webpush>>

-----------------------------------------------------------------------------
(* The web layer *)

\* The app opens: load() re-arms the alarm, and the reconcile asks the shell.
AppOpens ==
  /\ resume = Rests
  /\ phone' = Armed(phone)
  /\ resume' = [resume EXCEPT !.step = IF phone.token # NoToken THEN "on" ELSE "off"]
  /\ UNCHANGED <<mail, clock, rows, poll, marker, switch, offers, webpush, past>>

\* Re-issue what the shell lost.
Reissue == resume.step = "off" /\ marker

\* The status arrives: adopted, when the shell holds a credential.
ResumeDecides ==
  /\ resume.step \in {"on", "off"}
  /\ marker' = (marker \/ resume.step = "on")
  /\ resume' = IF Reissue THEN [resume EXCEPT !.step = "minting"] ELSE Rests
  /\ UNCHANGED <<mail, clock, rows, phone, poll, switch, offers, webpush, past>>

Mints(t) == Minted(t) /\ past' = [past EXCEPT !.minted = @ \cup {t}]

\* enablePush in the shell: the credential is stored, and dropped if permission is declined.
Handed(t, ok) ==
  phone' = IF ok THEN Armed([phone EXCEPT !.token = t, !.granted = TRUE])
           ELSE [phone EXCEPT !.token = NoToken]

ResumeMints(t) ==
  /\ resume.step = "minting" /\ t \in Free
  /\ Mints(t)
  /\ resume' = [step |-> "minted", token |-> t]
  /\ UNCHANGED <<mail, clock, phone, poll, marker, switch, offers, webpush>>

ResumeFails ==
  /\ resume.step \in {"minting", "minted"} /\ Fault(past)
  /\ resume' = Rests
  /\ UNCHANGED <<mail, clock, rows, phone, poll, marker, switch, offers, webpush>>

\* The switch goes off when the shell will not run it.
ResumeHands ==
  /\ resume.step = "minted"
  /\ \E ok \in {phone.granted} \cup {FALSE} :
       /\ Handed(resume.token, ok)
       /\ rows' = IF ok THEN rows ELSE Forgotten(resume.token)
       /\ marker' = (marker /\ ok)
  /\ resume' = Rests
  /\ UNCHANGED <<mail, clock, poll, switch, offers, webpush, past>>

\* Settings opens and shows the marker as it is then; a tap acts on what is shown.
SettingsOpens ==
  /\ switch.step = "closed"
  /\ switch' = [Rests EXCEPT !.step = IF marker THEN "shows on" ELSE "shows off"]
  /\ UNCHANGED <<mail, clock, rows, phone, poll, marker, resume, offers, webpush, past>>

SettingsCloses ==
  /\ switch.step \in {"shows on", "shows off"}
  /\ switch' = [switch EXCEPT !.step = "closed"]
  /\ UNCHANGED <<mail, clock, rows, phone, poll, marker, resume, offers, webpush, past>>

Tapped == past.taps < MaxToggles

\* enablePush: mint, hand over, and claim it only when it took.
EnableMints(t) ==
  /\ switch.step = "shows off" /\ Tapped /\ t \in Free
  /\ Minted(t)
  /\ past' = [past EXCEPT !.minted = @ \cup {t}, !.taps = @ + 1, !.wants = TRUE]
  /\ switch' = [step |-> "minted", token |-> t]
  /\ webpush' = "live"
  /\ UNCHANGED <<mail, clock, phone, poll, marker, resume, offers>>

EnableHands(ok) ==
  /\ switch.step = "minted"
  /\ Handed(switch.token, ok)
  /\ rows' = IF ok THEN rows ELSE Forgotten(switch.token)
  /\ marker' = (marker \/ ok)
  /\ switch' = [Rests EXCEPT !.step = IF ok \/ marker THEN "shows on" ELSE "shows off"]
  /\ past' = [past EXCEPT !.wants = ok]
  /\ UNCHANGED <<mail, clock, poll, resume, offers, webpush>>

\* disablePush: the marker, then the shell, which hands back its secret, then the row.
Disable ==
  /\ switch.step = "shows on" /\ Tapped
  /\ marker' = FALSE
  /\ phone' = [phone EXCEPT !.token = NoToken, !.armed = FALSE]
  /\ switch' = [step |-> "revoking", token |-> phone.token]
  /\ webpush' = "none"
  /\ past' = [past EXCEPT !.taps = @ + 1, !.wants = FALSE]
  /\ UNCHANGED <<mail, clock, rows, poll, resume, offers>>

DisableRevokes(arrives) ==
  /\ switch.step = "revoking"
  /\ switch' = [Rests EXCEPT !.step = "shows off"]
  /\ rows' = IF arrives /\ switch.token # NoToken THEN Forgotten(switch.token) ELSE rows
  /\ IF arrives THEN UNCHANGED past ELSE Fault(past)
  /\ UNCHANGED <<mail, clock, phone, poll, marker, resume, offers, webpush>>

\* The browser's push service drops the subscription.
SubscriptionDies ==
  /\ webpush = "live" /\ Fault(past) /\ webpush' = "dead"
  /\ UNCHANGED <<mail, clock, rows, phone, poll, marker, resume, switch, offers>>

-----------------------------------------------------------------------------

Init ==
  /\ mail = [m \in Msgs |-> Absent] /\ clock = 0
  /\ rows = [t \in Tokens |-> NoRow]
  /\ phone = [token |-> NoToken, armed |-> FALSE, granted |-> FALSE]
  /\ poll = NoPoll /\ marker = FALSE
  /\ resume = Rests /\ switch = [Rests EXCEPT !.step = "closed"]
  /\ offers = [t \in Tokens |-> [m \in Msgs |-> 0]] /\ webpush = "none"
  /\ past = [taps |-> 0, faults |-> 0, minted |-> {}, wants |-> FALSE]

Next ==
  \/ Second \/ AlarmFires \/ ServePoll \/ PollEnds \/ PollFails
  \/ \E m \in Msgs : ReadElsewhere(m) \/ \E at \in {clock, clock - 1} \cap Nat : Arrives(m, at)
  \/ \E f \in BOOLEAN : Killed(f) \/ EnableHands(f) \/ DisableRevokes(f)
  \/ Reboot \/ ShellCleared \/ PermissionRevoked
  \/ \E t \in Tokens : Revoked(t) \/ ResumeMints(t) \/ EnableMints(t)
  \/ AppOpens \/ ResumeDecides \/ ResumeFails \/ ResumeHands
  \/ SettingsOpens \/ SettingsCloses \/ Disable \/ SubscriptionDies

Spec == Init /\ [][Next]_vars

\* Alarms fire, calls and the shell's answers come, and the user opens the app again.
FairSpec ==
  /\ Spec
  /\ WF_vars(AlarmFires) /\ WF_vars(ServePoll) /\ WF_vars(PollEnds)
  /\ WF_vars(AppOpens) /\ WF_vars(ResumeDecides) /\ WF_vars(ResumeHands)
  /\ WF_vars(\E t \in Tokens : ResumeMints(t))
  /\ WF_vars(\E ok \in BOOLEAN : EnableHands(ok)) /\ WF_vars(\E f \in BOOLEAN : DisableRevokes(f))

-----------------------------------------------------------------------------
(* Properties *)

\* Mail is offered to a device at most once, whatever is lost, killed or read meanwhile
\* (push/pending.ts:17: a duplicate alert is worse than a missed one).
OfferedOnce == \A t \in Tokens, m \in Msgs : offers[t][m] <= 1

Watching == /\ phone.token # NoToken /\ rows[phone.token] # NoRow
            /\ phone.armed \/ poll # NoPoll

\* Once the user turned notifications off, the phone has no credential again until they
\* are turned on (api/push.ts:140: "a stale credential can never reconnect").
OffStaysOff == [][~past.wants /\ phone.token = NoToken => past'.wants \/ phone'.token = NoToken]_vars

\* A phone without a credential is not woken (MailyPushAlarm.java: "stop asking").
AlarmHasCredential == poll = NoPoll /\ phone.armed => phone.token # NoToken

\* A missed check must not end the series (MailyPushReceiver.java:46).
SeriesGoesOn == [][poll # NoPoll /\ poll' = NoPoll => phone'.armed]_vars

\* What arrives after the last answer is owed (push/pending.ts:9-12): not when the INBOX
\* stores it with the cursor's own second, or an earlier one.
ArrivalsAreOwed ==
  [][\A m \in Msgs : Watching /\ ~mail[m].stored /\ mail'[m].stored
                    => mail'[m].at > rows[phone.token]]_vars

=============================================================================
