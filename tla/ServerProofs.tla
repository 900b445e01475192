---------------------------- MODULE ServerProofs ----------------------------
(***************************************************************************)
(* Proofs about two scenes of ServerSide: mail is offered to a device at   *)
(* most once (PushDelivery), and what a merge deleted is on its survivor   *)
(* (Directory).                                                            *)
(***************************************************************************)
EXTENDS ServerSide, Integers, FiniteSetTheorems, WellFoundedInduction, TLAPS

-----------------------------------------------------------------------------
(* A non-empty set of natural numbers has a least member. *)

LEMMA LeastNatural ==
  ASSUME NEW S \in SUBSET Nat, S # {}
  PROVE  \E x \in S : \A y \in S : x <= y
<1>1. \E x \in S : \A y \in S : ~ (<<y, x>> \in OpToRel(<, Nat))
  BY NatLessThanWellFounded, WFMin
<1>2. PICK x \in S : \A y \in S : ~ (<<y, x>> \in OpToRel(<, Nat))
  BY <1>1
<1>3. \A y \in S : ~ (y < x)
  BY <1>2 DEF OpToRel
<1>. QED  BY <1>3

\* One bounded by n has a greatest: the least of the distances from n.
LEMMA BoundedGreatest ==
  ASSUME NEW n \in Nat, NEW S \in SUBSET (0..n), S # {}
  PROVE  \E x \in S : \A y \in S : y <= x
<1>. DEFINE Gaps == {n - y : y \in S}
<1>1. \A y \in S : y \in Nat /\ n - y \in Nat /\ n - y \in Gaps
  OBVIOUS
<1>2. Gaps \in SUBSET Nat /\ Gaps # {}
  BY <1>1
<1>. HIDE DEF Gaps
<1>3. PICK g \in Gaps : \A h \in Gaps : g <= h
  BY <1>2, LeastNatural
<1>4. PICK x \in S : g = n - x
  BY <1>3 DEF Gaps
<1>. QED  BY <1>1, <1>3, <1>4

-----------------------------------------------------------------------------
(* New-mail notifications.  A credential has one row for ever: it is       *)
(* minted once, and a row once revoked does not come back.  While it has   *)
(* one, what it was offered is behind its cursor.                          *)

Holders == Tokens \cup {Push!NoToken}
Phones == [token : Holders, armed : BOOLEAN, granted : BOOLEAN]
Polls == [step : {"none", "asking", "answered"}, token : Holders, mail : SUBSET Msgs, known : BOOLEAN]
Mails == [at : 0..MaxTime, stored : BOOLEAN, unread : BOOLEAN]
Resumes == [step : {"idle", "on", "off", "minting", "minted"}, token : Holders]
Switches == [step : {"closed", "shows on", "shows off", "minted", "revoking"}, token : Holders]
Pasts == [taps : Nat, faults : Nat, minted : SUBSET Tokens, wants : BOOLEAN]

PushTypes ==
  /\ clock \in Nat /\ clock <= MaxTime
  /\ mail \in [Msgs -> Mails]
  /\ rows \in [Tokens -> 0..Push!NoRow]
  /\ offers \in [Tokens -> [Msgs -> Nat]]
  /\ phone \in Phones
  /\ poll \in Polls
  /\ poll.step = "asking" => poll.token \in Tokens
  /\ resume \in Resumes
  /\ switch \in Switches
  /\ past \in Pasts

\* A credential not minted yet has no row and was offered nothing.
MintedFirst ==
  \A t \in Tokens \ past.minted : rows[t] = Push!NoRow /\ \A m \in Msgs : offers[t][m] = 0

\* What a device was offered is behind its cursor, while it has one.
BehindCursor ==
  \A t \in Tokens, m \in Msgs :
    offers[t][m] = 0 \/ (/\ offers[t][m] = 1
                         /\ rows[t] # Push!NoRow => mail[m].stored /\ mail[m].at <= rows[t])

PushInv == PushTypes /\ MintedFirst /\ BehindCursor

\* Where the poll, the reconcile and the switch are when nothing runs.
LEMMA RestingTypes ==
  /\ Push!NoPoll \in Polls /\ Push!NoPoll.step # "asking"
  /\ Push!Rests \in Resumes
  /\ [Push!Rests EXCEPT !.step = "closed"] \in Switches
BY DEF Push!NoPoll, Push!Rests, Holders, Polls, Resumes, Switches

\* What the steps that answer no poll keep.
LEMMA QuietStep ==
  ASSUME PushInv, PushTypes',
         offers' = offers, past.minted \subseteq past'.minted,
         \A m \in Msgs : mail[m].stored => mail'[m].stored /\ mail'[m].at = mail[m].at,
         \A t \in Tokens : \/ rows'[t] = rows[t]
                           \/ rows'[t] = Push!NoRow
                           \/ t \in past'.minted \ past.minted
  PROVE  PushInv'
<1>1. MintedFirst'
  BY DEF PushInv, MintedFirst
<1>2. BehindCursor'
  BY DEF PushInv, PushTypes, MintedFirst, BehindCursor
<1>. QED  BY <1>1, <1>2 DEF PushInv

\* The cursor passes all that the answer has, and is not set back.
LEMMA CursorAdvances ==
  ASSUME PushTypes, NEW P \in SUBSET Msgs, NEW cursor \in 0..MaxTime
  PROVE  /\ Push!Advanced(cursor, P) \in 0..MaxTime
         /\ Push!Advanced(cursor, P) >= cursor
         /\ \A m \in P : Push!Advanced(cursor, P) >= mail[m].at
<1>. DEFINE T == {cursor} \cup {mail[m].at : m \in P}
<1>1. MaxTime \in Nat
  BY ServerAssumption
<1>2. \A m \in P : mail[m].at \in 0..MaxTime
  <2>1. mail \in [Msgs -> Mails]
    BY DEF PushTypes
  <2>. QED  BY <2>1 DEF Mails
<1>3. T \subseteq 0..MaxTime /\ T # {} /\ cursor \in T /\ \A m \in P : mail[m].at \in T
  BY <1>2
<1>4. Push!Advanced(cursor, P) = Push!Max(T)
  BY DEF Push!Advanced
<1>. HIDE DEF T
<1>5. \E x \in T : \A y \in T : y <= x
  BY <1>1, <1>3, BoundedGreatest
<1>6. \E x \in T : \A y \in T : x >= y
  BY <1>5
<1>7. Push!Max(T) \in T /\ \A y \in T : Push!Max(T) >= y
  BY <1>6 DEF Push!Max
<1>. QED  BY <1>1, <1>2, <1>3, <1>4, <1>7

LEMMA ServePollKeeps ==
  ASSUME PushInv, Push!ServePoll
  PROVE  PushInv'
<1>. DEFINE t == poll.token
            cursor == rows[poll.token]
            Answer == [poll EXCEPT !.step = "answered"]
<1>1. poll.token \in Tokens /\ poll.step = "asking" /\ cursor \in 0..Push!NoRow
  BY DEF PushInv, PushTypes, Push!ServePoll
<1>2. UNCHANGED <<mail, clock, phone, marker, resume, switch, webpush, past>>
  BY DEF Push!ServePoll
<1>3. CASE cursor = Push!NoRow
  <2>1. poll' = [poll EXCEPT !.step = "answered", !.known = FALSE] /\ rows' = rows /\ offers' = offers
    BY <1>3 DEF Push!ServePoll
  <2>2. PushTypes'
    BY <1>2, <2>1 DEF Polls, PushInv, PushTypes
  <2>. QED  BY <1>2, <2>1, <2>2, QuietStep
<1>4. CASE cursor # Push!NoRow
  <2>1. PICK S \in Push!Newest :
             /\ poll' = [poll EXCEPT !.step = "answered", !.mail = Push!Pending(cursor, S)]
             /\ rows' = [rows EXCEPT ![t] = Push!Advanced(cursor, Push!Pending(cursor, S))]
             /\ offers' = [offers EXCEPT ![t] = [m \in Msgs |-> @[m] + (IF m \in Push!Pending(cursor, S)
                                                                        THEN 1 ELSE 0)]]
    BY <1>4 DEF Push!ServePoll
  <2>2. S \subseteq Push!Unread
    BY DEF Push!Newest, Push!kSubset
  <2>3. PICK P : P = Push!Pending(cursor, S)
    OBVIOUS
  <2>4. P \in SUBSET Msgs /\ \A m \in P : mail[m].stored /\ mail[m].at > cursor
    BY <2>2, <2>3 DEF Push!Pending, Push!Unread
  <2>5. PICK a : a = Push!Advanced(cursor, P)
    OBVIOUS
  <2>6. cursor \in 0..MaxTime
    BY <1>1, <1>4, ServerAssumption DEF Push!NoRow
  <2>7. a \in 0..MaxTime /\ a >= cursor /\ \A m \in P : a >= mail[m].at
    BY <2>4, <2>5, <2>6, CursorAdvances DEF PushInv
  <2>8. rows' = [rows EXCEPT ![t] = a]
    BY <2>1, <2>3, <2>5
  <2>9. offers' = [offers EXCEPT ![t] = [m \in Msgs |-> offers[t][m] + (IF m \in P THEN 1 ELSE 0)]]
    BY <2>1, <2>3
  <2>10. PushTypes'
    <3>1. a \in 0..Push!NoRow
      BY <2>7, ServerAssumption DEF Push!NoRow
    <3>2. rows' \in [Tokens -> 0..Push!NoRow]
      BY <1>1, <2>8, <3>1 DEF PushInv, PushTypes
    <3>3. offers' \in [Tokens -> [Msgs -> Nat]]
      BY <1>1, <2>9 DEF PushInv, PushTypes
    <3>4. poll' \in Polls
           /\ poll'.step = "answered"
      BY <2>1, <2>3, <2>4 DEF Polls, PushInv, PushTypes
    <3>. QED  BY <1>2, <3>2, <3>3, <3>4 DEF PushInv, PushTypes
  <2>11. t \in past.minted
    BY <1>1, <1>4 DEF PushInv, MintedFirst
  <2>12. MintedFirst'
    BY <1>1, <1>2, <2>8, <2>9, <2>11 DEF PushInv, PushTypes, MintedFirst
  <2>13. BehindCursor'
    <3>1. SUFFICES ASSUME NEW u \in Tokens, NEW m \in Msgs
                   PROVE  \/ offers'[u][m] = 0
                          \/ /\ offers'[u][m] = 1
                             /\ rows'[u] # Push!NoRow => mail[m].stored /\ mail[m].at <= rows'[u]
      BY <1>2 DEF BehindCursor
    <3>2. CASE u # t
      BY <2>8, <2>9, <3>2 DEF PushInv, PushTypes, BehindCursor
    <3>3. CASE u = t
      <4>1. rows'[u] = a /\ offers'[u][m] = offers[t][m] + (IF m \in P THEN 1 ELSE 0)
        BY <1>1, <2>8, <2>9, <3>3 DEF PushInv, PushTypes
      <4>2. \/ offers[t][m] = 0
            \/ offers[t][m] = 1 /\ mail[m].stored /\ mail[m].at <= cursor
        BY <1>1, <1>4 DEF PushInv, BehindCursor
      <4>3. mail[m].at \in Nat /\ a \in Nat /\ cursor \in Nat
        <5>1. mail \in [Msgs -> Mails]
          BY DEF PushInv, PushTypes
        <5>. QED  BY <2>6, <2>7, <5>1, ServerAssumption DEF Mails
      <4>4. CASE m \in P
        BY <2>4, <2>7, <4>1, <4>2, <4>3, <4>4
      <4>5. CASE m \notin P
        BY <2>7, <4>1, <4>2, <4>3, <4>5
      <4>. QED  BY <4>4, <4>5
    <3>. QED  BY <3>2, <3>3
  <2>. QED  BY <2>10, <2>12, <2>13 DEF PushInv
<1>. QED  BY <1>3, <1>4

\* What a step leaves alone but for the phone, the poll and the screens.
LEMMA PushKeeps ==
  ASSUME PushInv, Push!Next
  PROVE  PushInv'
<1>1. MaxTime \in Nat
  BY ServerAssumption
<1>2. Push!NoRow \in 0..Push!NoRow /\ clock \in 0..Push!NoRow
  <2>1. clock \in Nat /\ clock <= MaxTime
    BY DEF PushInv, PushTypes
  <2>. QED  BY <1>1, <2>1 DEF Push!NoRow
<1>3. Push!NoToken \in Holders
  BY DEF Holders
<1>4. CASE Push!Second
  <2>1. clock' \in Nat /\ clock' <= MaxTime
    <3>1. clock \in Nat /\ clock < MaxTime /\ clock' = clock + 1
      BY <1>4 DEF Push!Second, PushInv, PushTypes
    <3>. QED  BY <1>1, <3>1
  <2>2. UNCHANGED <<mail, rows, phone, poll, resume, switch, offers, past>>
    BY <1>4 DEF Push!Second
  <2>3. PushTypes'
    BY <2>1, <2>2 DEF PushInv, PushTypes
  <2>. QED  BY <2>2, <2>3, QuietStep
<1>5. CASE Push!AlarmFires
  <2>1. UNCHANGED <<mail, clock, rows, resume, switch, offers, past>>
    BY <1>5 DEF Push!AlarmFires
  <2>2. CASE phone.token = Push!NoToken
    <3>1. UNCHANGED <<phone, poll>>
      BY <1>5, <2>2 DEF Push!AlarmFires
    <3>2. PushTypes'
      BY <2>1, <3>1 DEF PushInv, PushTypes
    <3>. QED  BY <2>1, <3>2, QuietStep
  <2>3. CASE phone.token # Push!NoToken
    <3>1. phone' = [phone EXCEPT !.armed = FALSE] /\ phone.token \in Tokens
      BY <1>5, <2>3 DEF Push!AlarmFires, PushInv, PushTypes, Holders, Phones
    <3>2. poll' = [step |-> "asking", token |-> phone.token, mail |-> {}, known |-> TRUE]
      BY <1>5, <2>3 DEF Push!AlarmFires
    <3>3. phone' \in Phones
      BY <3>1 DEF PushInv, PushTypes, Holders, Phones
    <3>4. poll' \in Polls /\ poll'.token \in Tokens
      BY <3>1, <3>2 DEF Holders, Polls
    <3>5. PushTypes'
      BY <2>1, <3>3, <3>4 DEF PushInv, PushTypes
    <3>. QED  BY <2>1, <3>5, QuietStep
  <2>. QED  BY <2>2, <2>3
<1>6. CASE Push!ServePoll
  BY <1>6, ServePollKeeps
<1>7. CASE Push!PollEnds
  <2>1. PushTypes'
    BY <1>7, RestingTypes DEF Push!PollEnds, PushInv, PushTypes, Push!NoToken, Holders, Phones
  <2>. QED  BY <1>7, <2>1, QuietStep DEF Push!PollEnds
<1>8. ASSUME past' = [past EXCEPT !.faults = @ + 1]
      PROVE  past' \in Pasts
              /\ past'.minted = past.minted
  <2>1. past \in Pasts
    BY DEF PushInv, PushTypes, Pasts
  <2>2. past' = [taps |-> past.taps, faults |-> past.faults + 1, minted |-> past.minted,
                 wants |-> past.wants]
    BY <1>8, <2>1 DEF Pasts
  <2>. QED  BY <2>1, <2>2 DEF Pasts
<1>9. CASE Push!PollFails
  <2>1. PushTypes'
    BY <1>8, <1>9, RestingTypes DEF Push!PollFails, Push!Fault, PushInv, PushTypes, Phones
  <2>. QED  BY <1>8, <1>9, <2>1, QuietStep DEF Push!PollFails, Push!Fault
<1>10. ASSUME NEW m \in Msgs, Push!ReadElsewhere(m) PROVE PushInv'
  <2>1. mail \in [Msgs -> Mails] /\ mail' = [mail EXCEPT ![m].unread = FALSE]
    BY <1>10 DEF Push!ReadElsewhere, PushInv, PushTypes, Mails
  <2>2. /\ mail' \in [Msgs -> Mails]
        /\ \A n \in Msgs : mail'[n].stored = mail[n].stored /\ mail'[n].at = mail[n].at
    BY <2>1 DEF Mails
  <2>3. UNCHANGED <<clock, rows, phone, poll, resume, switch, offers, past>>
    BY <1>10 DEF Push!ReadElsewhere
  <2>4. PushTypes'
    BY <2>2, <2>3 DEF PushInv, PushTypes
  <2>. QED  BY <2>2, <2>3, <2>4, QuietStep
<1>11. ASSUME NEW m \in Msgs, NEW at \in {clock, clock - 1} \cap Nat, Push!Arrives(m, at) PROVE PushInv'
  <2>1. clock \in Nat /\ clock <= MaxTime /\ at \in Nat /\ at <= clock
    BY <1>11 DEF Push!Arrives, PushInv, PushTypes
  <2>2. at \in 0..MaxTime
    BY <1>1, <2>1
  <2>3. mail \in [Msgs -> Mails] /\ ~ mail[m].stored
         /\ mail' = [mail EXCEPT ![m] = [at |-> at, stored |-> TRUE, unread |-> TRUE]]
    BY <1>11 DEF Push!Arrives, PushInv, PushTypes, Mails
  <2>4. mail' \in [Msgs -> Mails] /\ \A n \in Msgs : n = m \/ mail'[n] = mail[n]
    BY <2>2, <2>3 DEF Mails
  <2>5. UNCHANGED <<clock, rows, phone, poll, resume, switch, offers, past>>
    BY <1>11 DEF Push!Arrives
  <2>6. PushTypes'
    BY <2>4, <2>5 DEF PushInv, PushTypes
  <2>. QED  BY <2>3, <2>4, <2>5, <2>6, QuietStep
<1>12. ASSUME NEW f \in BOOLEAN, Push!Killed(f) PROVE PushInv'
  <2>1. PushTypes'
    BY <1>8, <1>12, RestingTypes DEF Push!Killed, Push!Fault, PushInv, PushTypes, Phones
  <2>. QED  BY <1>8, <1>12, <2>1, QuietStep DEF Push!Killed, Push!Fault
<1>13. \A p \in Phones :
         Push!Armed(p) \in Phones
  BY DEF Push!Armed, Holders, Phones
<1>14. ASSUME NEW t \in Holders, NEW ok \in BOOLEAN, Push!Handed(t, ok)
       PROVE  phone' \in Phones
  <2>1. CASE ok
    <3>1. [phone EXCEPT !.token = t, !.granted = TRUE] \in Phones
      BY DEF PushInv, PushTypes, Holders, Phones
    <3>. QED  BY <1>13, <1>14, <2>1, <3>1 DEF Push!Handed
  <2>2. CASE ~ ok
    <3>1. phone \in Phones /\ Push!NoToken \in Holders
      BY DEF PushInv, PushTypes, Holders
    <3>2. [phone EXCEPT !.token = Push!NoToken] \in Phones
      BY <3>1 DEF Phones
    <3>. QED  BY <1>14, <2>2, <3>2 DEF Push!Handed
  <2>. QED  BY <2>1, <2>2
<1>15. \A t : /\ Push!Forgotten(t) \in [Tokens -> 0..Push!NoRow]
              /\ \A u \in Tokens : Push!Forgotten(t)[u] = rows[u] \/ Push!Forgotten(t)[u] = Push!NoRow
  BY <1>2 DEF Push!Forgotten, PushInv, PushTypes
<1>16. ASSUME NEW f \in BOOLEAN, Push!EnableHands(f) PROVE PushInv'
  <2>1. switch.token \in Holders
    BY DEF PushInv, PushTypes, Holders, Switches
  <2>2. phone' \in Phones
    BY <1>14, <1>16, <2>1 DEF Push!EnableHands, Holders, Phones
  <2>3. rows' \in [Tokens -> 0..Push!NoRow]
         /\ \A u \in Tokens : rows'[u] = rows[u] \/ rows'[u] = Push!NoRow
    BY <1>15, <1>16 DEF Push!EnableHands, PushInv, PushTypes
  <2>4. past' \in Pasts
         /\ past'.minted = past.minted
    BY <1>16 DEF Push!EnableHands, PushInv, PushTypes, Pasts
  <2>5. switch' \in Switches
    BY <1>16 DEF Push!EnableHands, Push!Rests, Push!NoToken, Holders, Switches
  <2>6. UNCHANGED <<mail, clock, poll, resume, offers>>
    BY <1>16 DEF Push!EnableHands
  <2>7. PushTypes'
    BY <2>2, <2>3, <2>4, <2>5, <2>6 DEF PushInv, PushTypes
  <2>. QED  BY <2>3, <2>4, <2>6, <2>7, QuietStep
<1>17. ASSUME NEW f \in BOOLEAN, Push!DisableRevokes(f) PROVE PushInv'
  <2>1. rows' \in [Tokens -> 0..Push!NoRow]
         /\ \A u \in Tokens : rows'[u] = rows[u] \/ rows'[u] = Push!NoRow
    BY <1>15, <1>17 DEF Push!DisableRevokes, PushInv, PushTypes
  <2>2. past' \in Pasts
         /\ past'.minted = past.minted
    BY <1>8, <1>17 DEF Push!DisableRevokes, Push!Fault, PushInv, PushTypes, Pasts
  <2>3. switch' \in Switches
    BY <1>17 DEF Push!DisableRevokes, Push!Rests, Push!NoToken, Holders, Switches
  <2>4. UNCHANGED <<mail, clock, phone, poll, resume, offers>>
    BY <1>17 DEF Push!DisableRevokes
  <2>5. PushTypes'
    BY <2>1, <2>2, <2>3, <2>4 DEF PushInv, PushTypes
  <2>. QED  BY <2>1, <2>2, <2>4, <2>5, QuietStep
<1>18. CASE Push!Reboot
  <2>1. [phone EXCEPT !.armed = FALSE] \in Phones
    BY DEF PushInv, PushTypes, Holders, Phones
  <2>2. phone' \in Phones
    BY <1>13, <1>18, <2>1 DEF Push!Reboot
  <2>3. past' \in Pasts /\ past'.minted = past.minted
    BY <1>8, <1>18 DEF Push!Reboot, Push!Fault
  <2>4. poll' \in Polls /\ poll'.step # "asking" /\ resume' \in Resumes /\ switch' \in Switches
    BY <1>18, RestingTypes DEF Push!Reboot
  <2>5. UNCHANGED <<mail, clock, rows, offers>>
    BY <1>18 DEF Push!Reboot
  <2>6. PushTypes'
    BY <2>2, <2>3, <2>4, <2>5 DEF PushInv, PushTypes
  <2>. QED  BY <2>3, <2>5, <2>6, QuietStep
<1>19. CASE Push!ShellCleared
  <2>1. past' \in Pasts /\ past'.minted = past.minted
    BY <1>8, <1>19 DEF Push!ShellCleared, Push!Fault, Pasts
  <2>2. phone \in Phones /\ Push!NoToken \in Holders
    BY <1>3 DEF PushInv, PushTypes
  <2>3. [phone EXCEPT !.token = Push!NoToken, !.armed = FALSE] \in Phones
    BY <2>2 DEF Phones
  <2>4. phone' \in Phones
    BY <1>19, <2>3 DEF Push!ShellCleared
  <2>5. UNCHANGED <<mail, clock, rows, poll, resume, switch, offers>>
    BY <1>19 DEF Push!ShellCleared
  <2>6. PushTypes'
    BY <2>1, <2>4, <2>5 DEF PushInv, PushTypes
  <2>. QED  BY <2>1, <2>5, <2>6, QuietStep
<1>20. CASE Push!PermissionRevoked
  <2>1. PushTypes'
    BY <1>8, <1>20 DEF Push!PermissionRevoked, Push!Fault, PushInv, PushTypes, Phones
  <2>. QED  BY <1>8, <1>20, <2>1, QuietStep DEF Push!PermissionRevoked, Push!Fault
<1>21. ASSUME NEW t \in Tokens, Push!Revoked(t) PROVE PushInv'
  <2>1. past' \in Pasts /\ past'.minted = past.minted
    BY <1>8, <1>21 DEF Push!Revoked, Push!Fault, Pasts
  <2>2. rows' \in [Tokens -> 0..Push!NoRow]
         /\ \A u \in Tokens : rows'[u] = rows[u] \/ rows'[u] = Push!NoRow
    BY <1>15, <1>21 DEF Push!Revoked
  <2>3. UNCHANGED <<mail, clock, phone, poll, resume, switch, offers>>
    BY <1>21 DEF Push!Revoked
  <2>4. PushTypes'
    BY <2>1, <2>2, <2>3 DEF PushInv, PushTypes
  <2>. QED  BY <2>1, <2>2, <2>3, <2>4, QuietStep
<1>22. ASSUME NEW t \in Tokens, Push!Minted(t), t \notin past.minted,
              past'.minted = past.minted \cup {t}, UNCHANGED <<mail, clock, offers>>
       PROVE  /\ rows' \in [Tokens -> 0..Push!NoRow]
              /\ \A u \in Tokens : rows'[u] = rows[u] \/ u \in past'.minted \ past.minted
  BY <1>2, <1>22 DEF Push!Minted, PushInv, PushTypes, Pasts
<1>23. ASSUME NEW t \in Tokens, Push!ResumeMints(t) PROVE PushInv'
  <2>1. past' \in Pasts
         /\ past'.minted = past.minted \cup {t} /\ t \notin past.minted
    BY <1>23 DEF Push!ResumeMints, Push!Mints, Push!Free, PushInv, PushTypes, Pasts
  <2>2. /\ rows' \in [Tokens -> 0..Push!NoRow]
        /\ \A u \in Tokens : rows'[u] = rows[u] \/ u \in past'.minted \ past.minted
    BY <1>22, <1>23, <2>1 DEF Push!ResumeMints, Push!Mints, Pasts
  <2>3. PushTypes'
    BY <1>23, <2>1, <2>2 DEF Push!ResumeMints, PushInv, PushTypes, Holders, Resumes
  <2>. QED  BY <1>23, <2>1, <2>2, <2>3, QuietStep DEF Push!ResumeMints
<1>24. ASSUME NEW t \in Tokens, Push!EnableMints(t) PROVE PushInv'
  <2>1. past' \in Pasts
         /\ past'.minted = past.minted \cup {t} /\ t \notin past.minted
    <3>1. past \in Pasts /\ t \notin past.minted
      BY <1>24 DEF Push!EnableMints, Push!Free, PushInv, PushTypes, Pasts
    <3>2. past' = [taps |-> past.taps + 1, faults |-> past.faults, minted |-> past.minted \cup {t},
                   wants |-> TRUE]
      BY <1>24, <3>1 DEF Push!EnableMints, Pasts
    <3>. QED  BY <3>1, <3>2 DEF Pasts
  <2>2. /\ rows' \in [Tokens -> 0..Push!NoRow]
        /\ \A u \in Tokens : rows'[u] = rows[u] \/ u \in past'.minted \ past.minted
    BY <1>22, <1>24, <2>1 DEF Push!EnableMints, Pasts
  <2>3. PushTypes'
    BY <1>24, <2>1, <2>2 DEF Push!EnableMints, PushInv, PushTypes, Holders, Switches
  <2>. QED  BY <1>24, <2>1, <2>2, <2>3, QuietStep DEF Push!EnableMints
<1>25. CASE Push!AppOpens
  <2>1. PushTypes'
    BY <1>13, <1>25 DEF Push!AppOpens, PushInv, PushTypes, Resumes
  <2>. QED  BY <1>25, <2>1, QuietStep DEF Push!AppOpens
<1>26. CASE Push!ResumeDecides
  <2>1. resume' \in Resumes
    <3>1. resume \in Resumes
      BY DEF PushInv, PushTypes, Holders, Resumes
    <3>2. [resume EXCEPT !.step = "minting"] \in Resumes
      BY <3>1 DEF Holders, Mails, Phones, Polls, Resumes, Switches, Pasts
    <3>3. Push!Rests \in Resumes
      BY <1>3 DEF Push!Rests, Holders, Resumes
    <3>. QED  BY <1>26, <3>2, <3>3 DEF Push!ResumeDecides
  <2>2. UNCHANGED <<mail, clock, rows, phone, poll, switch, offers, past>>
    BY <1>26 DEF Push!ResumeDecides
  <2>3. PushTypes'
    BY <2>1, <2>2 DEF PushInv, PushTypes
  <2>. QED  BY <2>2, <2>3, QuietStep
<1>27. CASE Push!ResumeFails
  <2>1. PushTypes'
    BY <1>8, <1>27, RestingTypes DEF Push!ResumeFails, Push!Fault, PushInv, PushTypes
  <2>. QED  BY <1>8, <1>27, <2>1, QuietStep DEF Push!ResumeFails, Push!Fault
<1>28. CASE Push!ResumeHands
  <2>1. PICK ok \in BOOLEAN : /\ Push!Handed(resume.token, ok)
                              /\ rows' = IF ok THEN rows ELSE Push!Forgotten(resume.token)
    <3>1. phone.granted \in BOOLEAN
      BY DEF PushInv, PushTypes, Phones
    <3>. QED  BY <1>28, <3>1 DEF Push!ResumeHands
  <2>2. resume.token \in Holders
    BY DEF PushInv, PushTypes, Holders, Resumes
  <2>3. phone' \in Phones
    BY <1>14, <2>1, <2>2 DEF Holders, Mails, Phones, Polls, Resumes, Switches, Pasts
  <2>4. rows' \in [Tokens -> 0..Push!NoRow]
         /\ \A u \in Tokens : rows'[u] = rows[u] \/ rows'[u] = Push!NoRow
    BY <1>15, <2>1 DEF PushInv, PushTypes
  <2>5. resume' \in Resumes
    BY <1>28 DEF Push!ResumeHands, Push!Rests, Push!NoToken, Holders, Resumes
  <2>6. UNCHANGED <<mail, clock, poll, switch, offers, past>>
    BY <1>28 DEF Push!ResumeHands
  <2>7. PushTypes'
    BY <2>3, <2>4, <2>5, <2>6 DEF PushInv, PushTypes
  <2>. QED  BY <2>4, <2>6, <2>7, QuietStep
<1>29. CASE Push!SettingsOpens
  <2>1. switch' = [step |-> IF marker THEN "shows on" ELSE "shows off", token |-> Push!NoToken]
    BY <1>29 DEF Push!SettingsOpens, Push!Rests, Holders, Switches
  <2>2. switch' \in Switches
    BY <1>3, <2>1 DEF Holders, Mails, Phones, Polls, Resumes, Switches, Pasts
  <2>3. UNCHANGED <<mail, clock, rows, phone, poll, resume, offers, past>>
    BY <1>29 DEF Push!SettingsOpens
  <2>4. PushTypes'
    BY <2>2, <2>3 DEF PushInv, PushTypes
  <2>. QED  BY <2>3, <2>4, QuietStep
<1>30. CASE Push!SettingsCloses
  <2>1. PushTypes'
    BY <1>30 DEF Push!SettingsCloses, PushInv, PushTypes, Switches
  <2>. QED  BY <1>30, <2>1, QuietStep DEF Push!SettingsCloses
<1>31. CASE Push!Disable
  <2>1. past' \in Pasts
         /\ past'.minted = past.minted
    <3>1. past \in Pasts
      BY DEF PushInv, PushTypes, Pasts
    <3>2. past' = [taps |-> past.taps + 1, faults |-> past.faults, minted |-> past.minted,
                   wants |-> FALSE]
      BY <1>31, <3>1 DEF Push!Disable, Pasts
    <3>. QED  BY <3>1, <3>2 DEF Pasts
  <2>2. PushTypes'
    BY <1>3, <1>31, <2>1 DEF Push!Disable, PushInv, PushTypes, Phones, Switches
  <2>. QED  BY <1>31, <2>1, <2>2, QuietStep DEF Push!Disable
<1>32. CASE Push!SubscriptionDies
  <2>1. past' \in Pasts /\ past'.minted = past.minted
    BY <1>8, <1>32 DEF Push!SubscriptionDies, Push!Fault, Pasts
  <2>2. UNCHANGED <<mail, clock, rows, phone, poll, resume, switch, offers>>
    BY <1>32 DEF Push!SubscriptionDies
  <2>3. PushTypes'
    BY <2>1, <2>2 DEF PushInv, PushTypes
  <2>. QED  BY <2>1, <2>2, <2>3, QuietStep
<1>. QED
  BY <1>4, <1>5, <1>6, <1>7, <1>9, <1>10, <1>11, <1>12, <1>16, <1>17, <1>18, <1>19, <1>20, <1>21, <1>23,
     <1>24, <1>25, <1>26, <1>27, <1>28, <1>29, <1>30, <1>31, <1>32
  DEF Push!Next

\* Mail is offered to a device at most once, whatever is lost, killed, revoked, minted again
\* or read elsewhere, for any number of messages, devices and faults (push/pending.ts:17).
THEOREM OfferedAtMostOnce == FairSpec => []OfferedOnce
<1>. DEFINE Inv == scene = "push" => PushInv
<1>1. Init => Inv
  <2>1. SUFFICES ASSUME Push!Init PROVE PushInv
    BY DEF Init
  <2>2. MaxTime \in Nat
    BY ServerAssumption
  <2>3. 0 \in 0..MaxTime /\ Push!NoRow \in 0..Push!NoRow
    BY <2>2 DEF Push!NoRow
  <2>4. Push!Absent \in Mails
    BY <2>3 DEF Push!Absent, Mails
  <2>5. mail \in [Msgs -> Mails] /\ rows \in [Tokens -> 0..Push!NoRow] /\ offers \in [Tokens -> [Msgs -> Nat]]
    BY <2>1, <2>3, <2>4 DEF Push!Init
  <2>6. phone \in Phones /\ past \in Pasts /\ clock = 0
    BY <2>1 DEF Push!Init, Phones, Pasts, Holders
  <2>7. poll \in Polls /\ poll.step # "asking" /\ resume \in Resumes /\ switch \in Switches
    BY <2>1, RestingTypes DEF Push!Init
  <2>8. PushTypes
    BY <2>2, <2>5, <2>6, <2>7 DEF PushTypes
  <2>. QED  BY <2>1, <2>8 DEF Push!Init, PushInv, MintedFirst, BehindCursor
<1>2. Inv /\ [Next]_vars => Inv'
  <2>1. SUFFICES ASSUME Inv, [Next]_vars, scene' = "push" PROVE PushInv'
    OBVIOUS
  <2>2. CASE scene = "push" /\ Push!Next
    BY <2>1, <2>2, PushKeeps
  <2>3. CASE scene' = scene /\ UNCHANGED pushVars
    BY <2>1, <2>3 DEF pushVars, PushInv, PushTypes, MintedFirst, BehindCursor
  <2>. QED  BY <2>1, <2>2, <2>3 DEF Next, vars
<1>3. Inv => OfferedOnce
  BY DEF PushInv, PushTypes, BehindCursor, OfferedOnce, Push!OfferedOnce
<1>. QED  BY <1>1, <1>2, <1>3, PTL DEF FairSpec

-----------------------------------------------------------------------------
(* Contacts.  A merge that is past its write has its survivor either as it *)
(* wrote it, or written since, or gone; and one that is gone stays gone,   *)
(* because a resource's name is used once: a card being created is on no   *)
(* server, in no mirror and in no run, and no merge is about it.           *)

Workers == Clients \cup {Dir!Timer}
Cards == [book : Books \cup {"none"}, rev : Nat, facts : SUBSET Facts]
Names == Hrefs \cup {"none"}
RunSteps == {"none", "discovering", "fetching"}
ReqSteps == {"none", "writing", "refused", "syncing", "deleting", "answered"}
Reqs == [kind : {"none", "update", "create", "delete", "merge"}, step : ReqSteps, card : Names,
         book : Books \cup {"none"}, etag : Nat, facts : SUBSET Facts,
         rest : SUBSET Names, deleted : SUBSET Names]
Sheets == {Dir!Closed} \cup [href : Hrefs, facts : SUBSET Facts]
Tallies == [edits : Nat, writes : Nat, faults : Nat, names : SUBSET Hrefs, owed : SUBSET Facts]

\* A run's books left may be any sequence.
IsRun(r) == \E s \in RunSteps, g \in [Hrefs -> Cards] : \E l : r = [step |-> s, left |-> l, got |-> g]

RunTypes == runs = [x \in Workers |-> runs[x]] /\ \A x \in Workers : IsRun(runs[x])

DirTypes ==
  /\ dav \in [Hrefs -> Cards] /\ cards \in [Hrefs -> Cards]
  /\ RunTypes
  /\ req \in [Clients -> Reqs]
  /\ sheet \in [Clients -> Sheets]
  /\ tally \in Tallies

\* A request's run goes on while the request waits for it.
RunsAwaited == \A c \in Clients \ {Dir!Timer} : runs[c].step # "none" => req[c].step = "syncing"

PastWrite == {"syncing", "deleting", "answered"}
Merging(c) == req[c].kind = "merge"
Survives(c) ==
  \/ dav[req[c].card].rev > req[c].etag + 1
  \/ dav[req[c].card].rev = req[c].etag + 1 /\ dav[req[c].card].facts = req[c].facts
  \/ ~ Dir!Exists(dav[req[c].card])

\* A merge deletes after its write, and from then on its survivor is accounted for.
MergeWritten(c) ==
  Merging(c) => /\ req[c].card \in Hrefs
                /\ req[c].deleted # {} => req[c].step \in PastWrite
                /\ req[c].step \in PastWrite => Survives(c)
MergesWritten == \A c \in Clients : MergeWritten(c)

Creating(c) == req[c].kind = "create" /\ req[c].step = "writing"

\* Nobody has seen the card.
Unborn(h) ==
  /\ ~ Dir!Exists(dav[h]) /\ ~ Dir!Exists(cards[h])
  /\ \A x \in Workers : ~ Dir!Exists(runs[x].got[h])
  /\ \A c \in Clients : ~ (Merging(c) /\ req[c].card = h)

\* One request at most creates it.
CreatesAlone(c) ==
  Creating(c) => /\ req[c].card \in Hrefs \cap tally.names /\ Unborn(req[c].card)
                 /\ \A d \in Clients \ {c} : ~ (Creating(d) /\ req[d].card = req[c].card)

NamesUsedOnce ==
  /\ \A h \in Hrefs \ tally.names : Unborn(h) /\ \A c \in Clients : ~ (Creating(c) /\ req[c].card = h)
  /\ \A c \in Clients : CreatesAlone(c)

DirInv == DirTypes /\ RunsAwaited /\ MergesWritten /\ NamesUsedOnce

\* How a step changes the server's cards: a card is left alone, deleted, written over, or
\* created by a request that is done with it.
DavMoves ==
  \A h \in Hrefs :
    \/ dav'[h] = dav[h]
    \/ ~ Dir!Exists(dav'[h])
    \/ dav'[h].book = dav[h].book /\ dav'[h].rev = dav[h].rev + 1
    \/ \E c \in Clients : Creating(c) /\ req[c].card = h /\ ~ Creating(c)'

\* Cards come into the mirror from the runs, and into the runs from the server.
MirrorMoves ==
  \A h \in Hrefs :
    /\ Dir!Exists(cards'[h]) => Dir!Exists(cards[h]) \/ \E x \in Workers : Dir!Exists(runs[x].got[h])
    /\ \A x \in Workers : Dir!Exists(runs'[x].got[h]) => Dir!Exists(runs[x].got[h]) \/ Dir!Exists(dav[h])

\* How the request of the client that acts changes, as far as merges go ...
MergeMoves(c) ==
  Merging(c)' =>
    \/ req'[c].card \in Hrefs /\ req'[c].deleted = {} /\ req'[c].step \notin PastWrite
    \/ /\ Merging(c) /\ req'[c].card = req[c].card /\ req'[c].etag = req[c].etag
       /\ req'[c].facts = req[c].facts /\ req[c].step \in PastWrite /\ req'[c].step \in PastWrite
    \/ req'[c].card \in Hrefs /\ req'[c].step \in PastWrite /\ Survives(c)'

\* ... and as far as names go.
NameMoves(c) ==
  /\ tally.names \subseteq tally'.names
  /\ Merging(c)' => \/ Merging(c) /\ req'[c].card = req[c].card
                    \/ Dir!Exists(cards[req'[c].card])
  /\ Creating(c)' => \/ Creating(c) /\ req'[c].card = req[c].card
                     \/ req'[c].card \in (Hrefs \cap tally'.names) \ tally.names

OthersWait(c) == \A d \in Clients \ {c} : req'[d] = req[d]

LEMMA MergesStep ==
  ASSUME DirInv, DirTypes', DavMoves, NEW c \in Clients, OthersWait(c), MergeMoves(c)
  PROVE  MergesWritten'
<1>1. ASSUME NEW d \in Clients, Merging(d), req[d].step \in PastWrite,
             req'[d].card = req[d].card, req'[d].etag = req[d].etag, req'[d].facts = req[d].facts
      PROVE  Survives(d)' /\ req'[d].card \in Hrefs
  <2>1. PICK h : h = req[d].card
    OBVIOUS
  <2>2. h \in Hrefs /\ Survives(d)
    BY <1>1, <2>1 DEF DirInv, MergesWritten, MergeWritten
  <2>3. ~ \E e \in Clients : Creating(e) /\ req[e].card = h
    BY <1>1, <2>1 DEF DirInv, NamesUsedOnce, CreatesAlone, Unborn
  <2>4. dav[h].rev \in Nat /\ req[d].etag \in Nat
    BY <2>2 DEF DirInv, DirTypes, Cards, Reqs
  <2>5. CASE dav'[h] = dav[h]
    BY <1>1, <2>1, <2>2, <2>5 DEF Survives
  <2>6. CASE ~ Dir!Exists(dav'[h])
    BY <1>1, <2>1, <2>2, <2>6 DEF Survives
  <2>7. CASE dav'[h].book = dav[h].book /\ dav'[h].rev = dav[h].rev + 1
    <3>1. CASE Dir!Exists(dav[h])
      <4>1. dav[h].rev >= req[d].etag + 1
        BY <2>1, <2>2, <2>4, <3>1 DEF Survives
      <4>2. dav'[h].rev > req[d].etag + 1
        BY <2>4, <2>7, <4>1
      <4>. QED  BY <1>1, <2>1, <2>2, <4>2 DEF Survives
    <3>2. CASE ~ Dir!Exists(dav[h])
      BY <1>1, <2>1, <2>2, <2>7, <3>2 DEF Survives, Dir!Exists
    <3>. QED  BY <3>1, <3>2
  <2>. QED  BY <1>1, <2>1, <2>2, <2>3, <2>5, <2>6, <2>7 DEF DavMoves
<1>2. ASSUME NEW d \in Clients PROVE MergeWritten(d)'
  <2>1. CASE d # c
    BY <1>1, <2>1 DEF OthersWait, DirInv, MergesWritten, MergeWritten, Merging
  <2>2. CASE d = c
    BY <1>1, <2>2 DEF MergeMoves, MergeWritten, Merging
  <2>. QED  BY <2>1, <2>2
<1>. QED  BY <1>2 DEF MergesWritten

LEMMA NamesStep ==
  ASSUME DirInv, DirTypes', DavMoves, MirrorMoves, NEW c \in Clients, OthersWait(c), NameMoves(c)
  PROVE  NamesUsedOnce'
<1>1. ASSUME NEW h \in Hrefs, Unborn(h),
             \A d \in Clients : Creating(d) /\ req[d].card = h => Creating(d)'
      PROVE  Unborn(h)'
  <2>1. ~ Dir!Exists(dav'[h])
    BY <1>1 DEF DavMoves, Unborn, Dir!Exists
  <2>2. ~ Dir!Exists(cards'[h]) /\ \A x \in Workers : ~ Dir!Exists(runs'[x].got[h])
    BY <1>1 DEF MirrorMoves, Unborn
  <2>3. ASSUME NEW d \in Clients PROVE ~ (Merging(d)' /\ req'[d].card = h)
    BY <1>1 DEF OthersWait, NameMoves, Unborn, Merging
  <2>. QED  BY <2>1, <2>2, <2>3 DEF Unborn
<1>2. ASSUME NEW h \in Hrefs \ tally'.names
      PROVE  Unborn(h)' /\ \A d \in Clients : ~ (Creating(d)' /\ req'[d].card = h)
  <2>1. h \in Hrefs \ tally.names
    BY <1>2 DEF NameMoves
  <2>2. Unborn(h) /\ \A d \in Clients : ~ (Creating(d) /\ req[d].card = h)
    BY <2>1 DEF DirInv, NamesUsedOnce
  <2>3. Unborn(h)'
    BY <1>1, <2>2
  <2>4. ASSUME NEW d \in Clients PROVE ~ (Creating(d)' /\ req'[d].card = h)
    BY <1>2, <2>2 DEF OthersWait, NameMoves, Creating
  <2>. QED  BY <2>3, <2>4
<1>3. ASSUME NEW d \in Clients, Creating(d)'
      PROVE  CreatesAlone(d)'
  <2>1. PICK h : h = req'[d].card
    OBVIOUS
  <2>2. ASSUME NEW e \in Clients, Creating(e)'
        PROVE  \/ Creating(e) /\ req'[e].card = req[e].card
               \/ e = c /\ req'[e].card \in (Hrefs \cap tally'.names) \ tally.names
    BY <2>2 DEF OthersWait, NameMoves, Creating
  <2>3. CASE Creating(d) /\ req[d].card = h
    <3>1. h \in Hrefs \cap tally.names /\ Unborn(h)
      BY <2>3 DEF DirInv, NamesUsedOnce, CreatesAlone
    <3>2. \A e \in Clients \ {d} : ~ (Creating(e) /\ req[e].card = h)
      BY <2>3 DEF DirInv, NamesUsedOnce, CreatesAlone
    <3>3. Unborn(h)'
      BY <1>1, <1>3, <3>1, <3>2
    <3>4. \A e \in Clients \ {d} : ~ (Creating(e)' /\ req'[e].card = h)
      BY <2>2, <3>1, <3>2
    <3>. QED  BY <2>1, <3>1, <3>3, <3>4 DEF NameMoves, CreatesAlone, Unborn
  <2>4. CASE d = c /\ h \in (Hrefs \cap tally'.names) \ tally.names
    <3>1. Unborn(h) /\ \A e \in Clients : ~ (Creating(e) /\ req[e].card = h)
      BY <2>4 DEF DirInv, NamesUsedOnce
    <3>2. Unborn(h)'
      BY <1>1, <2>4, <3>1
    <3>3. \A e \in Clients \ {d} : ~ (Creating(e)' /\ req'[e].card = h)
      BY <2>2, <2>4, <3>1
    <3>. QED  BY <2>1, <2>4, <3>2, <3>3 DEF CreatesAlone, Unborn
  <2>. QED  BY <1>3, <2>1, <2>2, <2>3, <2>4
<1>4. \A d \in Clients : CreatesAlone(d)'
  BY <1>3 DEF CreatesAlone
<1>. QED  BY <1>2, <1>4 DEF NamesUsedOnce
LEMMA DirStep ==
  ASSUME DirInv, DirTypes', RunsAwaited', DavMoves, MirrorMoves,
         NEW c \in Clients, OthersWait(c), MergeMoves(c), NameMoves(c)
  PROVE  DirInv'
BY MergesStep, NamesStep DEF DirInv

LEMMA CardFacts ==
  /\ Dir!NoCard \in Cards /\ ~ Dir!Exists(Dir!NoCard)
  /\ \A k \in Cards, F \in SUBSET Facts :
       /\ Dir!Written(k, F) \in Cards
       /\ Dir!Written(k, F).book = k.book
       /\ Dir!Written(k, F).rev = k.rev + 1
       /\ Dir!Written(k, F).facts = F
<1>1. Dir!NoCard \in Cards /\ ~ Dir!Exists(Dir!NoCard)
  BY DEF Dir!NoCard, Dir!Exists, Cards
<1>2. ASSUME NEW k \in Cards, NEW F \in SUBSET Facts
      PROVE  /\ Dir!Written(k, F) \in Cards
             /\ Dir!Written(k, F).book = k.book
             /\ Dir!Written(k, F).rev = k.rev + 1
             /\ Dir!Written(k, F).facts = F
  <2>1. PICK q : q = [k EXCEPT !.rev = @ + 1, !.facts = F]
    OBVIOUS
  <2>2. q = [book |-> k.book, rev |-> k.rev + 1, facts |-> F]
    BY <2>1 DEF Cards
  <2>. QED  BY <2>1, <2>2 DEF Dir!Written, Cards
<1>. QED  BY <1>1, <1>2

LEMMA RunFacts ==
  /\ IsRun(Dir!NoRun) /\ Dir!NoRun.step = "none"
  /\ IsRun(Dir!Started) /\ Dir!Started.step # "none"
  /\ \A h \in Hrefs : ~ Dir!Exists(Dir!NoRun.got[h]) /\ ~ Dir!Exists(Dir!Started.got[h])
<1>. DEFINE g == [h \in Hrefs |-> Dir!NoCard]
<1>1. g \in [Hrefs -> Cards] /\ \A h \in Hrefs : ~ Dir!Exists(g[h])
  BY CardFacts
<1>2. Dir!NoRun = [step |-> "none", left |-> <<>>, got |-> g]
  BY DEF Dir!NoRun
<1>3. Dir!Started = [step |-> "discovering", left |-> <<>>, got |-> g]
  BY <1>2 DEF Dir!Started
<1>. HIDE DEF g
<1>. QED  BY <1>1, <1>2, <1>3 DEF IsRun, RunSteps

\* One run changes.
LEMMA RunStep ==
  ASSUME RunTypes, NEW x \in Workers, NEW r, IsRun(r), runs' = [runs EXCEPT ![x] = r]
  PROVE  RunTypes' /\ runs'[x] = r /\ \A y \in Workers \ {x} : runs'[y] = runs[y]
BY DEF RunTypes

\* What a step keeps that leaves the requests alone, and the server or the mirror.
LEMMA RequestsRest ==
  ASSUME DirInv, NEW c \in Clients, req' = req, tally.names \subseteq tally'.names
  PROVE  OthersWait(c) /\ MergeMoves(c) /\ NameMoves(c)
<1>1. MergeMoves(c)
  BY DEF DirInv, MergesWritten, MergeWritten, MergeMoves, Merging
<1>2. OthersWait(c) /\ NameMoves(c)
  BY DEF OthersWait, NameMoves, Merging, Creating
<1>. QED  BY <1>1, <1>2

LEMMA DavRests == ASSUME dav' = dav PROVE DavMoves
BY DEF DavMoves

LEMMA MirrorRests ==
  ASSUME cards' = cards,
         \A x \in Workers : runs'[x] = runs[x] \/ runs'[x] = Dir!NoRun \/ runs'[x] = Dir!Started
  PROVE  MirrorMoves
BY RunFacts DEF MirrorMoves

-----------------------------------------------------------------------------
(* What does not serve a request *)

LEMMA OtherEditsKeeps ==
  ASSUME DirInv, NEW h \in Hrefs, NEW F \in SUBSET Facts, Dir!OtherEdits(h, F)
  PROVE  DirInv'
<1>1. UNCHANGED <<cards, runs, req, sheet>>
  BY DEF Dir!OtherEdits
<1>2. dav \in [Hrefs -> Cards] /\ dav' = [dav EXCEPT ![h] = Dir!Written(dav[h], F)]
  BY DEF Dir!OtherEdits, DirInv, DirTypes
<1>3. dav' \in [Hrefs -> Cards]
  BY <1>2, CardFacts
<1>4. tally' \in Tallies /\ tally'.names = tally.names
  <2>1. tally \in Tallies /\ dav[h].facts \in SUBSET Facts
    BY <1>2 DEF DirInv, DirTypes, Cards
  <2>2. PICK q : q = [tally EXCEPT !.owed = @ \ (dav[h].facts \ F)]
    OBVIOUS
  <2>3. q \in Tallies /\ q.names = tally.names
    BY <2>1, <2>2 DEF Tallies
  <2>4. tally' = [q EXCEPT !.edits = @ + 1, !.owed = @ \cup F]
    BY <2>2 DEF Dir!OtherEdits, Dir!Asked
  <2>5. PICK p : p = [q EXCEPT !.edits = @ + 1, !.owed = @ \cup F]
    OBVIOUS
  <2>6. p = [edits |-> q.edits + 1, writes |-> q.writes, faults |-> q.faults, names |-> q.names,
             owed |-> q.owed \cup F]
    BY <2>3, <2>5 DEF Tallies
  <2>7. p \in Tallies /\ p.names = q.names
    BY <2>3, <2>6 DEF Tallies
  <2>. QED  BY <2>3, <2>4, <2>5, <2>7
<1>5. DirTypes'
  BY <1>1, <1>3, <1>4 DEF DirInv, DirTypes, RunTypes
<1>6. DavMoves
  BY <1>2, CardFacts DEF DavMoves
<1>7. PICK c \in Clients : TRUE
  BY ServerAssumption
<1>. QED
  BY <1>1, <1>4, <1>5, <1>6, <1>7, DirStep, RequestsRest, MirrorRests DEF DirInv, RunsAwaited

\* A call that fails, and a request asked, count.
LEMMA Counts ==
  ASSUME DirInv, NEW f \in {"writes", "faults"}, Dir!Spent(f)
  PROVE  tally' \in Tallies /\ tally'.names = tally.names
<1>1. tally \in Tallies
  BY DEF DirInv, DirTypes
<1>2. CASE f = "writes"
  BY <1>1, <1>2 DEF Dir!Spent, Tallies
<1>3. CASE f = "faults"
  BY <1>1, <1>3 DEF Dir!Spent, Tallies
<1>. QED  BY <1>2, <1>3

LEMMA RunsKeep ==
  ASSUME DirInv,
         \/ Dir!TimerSync
         \/ \E x \in Workers, ok \in BOOLEAN : Dir!Discover(x, ok) \/ Dir!FetchBook(x, ok)
         \/ \E x \in Workers : Dir!Replace(x)
  PROVE  DirInv'
<1>1. PICK c \in Clients : TRUE
  BY ServerAssumption
<1>2. RunTypes /\ DirTypes /\ RunsAwaited
  BY DEF DirInv, DirTypes
<1>3. CASE Dir!TimerSync
  <2>1. UNCHANGED <<dav, cards, req, sheet, tally>> /\ runs' = [runs EXCEPT ![Dir!Timer] = Dir!Started]
    BY <1>3 DEF Dir!TimerSync, Dir!Syncs
  <2>2. /\ RunTypes' /\ runs'[Dir!Timer] = Dir!Started
        /\ \A y \in Workers \ {Dir!Timer} : runs'[y] = runs[y]
    BY <1>2, <2>1, RunStep, RunFacts DEF Workers
  <2>3. DirTypes'
    BY <1>2, <2>1, <2>2 DEF DirTypes
  <2>4. RunsAwaited'
    BY <1>2, <2>1, <2>2 DEF RunsAwaited, Workers
  <2>5. MirrorMoves
    BY <2>1, <2>2, MirrorRests
  <2>. QED  BY <1>1, <2>1, <2>3, <2>4, <2>5, DirStep, RequestsRest, DavRests
<1>4. ASSUME NEW x \in Workers, NEW ok \in BOOLEAN, Dir!Discover(x, ok) PROVE DirInv'
  <2>1. UNCHANGED <<dav, cards, req, sheet>>
    BY <1>4 DEF Dir!Discover
  <2>2. tally' \in Tallies /\ tally'.names = tally.names
    BY <1>2, <1>4, Counts DEF Dir!Discover, Dir!Faulty, DirTypes
  <2>3. PICK l : runs' = [runs EXCEPT ![x].step = "fetching", ![x].left = l]
    BY <1>4 DEF Dir!Discover
  <2>4. PICK s \in RunSteps, g \in [Hrefs -> Cards] : \E k : runs[x] = [step |-> s, left |-> k, got |-> g]
    BY <1>2 DEF RunTypes, IsRun
  <2>5. PICK r : r = [step |-> "fetching", left |-> l, got |-> g]
    OBVIOUS
  <2>6. runs' = [runs EXCEPT ![x] = r]
    <3>1. PICK k : runs[x] = [step |-> s, left |-> k, got |-> g]
      BY <2>4
    <3>2. PICK m : m = [runs[x] EXCEPT !.step = "fetching", !.left = l]
      OBVIOUS
    <3>3. m = [step |-> "fetching", left |-> l, got |-> g]
      <4>1. PICK R : R = runs[x]
        OBVIOUS
      <4>2. R = [step |-> s, left |-> k, got |-> g] /\ m = [R EXCEPT !.step = "fetching", !.left = l]
        BY <3>1, <3>2, <4>1
      <4>. QED  BY <4>2
    <3>4. runs' = [runs EXCEPT ![x] = m]
      BY <1>2, <2>3, <3>2 DEF RunTypes
    <3>. QED  BY <2>5, <3>3, <3>4
  <2>7. IsRun(r) /\ r.got = runs[x].got
    <3>1. "fetching" \in RunSteps
      BY DEF RunSteps
    <3>2. IsRun(r)
      BY <2>5, <3>1 DEF IsRun
    <3>. QED  BY <2>4, <2>5, <3>2
  <2>8. RunTypes' /\ runs'[x] = r /\ \A y \in Workers \ {x} : runs'[y] = runs[y]
    BY <1>2, <2>6, <2>7, RunStep
  <2>9. DirTypes'
    BY <1>2, <2>1, <2>2, <2>8 DEF DirTypes
  <2>10. RunsAwaited'
    BY <1>2, <1>4, <2>1, <2>8 DEF Dir!Discover, RunsAwaited, Workers
  <2>11. MirrorMoves
    BY <2>1, <2>7, <2>8 DEF MirrorMoves
  <2>. QED  BY <1>1, <2>1, <2>2, <2>9, <2>10, <2>11, DirStep, RequestsRest, DavRests
<1>5. ASSUME NEW x \in Workers, NEW ok \in BOOLEAN, Dir!FetchBook(x, ok) PROVE DirInv'
  <2>1. UNCHANGED <<dav, cards, req, sheet>>
    BY <1>5 DEF Dir!FetchBook
  <2>2. tally' \in Tallies /\ tally'.names = tally.names
    BY <1>2, <1>5, Counts DEF Dir!FetchBook, Dir!Faulty, DirTypes
  <2>3. PICK s \in RunSteps, g \in [Hrefs -> Cards] : \E k : runs[x] = [step |-> s, left |-> k, got |-> g]
    BY <1>2 DEF RunTypes, IsRun
  <2>4. PICK b, l :
          runs' = [runs EXCEPT ![x].left = l,
                     ![x].got = IF ok THEN [h \in Hrefs |-> IF dav[h].book = b THEN dav[h] ELSE @[h]] ELSE @]
    BY <1>5 DEF Dir!FetchBook
  <2>5. PICK n : n = IF ok THEN [h \in Hrefs |-> IF dav[h].book = b THEN dav[h] ELSE g[h]] ELSE g
    OBVIOUS
  <2>6. n \in [Hrefs -> Cards] /\ \A h \in Hrefs : n[h] = g[h] \/ n[h] = dav[h]
    BY <1>2, <2>3, <2>5 DEF DirTypes
  <2>7. PICK r : r = [step |-> s, left |-> l, got |-> n]
    OBVIOUS
  <2>8. runs' = [runs EXCEPT ![x] = r]
    <3>1. PICK k : runs[x] = [step |-> s, left |-> k, got |-> g]
      BY <2>3
    <3>2. PICK m : m = [runs[x] EXCEPT !.left = l,
                          !.got = IF ok THEN [h \in Hrefs |-> IF dav[h].book = b THEN dav[h] ELSE @[h]] ELSE @]
      OBVIOUS
    <3>3. PICK n2 : n2 = IF ok THEN [h \in Hrefs |-> IF dav[h].book = b THEN dav[h]
                                                    ELSE runs[x].got[h]] ELSE runs[x].got
      OBVIOUS
    <3>4. n2 = n
      BY <2>5, <3>1, <3>3
    <3>5. m = [runs[x] EXCEPT !.left = l, !.got = n2]
      BY <3>2, <3>3
    <3>6. m = [step |-> s, left |-> l, got |-> n2]
      <4>1. PICK R : R = runs[x]
        OBVIOUS
      <4>2. R = [step |-> s, left |-> k, got |-> g] /\ m = [R EXCEPT !.left = l, !.got = n2]
        BY <3>1, <3>5, <4>1
      <4>. QED  BY <4>2
    <3>7. runs' = [runs EXCEPT ![x] = m]
      BY <1>2, <2>4, <3>2 DEF RunTypes
    <3>. QED  BY <2>7, <3>7, <3>4, <3>6
  <2>9. IsRun(r) /\ s = runs[x].step /\ g = runs[x].got
    <3>1. IsRun(r)
      BY <2>3, <2>6, <2>7 DEF IsRun
    <3>. QED  BY <2>3, <3>1
  <2>10. RunTypes' /\ runs'[x] = r /\ \A y \in Workers \ {x} : runs'[y] = runs[y]
    BY <1>2, <2>8, <2>9, RunStep
  <2>11. DirTypes'
    BY <1>2, <2>1, <2>2, <2>10 DEF DirTypes
  <2>12. RunsAwaited'
    BY <1>2, <2>1, <2>7, <2>9, <2>10 DEF RunsAwaited, Workers
  <2>13. MirrorMoves
    BY <2>1, <2>6, <2>7, <2>9, <2>10 DEF MirrorMoves
  <2>. QED  BY <1>1, <2>1, <2>2, <2>11, <2>12, <2>13, DirStep, RequestsRest, DavRests
<1>6. ASSUME NEW x \in Workers, Dir!Replace(x) PROVE DirInv'
  <2>1. UNCHANGED <<dav, sheet, tally>> /\ runs' = [runs EXCEPT ![x] = Dir!NoRun] /\ cards' = runs[x].got
    BY <1>6 DEF Dir!Replace, Dir!Mirrored
  <2>2. RunTypes' /\ runs'[x] = Dir!NoRun /\ \A y \in Workers \ {x} : runs'[y] = runs[y]
    BY <1>2, <2>1, RunStep, RunFacts
  <2>3. cards' \in [Hrefs -> Cards]
    BY <1>2, <2>1 DEF RunTypes, IsRun
  <2>4. MirrorMoves
    BY <2>1, <2>2, RunFacts DEF MirrorMoves
  <2>5. CASE x = Dir!Timer
    <3>1. req' = req
      BY <1>6, <2>5 DEF Dir!Replace
    <3>2. DirTypes'
      BY <1>2, <2>1, <2>2, <2>3, <3>1 DEF DirTypes
    <3>3. RunsAwaited'
      BY <1>2, <2>2, <2>5, <3>1 DEF RunsAwaited, Workers
    <3>. QED  BY <1>1, <2>1, <2>4, <3>1, <3>2, <3>3, DirStep, RequestsRest, DavRests
  <2>6. CASE x # Dir!Timer
    <3>1. x \in Clients \ {Dir!Timer}
      BY <2>6 DEF Workers
    <3>2. PICK s \in {"answered", "deleting"} : req' = [req EXCEPT ![x].step = s]
      BY <1>6, <2>6 DEF Dir!Replace
    <3>3. req[x].step = "syncing" /\ req[x] \in Reqs
      BY <1>2, <1>6, <3>1 DEF RunsAwaited, Dir!Replace, DirTypes
    <3>4. req'[x] = [req[x] EXCEPT !.step = s] /\ OthersWait(x) /\ req' \in [Clients -> Reqs]
      BY <1>2, <3>1, <3>2, <3>3 DEF DirTypes, OthersWait, Reqs, ReqSteps
    <3>5. /\ req'[x].step = s /\ req'[x].kind = req[x].kind /\ req'[x].card = req[x].card
          /\ req'[x].etag = req[x].etag /\ req'[x].facts = req[x].facts
      BY <3>3, <3>4 DEF Reqs
    <3>6. MergeMoves(x) /\ NameMoves(x)
      BY <2>1, <3>3, <3>5 DEF MergeMoves, NameMoves, Merging, Creating, PastWrite
    <3>7. DirTypes'
      BY <1>2, <2>1, <2>2, <2>3, <3>4 DEF DirTypes
    <3>8. RunsAwaited'
      BY <1>2, <2>2, <3>1, <3>4, RunFacts DEF RunsAwaited, Workers, OthersWait
    <3>. QED  BY <2>1, <2>4, <3>1, <3>4, <3>6, <3>7, <3>8, DirStep, DavRests
  <2>. QED  BY <2>5, <2>6
<1>. QED  BY <1>3, <1>4, <1>5, <1>6
-----------------------------------------------------------------------------
(* What a client does *)

LEMMA RestingRequest ==
  /\ Dir!NoReq \in Reqs /\ Dir!NoReq.kind = "none" /\ Dir!NoReq.deleted = {}
  /\ Dir!Closed \in Sheets
BY DEF Dir!NoReq, Reqs, ReqSteps, Names, Sheets

LEMMA RequestStep ==
  ASSUME DirInv, NEW c \in Clients, NEW r \in Reqs, Dir!Put(c, r)
  PROVE  req' \in [Clients -> Reqs] /\ req'[c] = r /\ OthersWait(c)
BY DEF DirInv, DirTypes, Dir!Put, OthersWait

\* A client that is not served awaits no run.
LEMMA RunsStillAwaited ==
  ASSUME DirInv, NEW c \in Clients, OthersWait(c), runs' = runs, req[c].step # "syncing"
  PROVE  RunsAwaited'
BY DEF DirInv, RunsAwaited, OthersWait

LEMMA SheetsKeep ==
  ASSUME DirInv, NEW c \in Clients, (\E h \in Hrefs : Dir!Opens(c, h)) \/ Dir!Cancels(c)
  PROVE  DirInv'
<1>1. UNCHANGED <<dav, cards, runs, req, tally>>
  BY DEF Dir!Opens, Dir!Cancels
<1>2. sheet' \in [Clients -> Sheets]
  <2>1. cards \in [Hrefs -> Cards] /\ sheet \in [Clients -> Sheets]
    BY DEF DirInv, DirTypes
  <2>2. ASSUME NEW h \in Hrefs, Dir!Opens(c, h) PROVE sheet' \in [Clients -> Sheets]
    <3>1. PICK q : q = [href |-> h, facts |-> cards[h].facts]
      OBVIOUS
    <3>2. q \in Sheets
      BY <2>1, <3>1 DEF Sheets, Cards
    <3>3. sheet' = [sheet EXCEPT ![c] = q]
      BY <2>2, <3>1 DEF Dir!Opens
    <3>. QED  BY <2>1, <3>2, <3>3
  <2>3. CASE Dir!Cancels(c)
    BY <2>1, <2>3, RestingRequest DEF Dir!Cancels
  <2>. QED  BY <2>2, <2>3
<1>3. DirTypes'
  BY <1>1, <1>2 DEF DirInv, DirTypes, RunTypes
<1>. QED
  BY <1>1, <1>3, DirStep, RequestsRest, DavRests, MirrorRests DEF DirInv, RunsAwaited

\* A client asks: its request is new, and names what it found in the mirror or a new card.
LEMMA AskKeeps ==
  ASSUME DirInv, NEW c \in Clients, NEW r \in Reqs, Dir!Put(c, r), Dir!Asks(c),
         UNCHANGED <<dav, cards, runs, sheet>>,
         tally' \in Tallies, tally.names \subseteq tally'.names,
         r.kind = "merge" => /\ r.card \in Hrefs /\ Dir!Exists(cards[r.card])
                             /\ r.deleted = {} /\ r.step = "writing",
         r.kind = "create" => r.card \in (Hrefs \cap tally'.names) \ tally.names
  PROVE  DirInv'
<1>1. req' \in [Clients -> Reqs] /\ req'[c] = r /\ OthersWait(c)
  BY RequestStep
<1>2. DirTypes'
  BY <1>1 DEF DirInv, DirTypes, RunTypes
<1>3. RunsAwaited'
  BY <1>1, RunsStillAwaited DEF Dir!Asks, Dir!Idle
<1>4. MergeMoves(c)
  BY <1>1 DEF MergeMoves, Merging, PastWrite
<1>5. NameMoves(c)
  BY <1>1 DEF NameMoves, Merging, Creating
<1>. QED  BY <1>1, <1>2, <1>3, <1>4, <1>5, DirStep, DavRests, MirrorRests

\* A sheet that is open shows a card; what its user gives up is no longer owed.
LEMMA OpenSheet ==
  ASSUME DirInv, NEW c \in Clients, sheet[c] # Dir!Closed
  PROVE  sheet[c].href \in Hrefs /\ sheet[c].facts \in SUBSET Facts
BY DEF DirInv, DirTypes, Sheets

LEMMA AskedCounts ==
  ASSUME DirInv, NEW B \in SUBSET Facts, NEW F \in SUBSET Facts,
         tally' = [Dir!Asked(B, F) EXCEPT !.writes = @ + 1]
  PROVE  tally' \in Tallies /\ tally'.names = tally.names
<1>1. PICK q : q = Dir!Asked(B, F)
  OBVIOUS
<1>2. q \in Tallies /\ q.names = tally.names
  BY <1>1 DEF Dir!Asked, DirInv, DirTypes, Tallies
<1>3. PICK p : p = [q EXCEPT !.writes = @ + 1]
  OBVIOUS
<1>4. p = [edits |-> q.edits, writes |-> q.writes + 1, faults |-> q.faults, names |-> q.names,
           owed |-> q.owed]
  BY <1>2, <1>3 DEF Tallies
<1>5. p \in Tallies /\ p.names = q.names
  BY <1>2, <1>4 DEF Tallies
<1>. QED  BY <1>1, <1>2, <1>3, <1>5

LEMMA SaveKeeps ==
  ASSUME DirInv, NEW c \in Clients, NEW F \in SUBSET Facts, Dir!Save(c, F)
  PROVE  DirInv'
<1>1. sheet[c].href \in Hrefs /\ sheet[c].facts \in SUBSET Facts
  BY OpenSheet DEF Dir!Save
<1>2. PICK h \in Hrefs : h = sheet[c].href
  BY <1>1
<1>3. PICK st \in {"writing", "refused"} : st = IF h \in Dir!Cached THEN "writing" ELSE "refused"
  OBVIOUS
<1>4. PICK m : m = [Dir!NoReq EXCEPT !.kind = "update", !.card = h, !.etag = cards[h].rev, !.facts = F,
                                     !.step = st]
  OBVIOUS
<1>5. m = [kind |-> "update", step |-> st, card |-> h, book |-> "none", etag |-> cards[h].rev,
           facts |-> F, rest |-> {}, deleted |-> {}]
  BY <1>4 DEF Dir!NoReq
<1>6. cards[h].rev \in Nat
  BY DEF DirInv, DirTypes, Cards
<1>7. m \in Reqs /\ m.kind = "update"
  BY <1>5, <1>6 DEF Reqs, ReqSteps, Names
<1>8. Dir!Put(c, m)
  BY <1>2, <1>3, <1>4 DEF Dir!Save
<1>9. tally' \in Tallies /\ tally'.names = tally.names
  BY <1>1, AskedCounts DEF Dir!Save
<1>. QED  BY <1>7, <1>8, <1>9, AskKeeps DEF Dir!Save

LEMMA RemoveCardKeeps ==
  ASSUME DirInv, NEW c \in Clients, Dir!RemoveCard(c)
  PROVE  DirInv'
<1>1. sheet[c].href \in Hrefs /\ sheet[c].facts \in SUBSET Facts
  BY OpenSheet DEF Dir!RemoveCard
<1>2. PICK h \in Hrefs : h = sheet[c].href
  BY <1>1
<1>3. PICK st \in {"deleting", "refused"} : st = IF h \in Dir!Cached THEN "deleting" ELSE "refused"
  OBVIOUS
<1>4. PICK m : m = [Dir!NoReq EXCEPT !.kind = "delete", !.rest = {h}, !.step = st]
  OBVIOUS
<1>5. m = [kind |-> "delete", step |-> st, card |-> "none", book |-> "none", etag |-> 0,
           facts |-> {}, rest |-> {h}, deleted |-> {}]
  BY <1>4 DEF Dir!NoReq
<1>6. m \in Reqs /\ m.kind = "delete"
  BY <1>5 DEF Reqs, ReqSteps, Names
<1>7. Dir!Put(c, m)
  BY <1>2, <1>3, <1>4 DEF Dir!RemoveCard
<1>8. tally' \in Tallies /\ tally'.names = tally.names
  BY <1>1, AskedCounts DEF Dir!RemoveCard
<1>. QED  BY <1>6, <1>7, <1>8, AskKeeps DEF Dir!RemoveCard

LEMMA CreateKeeps ==
  ASSUME DirInv, NEW c \in Clients, NEW h \in Hrefs, NEW b \in Books, NEW F \in SUBSET Facts,
         Dir!Create(c, h, b, F)
  PROVE  DirInv'
<1>1. PICK m : m = [Dir!NoReq EXCEPT !.kind = "create", !.card = h, !.book = b, !.facts = F, !.step = "writing"]
  OBVIOUS
<1>2. m = [kind |-> "create", step |-> "writing", card |-> h, book |-> b, etag |-> 0,
           facts |-> F, rest |-> {}, deleted |-> {}]
  BY <1>1 DEF Dir!NoReq
<1>3. m \in Reqs /\ m.kind = "create" /\ m.card = h
  BY <1>2 DEF Reqs, ReqSteps, Names
<1>4. Dir!Put(c, m)
  BY <1>1 DEF Dir!Create
<1>5. tally' \in Tallies /\ tally'.names = tally.names \cup {h} /\ h \notin tally.names
  <2>1. tally \in Tallies
    BY DEF DirInv, DirTypes
  <2>2. tally' = [tally EXCEPT !.writes = @ + 1, !.names = @ \cup {h}]
    BY DEF Dir!Create
  <2>3. PICK q : q = [tally EXCEPT !.writes = @ + 1, !.names = @ \cup {h}]
    OBVIOUS
  <2>4. q = [edits |-> tally.edits, writes |-> tally.writes + 1, faults |-> tally.faults,
             names |-> tally.names \cup {h}, owed |-> tally.owed]
    BY <2>1, <2>3 DEF Tallies
  <2>5. q \in Tallies /\ q.names = tally.names \cup {h}
    BY <2>1, <2>4 DEF Tallies
  <2>. QED  BY <2>2, <2>3, <2>5 DEF Dir!Create
<1>. QED  BY <1>3, <1>4, <1>5, AskKeeps DEF Dir!Create

LEMMA MergeKeeps ==
  ASSUME DirInv, NEW c \in Clients, NEW C \in SUBSET Hrefs, NEW p \in C, Dir!Merge(c, C, p)
  PROVE  DirInv'
<1>1. p \in Dir!Cached
  BY DEF Dir!Merge, Dir!Clusters
<1>2. p \in Hrefs /\ Dir!Exists(cards[p])
  BY <1>1 DEF Dir!Cached
<1>3. Dir!Merged(C) \in SUBSET Facts /\ cards[p].rev \in Nat
  BY <1>2 DEF Dir!Merged, DirInv, DirTypes, Cards
<1>4. PICK m : m = [Dir!NoReq EXCEPT !.kind = "merge", !.card = p, !.etag = cards[p].rev, !.facts = Dir!Merged(C),
                                     !.rest = C \ {p}, !.step = "writing"]
  OBVIOUS
<1>5. m = [kind |-> "merge", step |-> "writing", card |-> p, book |-> "none", etag |-> cards[p].rev,
           facts |-> Dir!Merged(C), rest |-> C \ {p}, deleted |-> {}]
  BY <1>4 DEF Dir!NoReq
<1>6. m \in Reqs /\ m.kind = "merge" /\ m.card = p /\ m.deleted = {} /\ m.step = "writing"
  BY <1>2, <1>3, <1>5 DEF Reqs, ReqSteps, Names
<1>7. Dir!Put(c, m)
  BY <1>4 DEF Dir!Merge, Dir!FirstStepOfMerge
<1>8. tally' \in Tallies /\ tally'.names = tally.names
  BY Counts DEF Dir!Merge
<1>. QED  BY <1>2, <1>6, <1>7, <1>8, AskKeeps DEF Dir!Merge
-----------------------------------------------------------------------------
(* What is done for a request *)

\* The card as a request writes it, where the etag still holds.
LEMMA StoredCard ==
  ASSUME DirInv, NEW c \in Clients, req[c].step = "writing", Dir!Matches(c), dav' = Dir!Stored(c)
  PROVE  /\ dav' \in [Hrefs -> Cards]
         /\ \A h \in Hrefs : h = req[c].card \/ dav'[h] = dav[h]
         /\ req[c].card \in Hrefs => /\ dav'[req[c].card].rev = req[c].etag + 1
                                     /\ dav'[req[c].card].facts = req[c].facts
                                     /\ Creating(c) \/ dav'[req[c].card].book = dav[req[c].card].book
<1>1. dav \in [Hrefs -> Cards] /\ req[c] \in Reqs
  BY DEF DirInv, DirTypes
<1>2. PICK h, b : h = req[c].card /\ b = IF req[c].kind = "create" THEN req[c].book ELSE dav[h].book
  OBVIOUS
<1>3. PICK k : k = [dav[h] EXCEPT !.book = IF req[c].kind = "create" THEN req[c].book ELSE @]
  OBVIOUS
<1>4. dav' = [dav EXCEPT ![h] = Dir!Written(k, req[c].facts)]
  BY <1>2, <1>3 DEF Dir!Stored
<1>5. CASE h \in Hrefs
  <2>1. dav[h] \in Cards /\ b \in Books \cup {"none"} /\ req[c].facts \in SUBSET Facts
    BY <1>1, <1>2, <1>5 DEF Cards, Reqs
  <2>2. k = [dav[h] EXCEPT !.book = b]
    BY <1>2, <1>3
  <2>3. k \in Cards /\ k.book = b /\ k.rev = dav[h].rev
    BY <2>1, <2>2 DEF Cards
  <2>4. PICK w : w = Dir!Written(k, req[c].facts)
    OBVIOUS
  <2>5. w \in Cards /\ w.book = b /\ w.rev = dav[h].rev + 1 /\ w.facts = req[c].facts
    BY <2>1, <2>3, <2>4, CardFacts
  <2>6. dav' = [dav EXCEPT ![h] = w]
    BY <1>4, <2>4
  <2>7. dav' \in [Hrefs -> Cards] /\ dav'[h] = w /\ \A g \in Hrefs \ {h} : dav'[g] = dav[g]
    BY <1>1, <1>5, <2>5, <2>6
  <2>8. dav[h].rev = req[c].etag
    BY <1>2 DEF Dir!Matches
  <2>9. Creating(c) \/ b = dav[h].book
    BY <1>2 DEF Creating
  <2>. QED  BY <1>2, <2>5, <2>7, <2>8, <2>9
<1>6. CASE h \notin Hrefs
  BY <1>1, <1>2, <1>4, <1>6
<1>. QED  BY <1>5, <1>6

\* The server took what a request wrote, or not; the request goes on to its sync or is refused.
LEMMA WrittenKeeps ==
  ASSUME DirInv, NEW c \in Clients, req[c].step = "writing", NEW s \in {"syncing", "refused"},
         Dir!Put(c, [req[c] EXCEPT !.step = s]),
         \/ dav' = dav /\ s = "refused"
         \/ Dir!Matches(c) /\ dav' = Dir!Stored(c),
         UNCHANGED <<cards, sheet>>, tally' \in Tallies, tally'.names = tally.names,
         \/ runs' = runs
         \/ s = "syncing" /\ Dir!Syncs(c)
  PROVE  DirInv'
<1>1. req[c] \in Reqs
  BY DEF DirInv, DirTypes
<1>2. PICK r : r = [req[c] EXCEPT !.step = s]
  OBVIOUS
<1>3. /\ r \in Reqs /\ r.step = s /\ r.kind = req[c].kind /\ r.card = req[c].card
      /\ r.etag = req[c].etag /\ r.facts = req[c].facts /\ r.deleted = req[c].deleted
  BY <1>1, <1>2 DEF Reqs, ReqSteps
<1>4. req' \in [Clients -> Reqs] /\ req'[c] = r /\ OthersWait(c)
  BY <1>2, <1>3, RequestStep
<1>5. dav' \in [Hrefs -> Cards]
  BY StoredCard DEF DirInv, DirTypes
<1>6. RunTypes' /\ runs'[c] \in {runs[c], Dir!Started} /\ \A y \in Workers \ {c} : runs'[y] = runs[y]
  BY RunStep, RunFacts DEF DirInv, DirTypes, RunTypes, Dir!Syncs, Workers
<1>7. DirTypes'
  BY <1>4, <1>5, <1>6 DEF DirInv, DirTypes
<1>8. RunsAwaited'
  <2>1. \A d \in Clients \ {c, Dir!Timer} : runs'[d] = runs[d] /\ req'[d] = req[d]
    BY <1>4, <1>6 DEF OthersWait, Workers
  <2>2. c = Dir!Timer \/ runs[c].step = "none"
    BY DEF DirInv, RunsAwaited
  <2>3. c = Dir!Timer \/ (runs'[c].step # "none" => req'[c].step = "syncing")
    BY <1>3, <1>4, <2>2 DEF DirInv
  <2>. QED  BY <2>1, <2>3 DEF DirInv, RunsAwaited
<1>9. DavMoves
  <2>1. CASE dav' = dav
    BY <2>1, DavRests
  <2>2. CASE Dir!Matches(c) /\ dav' = Dir!Stored(c)
    <3>1. ~ Creating(c)'
      BY <1>3, <1>4 DEF Creating
    <3>2. ASSUME NEW h \in Hrefs, h = req[c].card
          PROVE  Creating(c) \/ (dav'[h].book = dav[h].book /\ dav'[h].rev = dav[h].rev + 1)
      BY <2>2, <3>2, StoredCard DEF Dir!Matches
    <3>3. \A h \in Hrefs : h = req[c].card \/ dav'[h] = dav[h]
      BY <2>2, StoredCard
    <3>. QED  BY <3>1, <3>2, <3>3 DEF DavMoves
  <2>. QED  BY <2>1, <2>2
<1>10. MirrorMoves
  <2>1. \A x \in Workers : runs'[x] = runs[x] \/ runs'[x] = Dir!NoRun \/ runs'[x] = Dir!Started
    BY <1>6
  <2>. QED  BY <2>1, MirrorRests
<1>11. MergeMoves(c)
  <2>1. SUFFICES ASSUME Merging(c)' PROVE
          \/ req'[c].card \in Hrefs /\ req'[c].deleted = {} /\ req'[c].step \notin PastWrite
          \/ req'[c].card \in Hrefs /\ req'[c].step \in PastWrite /\ Survives(c)'
    BY DEF MergeMoves
  <2>2. req[c].card \in Hrefs /\ req[c].deleted = {}
    BY <1>3, <1>4, <2>1 DEF DirInv, MergesWritten, MergeWritten, Merging, PastWrite
  <2>3. CASE s = "refused"
    BY <1>3, <1>4, <2>2, <2>3 DEF PastWrite
  <2>4. CASE s = "syncing"
    <3>1. dav'[req[c].card].rev = req[c].etag + 1 /\ dav'[req[c].card].facts = req[c].facts
      BY <2>2, <2>4, StoredCard
    <3>2. Survives(c)'
      BY <1>3, <1>4, <3>1 DEF Survives
    <3>. QED  BY <1>3, <1>4, <2>2, <2>4, <3>2 DEF PastWrite
  <2>. QED  BY <2>3, <2>4
<1>12. NameMoves(c)
  BY <1>3, <1>4 DEF NameMoves, Merging, Creating
<1>. QED  BY <1>4, <1>7, <1>8, <1>9, <1>10, <1>11, <1>12, DirStep

LEMMA WriteKeeps ==
  ASSUME DirInv, NEW c \in Clients, Dir!Write(c)
  PROVE  DirInv'
<1>1. CASE Dir!Matches(c)
  <2>1. tally' \in Tallies /\ tally'.names = tally.names
    <3>1. tally \in Tallies /\ req[c].facts \in SUBSET Facts
      BY DEF DirInv, DirTypes, Reqs
    <3>. QED  BY <1>1, <3>1 DEF Dir!Write, Tallies
  <2>. QED  BY <1>1, <2>1, WrittenKeeps DEF Dir!Write
<1>2. CASE ~ Dir!Matches(c)
  <2>1. tally' \in Tallies /\ tally'.names = tally.names
    BY <1>2 DEF Dir!Write, DirInv, DirTypes
  <2>. QED  BY <1>2, <2>1, WrittenKeeps DEF Dir!Write
<1>. QED  BY <1>1, <1>2

LEMMA WriteFailsKeeps ==
  ASSUME DirInv, NEW c \in Clients, NEW taken \in BOOLEAN, Dir!WriteFails(c, taken)
  PROVE  DirInv'
<1>1. tally' \in Tallies /\ tally'.names = tally.names
  BY Counts DEF Dir!WriteFails, Dir!Faulty
<1>. QED  BY <1>1, WrittenKeeps DEF Dir!WriteFails

\* A card goes, or does not; the request has one less to delete.
LEMMA DeletedKeeps ==
  ASSUME DirInv, NEW c \in Clients, req[c].step = "deleting", NEW h \in Hrefs,
         NEW r \in Reqs, Dir!Put(c, r), r.kind = req[c].kind, r.card = req[c].card,
         r.etag = req[c].etag, r.facts = req[c].facts,
         r.step \in PastWrite \/ r.kind = "delete", r.step # "writing",
         dav' = dav \/ dav' = [dav EXCEPT ![h] = Dir!NoCard],
         UNCHANGED <<cards, sheet>>, tally' \in Tallies, tally'.names = tally.names,
         \/ runs' = runs
         \/ r.step = "syncing" /\ Dir!Syncs(c)
  PROVE  DirInv'
<1>1. req' \in [Clients -> Reqs] /\ req'[c] = r /\ OthersWait(c)
  BY RequestStep
<1>2. dav' \in [Hrefs -> Cards] /\ DavMoves
  <2>1. dav \in [Hrefs -> Cards]
    BY DEF DirInv, DirTypes
  <2>. QED  BY <2>1, CardFacts DEF DavMoves
<1>3. RunTypes' /\ runs'[c] \in {runs[c], Dir!Started} /\ \A y \in Workers \ {c} : runs'[y] = runs[y]
  BY RunStep, RunFacts DEF DirInv, DirTypes, RunTypes, Dir!Syncs, Workers
<1>4. DirTypes'
  BY <1>1, <1>2, <1>3 DEF DirInv, DirTypes
<1>5. RunsAwaited'
  <2>1. \A d \in Clients \ {c, Dir!Timer} : runs'[d] = runs[d] /\ req'[d] = req[d]
    BY <1>1, <1>3 DEF OthersWait, Workers
  <2>2. c = Dir!Timer \/ runs[c].step = "none"
    BY DEF DirInv, RunsAwaited
  <2>3. c = Dir!Timer \/ (runs'[c].step # "none" => req'[c].step = "syncing")
    BY <1>1, <2>2 DEF DirInv
  <2>. QED  BY <2>1, <2>3 DEF DirInv, RunsAwaited
<1>6. MirrorMoves
  <2>1. \A x \in Workers : runs'[x] = runs[x] \/ runs'[x] = Dir!NoRun \/ runs'[x] = Dir!Started
    BY <1>3
  <2>. QED  BY <2>1, MirrorRests
<1>7. MergeMoves(c)
  BY <1>1 DEF MergeMoves, Merging, PastWrite
<1>8. NameMoves(c)
  BY <1>1 DEF NameMoves, Merging, Creating
<1>. QED  BY <1>1, <1>2, <1>4, <1>5, <1>6, <1>7, <1>8, DirStep

LEMMA DeleteKeeps ==
  ASSUME DirInv, NEW c \in Clients, NEW h \in Hrefs, Dir!Delete(c, h)
  PROVE  DirInv'
<1>1. req[c] \in Reqs /\ h \in req[c].rest
  BY DEF Dir!Delete, DirInv, DirTypes
<1>2. PICK r : r = [req[c] EXCEPT !.step = "syncing", !.rest = @ \ {h}, !.deleted = @ \cup {h}]
  OBVIOUS
<1>3. r = [kind |-> req[c].kind, step |-> "syncing", card |-> req[c].card, book |-> req[c].book,
           etag |-> req[c].etag, facts |-> req[c].facts, rest |-> req[c].rest \ {h},
           deleted |-> req[c].deleted \cup {h}]
  BY <1>1, <1>2 DEF Reqs
<1>4. /\ r \in Reqs /\ r.step = "syncing" /\ r.kind = req[c].kind /\ r.card = req[c].card
      /\ r.etag = req[c].etag /\ r.facts = req[c].facts
  BY <1>1, <1>3 DEF Reqs, ReqSteps, Names
<1>5. tally' \in Tallies /\ tally'.names = tally.names
  BY DEF Dir!Delete, DirInv, DirTypes
<1>6. Dir!Put(c, r) /\ r.step \in PastWrite
  BY <1>2, <1>4 DEF Dir!Delete, PastWrite
<1>. QED  BY <1>4, <1>5, <1>6, DeletedKeeps DEF Dir!Delete

LEMMA DeleteFailsKeeps ==
  ASSUME DirInv, NEW c \in Clients, NEW h \in Hrefs, NEW taken \in BOOLEAN, Dir!DeleteFails(c, h, taken)
  PROVE  DirInv'
<1>1. req[c] \in Reqs /\ h \in req[c].rest /\ req[c].step = "deleting"
  BY DEF Dir!DeleteFails, DirInv, DirTypes
<1>2. PICK s : s = IF req[c].kind = "delete" THEN "refused"
                   ELSE IF req[c].rest = {h} THEN "answered" ELSE req[c].step
  OBVIOUS
<1>3. PICK D : D = IF taken THEN req[c].deleted \cup {h} ELSE req[c].deleted
  OBVIOUS
<1>4. PICK r : r = [req[c] EXCEPT !.rest = @ \ {h}, !.deleted = D, !.step = s]
  OBVIOUS
<1>5. r = [kind |-> req[c].kind, step |-> s, card |-> req[c].card, book |-> req[c].book,
           etag |-> req[c].etag, facts |-> req[c].facts, rest |-> req[c].rest \ {h}, deleted |-> D]
  BY <1>1, <1>4 DEF Reqs
<1>6. s \in {"refused", "answered", "deleting"} /\ (s = "refused" => req[c].kind = "delete")
  BY <1>1, <1>2
<1>7. D \in SUBSET Names
  BY <1>1, <1>3 DEF Reqs, Names
<1>8. /\ r \in Reqs /\ r.step = s /\ r.kind = req[c].kind /\ r.card = req[c].card
      /\ r.etag = req[c].etag /\ r.facts = req[c].facts
  BY <1>1, <1>5, <1>6, <1>7 DEF Reqs, ReqSteps, Names
<1>9. Dir!Put(c, r)
  BY <1>2, <1>3, <1>4 DEF Dir!DeleteFails
<1>10. tally' \in Tallies /\ tally'.names = tally.names
  BY Counts DEF Dir!DeleteFails, Dir!Faulty
<1>11. (r.step \in PastWrite \/ r.kind = "delete") /\ r.step # "writing"
  BY <1>6, <1>8 DEF PastWrite
<1>. QED  BY <1>1, <1>8, <1>9, <1>10, <1>11, DeletedKeeps DEF Dir!DeleteFails

LEMMA AnsweredKeeps ==
  ASSUME DirInv, NEW c \in Clients, Dir!Answered(c)
  PROVE  DirInv'
<1>1. UNCHANGED <<dav, cards, runs, tally>> /\ Dir!Put(c, Dir!NoReq)
  BY DEF Dir!Answered
<1>2. sheet' \in [Clients -> Sheets]
  <2>1. sheet \in [Clients -> Sheets]
    BY DEF DirInv, DirTypes
  <2>. QED  BY <2>1, RestingRequest DEF Dir!Answered
<1>3. req' \in [Clients -> Reqs] /\ req'[c] = Dir!NoReq /\ OthersWait(c)
  BY <1>1, RequestStep, RestingRequest
<1>4. DirTypes'
  BY <1>1, <1>2, <1>3 DEF DirInv, DirTypes, RunTypes
<1>5. RunsAwaited'
  BY <1>1, <1>3, RunsStillAwaited DEF Dir!Answered
<1>6. MergeMoves(c) /\ NameMoves(c)
  BY <1>1, <1>3, RestingRequest DEF MergeMoves, NameMoves, Merging, Creating
<1>. QED  BY <1>1, <1>3, <1>4, <1>5, <1>6, DirStep, DavRests, MirrorRests

LEMMA DirKeeps ==
  ASSUME DirInv, Dir!Next
  PROVE  DirInv'
<1>1. Dir!FactSets \subseteq SUBSET Facts
  BY DEF Dir!FactSets
<1>2. Clients \cup {Dir!Timer} = Workers
  BY DEF Workers
<1>3. CASE \E h \in Hrefs, F \in Dir!FactSets : Dir!OtherEdits(h, F)
  BY <1>1, <1>3, OtherEditsKeeps
<1>4. CASE \/ Dir!TimerSync
           \/ \E x \in Workers : \/ Dir!Replace(x)
                                 \/ \E ok \in BOOLEAN : Dir!Discover(x, ok) \/ Dir!FetchBook(x, ok)
  BY <1>4, RunsKeep
<1>5. ASSUME NEW c \in Clients, NEW h \in Hrefs,
             \/ Dir!Opens(c, h) \/ Dir!Delete(c, h)
             \/ \E taken \in BOOLEAN : Dir!DeleteFails(c, h, taken)
      PROVE  DirInv'
  BY <1>5, SheetsKeep, DeleteKeeps, DeleteFailsKeeps
<1>6. ASSUME NEW c \in Clients,
             \/ Dir!Cancels(c) \/ Dir!RemoveCard(c) \/ Dir!Write(c) \/ Dir!Answered(c)
             \/ \E taken \in BOOLEAN : Dir!WriteFails(c, taken)
      PROVE  DirInv'
  BY <1>6, SheetsKeep, RemoveCardKeeps, WriteKeeps, WriteFailsKeeps, AnsweredKeeps
<1>7. ASSUME NEW c \in Clients, NEW F \in Dir!FactSets,
             Dir!Save(c, F) \/ \E h \in Hrefs, b \in Books : Dir!Create(c, h, b, F)
      PROVE  DirInv'
  BY <1>1, <1>7, SaveKeeps, CreateKeeps
<1>8. ASSUME NEW c \in Clients, NEW C \in SUBSET Hrefs, NEW p \in C, Dir!Merge(c, C, p) PROVE DirInv'
  BY <1>8, MergeKeeps
<1>. QED  BY <1>2, <1>3, <1>4, <1>5, <1>6, <1>7, <1>8 DEF Dir!Next

\* Wherever a merge stops, what it deleted is on the survivor, unless other hands wrote or
\* deleted that since: for any number of cards, clients, writers, faults and overlapping
\* syncs (contacts/merge.ts:6).
THEOREM DeletedIsOnSurvivor == FairSpec => []DeletedIsCopied
<1>. DEFINE Inv == scene = "contacts" => DirInv
<1>1. Init => Inv
  <2>1. SUFFICES ASSUME Dir!Init PROVE DirInv
    BY DEF Init
  <2>2. PICK book \in [First -> Books] :
          dav = [h \in Hrefs |-> IF h \notin First THEN Dir!NoCard ELSE
                  [book |-> book[h], rev |-> 1,
                   facts |-> IF h = Dir!Short THEN {CHOOSE f \in Facts : TRUE} ELSE Facts]]
    BY <2>1 DEF Dir!Init
  <2>3. (CHOOSE f \in Facts : TRUE) \in Facts
    BY ServerAssumption
  <2>4. ASSUME NEW h \in Hrefs PROVE dav[h] \in Cards /\ (h \notin First => ~ Dir!Exists(dav[h]))
    <3>1. CASE h \notin First
      BY <2>2, <3>1, CardFacts
    <3>2. CASE h \in First
      <4>1. PICK F : F = IF h = Dir!Short THEN {CHOOSE f \in Facts : TRUE} ELSE Facts
        OBVIOUS
      <4>2. F \in SUBSET Facts
        BY <2>3, <4>1
      <4>3. dav[h] = [book |-> book[h], rev |-> 1, facts |-> F]
        BY <2>2, <3>2, <4>1
      <4>. QED  BY <3>2, <4>2, <4>3 DEF Cards
    <3>. QED  BY <3>1, <3>2
  <2>5. dav \in [Hrefs -> Cards]
    BY <2>2, <2>4
  <2>6. cards = dav /\ runs = [x \in Workers |-> Dir!NoRun] /\ req = [c \in Clients |-> Dir!NoReq]
        /\ sheet = [c \in Clients |-> Dir!Closed]
    BY <2>1 DEF Dir!Init, Workers
  <2>7. tally \in Tallies /\ tally.names = First
    <3>1. UNION {dav[h].facts : h \in Hrefs} \in SUBSET Facts
      BY <2>4 DEF Cards
    <3>2. PICK O \in SUBSET Facts : O = UNION {dav[h].facts : h \in Hrefs}
      BY <3>1
    <3>3. tally = [edits |-> 0, writes |-> 0, faults |-> 0, names |-> First, owed |-> O]
      BY <2>1, <3>2 DEF Dir!Init
    <3>. QED  BY <3>3, ServerAssumption DEF Tallies
  <2>8. DirTypes
    BY <2>5, <2>6, <2>7, RunFacts, RestingRequest DEF DirTypes, RunTypes
  <2>9. \A c \in Clients : req[c].kind = "none" /\ req[c].deleted = {}
    BY <2>6, RestingRequest
  <2>10. RunsAwaited /\ MergesWritten
    BY <2>6, <2>9, RunFacts DEF RunsAwaited, Workers, MergesWritten, MergeWritten, Merging
  <2>11. NamesUsedOnce
    BY <2>4, <2>6, <2>7, <2>9, RunFacts DEF NamesUsedOnce, CreatesAlone, Creating, Unborn, Merging
  <2>. QED  BY <2>8, <2>10, <2>11 DEF DirInv
<1>2. Inv /\ [Next]_vars => Inv'
  <2>1. SUFFICES ASSUME Inv, [Next]_vars, scene' = "contacts" PROVE DirInv'
    OBVIOUS
  <2>2. CASE scene = "contacts" /\ Dir!Next
    BY <2>1, <2>2, DirKeeps
  <2>3. CASE scene' = scene /\ UNCHANGED dirVars
    BY <2>1, <2>3
    DEF dirVars, DirInv, DirTypes, RunTypes, RunsAwaited, MergesWritten, MergeWritten, Merging, Survives,
        NamesUsedOnce, CreatesAlone, Creating, Unborn
  <2>. QED  BY <2>1, <2>2, <2>3 DEF Next, vars
<1>3. Inv => DeletedIsCopied
  <2>1. SUFFICES ASSUME DirInv, NEW c \in Clients, Merging(c), req[c].deleted # {}
                 PROVE  \/ dav[req[c].card].facts = req[c].facts
                        \/ dav[req[c].card].rev > req[c].etag + 1
                        \/ ~ Dir!Exists(dav[req[c].card])
    BY DEF DeletedIsCopied, Dir!DeletedIsCopied, Merging
  <2>. QED  BY <2>1 DEF DirInv, MergesWritten, MergeWritten, Survives
<1>. QED  BY <1>1, <1>2, <1>3, PTL DEF FairSpec
=============================================================================
