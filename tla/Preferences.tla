---------------------------- MODULE Preferences ----------------------------
(***************************************************************************)
(* UI preferences on a device (state/prefs.ts): it renders its own copy,   *)
(* pushes the keys edited as a merge patch, and adopts the server's        *)
(* (db/settings.ts, routes/api/settings.ts) at login, on a signal of a     *)
(* write, on a reconnect and in the foreground (App.tsx).  Other devices   *)
(* are the writes and the seed their pushes land.                          *)
(*                                                                         *)
(* Requests are answered in any order; pushes are served in the order sent *)
(* if InOrder.                                                             *)
(***************************************************************************)
EXTENDS Integers, FiniteSets, SequencesExt

CONSTANTS Keys, Values,
          Default,      \* the value of a key nobody set
          InOrder,      \* the network keeps the order of pushes
          MaxPushes, MaxReads,  \* bounds: in flight
          MaxEdits,     \* bound
          MaxTrouble    \* bound: failed or unheard requests, reloads, lost connections

VARIABLES stored,   \* the prefs object on the server
          device,   \* its copy and its unsynced keys
          pushes,   \* patches in flight, in the order sent
          reads,    \* reads in flight, in the order sent
          diary     \* who set which key to what, whether others seeded the server, bounds used

prefVars == <<stored, device, pushes, reads, diary>>

Trouble == diary.trouble < MaxTrouble
Troubled == diary' = [diary EXCEPT !.trouble = @ + 1]

Get == [overtaken |-> FALSE, served |-> FALSE, answer |-> <<>>]

\* The value of a key in a stored object.
Value(s, k) == IF k \in DOMAIN s THEN s[k] ELSE Default

\* push(): the unsynced keys, if there are any.
WithPush(r) ==
  IF r.unsynced = {} THEN pushes
  ELSE Append(pushes, [patch |-> [k \in r.unsynced |-> r.prefs[k]], step |-> "asked", heard |-> TRUE])
WithRead == Append(reads, Get)

-----------------------------------------------------------------------------
(* The device *)

\* setPref
Edit(k, v) ==
  /\ diary.edits < MaxEdits /\ v # device.prefs[k]
  /\ device' = [device EXCEPT !.prefs[k] = v, !.unsynced = @ \cup {k}, !.timer = TRUE]
  /\ diary' = [diary EXCEPT !.edits = @ + 1, !.made[k] = Append(@, <<"here", v>>)]
  /\ UNCHANGED <<stored, pushes, reads>>

\* The debounce of schedulePush ends.
PushTimer ==
  /\ device.timer /\ Len(pushes) < MaxPushes
  /\ device' = [device EXCEPT !.timer = FALSE]
  /\ pushes' = WithPush(device)
  /\ UNCHANGED <<stored, reads, diary>>

\* A read that began before a push landed is discarded when it arrives.
Overtaken == [i \in DOMAIN reads |-> [reads[i] EXCEPT !.overtaken = TRUE]]

\* Keys that still have the value that was pushed are synced.
Confirmed(r, patch) ==
  [r EXCEPT !.unsynced = {k \in @ : ~ (k \in DOMAIN patch /\ r.prefs[k] = patch[k])}]

PushAnswered(i) ==
  /\ i \in DOMAIN pushes /\ pushes[i].step = "ok"
  /\ pushes' = RemoveAt(pushes, i)
  /\ IF pushes[i].heard
     THEN device' = Confirmed(device, pushes[i].patch) /\ reads' = Overtaken
     ELSE UNCHANGED <<device, reads>>
  /\ UNCHANGED <<stored, diary>>

\* No network, an error, or no answer: the keys stay unsynced.
PushFails(i) ==
  /\ i \in DOMAIN pushes /\ pushes[i].heard /\ Trouble
  /\ pushes' = RemoveAt(pushes, i)
  /\ Troubled
  /\ UNCHANGED <<stored, device, reads>>

\* hydratePrefs on settings:changed.
Told ==
  /\ device.told /\ Len(reads) < MaxReads
  /\ device' = [device EXCEPT !.told = FALSE]
  /\ reads' = WithRead
  /\ UNCHANGED <<stored, pushes, diary>>

\* In the foreground again, or connected again, 30 s or more after the last time.
Foreground ==
  /\ reads = <<>>
  /\ device' = [device EXCEPT !.online = TRUE]
  /\ reads' = WithRead
  /\ UNCHANGED <<stored, pushes, diary>>

\* The socket is gone, and with it the signals meanwhile.
Disconnect ==
  /\ device.online /\ Trouble
  /\ device' = [device EXCEPT !.online = FALSE, !.told = FALSE]
  /\ Troubled
  /\ UNCHANGED <<stored, pushes, reads>>

\* Mutant: the server's copy replaces edits it has not seen.
AdoptedOver(r, answer) == [r EXCEPT !.prefs = [k \in Keys |-> Value(answer, k)]]

\* The server's value of every key but the unsynced ones.
Adopted(r, answer) ==
  [r EXCEPT !.prefs = [k \in Keys |-> IF k \in r.unsynced THEN @[k] ELSE Value(answer, k)]]

\* Mutant: only an edit arms the timer.
RearmedNever(r) == r

\* What is unsynced goes up again.
Rearmed(r) == [r EXCEPT !.timer = @ \/ r.unsynced # {}]

\* An empty object on the server is seeded from the device.
ReadArrives(i) ==
  /\ i \in DOMAIN reads /\ reads[i].served
  /\ reads' = RemoveAt(reads, i)
  /\ LET answer == reads[i].answer
         seed == [device EXCEPT !.unsynced = Keys] IN
     CASE reads[i].overtaken -> UNCHANGED <<device, pushes>>
       [] ~ reads[i].overtaken /\ answer = <<>> ->
            Len(pushes) < MaxPushes /\ device' = seed /\ pushes' = WithPush(seed)
       [] OTHER -> device' = Rearmed(Adopted(device, answer)) /\ UNCHANGED pushes
  /\ UNCHANGED <<stored, diary>>

ReadFails(i) ==
  /\ i \in DOMAIN reads /\ Trouble
  /\ reads' = RemoveAt(reads, i)
  /\ Troubled
  /\ UNCHANGED <<stored, device, pushes>>

\* The page is reloaded: localStorage has the copy and the unsynced keys; a new page reads.
Reload ==
  /\ Trouble
  /\ device' = [device EXCEPT !.timer = FALSE, !.told = FALSE, !.online = TRUE]
  /\ pushes' = [i \in DOMAIN pushes |-> [pushes[i] EXCEPT !.heard = FALSE]]
  /\ reads' = <<Get>>
  /\ Troubled
  /\ UNCHANGED stored

-----------------------------------------------------------------------------
(* The server *)

\* PATCH /api/settings: patchPrefs, and settings:changed to whoever is connected.
Patch(patch) ==
  /\ stored' = [k \in DOMAIN stored \cup DOMAIN patch |->
                  IF k \in DOMAIN patch THEN patch[k] ELSE stored[k]]
  /\ device' = [device EXCEPT !.told = device.online]

ServePush(i) ==
  /\ i \in DOMAIN pushes /\ pushes[i].step = "asked"
  /\ InOrder => \A j \in 1 .. i - 1 : pushes[j].step = "ok"
  /\ Patch(pushes[i].patch)
  /\ pushes' = [pushes EXCEPT ![i].step = "ok"]
  /\ UNCHANGED <<reads, diary>>

\* Another device's edit lands.
OthersWrite(k, v) ==
  /\ diary.edits < MaxEdits /\ v # Value(stored, k)
  /\ Patch([x \in {k} |-> v])
  /\ diary' = [diary EXCEPT !.edits = @ + 1, !.made[k] = Append(@, <<"elsewhere", v>>)]
  /\ UNCHANGED <<pushes, reads>>

\* Another device read the object while it was empty, and seeds it.
OthersSeed ==
  /\ diary.empty /\ ~ diary.seeded
  /\ Patch([k \in Keys |-> Default])
  /\ diary' = [diary EXCEPT !.seeded = TRUE]
  /\ UNCHANGED <<pushes, reads>>

\* GET /api/settings
ServeRead(i) ==
  /\ i \in DOMAIN reads /\ ~ reads[i].served
  /\ reads' = [reads EXCEPT ![i].served = TRUE, ![i].answer = stored]
  /\ UNCHANGED <<stored, device, pushes, diary>>

-----------------------------------------------------------------------------

\* The app is opened, and the server has prefs or has none.
Init ==
  /\ stored \in {<<>>, [k \in Keys |-> Default]}
  /\ device = [prefs |-> [k \in Keys |-> Default], unsynced |-> {},
               timer |-> FALSE, told |-> FALSE, online |-> TRUE]
  /\ pushes = <<>> /\ reads = <<Get>>
  /\ diary = [made |-> [k \in Keys |-> <<>>], empty |-> stored = <<>>, seeded |-> FALSE,
              edits |-> 0, trouble |-> 0]

Next ==
  \/ PushTimer \/ Told \/ Foreground \/ Disconnect \/ Reload \/ OthersSeed
  \/ \E k \in Keys, v \in Values : Edit(k, v) \/ OthersWrite(k, v)
  \/ \E i \in 1 .. MaxPushes : ServePush(i) \/ PushAnswered(i) \/ PushFails(i)
  \/ \E i \in 1 .. MaxReads : ServeRead(i) \/ ReadArrives(i) \/ ReadFails(i)

Spec == Init /\ [][Next]_prefVars

\* Timers fire, requests are served and answered, signals come, and the app is opened again.
PrefFairness ==
  /\ WF_prefVars(PushTimer) /\ WF_prefVars(Told) /\ WF_prefVars(Foreground)
  /\ \A i \in 1 .. MaxPushes : WF_prefVars(ServePush(i)) /\ WF_prefVars(PushAnswered(i))
  /\ \A i \in 1 .. MaxReads : WF_prefVars(ServeRead(i)) /\ WF_prefVars(ReadArrives(i))

-----------------------------------------------------------------------------
(* Properties *)

\* An edit of a key nobody else edits shows, and has reached the server or is still unsynced,
\* whichever other keys, reads, failures and reloads meet it (prefs.ts: "two devices editing
\* different prefs never overwrite each other"), unless another device seeded the server.
LoneEditIsKept ==
  \A k \in Keys, v \in Values :
    diary.made[k] = << <<"here", v>> >> /\ ~ diary.seeded =>
      device.prefs[k] = v /\ (k \in device.unsynced \/ Value(stored, k) = v)

\* The device ends up with the server's copy and nothing unsynced, though signals, answers
\* and pushes were lost.
DeviceAgrees ==
  <>[](device.unsynced = {} /\ \A k \in Keys : device.prefs[k] = Value(stored, k))

\* A key only this device edited ends up as it was set last (prefs.ts: "A key edited again
\* while the request is in flight stays unsynced").
LastEditRules ==
  \A k \in Keys :
    /\ diary.made[k] # <<>> /\ \A i \in DOMAIN diary.made[k] : diary.made[k][i][1] = "here"
    /\ ~ diary.seeded /\ pushes = <<>> /\ k \notin device.unsynced
    => Value(stored, k) = Last(diary.made[k])[2]

=============================================================================
