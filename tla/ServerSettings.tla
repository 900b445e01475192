--------------------------- MODULE ServerSettings ---------------------------
(***************************************************************************)
(* Settings the server acts on, as a device shows them                     *)
(* (state/serverSettings.ts): a change shows at once, counts once it is    *)
(* accepted (routes/api/settings.ts, db/settings.ts) and is reverted if it *)
(* is not; reads replace the whole copy.  Other devices save too.          *)
(***************************************************************************)
EXTENDS Integers, FiniteSets, SequencesExt

CONSTANTS Keys, Values, Default,
          MaxSaves, MaxLoads,   \* bounds: in flight
          MaxChanges,           \* bound
          MaxMishaps            \* bound: failed or unheard requests, reloads, lost connections

VARIABLES doc,      \* the document on the server
          shown,    \* the device's copy, in localStorage too
          socket,   \* whether it hears of changes, and whether it just did
          saves,    \* requests in flight, in the order made
          loads,    \* reads in flight
          book      \* what the server had of each key, changes so far, bounds used

settingVars == <<doc, shown, socket, saves, loads, book>>

Read == [overtaken |-> FALSE, served |-> FALSE, answer |-> doc]
Mishap == book.mishaps < MaxMishaps
Mishaps == book' = [book EXCEPT !.mishaps = @ + 1]

\* Reads that began before a save are discarded when they arrive.
Predated == [i \in DOMAIN loads |-> [loads[i] EXCEPT !.overtaken = TRUE]]

-----------------------------------------------------------------------------
(* The server *)

\* PATCH /api/settings/server: merged, answered with the whole document, and signalled.
Merged(k, v) ==
  /\ doc' = [doc EXCEPT ![k] = v]
  /\ socket' = [socket EXCEPT !.told = socket.up]

ServeSave(i) ==
  /\ i \in DOMAIN saves /\ saves[i].step = "asked"
  /\ Merged(saves[i].key, saves[i].to)
  /\ saves' = [saves EXCEPT ![i].step = "ok", ![i].answer = doc']
  /\ book' = [book EXCEPT !.had[saves[i].key] = @ \cup {saves[i].to}]
  /\ UNCHANGED <<shown, loads>>

OthersSave(k, v) ==
  /\ book.changes < MaxChanges /\ v # doc[k]
  /\ Merged(k, v)
  /\ book' = [book EXCEPT !.changes = @ + 1, !.had[k] = @ \cup {v}]
  /\ UNCHANGED <<shown, saves, loads>>

ServeLoad(i) ==
  /\ i \in DOMAIN loads /\ ~ loads[i].served
  /\ loads' = [loads EXCEPT ![i].served = TRUE, ![i].answer = doc]
  /\ UNCHANGED <<doc, shown, socket, saves, book>>

-----------------------------------------------------------------------------
(* The device *)

\* updateServerSettings, up to its request.
Save(k, v) ==
  /\ book.changes < MaxChanges /\ v # shown[k] /\ Len(saves) < MaxSaves
  /\ shown' = [shown EXCEPT ![k] = v]
  /\ saves' = Append([i \in DOMAIN saves |-> [saves[i] EXCEPT !.latest = FALSE]],
                     [key |-> k, to |-> v, was |-> shown[k], latest |-> TRUE,
                      step |-> "asked", heard |-> TRUE, answer |-> doc])
  /\ loads' = Predated
  /\ book' = [book EXCEPT !.changes = @ + 1]
  /\ UNCHANGED <<doc, socket>>

\* Only the latest save's answer is adopted.
SaveAnswered(i) ==
  /\ i \in DOMAIN saves /\ saves[i].step = "ok"
  /\ shown' = IF saves[i].heard /\ saves[i].latest THEN saves[i].answer ELSE shown
  /\ saves' = RemoveAt(saves, i)
  /\ UNCHANGED <<doc, socket, loads, book>>

\* Refused, unreachable or unanswered: the key gets its previous value back, unless it was
\* changed again.
SaveFails(i) ==
  /\ i \in DOMAIN saves /\ saves[i].heard /\ Mishap
  /\ shown' = IF shown[saves[i].key] = saves[i].to THEN [shown EXCEPT ![saves[i].key] = saves[i].was]
              ELSE shown
  /\ saves' = RemoveAt(saves, i)
  /\ Mishaps
  /\ UNCHANGED <<doc, socket, loads>>

\* hydrateServerSettings on settings:changed.
HearsOfChange ==
  /\ socket.told /\ Len(loads) < MaxLoads
  /\ socket' = [socket EXCEPT !.told = FALSE]
  /\ loads' = Append(loads, Read)
  /\ UNCHANGED <<doc, shown, saves, book>>

\* hydrateServerSettings at login, in the foreground again, or connected again.
Rereads ==
  /\ loads = <<>>
  /\ socket' = [socket EXCEPT !.up = TRUE]
  /\ loads' = <<Read>>
  /\ UNCHANGED <<doc, shown, saves, book>>

\* Mutant: a read counts only before the first save.
FreshOnce(load) == book.changes = 0

\* saves === seen
Fresh(load) == ~ load.overtaken

LoadArrives(i) ==
  /\ i \in DOMAIN loads /\ loads[i].served
  /\ shown' = IF Fresh(loads[i]) THEN loads[i].answer ELSE shown
  /\ loads' = RemoveAt(loads, i)
  /\ UNCHANGED <<doc, socket, saves, book>>

LoadFails(i) ==
  /\ i \in DOMAIN loads /\ Mishap
  /\ loads' = RemoveAt(loads, i)
  /\ Mishaps
  /\ UNCHANGED <<doc, shown, socket, saves>>

LosesSocket ==
  /\ socket.up /\ Mishap
  /\ socket' = [up |-> FALSE, told |-> FALSE]
  /\ Mishaps
  /\ UNCHANGED <<doc, shown, saves, loads>>

\* A reload: what a request in flight comes to is not heard.
Restarts ==
  /\ Mishap
  /\ saves' = [i \in DOMAIN saves |-> [saves[i] EXCEPT !.heard = FALSE]]
  /\ loads' = <<Read>> /\ socket' = [up |-> TRUE, told |-> FALSE]
  /\ Mishaps
  /\ UNCHANGED <<doc, shown>>

-----------------------------------------------------------------------------

Init ==
  /\ doc = [k \in Keys |-> Default] /\ shown = doc
  /\ socket = [up |-> TRUE, told |-> FALSE]
  /\ saves = <<>> /\ loads = <<>>
  /\ book = [had |-> [k \in Keys |-> {Default}], changes |-> 0, mishaps |-> 0]

Next ==
  \/ HearsOfChange \/ Rereads \/ LosesSocket \/ Restarts
  \/ \E k \in Keys, v \in Values : Save(k, v) \/ OthersSave(k, v)
  \/ \E i \in 1 .. MaxSaves : ServeSave(i) \/ SaveAnswered(i) \/ SaveFails(i)
  \/ \E i \in 1 .. MaxLoads : ServeLoad(i) \/ LoadArrives(i) \/ LoadFails(i)

Spec == Init /\ [][Next]_settingVars

\* Requests are served and answered, signals come, and the app is opened again.
SettingFairness ==
  /\ WF_settingVars(HearsOfChange) /\ WF_settingVars(Rereads)
  /\ \A i \in 1 .. MaxSaves : WF_settingVars(ServeSave(i)) /\ WF_settingVars(SaveAnswered(i))
  /\ \A i \in 1 .. MaxLoads : WF_settingVars(ServeLoad(i)) /\ WF_settingVars(LoadArrives(i))

-----------------------------------------------------------------------------
(* Properties *)

\* The screen ends up with the server's document, whatever was refused, lost or overtaken.
SettingsAgree == <>[](shown = doc)

\* With no save under way, a key shows a value the server once had ("a change counts only once
\* it's accepted").
ShownWasAccepted == saves = <<>> => \A k \in Keys : shown[k] \in book.had[k]

=============================================================================
