----------------------------- MODULE ClientSide -----------------------------
(***************************************************************************)
(* Parts of the app that share no state, each with its bit of the server   *)
(* and each in a scene of one model for TLC: UI preferences (Preferences), *)
(* server settings (ServerSettings), signing in and reachability           *)
(* (Session), mail rules (MailRules), the review of a sender for cleanup   *)
(* (CleanupReview) and a list of mail (MailViews).  A behaviour plays one  *)
(* scene; the others' variables are 0.                                     *)
(***************************************************************************)
EXTENDS Naturals

CONSTANTS Keys, Values, Default, InOrder, MaxPushes, MaxReads, MaxEdits, MaxTrouble,
          SettingKeys, MaxSaves, MaxLoads, MaxChanges, MaxMishaps,
          Modes, MaxStrain,
          Labels, Depth, Accounts, Furnished, Scopes, Moves, Marks, Letters, Clients,
          Batch, MaxPasses, MaxRules, MaxTime,
          Size, Hits, Gated, Slices, PerPage, Faults, MaxAsks, MaxRuns, MaxStirs,
          Length, Expected, Away, Ties, OldUnread, Tops, PageSize, Failing, MaxHeads, MaxHitches

ASSUME ClientSideAssumption ==
  /\ {MaxPushes, MaxReads, MaxEdits, MaxTrouble} \subseteq Nat
  /\ {MaxSaves, MaxLoads, MaxChanges, MaxMishaps, MaxStrain} \subseteq Nat
  /\ {Depth, Batch, MaxPasses} \subseteq Nat \ {0} /\ {MaxRules, MaxTime} \subseteq Nat
  /\ InOrder \in BOOLEAN /\ Default \in Values
  /\ Modes \subseteq {"login", "gateway"} /\ Furnished \subseteq Accounts
  /\ Scopes \subseteq Accounts \cup {"every"} /\ Moves \subseteq {"spam", "archive", "trash"}
  /\ Hits \subseteq 1 .. Size /\ Gated \subseteq 1 .. Size
  /\ Slices \subseteq {"storage", "newsletters"} /\ Faults \subseteq {"list", "keep", "run", "order"}
  /\ {Size, PerPage, MaxAsks} \subseteq Nat \ {0} /\ {MaxRuns, MaxStirs} \subseteq Nat
  /\ {Expected, Away, MaxHeads, MaxHitches} \subseteq Nat
  /\ {Length, PageSize} \subseteq Nat \ {0} /\ Expected + Away <= Length
  /\ Ties \subseteq 2 .. Length /\ OldUnread \subseteq 1 .. Length
  /\ Tops \subseteq BOOLEAN /\ Failing \subseteq {"head", "more", "missed"}

VARIABLES scene,
          stored, device, pushes, reads, diary,
          doc, shown, socket, saves, loads, book,
          world, page, app, kept, wire, quota,
          rules, mail, client, day,
          store, drill, saved, card, asks, note,
          server, cached, told, list, net, past

prefVars == <<stored, device, pushes, reads, diary>>
settingVars == <<doc, shown, socket, saves, loads, book>>
sessionVars == <<world, page, app, kept, wire, quota>>
ruleVars == <<rules, mail, client, day>>
reviewVars == <<store, drill, saved, card, asks, note>>
viewVars == <<server, cached, told, list, net, past>>
vars == <<scene, prefVars, settingVars, sessionVars, ruleVars, reviewVars, viewVars>>

Prefs == INSTANCE Preferences
Settings == INSTANCE ServerSettings WITH Keys <- SettingKeys
Sign == INSTANCE Session
Sort == INSTANCE MailRules WITH Mail <- Letters
Sift == INSTANCE CleanupReview WITH Page <- PerPage
Read == INSTANCE MailViews

-----------------------------------------------------------------------------

NoPrefs == stored = 0 /\ device = 0 /\ pushes = 0 /\ reads = 0 /\ diary = 0
NoSettings == doc = 0 /\ shown = 0 /\ socket = 0 /\ saves = 0 /\ loads = 0 /\ book = 0
NoSession == world = 0 /\ page = 0 /\ app = 0 /\ kept = 0 /\ wire = 0 /\ quota = 0
NoRules == rules = 0 /\ mail = 0 /\ client = 0 /\ day = 0
NoReview == store = 0 /\ drill = 0 /\ saved = 0 /\ card = 0 /\ asks = 0 /\ note = 0
NoView == server = 0 /\ cached = 0 /\ told = 0 /\ list = 0 /\ net = 0 /\ past = 0

Init ==
  \/ /\ scene = "prefs" /\ Prefs!Init
     /\ NoSettings /\ NoSession /\ NoRules /\ NoReview /\ NoView
  \/ /\ scene = "settings" /\ Settings!Init
     /\ NoPrefs /\ NoSession /\ NoRules /\ NoReview /\ NoView
  \/ /\ scene = "session" /\ Sign!Init
     /\ NoPrefs /\ NoSettings /\ NoRules /\ NoReview /\ NoView
  \/ /\ scene = "rules" /\ Sort!Init
     /\ NoPrefs /\ NoSettings /\ NoSession /\ NoReview /\ NoView
  \/ /\ scene = "review" /\ Sift!Init
     /\ NoPrefs /\ NoSettings /\ NoSession /\ NoRules /\ NoView
  \/ /\ scene = "views" /\ Read!Init
     /\ NoPrefs /\ NoSettings /\ NoSession /\ NoRules /\ NoReview

Next ==
  /\ UNCHANGED scene
  /\ \/ scene = "prefs" /\ Prefs!Next
        /\ UNCHANGED <<settingVars, sessionVars, ruleVars, reviewVars, viewVars>>
     \/ scene = "settings" /\ Settings!Next
        /\ UNCHANGED <<prefVars, sessionVars, ruleVars, reviewVars, viewVars>>
     \/ scene = "session" /\ Sign!Next
        /\ UNCHANGED <<prefVars, settingVars, ruleVars, reviewVars, viewVars>>
     \/ scene = "rules" /\ Sort!Next
        /\ UNCHANGED <<prefVars, settingVars, sessionVars, reviewVars, viewVars>>
     \/ scene = "review" /\ Sift!Next
        /\ UNCHANGED <<prefVars, settingVars, sessionVars, ruleVars, viewVars>>
     \/ scene = "views" /\ Read!Next
        /\ UNCHANGED <<prefVars, settingVars, sessionVars, ruleVars, reviewVars>>

\* Requests end, the debounce fires, signals come and the app is looked at again.
PrefsFairness ==
  /\ WF_prefVars(scene = "prefs" /\ Prefs!PushTimer)
  /\ WF_prefVars(scene = "prefs" /\ Prefs!Told)
  /\ WF_prefVars(scene = "prefs" /\ Prefs!Foreground)
  /\ \A i \in 1 .. MaxPushes :
       /\ WF_prefVars(scene = "prefs" /\ Prefs!ServePush(i))
       /\ WF_prefVars(scene = "prefs" /\ Prefs!PushAnswered(i))
  /\ \A i \in 1 .. MaxReads :
       /\ WF_prefVars(scene = "prefs" /\ Prefs!ServeRead(i))
       /\ WF_prefVars(scene = "prefs" /\ Prefs!ReadArrives(i))

SettingsFairness ==
  /\ WF_settingVars(scene = "settings" /\ Settings!HearsOfChange)
  /\ WF_settingVars(scene = "settings" /\ Settings!Rereads)
  /\ \A i \in 1 .. MaxSaves :
       /\ WF_settingVars(scene = "settings" /\ Settings!ServeSave(i))
       /\ WF_settingVars(scene = "settings" /\ Settings!SaveAnswered(i))
  /\ \A i \in 1 .. MaxLoads :
       /\ WF_settingVars(scene = "settings" /\ Settings!ServeLoad(i))
       /\ WF_settingVars(scene = "settings" /\ Settings!LoadArrives(i))

\* Outages end, calls and timers do, the user signs in and reads on while the app says it is
\* connected, and reloads an error page.
SignFairness ==
  /\ WF_sessionVars(scene = "session" /\ Sign!NetReturns)
  /\ WF_sessionVars(scene = "session" /\ Sign!ServerReturns)
  /\ WF_sessionVars(scene = "session" /\ Sign!Recover)
  /\ WF_sessionVars(scene = "session" /\ Sign!Relogin)
  /\ WF_sessionVars(scene = "session" /\ Sign!GuardPasses)
  /\ WF_sessionVars(scene = "session" /\ Sign!ProbeTimer)
  /\ WF_sessionVars(scene = "session" /\ Sign!ProbeArrives)
  /\ WF_sessionVars(scene = "session" /\ Sign!ConfigArrives)
  /\ WF_sessionVars(scene = "session" /\ Sign!SignIn)
  /\ WF_sessionVars(scene = "session" /\ Sign!LoginArrives)
  /\ WF_sessionVars(scene = "session" /\ app.reachable /\ Sign!Ask("get"))
  /\ \A k \in Sign!Kinds : WF_sessionVars(scene = "session" /\ Sign!Serve(k))
  /\ \A k \in Sign!Mail : WF_sessionVars(scene = "session" /\ Sign!MailArrives(k))

\* Requests are served and answers dealt with, signals come, and the list is looked at again
\* and scrolled on.
ReadFairness ==
  /\ WF_viewVars(scene = "views" /\ Read!Return) /\ WF_viewVars(scene = "views" /\ Read!Hear)
  /\ SF_viewVars(scene = "views" /\ Read!Focus) /\ SF_viewVars(scene = "views" /\ Read!Scroll)
  /\ \A kind \in {"head", "more"} :
       WF_viewVars(scene = "views" /\ \E i \in DOMAIN net : net[i].kind = kind /\ Read!Serve(i))
  /\ WF_viewVars(scene = "views" /\ \E i \in DOMAIN net : Read!HeadStored(i) \/ Read!HeadReconciled(i))
  /\ WF_viewVars(scene = "views" /\ \E i \in DOMAIN net : Read!MoreStored(i))

FairSpec ==
  /\ Init /\ [][Next]_vars
  /\ PrefsFairness /\ SettingsFairness /\ SignFairness /\ ReadFairness

-----------------------------------------------------------------------------
(* Properties *)

\* An edit of a key nobody else edits shows, and is on the server or still to be pushed
\* (prefs.ts "never overwrite each other").
LoneEditIsKept == scene = "prefs" => Prefs!LoneEditIsKept

\* Once nobody edits, the device and the server have the same preferences, and the settings
\* screen the server's document, whatever was refused, lost or overtaken (state/prefs.ts,
\* state/serverSettings.ts).
DeviceAgrees ==
  <>[](/\ scene = "prefs" => /\ device.unsynced = {}
                             /\ \A k \in Keys : device.prefs[k] = Prefs!Value(stored, k)
       /\ scene = "settings" => shown = doc)

\* Behind the server's own login, mail is open only to a device that signed in and did not
\* sign out since (state/connectivity.ts:4).
SignedOutStaysOut == scene = "session" => Sign!SignedOutStaysOut

\* After the last outage the app is back, connected and, unless signed out, signed in
\* (api/client.ts serverUnreachable, gatewayRelogin).
ComesBack ==
  <>[](scene = "session" => /\ page = "app" /\ app.ready /\ app.reachable
                            /\ app.authed \/ (world.mode = "gateway" /\ ~ kept.granted))

\* Mail is moved by the most specific rule, made in whichever order (rules/match.ts:5).
SpecificRuleWins == scene = "rules" => Sort!SpecificRuleWins

\* A rule acts on its own only on mail no older than it, however it was edited, merged or
\* switched (rules/store.ts:144).
NoReachBack == scene = "rules" => Sort!NoReachBack

\* The loop over old mail leaves nothing it would change (state/rules.ts:132).
LoopLeavesNone == [][scene = "rules" => Sort!EndsWithNone]_vars

\* A run moves nothing the user has unticked and not ticked again, from the drill or from the
\* sender list, and nothing whose Keep was answered, whatever was left, reloaded or received in
\* between (routes/Cleanup.tsx "reviewed senders only send what you marked").
MarkedIsSpared == scene = "review" => Sift!MarkedIsSpared

\* At rest no message the list should show is missing in the middle of it (state/data.ts).
NoHole == scene = "views" => Read!NoHole

\* A list scrolled on and looked at again ends up as the server's view (state/data.ts).
ListSettles ==
  <>[](scene = "views" =>
         list.open /\ IF list.top THEN server.unread \subseteq Read!Shown
                      ELSE Read!Shown = server.in)

=============================================================================
