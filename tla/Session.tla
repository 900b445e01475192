------------------------------ MODULE Session ------------------------------
(***************************************************************************)
(* Whether a device is signed in, and whether it takes the server for      *)
(* reachable: the API client (api/client.ts), the auth context             *)
(* (state/auth.tsx) and state/connectivity.ts, against a server with its   *)
(* own login (http/auth.ts, routes/auth.ts) or one behind a gateway whose  *)
(* sessions expire.  A proxy answers for a server that is down.            *)
(*                                                                         *)
(* One call of each kind is under way at a time; its answer is fixed when  *)
(* it is served and may arrive much later.                                 *)
(***************************************************************************)
EXTENDS Naturals

CONSTANTS Modes,        \* of "login" and "gateway", how the server is set up
          MaxStrain,    \* bound: outages, expired sessions and tokens, sign-outs
          MaxLoads      \* bound: reloads

VARIABLES world,    \* the network, the server, the gateway's session, the tokens it takes
          page,     \* the app, the gateway, or an error page in its place
          app,      \* the page's memory
          kept,     \* localStorage: the token, offline access, a gateway known; the loop guard
          wire,     \* calls under way
          quota     \* whether the device is signed in by right; bound used

sessionVars == <<world, page, app, kept, wire, quota>>

Kinds == {"get", "change", "config", "probe", "login"}
Mail == {"get", "change"}
NoCall == [step |-> "none", with |-> "none", answer |-> "none"]
Calm == [k \in Kinds |-> NoCall]

Strain == quota.strain < MaxStrain
Strained == quota' = [quota EXCEPT !.strain = @ + 1]
Rightly(b) == quota' = [quota EXCEPT !.signedIn = b]

Calls(w, k) == [w EXCEPT ![k] = [step |-> "asked", with |-> kept.token, answer |-> "none"]]
Over(k) == [wire EXCEPT ![k] = NoCall]

-----------------------------------------------------------------------------
(* Loading the page *)

\* Straight onto cached mail if nothing can be verified first, and ask if there is a network.
Loaded ==
  LET cached == kept.granted /\ (~ world.net \/ kept.external) IN
  /\ page' = "app"
  /\ app' = [authed |-> kept.token # "none" \/ cached, reachable |-> TRUE, timer |-> FALSE,
             ready |-> kept.token # "none" \/ ~ world.net \/ cached]
  /\ wire' = IF world.net THEN Calls(Calm, "config") ELSE Calm

Load ==
  /\ page \in {"app", "error"} /\ Loaded
  /\ quota.loads < MaxLoads /\ quota' = [quota EXCEPT !.loads = @ + 1]
  /\ UNCHANGED <<world, kept>>

\* The error page is reloaded: the shell comes from the service worker's cache.
Recover ==
  /\ page = "error" /\ Loaded
  /\ UNCHANGED <<world, kept, quota>>

\* GET /api/auth/relogin: the gateway's login, then the app; a server that is down leaves the
\* browser's error page.
Relogin ==
  /\ page = "gateway" /\ world.net
  /\ world' = [world EXCEPT !.session = TRUE]
  /\ IF world.up THEN Loaded ELSE page' = "error" /\ UNCHANGED <<app, wire>>
  /\ UNCHANGED <<kept, quota>>

GuardPasses ==
  /\ kept.bounced
  /\ kept' = [kept EXCEPT !.bounced = FALSE]
  /\ UNCHANGED <<world, page, app, wire, quota>>

\* gatewayRelogin, unless the last one was moments ago; leaving the page ends its calls.
Bounce(k, a, s) ==
  IF s.bounced
  THEN page' = page /\ app' = a /\ kept' = s /\ wire' = Over(k)
  ELSE page' = "gateway" /\ app' = [a EXCEPT !.timer = FALSE]
       /\ kept' = [s EXCEPT !.bounced = TRUE] /\ wire' = Calm

Stays(k, a, s) == page' = page /\ app' = a /\ kept' = s /\ wire' = Over(k)

-----------------------------------------------------------------------------
(* Calls *)

\* request(): whatever the server is thought to be, unless the device is offline.
Ask(k) ==
  /\ page = "app" /\ app.authed /\ world.net /\ k \in Mail /\ wire[k] = NoCall
  /\ wire' = Calls(wire, k)
  /\ UNCHANGED <<world, page, app, kept, quota>>

\* The login screen.
SignIn ==
  /\ page = "app" /\ app.ready /\ ~ app.authed /\ app.reachable
  /\ world.net /\ wire["login"] = NoCall
  /\ wire' = Calls(wire, "login")
  /\ UNCHANGED <<world, page, app, kept, quota>>

\* The probe's timer: it stops if the server has answered meanwhile, waits on if offline.
ProbeTimer ==
  /\ page = "app" /\ app.timer /\ wire["probe"] = NoCall
  /\ app' = [app EXCEPT !.timer = ~ app.reachable /\ ~ world.net]
  /\ wire' = IF ~ app.reachable /\ world.net THEN Calls(wire, "probe") ELSE wire
  /\ UNCHANGED <<world, page, kept, quota>>

\* Back in the foreground: a probe outside the loop, whose timer runs on.
Look ==
  /\ page = "app" /\ ~ app.reachable /\ world.net /\ wire["probe"] = NoCall
  /\ wire' = Calls(wire, "probe")
  /\ UNCHANGED <<world, page, app, kept, quota>>

\* What comes back: fetch follows a gateway's redirect, and fails, except where the call
\* looks for it (config and probe).
Answers(k) ==
  LET challenge == IF k \in Mail THEN {"401", "dead"} ELSE {"challenge"} IN
  CASE ~ world.net -> {"dead"}
    [] world.net /\ world.mode = "gateway" /\ ~ world.session -> challenge
    [] OTHER ->
         IF ~ world.up THEN {"html", "dead"}
         ELSE IF world.mode = "login" /\ k \in Mail /\ wire[k].with # world.taken THEN {"401"}
         ELSE {"ok"}

Serve(k) ==
  /\ wire[k].step = "asked"
  /\ \E a \in Answers(k) : wire' = [wire EXCEPT ![k].step = "answered", ![k].answer = a]
  /\ UNCHANGED <<world, page, app, kept, quota>>

\* serverUnreachable
Unreachable(a) == [a EXCEPT !.timer = TRUE, !.reachable = FALSE]
Reachable(a) == [a EXCEPT !.reachable = TRUE]

\* Mutant: one try.
AsksOnOnce == app

\* A probe that is not answered is followed by the next one.
AsksOn == [app EXCEPT !.timer = TRUE]

\* Mutant: signing out leaves the cached mail open.
SignedOutOpen == [kept EXCEPT !.token = "none"]

\* setToken(null)
SignedOut == [kept EXCEPT !.token = "none", !.granted = FALSE]

\* request() ends.  A change that gets no answer says nothing about the server.
MailArrives(k) ==
  /\ k \in Mail /\ wire[k].step = "answered"
  /\ CASE wire[k].answer = "dead" ->
            Stays(k, IF k = "get" THEN Unreachable(app) ELSE app, kept) /\ UNCHANGED quota
       [] wire[k].answer = "html" -> Stays(k, Unreachable(app), kept) /\ UNCHANGED quota
       [] wire[k].answer = "ok" -> Stays(k, Reachable(app), kept) /\ UNCHANGED quota
       [] wire[k].answer = "401" /\ kept.external ->
            Bounce(k, Reachable(app), kept) /\ UNCHANGED quota
       [] wire[k].answer = "401" /\ ~ kept.external ->
            /\ Stays(k, [Reachable(app) EXCEPT !.authed = FALSE], SignedOut)
            /\ Rightly(FALSE)
  /\ UNCHANGED world

\* authConfig, and the auth context's probe.
ConfigArrives ==
  /\ wire["config"].step = "answered"
  /\ LET a == wire["config"].answer
         open == kept.external \/ kept.granted
         Shows(b, r, s) == [r EXCEPT !.authed = b \/ s.token # "none", !.ready = TRUE] IN
     CASE a \in {"dead", "html"} -> Stays("config", Shows(open, Unreachable(app), kept), kept)
       [] a = "ok" /\ world.mode = "login" ->
            LET s == [kept EXCEPT !.external = FALSE] IN
            Stays("config", Shows(FALSE, Reachable(app), s), s)
       [] a = "ok" /\ world.mode = "gateway" ->
            LET s == [kept EXCEPT !.external = TRUE, !.granted = TRUE] IN
            Stays("config", Shows(TRUE, Reachable(app), s), s)
       [] a = "challenge" ->
            LET s == [kept EXCEPT !.external = TRUE] IN
            Bounce("config", Shows(TRUE, Reachable(app), s), s)
  /\ UNCHANGED <<world, quota>>

\* probeServer; the loop goes on until it is answered.
ProbeArrives ==
  /\ wire["probe"].step = "answered"
  /\ LET a == wire["probe"].answer IN
     CASE a = "ok" \/ (a = "challenge" /\ ~ kept.external) ->
            Stays("probe", Reachable(app), kept)
       [] a = "challenge" /\ kept.external -> Bounce("probe", Reachable(app), kept)
       [] OTHER -> Stays("probe", AsksOn, kept)
  /\ UNCHANGED <<world, quota>>

\* The password is right, or the call failed.
LoginArrives ==
  /\ wire["login"].step = "answered"
  /\ IF wire["login"].answer = "ok" /\ world.mode = "login"
     THEN /\ Stays("login", [app EXCEPT !.authed = TRUE],
                   [kept EXCEPT !.token = world.taken, !.granted = TRUE])
          /\ Rightly(TRUE)
     ELSE Stays("login", app, kept) /\ UNCHANGED quota
  /\ UNCHANGED world

\* logout
SignOut ==
  /\ page = "app" /\ app.authed /\ Strain
  /\ app' = [app EXCEPT !.authed = FALSE] /\ kept' = SignedOut
  /\ quota' = [quota EXCEPT !.strain = @ + 1, !.signedIn = FALSE]
  /\ UNCHANGED <<world, page, wire>>

-----------------------------------------------------------------------------
(* The world *)

Breaks ==
  /\ Strain /\ Strained
  /\ \/ world.net /\ world' = [world EXCEPT !.net = FALSE]
     \/ world.up /\ world' = [world EXCEPT !.up = FALSE]
     \/ world.mode = "gateway" /\ world.session /\ world' = [world EXCEPT !.session = FALSE]
     \/ world.mode = "login" /\ world.taken = "old" /\ world' = [world EXCEPT !.taken = "new"]
  /\ UNCHANGED <<page, app, kept, wire>>

\* The network is back: the auth context asks again.
NetReturns ==
  /\ ~ world.net
  /\ world' = [world EXCEPT !.net = TRUE]
  /\ wire' = IF page = "app" /\ wire["config"] = NoCall THEN Calls(wire, "config") ELSE wire
  /\ UNCHANGED <<page, app, kept, quota>>

ServerReturns ==
  /\ ~ world.up
  /\ world' = [world EXCEPT !.up = TRUE]
  /\ UNCHANGED <<page, app, kept, wire, quota>>

-----------------------------------------------------------------------------

\* A device that was signed in, or never was, opens the app, with a network or without.
Init ==
  \E mode \in Modes, used, net \in BOOLEAN :
    /\ world = [net |-> net, up |-> TRUE, session |-> TRUE, mode |-> mode, taken |-> "old"]
    /\ kept = [token |-> IF used /\ mode = "login" THEN "old" ELSE "none", granted |-> used,
               external |-> used /\ mode = "gateway", bounced |-> FALSE]
    /\ page = "app"
    /\ app = [authed |-> used, reachable |-> TRUE, timer |-> FALSE, ready |-> used \/ ~ net]
    /\ wire = (IF net THEN Calls(Calm, "config") ELSE Calm)
    /\ quota = [signedIn |-> used, strain |-> 0, loads |-> 0]

Next ==
  \/ Load \/ Recover \/ Relogin \/ GuardPasses \/ SignIn \/ ProbeTimer \/ Look
  \/ ConfigArrives \/ ProbeArrives \/ LoginArrives \/ SignOut
  \/ Breaks \/ NetReturns \/ ServerReturns
  \/ \E k \in Kinds : Ask(k) \/ Serve(k) \/ MailArrives(k)

Spec == Init /\ [][Next]_sessionVars

\* Outages end, calls and timers do, the user signs in and reads on while the app says it is
\* connected, and looks at it again.
SessionFairness ==
  /\ WF_sessionVars(NetReturns) /\ WF_sessionVars(ServerReturns) /\ WF_sessionVars(Recover)
  /\ WF_sessionVars(Relogin) /\ WF_sessionVars(GuardPasses) /\ WF_sessionVars(ProbeTimer)
  /\ WF_sessionVars(SignIn) /\ WF_sessionVars(LoginArrives)
  /\ WF_sessionVars(ConfigArrives) /\ WF_sessionVars(ProbeArrives)
  /\ WF_sessionVars(app.reachable /\ Ask("get"))
  /\ \A k \in Kinds : WF_sessionVars(Serve(k)) /\ WF_sessionVars(MailArrives(k))

FairSpec == Spec /\ SessionFairness

-----------------------------------------------------------------------------
(* Properties *)

\* Behind the server's own login, mail is open only to a device that signed in and did not
\* sign out since, whatever probes, outages and reloads come in between (connectivity.ts:
\* "eligible to open its local mail cache").
SignedOutStaysOut == world.mode = "login" /\ page = "app" /\ app.authed => quota.signedIn

\* After the last outage the app is back: loaded, connected and, unless the user signed out
\* of an app that only the gateway guards, signed in.
ComesBack ==
  <>[](page = "app" /\ app.ready /\ app.reachable
        /\ (app.authed \/ (world.mode = "gateway" /\ ~ kept.granted)))

\* Only a rejected token is dropped (client.ts: "fired when the server rejects the token").
GoodTokenIsKept ==
  [][kept.token = world.taken /\ kept'.token = "none" => quota'.strain > quota.strain]_sessionVars

=============================================================================
