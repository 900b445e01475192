---------------------------- MODULE ClientProofs ----------------------------
(***************************************************************************)
(* Proofs about four scenes of ClientSide: a device that signed out stays  *)
(* out (Session), rules act by specificity and not back in time            *)
(* (MailRules), a cleanup run spares what the user marked (CleanupReview), *)
(* and an edit of a preference nobody else edits is kept (Preferences).    *)
(***************************************************************************)
EXTENDS ClientSide, Integers, FiniteSets, SequenceTheorems, WellFoundedInduction, TLAPS

-----------------------------------------------------------------------------
(* A non-empty set of natural numbers has a least member. *)

LEMMA LeastNatural ==
  ASSUME NEW S \in SUBSET Nat, S # {}
  PROVE  \E x \in S : \A y \in S : x <= y
<1>1. \E x \in S : \A y \in S : ~ (<<y, x>> \in OpToRel(<, Nat))
  BY NatLessThanWellFounded, WFMin
<1>2. PICK x \in S : \A y \in S : ~ (<<y, x>> \in OpToRel(<, Nat))
  BY <1>1
<1>3. \A y \in S : ~ (y < x)
  BY <1>2 DEF OpToRel
<1>. QED  BY <1>3

\* One bounded by n has a greatest: the least of the distances from n.
LEMMA BoundedGreatest ==
  ASSUME NEW n \in Nat, NEW S \in SUBSET (0..n), S # {}
  PROVE  \E x \in S : \A y \in S : y <= x
<1>. DEFINE Gaps == {n - y : y \in S}
<1>1. \A y \in S : y \in Nat /\ n - y \in Nat /\ n - y \in Gaps
  OBVIOUS
<1>2. Gaps \in SUBSET Nat /\ Gaps # {}
  BY <1>1
<1>. HIDE DEF Gaps
<1>3. PICK g \in Gaps : \A h \in Gaps : g <= h
  BY <1>2, LeastNatural
<1>4. PICK x \in S : g = n - x
  BY <1>3 DEF Gaps
<1>. QED  BY <1>1, <1>3, <1>4

-----------------------------------------------------------------------------
(* Requests under way are a sequence: one more, one less, one answered. *)

\* A sequence with one element taken out.
LEMMA OneRemoved ==
  ASSUME NEW S, NEW s \in Seq(S), NEW i \in 1 .. Len(s),
         NEW t, t = SubSeq(s, 1, i - 1) \o SubSeq(s, i + 1, Len(s))
  PROVE  /\ t \in Seq(S) /\ Len(t) = Len(s) - 1
         /\ \A j \in 1 .. Len(t) : t[j] = IF j < i THEN s[j] ELSE s[j + 1]
<1>. DEFINE n == Len(s)
            A == SubSeq(s, 1, i - 1)
            B == SubSeq(s, i + 1, n)
<1>1. n \in Nat /\ i \in 1 .. n /\ \A j \in 1 .. n : s[j] \in S
  BY LenProperties
<1>2. A \in Seq(S) /\ Len(A) = i - 1 /\ \A j \in 1 .. i - 1 : A[j] = s[j]
  <2>1. 1 \in Int /\ i - 1 \in Int /\ \A j \in 1 .. i - 1 : s[j] \in S
    BY <1>1
  <2>2. /\ A \in Seq(S) /\ Len(A) = IF 1 <= i - 1 THEN (i - 1) - 1 + 1 ELSE 0
        /\ \A j \in 1 .. (i - 1) - 1 + 1 : A[j] = s[1 + j - 1]
    BY <2>1, SubSeqProperties
  <2>. QED  BY <1>1, <2>2
<1>3. B \in Seq(S) /\ Len(B) = n - i /\ \A j \in 1 .. n - i : B[j] = s[i + j]
  <2>1. i + 1 \in Int /\ n \in Int /\ \A j \in i + 1 .. n : s[j] \in S
    BY <1>1
  <2>2. /\ B \in Seq(S) /\ Len(B) = IF i + 1 <= n THEN n - (i + 1) + 1 ELSE 0
        /\ \A j \in 1 .. n - (i + 1) + 1 : B[j] = s[i + 1 + j - 1]
    BY <2>1, SubSeqProperties
  <2>. QED  BY <1>1, <2>2
<1>4. t = A \o B
  OBVIOUS
<1>. HIDE DEF A, B
<1>5. /\ t \in Seq(S) /\ Len(t) = Len(A) + Len(B)
      /\ \A j \in 1 .. Len(A) + Len(B) : t[j] = IF j <= Len(A) THEN A[j] ELSE B[j - Len(A)]
  <2>1. /\ A \o B \in Seq(S) /\ Len(A \o B) = Len(A) + Len(B)
        /\ \A j \in 1 .. Len(A) + Len(B) : (A \o B)[j] = IF j <= Len(A) THEN A[j] ELSE B[j - Len(A)]
    BY <1>2, <1>3, ConcatProperties
  <2>. QED  BY <1>4, <2>1
<1>6. Len(t) = n - 1
  BY <1>1, <1>2, <1>3, <1>5
<1>7. ASSUME NEW j \in 1 .. n - 1 PROVE t[j] = IF j < i THEN s[j] ELSE s[j + 1]
  <2>1. CASE j < i
    <3>1. j \in 1 .. i - 1 /\ j <= Len(A) /\ j \in 1 .. Len(A) + Len(B)
      BY <1>1, <1>2, <1>3, <2>1
    <3>2. t[j] = A[j]
      BY <1>5, <3>1
    <3>. QED  BY <1>2, <2>1, <3>1, <3>2
  <2>2. CASE ~ (j < i)
    <3>1. j - (i - 1) \in 1 .. n - i /\ i + (j - (i - 1)) = j + 1
      BY <1>1, <2>2
    <3>2. j \in 1 .. Len(A) + Len(B) /\ ~ (j <= Len(A)) /\ j - Len(A) = j - (i - 1)
      BY <1>1, <1>2, <1>3, <2>2
    <3>3. t[j] = B[j - (i - 1)]
      BY <1>5, <3>2
    <3>. QED  BY <1>3, <2>2, <3>1, <3>3
  <2>. QED  BY <2>1, <2>2
<1>. QED  BY <1>5, <1>6, <1>7

\* What is left is a subsequence.
LEMMA Thinned ==
  ASSUME NEW S, NEW s \in Seq(S), NEW i \in DOMAIN s,
         NEW t, t = Prefs!RemoveAt(s, i)
  PROVE  /\ t \in Seq(S)
         /\ \E f \in [DOMAIN t -> DOMAIN s \ {i}] :
              /\ \A j \in DOMAIN t : t[j] = s[f[j]]
              /\ \A j, k \in DOMAIN t : f[j] < f[k] <=> j < k
<1>. DEFINE n == Len(s)
            f == [j \in 1 .. n - 1 |-> IF j < i THEN j ELSE j + 1]
<1>1. n \in Nat /\ DOMAIN s = 1 .. n
  BY LenProperties
<1>2. t \in Seq(S) /\ Len(t) = n - 1 /\ \A j \in 1 .. n - 1 : t[j] = IF j < i THEN s[j] ELSE s[j + 1]
  <2>1. i \in 1 .. Len(s)
    BY <1>1
  <2>2. /\ t \in Seq(S) /\ Len(t) = Len(s) - 1
        /\ \A j \in 1 .. Len(t) : t[j] = IF j < i THEN s[j] ELSE s[j + 1]
    BY <2>1, OneRemoved DEF Prefs!RemoveAt
  <2>. QED  BY <2>2
<1>3. DOMAIN t = 1 .. n - 1
  BY <1>2, LenProperties
<1>4. f \in [1 .. n - 1 -> (1 .. n) \ {i}]
  BY <1>1
<1>5. \A j \in 1 .. n - 1 : t[j] = s[f[j]]
  BY <1>2
<1>6. \A j, k \in 1 .. n - 1 : f[j] < f[k] <=> j < k
  BY <1>1
<1>. HIDE DEF f, n
<1>. QED  BY <1>1, <1>2, <1>3, <1>4, <1>5, <1>6

LEMMA OneAppended ==
  ASSUME NEW S, NEW s \in Seq(S), NEW e \in S, NEW t, t = Append(s, e)
  PROVE  /\ t \in Seq(S) /\ Len(s) \in Nat /\ t[Len(s) + 1] = e
         /\ DOMAIN t = 1 .. Len(s) + 1 /\ DOMAIN s = 1 .. Len(s)
         /\ \A j \in DOMAIN s : t[j] = s[j]
BY AppendProperties, LenProperties

\* A function on the places of a sequence is a sequence as long.
LEMMA Touched ==
  ASSUME NEW S, NEW s \in Seq(S), NEW T, NEW t \in [DOMAIN s -> T]
  PROVE  t \in Seq(T) /\ DOMAIN t = DOMAIN s /\ DOMAIN s = 1 .. Len(s) /\ Len(s) \in Nat
<1>1. Len(s) \in Nat /\ DOMAIN s = 1 .. Len(s)
  BY LenProperties
<1>. QED  BY <1>1, SeqDef

-----------------------------------------------------------------------------
(* Signing in.  Behind the server's own login no call is answered with a   *)
(* gateway's challenge, so no gateway is ever known, and what opens the    *)
(* app, a token or offline access, is there only while signed in.          *)

Held == {"none", "old", "new"}
Worlds == [net : BOOLEAN, up : BOOLEAN, session : BOOLEAN, mode : {"login", "gateway"},
           taken : {"old", "new"}]
Apps == [authed : BOOLEAN, reachable : BOOLEAN, timer : BOOLEAN, ready : BOOLEAN]
Keepings == [token : Held, granted : BOOLEAN, external : BOOLEAN, bounced : BOOLEAN]
Replies == {"none", "dead", "html", "ok", "401", "challenge"}
Callings == [step : {"none", "asked", "answered"}, with : Held, answer : Replies]
Quotas == [signedIn : BOOLEAN, strain : Nat, loads : Nat]

SignTypes ==
  /\ world \in Worlds
  /\ app \in Apps
  /\ kept \in Keepings
  /\ wire \in [Sign!Kinds -> Callings]
  /\ quota \in Quotas

\* What a call may come back with.
RepliesTo(k) ==
  {"dead", "html", "ok"} \cup (IF k \in Sign!Mail THEN {"401"}
                               ELSE IF world.mode = "gateway" THEN {"challenge"} ELSE {})

RepliesFit ==
  \A k \in Sign!Kinds : wire[k].step = "answered" => wire[k].answer \in RepliesTo(k)

\* What opens the app.
OpensByRight ==
  world.mode = "login" =>
    /\ ~ kept.external
    /\ kept.token # "none" \/ kept.granted \/ app.authed => quota.signedIn

SignInv == SignTypes /\ RepliesFit /\ OpensByRight

LEMMA CalmTypes ==
  /\ Sign!NoCall \in Callings /\ Sign!NoCall.step = "none"
  /\ Sign!Calm \in [Sign!Kinds -> Callings]
  /\ \A k \in Sign!Kinds : Sign!Calm[k].step = "none"
BY DEF Sign!NoCall, Sign!Calm, Callings, Held, Replies

\* A call asked, and one over.
LEMMA WireTypes ==
  ASSUME SignTypes, NEW k \in Sign!Kinds, NEW w \in [Sign!Kinds -> Callings],
         \A j \in Sign!Kinds : w[j].step = "answered" => w[j] = wire[j]
  PROVE  /\ Sign!Calls(w, k) \in [Sign!Kinds -> Callings]
         /\ \A j \in Sign!Kinds :
              Sign!Calls(w, k)[j].step = "answered" => Sign!Calls(w, k)[j] = wire[j]
         /\ Sign!Over(k) \in [Sign!Kinds -> Callings]
         /\ \A j \in Sign!Kinds :
              Sign!Over(k)[j].step = "answered" => Sign!Over(k)[j] = wire[j]
<1>. DEFINE c == [step |-> "asked", with |-> kept.token, answer |-> "none"]
<1>1. c \in Callings /\ c.step = "asked"
  BY DEF SignTypes, Keepings, Callings, Replies
<1>2. Sign!Calls(w, k) = [w EXCEPT ![k] = c]
  BY DEF Sign!Calls
<1>3. Sign!Over(k) = [wire EXCEPT ![k] = Sign!NoCall]
  BY DEF Sign!Over
<1>. HIDE DEF c
<1>. QED  BY <1>1, <1>2, <1>3, CalmTypes DEF SignTypes

\* Answers are added by Serve alone.
LEMMA RepliesStay ==
  ASSUME RepliesFit, world'.mode = world.mode,
         \A j \in Sign!Kinds : wire'[j].step = "answered" => wire'[j] = wire[j]
  PROVE  RepliesFit'
BY DEF RepliesFit, RepliesTo

LEMMA LoadedKeeps ==
  ASSUME SignInv, Sign!Loaded, kept' = kept, world'.mode = world.mode, world' \in Worlds,
         quota' \in Quotas, quota'.signedIn = quota.signedIn
  PROVE  SignInv'
<1>1. app' \in Apps
  BY DEF Sign!Loaded, SignInv, SignTypes, Apps, Worlds, Keepings
<1>2. "config" \in Sign!Kinds
  BY DEF Sign!Kinds
<1>3. /\ wire' \in [Sign!Kinds -> Callings]
      /\ \A j \in Sign!Kinds : wire'[j].step = "answered" => wire'[j] = wire[j]
  <2>1. wire' = Sign!Calls(Sign!Calm, "config") \/ wire' = Sign!Calm
    BY DEF Sign!Loaded
  <2>2. \A j \in Sign!Kinds : Sign!Calm[j].step = "answered" => Sign!Calm[j] = wire[j]
    BY CalmTypes
  <2>. QED  BY <1>2, <2>1, <2>2, CalmTypes, WireTypes DEF SignInv
<1>4. SignTypes'
  BY <1>1, <1>3 DEF SignInv, SignTypes
<1>5. RepliesFit'
  BY <1>3, RepliesStay DEF SignInv
<1>6. OpensByRight'
  BY DEF Sign!Loaded, SignInv, OpensByRight
<1>. QED  BY <1>4, <1>5, <1>6 DEF SignInv

\* The end of a call that leaves for the gateway or stays.
LEMMA EndTypes ==
  ASSUME SignTypes, NEW k \in Sign!Kinds, NEW a \in Apps, NEW s \in Keepings,
         Sign!Bounce(k, a, s) \/ Sign!Stays(k, a, s)
  PROVE  /\ app' \in Apps /\ kept' \in Keepings /\ wire' \in [Sign!Kinds -> Callings]
         /\ \A j \in Sign!Kinds : wire'[j].step = "answered" => wire'[j] = wire[j]
         /\ app'.authed = a.authed
         /\ kept'.token = s.token /\ kept'.granted = s.granted /\ kept'.external = s.external
<1>1. wire' = Sign!Calm \/ wire' = Sign!Over(k)
  BY DEF Sign!Bounce, Sign!Stays
<1>2. /\ wire' \in [Sign!Kinds -> Callings]
      /\ \A j \in Sign!Kinds : wire'[j].step = "answered" => wire'[j] = wire[j]
  BY <1>1, CalmTypes, WireTypes DEF SignTypes
<1>3. app' = a \/ app' = [a EXCEPT !.timer = FALSE]
  BY DEF Sign!Bounce, Sign!Stays
<1>4. kept' = s \/ kept' = [s EXCEPT !.bounced = TRUE]
  BY DEF Sign!Bounce, Sign!Stays
<1>. QED  BY <1>2, <1>3, <1>4 DEF Apps, Keepings

\* What the steps outside the calls keep.
LEMMA OutsideKeeps ==
  ASSUME SignInv,
         \/ Sign!Load \/ Sign!Recover \/ Sign!Relogin \/ Sign!GuardPasses
         \/ Sign!SignOut \/ Sign!Breaks \/ Sign!NetReturns \/ Sign!ServerReturns
  PROVE  SignInv'
<1>1. CASE Sign!Load
  BY <1>1, LoadedKeeps DEF Sign!Load, SignInv, SignTypes, Quotas
<1>2. CASE Sign!Recover
  BY <1>2, LoadedKeeps DEF Sign!Recover, SignInv, SignTypes
<1>3. CASE Sign!Relogin
  <2>1. world' \in Worlds /\ world'.mode = world.mode /\ kept' = kept /\ quota' = quota
    BY <1>3 DEF Sign!Relogin, SignInv, SignTypes, Worlds
  <2>2. CASE world.up
    BY <1>3, <2>1, <2>2, LoadedKeeps DEF Sign!Relogin, SignInv, SignTypes
  <2>3. CASE ~ world.up
    <3>1. app' = app /\ wire' = wire
      BY <1>3, <2>3 DEF Sign!Relogin
    <3>. QED  BY <2>1, <3>1, RepliesStay DEF SignInv, SignTypes, OpensByRight
  <2>. QED  BY <2>2, <2>3
<1>4. CASE Sign!GuardPasses
  <2>1. kept' = [kept EXCEPT !.bounced = FALSE] /\ UNCHANGED <<world, app, wire, quota>>
    BY <1>4 DEF Sign!GuardPasses
  <2>2. SignTypes'
    BY <2>1 DEF SignInv, SignTypes, Keepings
  <2>3. OpensByRight'
    BY <2>1 DEF SignInv, SignTypes, Keepings, OpensByRight
  <2>. QED  BY <2>1, <2>2, <2>3, RepliesStay DEF SignInv
<1>5. CASE Sign!SignOut
  <2>1. /\ app' = [app EXCEPT !.authed = FALSE]
        /\ kept' = [kept EXCEPT !.token = "none", !.granted = FALSE]
        /\ quota' = [quota EXCEPT !.strain = quota.strain + 1, !.signedIn = FALSE]
        /\ UNCHANGED <<world, wire>>
    BY <1>5 DEF Sign!SignOut, Sign!SignedOut
  <2>2. SignTypes'
    <3>1. app' \in Apps /\ kept' \in Keepings
      BY <2>1 DEF SignInv, SignTypes, Apps, Keepings, Held
    <3>2. quota' \in Quotas
      <4>1. quota \in Quotas /\ quota.strain \in Nat
        BY DEF SignInv, SignTypes, Quotas
      <4>2. PICK n \in Nat : n = quota.strain + 1
        BY <4>1
      <4>3. quota' = [quota EXCEPT !.strain = n, !.signedIn = FALSE]
        BY <2>1, <4>2
      <4>. QED  BY <4>1, <4>3 DEF Quotas
    <3>. QED  BY <2>1, <3>1, <3>2 DEF SignInv, SignTypes
  <2>3. OpensByRight'
    BY <2>1 DEF SignInv, SignTypes, Apps, Keepings, OpensByRight
  <2>. QED  BY <2>1, <2>2, <2>3, RepliesStay DEF SignInv
<1>6. CASE Sign!Breaks
  <2>1. /\ \/ world' = [world EXCEPT !.net = FALSE]
           \/ world' = [world EXCEPT !.up = FALSE]
           \/ world' = [world EXCEPT !.session = FALSE]
           \/ world' = [world EXCEPT !.taken = "new"]
        /\ quota' = [quota EXCEPT !.strain = quota.strain + 1]
        /\ UNCHANGED <<app, kept, wire>>
    BY <1>6 DEF Sign!Breaks, Sign!Strained
  <2>2. world' \in Worlds /\ world'.mode = world.mode
    BY <2>1 DEF SignInv, SignTypes, Worlds
  <2>3. quota' \in Quotas /\ quota'.signedIn = quota.signedIn
    BY <2>1 DEF SignInv, SignTypes, Quotas
  <2>. QED  BY <2>1, <2>2, <2>3, RepliesStay DEF SignInv, SignTypes, OpensByRight
<1>7. CASE Sign!NetReturns
  <2>1. "config" \in Sign!Kinds
    BY DEF Sign!Kinds
  <2>2. /\ wire' \in [Sign!Kinds -> Callings]
        /\ \A j \in Sign!Kinds : wire'[j].step = "answered" => wire'[j] = wire[j]
    BY <1>7, <2>1, WireTypes DEF Sign!NetReturns, SignInv, SignTypes
  <2>3. world' \in Worlds /\ world'.mode = world.mode /\ UNCHANGED <<app, kept, quota>>
    BY <1>7 DEF Sign!NetReturns, SignInv, SignTypes, Worlds
  <2>. QED  BY <2>2, <2>3, RepliesStay DEF SignInv, SignTypes, OpensByRight
<1>8. CASE Sign!ServerReturns
  <2>1. world' \in Worlds /\ world'.mode = world.mode /\ UNCHANGED <<app, kept, wire, quota>>
    BY <1>8 DEF Sign!ServerReturns, SignInv, SignTypes, Worlds
  <2>. QED  BY <2>1, RepliesStay DEF SignInv, SignTypes, OpensByRight
<1>. QED  BY <1>1, <1>2, <1>3, <1>4, <1>5, <1>6, <1>7, <1>8

\* Calls asked and served.
LEMMA CallsKeep ==
  ASSUME SignInv,
         \/ Sign!SignIn \/ Sign!ProbeTimer \/ Sign!Look
         \/ \E k \in Sign!Kinds : Sign!Ask(k) \/ Sign!Serve(k)
  PROVE  SignInv'
<1>1. /\ "login" \in Sign!Kinds /\ "probe" \in Sign!Kinds
      /\ UNCHANGED <<world, kept, quota>>
  BY DEF Sign!Kinds, Sign!SignIn, Sign!ProbeTimer, Sign!Look, Sign!Ask, Sign!Serve
<1>2. app' \in Apps /\ app'.authed = app.authed
  BY DEF Sign!SignIn, Sign!ProbeTimer, Sign!Look, Sign!Ask, Sign!Serve, SignInv, SignTypes, Apps
<1>3. OpensByRight'
  BY <1>1, <1>2 DEF SignInv, OpensByRight
<1>4. CASE \E k \in Sign!Kinds : wire' = Sign!Calls(wire, k) \/ wire' = wire
  <2>1. /\ wire' \in [Sign!Kinds -> Callings]
        /\ \A j \in Sign!Kinds : wire'[j].step = "answered" => wire'[j] = wire[j]
    BY <1>4, WireTypes DEF SignInv, SignTypes
  <2>. QED  BY <1>1, <1>2, <1>3, <2>1, RepliesStay DEF SignInv, SignTypes
<1>5. ASSUME NEW k \in Sign!Kinds, Sign!Serve(k) PROVE SignInv'
  <2>1. PICK a \in Sign!Answers(k) :
           wire' = [wire EXCEPT ![k].step = "answered", ![k].answer = a]
    BY <1>5 DEF Sign!Serve
  <2>2. a \in RepliesTo(k)
    <3>1. world \in Worlds
      BY DEF SignInv, SignTypes
    <3>. QED  BY <2>1, <3>1 DEF Sign!Answers, RepliesTo, Worlds
  <2>3. a \in Replies
    BY <2>2 DEF RepliesTo, Replies
  <2>4. PICK c : c = [step |-> "answered", with |-> wire[k].with, answer |-> a]
    OBVIOUS
  <2>5. c \in Callings /\ c.answer = a
    BY <2>3, <2>4 DEF SignInv, SignTypes, Callings
  <2>6. wire[k] = [step |-> wire[k].step, with |-> wire[k].with, answer |-> wire[k].answer]
    BY DEF SignInv, SignTypes, Callings
  <2>7. wire' = [wire EXCEPT ![k] = c]
    <3>1. PICK d : d = [wire[k] EXCEPT !.step = "answered"]
      OBVIOUS
    <3>2. d = [step |-> "answered", with |-> wire[k].with, answer |-> wire[k].answer]
      BY <2>6, <3>1
    <3>3. c = [d EXCEPT !.answer = a]
      BY <2>4, <3>2
    <3>4. wire' = [[wire EXCEPT ![k] = d] EXCEPT ![k] = [d EXCEPT !.answer = a]]
      BY <2>1, <3>1 DEF SignInv, SignTypes
    <3>. QED  BY <3>3, <3>4 DEF SignInv, SignTypes
  <2>8. SignTypes'
    BY <1>1, <1>2, <2>5, <2>7 DEF SignInv, SignTypes
  <2>9. RepliesFit'
    BY <1>1, <2>2, <2>5, <2>7 DEF SignInv, SignTypes, RepliesFit, RepliesTo
  <2>. QED  BY <1>3, <2>8, <2>9 DEF SignInv
<1>. QED  BY <1>1, <1>4, <1>5 DEF Sign!SignIn, Sign!ProbeTimer, Sign!Look, Sign!Ask

\* Answers to mail calls.  A rejected token signs the device out.
LEMMA MailArrivesKeeps ==
  ASSUME SignInv, NEW k \in Sign!Kinds, Sign!MailArrives(k)
  PROVE  SignInv'
<1>. DEFINE answer == wire[k].answer
            Up == [app EXCEPT !.reachable = TRUE]
            Down == [app EXCEPT !.timer = TRUE, !.reachable = FALSE]
            Shut == [Up EXCEPT !.authed = FALSE]
            Out == [kept EXCEPT !.token = "none", !.granted = FALSE]
<1>1. k \in Sign!Mail /\ wire[k].step = "answered" /\ world' = world
  BY DEF Sign!MailArrives
<1>2. answer \in {"dead", "html", "ok", "401"}
  BY <1>1 DEF SignInv, RepliesFit, RepliesTo
<1>3. /\ app \in Apps /\ Up \in Apps /\ Down \in Apps /\ Shut \in Apps
      /\ Up.authed = app.authed /\ Down.authed = app.authed /\ Shut.authed = FALSE
  BY DEF SignInv, SignTypes, Apps
<1>4. kept \in Keepings /\ Out \in Keepings /\ Out.token = "none" /\ Out.granted = FALSE
      /\ Out.external = kept.external
  BY DEF SignInv, SignTypes, Keepings, Held
<1>5. /\ answer = "dead" => quota' = quota /\ (Sign!Stays(k, Down, kept) \/ Sign!Stays(k, app, kept))
      /\ answer = "html" => quota' = quota /\ Sign!Stays(k, Down, kept)
      /\ answer = "ok" => quota' = quota /\ Sign!Stays(k, Up, kept)
      /\ answer = "401" /\ kept.external => quota' = quota /\ Sign!Bounce(k, Up, kept)
      /\ answer = "401" /\ ~ kept.external => /\ Sign!Stays(k, Shut, Out)
                                              /\ quota' = [quota EXCEPT !.signedIn = FALSE]
  BY DEF Sign!MailArrives, Sign!Unreachable, Sign!Reachable, Sign!SignedOut, Sign!Rightly
<1>. HIDE DEF answer, Up, Down, Shut, Out
<1>6. PICK a \in Apps, s \in Keepings :
         /\ Sign!Stays(k, a, s) \/ Sign!Bounce(k, a, s)
         /\ \/ a.authed = app.authed /\ s = kept /\ quota' = quota
            \/ /\ a.authed = FALSE /\ s.token = "none" /\ s.granted = FALSE /\ s.external = kept.external
               /\ quota' = [quota EXCEPT !.signedIn = FALSE]
  BY <1>2, <1>3, <1>4, <1>5
<1>7. /\ app' \in Apps /\ kept' \in Keepings /\ wire' \in [Sign!Kinds -> Callings]
      /\ \A j \in Sign!Kinds : wire'[j].step = "answered" => wire'[j] = wire[j]
      /\ app'.authed = a.authed
      /\ kept'.token = s.token /\ kept'.granted = s.granted /\ kept'.external = s.external
  BY <1>6, EndTypes DEF SignInv
<1>8. SignTypes'
  BY <1>1, <1>6, <1>7 DEF SignInv, SignTypes, Quotas
<1>9. OpensByRight'
  BY <1>1, <1>6, <1>7 DEF SignInv, OpensByRight
<1>. QED  BY <1>1, <1>7, <1>8, <1>9, RepliesStay DEF SignInv

\* Answers to the calls about the login, and the login's.
LEMMA AnswersKeep ==
  ASSUME SignInv, Sign!ConfigArrives \/ Sign!ProbeArrives \/ Sign!LoginArrives
  PROVE  SignInv'
<1>. DEFINE Settles(k) ==
              \E a \in Apps, s \in Keepings :
                /\ Sign!Stays(k, a, s) \/ Sign!Bounce(k, a, s)
                /\ world.mode = "login" =>
                     /\ ~ s.external
                     /\ s.token # "none" \/ s.granted \/ a.authed => quota'.signedIn
<1>1. ASSUME NEW k \in Sign!Kinds, Settles(k), world' = world, quota' \in Quotas
      PROVE  SignInv'
  <2>1. PICK a \in Apps, s \in Keepings :
           /\ Sign!Stays(k, a, s) \/ Sign!Bounce(k, a, s)
           /\ world.mode = "login" =>
                /\ ~ s.external
                /\ s.token # "none" \/ s.granted \/ a.authed => quota'.signedIn
    BY <1>1
  <2>2. /\ app' \in Apps /\ kept' \in Keepings /\ wire' \in [Sign!Kinds -> Callings]
        /\ \A j \in Sign!Kinds : wire'[j].step = "answered" => wire'[j] = wire[j]
        /\ app'.authed = a.authed
        /\ kept'.token = s.token /\ kept'.granted = s.granted /\ kept'.external = s.external
    BY <2>1, EndTypes DEF SignInv
  <2>3. OpensByRight'
    BY <1>1, <2>1, <2>2 DEF OpensByRight
  <2>. QED  BY <1>1, <2>2, <2>3, RepliesStay DEF SignInv, SignTypes
<1>2. /\ world \in Worlds /\ app \in Apps /\ kept \in Keepings /\ quota \in Quotas
      /\ "config" \in Sign!Kinds /\ "probe" \in Sign!Kinds /\ "login" \in Sign!Kinds
      /\ "config" \notin Sign!Mail /\ "probe" \notin Sign!Mail /\ "login" \notin Sign!Mail
  BY DEF SignInv, SignTypes, Sign!Kinds, Sign!Mail
<1>3. /\ world.mode \in {"login", "gateway"}
      /\ \A k \in Sign!Kinds \ Sign!Mail : wire[k].step = "answered" =>
           /\ wire[k].answer \in {"dead", "html", "ok", "challenge"}
           /\ wire[k].answer = "challenge" => world.mode = "gateway"
  BY <1>2 DEF Worlds, SignInv, RepliesFit, RepliesTo
<1>4. ASSUME NEW r \in Apps, NEW s \in Keepings, NEW b \in BOOLEAN
      PROVE  /\ [r EXCEPT !.authed = b \/ s.token # "none", !.ready = TRUE] \in Apps
             /\ [r EXCEPT !.authed = b \/ s.token # "none", !.ready = TRUE].authed = (b \/ s.token # "none")
  BY DEF Apps
<1>5. Sign!Reachable(app) \in Apps /\ Sign!Reachable(app).authed = app.authed
      /\ Sign!Unreachable(app) \in Apps
  BY <1>2 DEF Apps, Sign!Reachable, Sign!Unreachable
<1>6. CASE Sign!ConfigArrives
  <2>. DEFINE Shown(b, r, s) == [r EXCEPT !.authed = b \/ s.token # "none", !.ready = TRUE]
              answer == wire["config"].answer
              open == kept.external \/ kept.granted
              Login == [kept EXCEPT !.external = FALSE]
              Gateway == [kept EXCEPT !.external = TRUE, !.granted = TRUE]
              Known == [kept EXCEPT !.external = TRUE]
  <2>1. /\ Login \in Keepings /\ Login.external = FALSE /\ Login.token = kept.token
        /\ Login.granted = kept.granted /\ Gateway \in Keepings /\ Known \in Keepings
    BY <1>2 DEF Keepings
  <2>2. /\ answer \in {"dead", "html", "ok", "challenge"}
        /\ answer = "challenge" => world.mode = "gateway"
        /\ open \in BOOLEAN
    BY <1>2, <1>3, <1>6 DEF Sign!ConfigArrives, Keepings
  <2>3. /\ answer \in {"dead", "html"} =>
             Sign!Stays("config", Shown(open, Sign!Unreachable(app), kept), kept)
        /\ answer = "ok" /\ world.mode = "login" =>
             Sign!Stays("config", Shown(FALSE, Sign!Reachable(app), Login), Login)
        /\ answer = "ok" /\ world.mode = "gateway" =>
             Sign!Stays("config", Shown(TRUE, Sign!Reachable(app), Gateway), Gateway)
        /\ answer = "challenge" =>
             Sign!Bounce("config", Shown(TRUE, Sign!Reachable(app), Known), Known)
        /\ world' = world /\ quota' = quota
    BY <1>6 DEF Sign!ConfigArrives
  <2>4. /\ Shown(open, Sign!Unreachable(app), kept) \in Apps
        /\ Shown(open, Sign!Unreachable(app), kept).authed = (open \/ kept.token # "none")
        /\ Shown(FALSE, Sign!Reachable(app), Login) \in Apps
        /\ Shown(FALSE, Sign!Reachable(app), Login).authed = (FALSE \/ Login.token # "none")
        /\ Shown(TRUE, Sign!Reachable(app), Gateway) \in Apps
        /\ Shown(TRUE, Sign!Reachable(app), Known) \in Apps
    BY <1>2, <1>4, <1>5, <2>1, <2>2
  <2>5. /\ world.mode = "login" => ~ kept.external
        /\ world.mode = "login" /\ (kept.token # "none" \/ kept.granted) => quota.signedIn
    BY DEF SignInv, OpensByRight
  <2>. HIDE DEF Shown, answer, Login, Gateway, Known
  <2>6. Settles("config")
    BY <1>2, <1>3, <2>1, <2>2, <2>3, <2>4, <2>5
  <2>. QED  BY <1>1, <1>2, <2>3, <2>6
<1>7. CASE Sign!ProbeArrives
  <2>1. /\ world.mode = "login" => ~ kept.external
        /\ world.mode = "login" /\ (kept.token # "none" \/ kept.granted \/ app.authed) => quota.signedIn
    BY DEF SignInv, OpensByRight
  <2>2. Sign!AsksOn \in Apps /\ Sign!AsksOn.authed = app.authed
    BY <1>2 DEF Apps, Sign!AsksOn
  <2>3. /\ \/ Sign!Stays("probe", Sign!Reachable(app), kept)
           \/ Sign!Bounce("probe", Sign!Reachable(app), kept)
           \/ Sign!Stays("probe", Sign!AsksOn, kept)
        /\ world' = world /\ quota' = quota
    BY <1>7 DEF Sign!ProbeArrives
  <2>4. Settles("probe")
    BY <1>2, <1>5, <2>1, <2>2, <2>3
  <2>. QED  BY <1>1, <1>2, <2>3, <2>4
<1>8. CASE Sign!LoginArrives
  <2>1. world' = world
    BY <1>8 DEF Sign!LoginArrives
  <2>2. CASE wire["login"].answer = "ok" /\ world.mode = "login"
    <3>. DEFINE In == [app EXCEPT !.authed = TRUE]
                New == [kept EXCEPT !.token = world.taken, !.granted = TRUE]
    <3>1. In \in Apps /\ New \in Keepings /\ New.external = kept.external
      BY <1>2 DEF Apps, Keepings, Worlds, Held
    <3>2. Sign!Stays("login", In, New) /\ quota' = [quota EXCEPT !.signedIn = TRUE]
      BY <1>8, <2>2 DEF Sign!LoginArrives, Sign!Rightly
    <3>. HIDE DEF In, New
    <3>3. quota' \in Quotas /\ quota'.signedIn
      BY <1>2, <3>2 DEF Quotas
    <3>4. world.mode = "login" => ~ kept.external
      BY DEF SignInv, OpensByRight
    <3>5. Settles("login")
      BY <3>1, <3>2, <3>3, <3>4
    <3>. QED  BY <1>1, <1>2, <2>1, <3>3, <3>5
  <2>3. CASE ~ (wire["login"].answer = "ok" /\ world.mode = "login")
    <3>1. Sign!Stays("login", app, kept) /\ quota' = quota
      BY <1>8, <2>3 DEF Sign!LoginArrives
    <3>2. Settles("login")
      BY <1>2, <3>1 DEF SignInv, OpensByRight
    <3>. QED  BY <1>1, <1>2, <2>1, <3>1, <3>2
  <2>. QED  BY <2>2, <2>3
<1>. QED  BY <1>6, <1>7, <1>8

\* Behind the server's own login, mail is open only to a device that signed in and did not
\* sign out since (state/connectivity.ts:4).
THEOREM OutIsOut == FairSpec => []SignedOutStaysOut
<1>. DEFINE Inv == scene = "session" => SignInv
<1>1. Init => Inv
  <2>1. SUFFICES ASSUME Sign!Init PROVE SignInv
    BY DEF Init, NoSession
  <2>2. PICK mode \in Modes, used \in BOOLEAN, online \in BOOLEAN :
          /\ world = [net |-> online, up |-> TRUE, session |-> TRUE, mode |-> mode, taken |-> "old"]
          /\ kept = [token |-> IF used /\ mode = "login" THEN "old" ELSE "none", granted |-> used,
                     external |-> used /\ mode = "gateway", bounced |-> FALSE]
          /\ app = [authed |-> used, reachable |-> TRUE, timer |-> FALSE, ready |-> used \/ ~ online]
          /\ wire = IF online THEN Sign!Calls(Sign!Calm, "config") ELSE Sign!Calm
          /\ quota = [signedIn |-> used, strain |-> 0, loads |-> 0]
    BY <2>1 DEF Sign!Init
  <2>3. world \in Worlds /\ app \in Apps /\ kept \in Keepings /\ quota \in Quotas
    <3>1. mode \in {"login", "gateway"}
      BY ClientSideAssumption
    <3>. QED  BY <2>2, <3>1 DEF Worlds, Apps, Keepings, Held, Quotas
  <2>4. PICK c : c = [step |-> "asked", with |-> kept.token, answer |-> "none"]
    OBVIOUS
  <2>5. c \in Callings /\ c.step = "asked"
    BY <2>3, <2>4 DEF Keepings, Callings, Replies
  <2>6. wire = [Sign!Calm EXCEPT !["config"] = c] \/ wire = Sign!Calm
    BY <2>2, <2>4 DEF Sign!Calls
  <2>7. wire \in [Sign!Kinds -> Callings] /\ \A k \in Sign!Kinds : wire[k].step # "answered"
    BY <2>5, <2>6, CalmTypes
  <2>. QED  BY <2>2, <2>3, <2>7 DEF SignInv, SignTypes, RepliesFit, OpensByRight
<1>2. Inv /\ [Next]_vars => Inv'
  <2>1. SUFFICES ASSUME SignInv, [Next]_vars, scene = "session" PROVE SignInv'
    BY DEF Next, vars
  <2>2. CASE Sign!Next
    BY <2>1, <2>2, OutsideKeeps, CallsKeep, MailArrivesKeeps, AnswersKeep DEF Sign!Next
  <2>3. CASE UNCHANGED sessionVars
    BY <2>1, <2>3
    DEF sessionVars, SignInv, SignTypes, RepliesFit, RepliesTo, OpensByRight
  <2>. QED  BY <2>1, <2>2, <2>3 DEF Next, vars
<1>3. Inv => SignedOutStaysOut
  BY DEF SignedOutStaysOut, Sign!SignedOutStaysOut, SignInv, OpensByRight
<1>. QED  BY <1>1, <1>2, <1>3, PTL DEF FairSpec

-----------------------------------------------------------------------------
(* Mail rules.  Of the live rules no two have one scope and one value, so  *)
(* of those that match an address one comes first; and a rule keeps the    *)
(* date it was made.                                                       *)

RuleSet == [live : BOOLEAN, scope : Scopes \cup {"every"}, path : Sort!Paths,
            move : Moves \cup {"none", "spam"}, marks : SUBSET Marks, protect : BOOLEAN,
            enabled : BOOLEAN, created : Nat]

IsErrand(e) == e = [step |-> e.step, id |-> e.id, copy |-> e.copy, passes |-> e.passes]
IsLetter(x) == x = [at |-> x.at, account |-> x.account, from |-> x.from, arrived |-> x.arrived,
                    marks |-> x.marks, ruled |-> x.ruled]

\* What a device has copied of a rule.
CopyFits(e) ==
  /\ e.step = "editing" => e.copy.enabled \in BOOLEAN
  /\ e.step \in {"listing", "merging"} => e.copy \in RuleSet

SortTypes ==
  /\ rules \in Seq(RuleSet)
  /\ client = [c \in Clients |-> client[c]]
  /\ \A c \in Clients : IsErrand(client[c]) /\ CopyFits(client[c])
  /\ mail = [m \in Letters |-> mail[m]]
  /\ \A m \in Letters : mail[m].at # "away" => IsLetter(mail[m])
  /\ day = [now |-> day.now, edits |-> day.edits] /\ day.now \in Nat

\* mail_rules_match_uq
OneRuleEach ==
  \A i, j \in Sort!Ids : rules[i].live /\ rules[j].live /\ rules[i].scope = rules[j].scope
                        /\ rules[i].path = rules[j].path => i = j

\* What acted on a message as it came in is no younger.
RuledByElders ==
  \A m \in Letters : mail[m].at # "away" =>
    \A i \in mail[m].ruled : i \in Sort!Ids /\ rules[i].created <= mail[m].arrived

SortInv == SortTypes /\ OneRuleEach /\ RuledByElders

\* What the steps do to the rules: new ones last, and none is made younger or older.
RulesGrow ==
  /\ rules' \in Seq(RuleSet) /\ Len(rules) <= Len(rules')
  /\ \A i \in Sort!Ids : rules'[i].created = rules[i].created
  /\ OneRuleEach'

LEMMA RuleTypes ==
  ASSUME NEW scope \in Scopes \cup {"every"}, NEW path \in Sort!Paths, NEW does, NEW on \in BOOLEAN,
         NEW at \in Nat, does.move \in Moves \cup {"none", "spam"}, does.marks \in SUBSET Marks,
         does.protect \in BOOLEAN
  PROVE  /\ Sort!Rule(scope, path, does, on, at) \in RuleSet
         /\ Sort!Rule(scope, path, does, on, at).scope = scope
         /\ Sort!Rule(scope, path, does, on, at).path = path
         /\ Sort!Rule(scope, path, does, on, at).created = at
BY DEF Sort!Rule, RuleSet

LEMMA CreateGrows ==
  ASSUME SortInv, NEW scope \in Scopes \cup {"every"}, NEW path \in Sort!Paths, NEW does,
         does.move \in Moves \cup {"none", "spam"}, does.marks \in SUBSET Marks, does.protect \in BOOLEAN,
         Sort!Create(scope, path, does)
  PROVE  RulesGrow
<1>1. PICK r : r = Sort!Rule(scope, path, does, TRUE, day.now)
  OBVIOUS
<1>2. r \in RuleSet /\ r.scope = scope /\ r.path = path
  <2>1. day.now \in Nat
    BY DEF SortInv, SortTypes
  <2>. QED  BY <1>1, <2>1 DEF Sort!Rule, RuleSet
<1>3. rules' = Append(rules, r) /\ rules \in Seq(RuleSet) /\ Len(rules) \in Nat
  BY <1>1 DEF Sort!Create, SortInv, SortTypes
<1>4. /\ rules' \in Seq(RuleSet) /\ Len(rules') = Len(rules) + 1
      /\ \A i \in 1..Len(rules) : rules'[i] = rules[i]
      /\ rules'[Len(rules) + 1] = r
  BY <1>2, <1>3, AppendProperties
<1>5. \A i \in 1..Len(rules) : ~ (rules[i].live /\ rules[i].scope = scope /\ rules[i].path = path)
  <2>1. 0 \notin 1..Len(rules)
    BY <1>3
  <2>. QED  BY <2>1 DEF Sort!Create, Sort!Taken, Sort!Ids
<1>6. OneRuleEach'
  <2>1. SUFFICES ASSUME NEW i \in 1..Len(rules'), NEW j \in 1..Len(rules'),
                        rules'[i].live, rules'[j].live, rules'[i].scope = rules'[j].scope,
                        rules'[i].path = rules'[j].path
                 PROVE  i = j
    BY DEF OneRuleEach, Sort!Ids
  <2>2. CASE i \in 1..Len(rules) /\ j \in 1..Len(rules)
    BY <1>4, <2>1, <2>2 DEF SortInv, OneRuleEach, Sort!Ids
  <2>3. CASE i \in 1..Len(rules) /\ j = Len(rules) + 1
    BY <1>2, <1>4, <1>5, <2>1, <2>3
  <2>4. CASE i = Len(rules) + 1 /\ j \in 1..Len(rules)
    BY <1>2, <1>4, <1>5, <2>1, <2>4
  <2>. QED  BY <1>3, <1>4, <2>1, <2>2, <2>3, <2>4
<1>. QED  BY <1>3, <1>4, <1>6 DEF RulesGrow, Sort!Ids

LEMMA ReplaceGrows ==
  ASSUME SortInv, NEW i \in Sort!Ids, NEW scope \in Scopes \cup {"every"}, NEW path \in Sort!Paths,
         NEW does, NEW on \in BOOLEAN,
         does.move \in Moves \cup {"none", "spam"}, does.marks \in SUBSET Marks, does.protect \in BOOLEAN,
         ~ Sort!Taken(scope, path, i), rules' = Sort!Replaced(i, scope, path, does, on)
  PROVE  RulesGrow
<1>1. rules \in Seq(RuleSet) /\ Len(rules) \in Nat /\ i \in 1..Len(rules)
  BY DEF SortInv, SortTypes, Sort!Ids
<1>2. rules[i] \in RuleSet /\ rules[i].created \in Nat
  <2>1. rules[i] \in RuleSet
    BY <1>1, ElementOfSeq
  <2>. QED  BY <2>1 DEF RuleSet
<1>3. PICK r : r = Sort!Rule(scope, path, does, on, rules[i].created)
  OBVIOUS
<1>4. r \in RuleSet /\ r.scope = scope /\ r.path = path /\ r.created = rules[i].created
  BY <1>2, <1>3, RuleTypes
<1>5. rules' = [rules EXCEPT ![i] = r]
  BY <1>1, <1>3 DEF Sort!Replaced
<1>6. rules' \in Seq(RuleSet) /\ Len(rules') = Len(rules)
      /\ \A j \in 1..Len(rules) : rules'[j] = IF j = i THEN r ELSE rules[j]
  BY <1>1, <1>4, <1>5, ExceptSeq
<1>7. \A j \in 1..Len(rules) :
        j # i => ~ (rules[j].live /\ rules[j].scope = scope /\ rules[j].path = path)
  BY DEF Sort!Taken, Sort!Ids
<1>8. OneRuleEach'
  <2>1. SUFFICES ASSUME NEW j \in 1..Len(rules), NEW k \in 1..Len(rules),
                        rules'[j].live, rules'[k].live, rules'[j].scope = rules'[k].scope,
                        rules'[j].path = rules'[k].path
                 PROVE  j = k
    BY <1>6 DEF OneRuleEach, Sort!Ids
  <2>2. CASE j # i /\ k # i
    BY <1>6, <2>1, <2>2 DEF SortInv, OneRuleEach, Sort!Ids
  <2>3. CASE j = i \/ k = i
    BY <1>4, <1>6, <1>7, <2>1, <2>3
  <2>. QED  BY <2>2, <2>3
<1>. QED  BY <1>1, <1>4, <1>6, <1>8 DEF RulesGrow, Sort!Ids

\* The switch, and a deletion.
LEMMA FlipGrows ==
  ASSUME SortInv, NEW i \in Sort!Ids, NEW b \in BOOLEAN,
         \/ rules' = [rules EXCEPT ![i].enabled = b]
         \/ rules' = [rules EXCEPT ![i].live = FALSE]
  PROVE  RulesGrow
<1>1. rules \in Seq(RuleSet) /\ Len(rules) \in Nat /\ i \in 1..Len(rules)
  BY DEF SortInv, SortTypes, Sort!Ids
<1>2. rules[i] \in RuleSet
  BY <1>1, ElementOfSeq
<1>3. PICK r : /\ r = [rules[i] EXCEPT !.enabled = b] \/ r = [rules[i] EXCEPT !.live = FALSE]
               /\ rules' = [rules EXCEPT ![i] = r]
  OBVIOUS
<1>4. /\ r \in RuleSet /\ r.scope = rules[i].scope /\ r.path = rules[i].path
      /\ r.created = rules[i].created /\ (r.live => rules[i].live)
  BY <1>2, <1>3 DEF RuleSet
<1>5. rules' \in Seq(RuleSet) /\ Len(rules') = Len(rules)
      /\ \A j \in 1..Len(rules) : rules'[j] = IF j = i THEN r ELSE rules[j]
  BY <1>1, <1>3, <1>4, ExceptSeq
<1>6. OneRuleEach'
  BY <1>4, <1>5 DEF SortInv, OneRuleEach, Sort!Ids
<1>. QED  BY <1>1, <1>4, <1>5, <1>6 DEF RulesGrow, Sort!Ids

LEMMA IdleFits == IsErrand(Sort!Idle) /\ CopyFits(Sort!Idle)
BY DEF Sort!Idle, IsErrand, CopyFits

\* The clients' steps, that leave the mail alone.
LEMMA StoreKeeps ==
  ASSUME SortInv, RulesGrow \/ rules' = rules, mail' = mail,
         NEW c \in Clients, NEW e, IsErrand(e), CopyFits(e),
         client' = client \/ client' = [client EXCEPT ![c] = e],
         day' = day \/ day' = [day EXCEPT !.edits = day.edits + 1]
  PROVE  SortInv'
<1>1. /\ rules' \in Seq(RuleSet) /\ OneRuleEach'
      /\ \A i \in Sort!Ids : i \in Sort!Ids' /\ rules'[i].created = rules[i].created
  <2>1. CASE RulesGrow
    <3>1. Len(rules) \in Nat /\ Len(rules') \in Nat
      BY <2>1 DEF RulesGrow, SortInv, SortTypes
    <3>. QED  BY <2>1, <3>1 DEF RulesGrow, Sort!Ids
  <2>2. CASE rules' = rules
    BY <2>2 DEF SortInv, SortTypes, OneRuleEach, Sort!Ids
  <2>. QED  BY <2>1, <2>2
<1>2. day' = [now |-> day'.now, edits |-> day'.edits] /\ day'.now \in Nat
  BY DEF SortInv, SortTypes
<1>3. client' = [d \in Clients |-> client'[d]]
      /\ \A d \in Clients : IsErrand(client'[d]) /\ CopyFits(client'[d])
  <2>1. client = [d \in Clients |-> client[d]] /\ \A d \in Clients : IsErrand(client[d]) /\ CopyFits(client[d])
    BY DEF SortInv, SortTypes
  <2>2. CASE client' = client
    BY <2>1, <2>2
  <2>3. CASE client' = [client EXCEPT ![c] = e]
    <3>1. client' = [d \in Clients |-> IF d = c THEN e ELSE client[d]]
      BY <2>1, <2>3
    <3>2. \A d \in Clients : client'[d] = e \/ client'[d] = client[d]
      BY <3>1
    <3>3. client' = [d \in Clients |-> client'[d]]
      BY <3>1
    <3>. QED  BY <2>1, <3>2, <3>3
  <2>. QED  BY <2>2, <2>3
<1>4. SortTypes'
  BY <1>1, <1>2, <1>3 DEF SortInv, SortTypes, CopyFits
<1>5. RuledByElders'
  BY <1>1 DEF SortInv, RuledByElders
<1>. QED  BY <1>1, <1>4, <1>5 DEF SortInv

LEMMA EditsKeep ==
  ASSUME SortInv, NEW c \in Clients, Sort!Open(c) \/ Sort!Close(c) \/ Sort!Save(c)
  PROVE  SortInv'
<1>1. rules \in Seq(RuleSet) /\ \A i \in Sort!Ids : rules[i] \in RuleSet
  <2>1. rules \in Seq(RuleSet)
    BY DEF SortInv, SortTypes
  <2>. QED  BY <2>1, ElementOfSeq DEF Sort!Ids
<1>2. IsErrand(Sort!Idle) /\ CopyFits(Sort!Idle)
  BY IdleFits
<1>3. CASE Sort!Open(c)
  <2>1. PICK i \in {0} \cup {j \in Sort!Ids : rules[j].live} :
           client' = [client EXCEPT ![c] = [Sort!Idle EXCEPT !.step = "editing", !.id = i,
                        !.copy = IF i = 0 THEN [enabled |-> TRUE] ELSE rules[i]]]
    BY <1>3 DEF Sort!Open
  <2>2. PICK r : r = IF i = 0 THEN [enabled |-> TRUE] ELSE rules[i]
    OBVIOUS
  <2>3. r.enabled \in BOOLEAN
    BY <1>1, <2>2 DEF RuleSet
  <2>4. PICK e : e = [Sort!Idle EXCEPT !.step = "editing", !.id = i, !.copy = r]
    OBVIOUS
  <2>5. IsErrand(e) /\ CopyFits(e)
    BY <2>3, <2>4 DEF Sort!Idle, IsErrand, CopyFits
  <2>6. client' = [client EXCEPT ![c] = e] /\ UNCHANGED <<rules, mail>>
        /\ day' = [day EXCEPT !.edits = day.edits + 1]
    BY <1>3, <2>1, <2>2, <2>4 DEF Sort!Open, Sort!Changes
  <2>. QED  BY <2>5, <2>6, StoreKeeps
<1>4. CASE Sort!Close(c)
  BY <1>2, <1>4, StoreKeeps DEF Sort!Close
<1>5. CASE Sort!Save(c)
  <2>. DEFINE i == client[c].id
  <2>1. PICK scope \in Scopes, path \in Sort!Paths, does \in {d \in Sort!Does : Sort!Sound(d)},
             more \in BOOLEAN :
          /\ \/ Sort!Create(scope, path, does)
             \/ /\ i \in Sort!Ids /\ ~ Sort!Taken(scope, path, i)
                /\ rules' = Sort!Replaced(i, scope, path, does, client[c].copy.enabled)
          /\ client' = [client EXCEPT ![c] =
               IF more THEN [Sort!Idle EXCEPT !.step = "applying",
                                              !.id = IF i = 0 THEN Len(rules) + 1 ELSE i]
               ELSE Sort!Idle]
    BY <1>5 DEF Sort!Save
  <2>2. does.move \in Moves \cup {"none", "spam"} /\ does.marks \in SUBSET Marks /\ does.protect \in BOOLEAN
    BY <2>1 DEF Sort!Does
  <2>3. client[c].copy.enabled \in BOOLEAN
    BY <1>5 DEF Sort!Save, SortInv, SortTypes, CopyFits
  <2>4. scope \in Scopes \cup {"every"}
    OBVIOUS
  <2>5. RulesGrow
    BY <2>1, <2>2, <2>3, <2>4, CreateGrows, ReplaceGrows
  <2>6. PICK n : n = IF i = 0 THEN Len(rules) + 1 ELSE i
    OBVIOUS
  <2>7. PICK e : e = IF more THEN [Sort!Idle EXCEPT !.step = "applying", !.id = n] ELSE Sort!Idle
    OBVIOUS
  <2>8. IsErrand(e) /\ CopyFits(e)
    BY <1>2, <2>7 DEF Sort!Idle, IsErrand, CopyFits
  <2>9. client' = [client EXCEPT ![c] = e] /\ mail' = mail /\ day' = day
    BY <1>5, <2>1, <2>6, <2>7 DEF Sort!Save
  <2>. QED  BY <2>5, <2>8, <2>9, StoreKeeps
<1>. QED  BY <1>3, <1>4, <1>5

\* Block and Protect.
LEMMA TapsKeep ==
  ASSUME SortInv, NEW c \in Clients, Sort!Tap(c) \/ Sort!List(c) \/ Sort!Merge(c)
  PROVE  SortInv'
<1>1. rules \in Seq(RuleSet) /\ \A i \in Sort!Ids : rules[i] \in RuleSet
  <2>1. rules \in Seq(RuleSet)
    BY DEF SortInv, SortTypes
  <2>. QED  BY <2>1, ElementOfSeq DEF Sort!Ids
<1>2. IsErrand(Sort!Idle) /\ CopyFits(Sort!Idle)
  BY IdleFits
<1>3. CASE Sort!Tap(c)
  <2>1. PICK path \in Sort!Paths, does \in {Sort!Blocks, Sort!Protects} :
          \/ /\ client' = [client EXCEPT ![c] = [Sort!Idle EXCEPT !.step = "listing",
                             !.copy = Sort!Rule("every", path, does, TRUE, 0)]]
             /\ rules' = rules
          \/ Sort!Create("every", path, does) /\ client' = client
    BY <1>3 DEF Sort!Tap
  <2>2. does.move \in Moves \cup {"none", "spam"} /\ does.marks \in SUBSET Marks /\ does.protect \in BOOLEAN
    <3>1. CASE does = Sort!Blocks
      BY <3>1 DEF Sort!Blocks
    <3>2. CASE does = Sort!Protects
      BY <3>2 DEF Sort!Protects
    <3>. QED  BY <2>1, <3>1, <3>2
  <2>3. PICK r : r = Sort!Rule("every", path, does, TRUE, 0)
    OBVIOUS
  <2>4. r \in RuleSet
    BY <2>2, <2>3 DEF Sort!Rule, RuleSet
  <2>5. PICK e : e = [Sort!Idle EXCEPT !.step = "listing", !.copy = r]
    OBVIOUS
  <2>6. IsErrand(e) /\ CopyFits(e)
    BY <2>4, <2>5 DEF Sort!Idle, IsErrand, CopyFits
  <2>7. \/ client' = [client EXCEPT ![c] = e] /\ rules' = rules
        \/ client' = client /\ RulesGrow
    BY <2>1, <2>2, <2>3, <2>5, CreateGrows
  <2>8. mail' = mail /\ day' = [day EXCEPT !.edits = day.edits + 1]
    BY <1>3 DEF Sort!Tap, Sort!Changes
  <2>. QED  BY <2>6, <2>7, <2>8, StoreKeeps
<1>4. CASE Sort!List(c)
  <2>. DEFINE want == client[c].copy
              found == {i \in Sort!Ids : rules[i].live /\ rules[i].scope = "every" /\ rules[i].path = want.path}
  <2>1. want \in RuleSet
    BY <1>4 DEF Sort!List, SortInv, SortTypes, CopyFits
  <2>2. UNCHANGED <<rules, mail, day>>
    BY <1>4 DEF Sort!List
  <2>3. CASE found = {}
    BY <1>2, <1>4, <2>2, <2>3, StoreKeeps DEF Sort!List
  <2>4. CASE found # {}
    <3>1. PICK i \in found :
             client' = [client EXCEPT ![c] = [Sort!Idle EXCEPT !.step = "merging", !.id = i,
                !.copy = [rules[i] EXCEPT !.move = IF want.protect THEN rules[i].move ELSE want.move,
                                          !.protect = rules[i].protect \/ want.protect,
                                          !.enabled = TRUE]]]
      <4>1. (CHOOSE j \in found : TRUE) \in found
        BY <2>4
      <4>2. PICK i \in found : i = CHOOSE j \in found : TRUE
        BY <4>1
      <4>. QED  BY <1>4, <2>4, <4>2 DEF Sort!List
    <3>2. PICK r : r = [rules[i] EXCEPT !.move = IF want.protect THEN rules[i].move ELSE want.move,
                                        !.protect = rules[i].protect \/ want.protect,
                                        !.enabled = TRUE]
      OBVIOUS
    <3>3. rules[i] \in RuleSet
      BY <1>1, <3>1
    <3>4. r \in RuleSet
      BY <2>1, <3>2, <3>3 DEF RuleSet
    <3>5. PICK e : e = [Sort!Idle EXCEPT !.step = "merging", !.id = i, !.copy = r]
      OBVIOUS
    <3>6. IsErrand(e) /\ CopyFits(e)
      BY <3>4, <3>5 DEF Sort!Idle, IsErrand, CopyFits
    <3>7. client' = [client EXCEPT ![c] = e]
      BY <3>1, <3>2, <3>5
    <3>. QED  BY <2>2, <3>6, <3>7, StoreKeeps
  <2>. QED  BY <2>3, <2>4
<1>5. CASE Sort!Merge(c)
  <2>. DEFINE i == client[c].id
              w == client[c].copy
  <2>1. w \in RuleSet
    BY <1>5 DEF Sort!Merge, SortInv, SortTypes, CopyFits
  <2>2. client' = [client EXCEPT ![c] = Sort!Idle] /\ mail' = mail /\ day' = day
    BY <1>5 DEF Sort!Merge
  <2>3. \/ rules' = rules
        \/ ~ Sort!Taken(w.scope, w.path, i) /\ rules' = Sort!Replaced(i, w.scope, w.path, w, w.enabled)
    BY <1>5 DEF Sort!Merge
  <2>4. RulesGrow \/ rules' = rules
    <3>1. CASE i \in Sort!Ids
      <4>1. /\ w.scope \in Scopes \cup {"every"} /\ w.path \in Sort!Paths /\ w.enabled \in BOOLEAN
            /\ w.move \in Moves \cup {"none", "spam"} /\ w.marks \in SUBSET Marks /\ w.protect \in BOOLEAN
        BY <2>1 DEF RuleSet
      <4>. HIDE DEF i, w
      <4>. QED  BY <2>3, <3>1, <4>1, ReplaceGrows
    <3>2. CASE i \notin Sort!Ids
      <4>1. rules = [j \in 1..Len(rules) |-> rules[j]]
        BY <1>1, LenProperties
      <4>. QED  BY <2>3, <3>2, <4>1 DEF Sort!Replaced, Sort!Ids
    <3>. QED  BY <3>1, <3>2
  <2>. QED  BY <1>2, <2>2, <2>4, StoreKeeps
<1>. QED  BY <1>3, <1>4, <1>5

\* What the execution of rules leaves of a message.
LEMMA DoneKeeps ==
  ASSUME NEW x, IsLetter(x), NEW r
  PROVE  /\ IsLetter(Sort!Done(x, r)) /\ Sort!Done(x, r).ruled = x.ruled
         /\ Sort!Done(x, r).arrived = x.arrived
<1>1. PICK marks, at : Sort!Done(x, r) = [x EXCEPT !.marks = marks, !.at = at]
  BY DEF Sort!Done
<1>. QED  BY <1>1 DEF IsLetter

\* Steps that change mail alone, or a client's pass too.
LEMMA MailKeeps ==
  ASSUME SortInv, UNCHANGED rules, day' = [now |-> day'.now, edits |-> day'.edits], day'.now \in Nat,
         mail' = [m \in Letters |-> mail'[m]],
         \A m \in Letters : mail'[m] = mail[m] \/
           (/\ IsLetter(mail'[m])
            /\ \A i \in mail'[m].ruled : i \in Sort!Ids /\ rules[i].created <= mail'[m].arrived),
         client' = [c \in Clients |-> client'[c]],
         \A c \in Clients : client'[c] = client[c] \/ (IsErrand(client'[c]) /\ CopyFits(client'[c]))
  PROVE  SortInv'
<1>1. \A c \in Clients : IsErrand(client'[c]) /\ CopyFits(client'[c])
  BY DEF SortInv, SortTypes
<1>2. \A m \in Letters : mail'[m].at # "away" => IsLetter(mail'[m])
  BY DEF SortInv, SortTypes
<1>3. SortTypes'
  BY <1>1, <1>2 DEF SortInv, SortTypes, CopyFits
<1>4. RuledByElders'
  <2>1. Sort!Ids' = Sort!Ids
    BY DEF Sort!Ids
  <2>. QED  BY <2>1 DEF SortInv, RuledByElders
<1>5. OneRuleEach'
  BY DEF SortInv, OneRuleEach, Sort!Ids
<1>. QED  BY <1>3, <1>4, <1>5 DEF SortInv

LEMMA LettersKeep ==
  ASSUME SortInv, Sort!Tick \/ \E m \in Letters : Sort!Arrive(m) \/ Sort!Ingest(m)
  PROVE  SortInv'
<1>1. /\ mail = [m \in Letters |-> mail[m]] /\ client = [c \in Clients |-> client[c]]
      /\ day = [now |-> day.now, edits |-> day.edits] /\ day.now \in Nat
  BY DEF SortInv, SortTypes
<1>2. CASE Sort!Tick
  <2>1. day' = [day EXCEPT !.now = day.now + 1] /\ UNCHANGED <<rules, mail, client>>
    BY <1>2 DEF Sort!Tick
  <2>2. day.now + 1 \in Nat
    BY <1>1
  <2>3. day' = [now |-> day'.now, edits |-> day'.edits] /\ day'.now \in Nat
    BY <1>1, <2>1, <2>2
  <2>. QED  BY <1>1, <2>1, <2>3, MailKeeps
<1>3. ASSUME NEW m \in Letters, Sort!Arrive(m) PROVE SortInv'
  <2>1. PICK a \in Accounts, from \in Sort!Addresses :
           mail' = [mail EXCEPT ![m] = [at |-> "coming", account |-> a, from |-> from,
                      arrived |-> day.now, marks |-> {}, ruled |-> {}]]
    BY <1>3 DEF Sort!Arrive
  <2>2. PICK x : x = [at |-> "coming", account |-> a, from |-> from,
                      arrived |-> day.now, marks |-> {}, ruled |-> {}]
    OBVIOUS
  <2>3. IsLetter(x) /\ x.ruled = {}
    BY <2>2 DEF IsLetter
  <2>4. mail' = [n \in Letters |-> IF n = m THEN x ELSE mail[n]]
    BY <1>1, <2>1, <2>2
  <2>5. UNCHANGED <<rules, client, day>>
    BY <1>3 DEF Sort!Arrive
  <2>6. /\ mail' = [n \in Letters |-> mail'[n]]
        /\ \A n \in Letters : mail'[n] = mail[n] \/ mail'[n] = x
    BY <2>4
  <2>. QED  BY <1>1, <2>3, <2>5, <2>6, MailKeeps
<1>4. ASSUME NEW m \in Letters, Sort!Ingest(m) PROVE SortInv'
  <2>. DEFINE in == [mail[m] EXCEPT !.at = "inbox"]
              old == {i \in Sort!EnabledFor(in.account) : rules[i].created <= in.arrived}
  <2>1. mail[m].at = "coming" /\ UNCHANGED <<rules, client, day>>
    BY <1>4 DEF Sort!Ingest
  <2>2. IsLetter(mail[m])
    BY <2>1 DEF SortInv, SortTypes
  <2>3. IsLetter(in) /\ in.arrived = mail[m].arrived
    BY <2>2 DEF IsLetter
  <2>4. PICK r : r = Sort!Resolved(old, in.from)
    OBVIOUS
  <2>5. r.matched \subseteq old
    BY <2>4 DEF Sort!Resolved
  <2>6. mail' = [mail EXCEPT ![m] = [Sort!Done(in, r) EXCEPT !.ruled = r.matched]]
    BY <1>4, <2>4 DEF Sort!Ingest
  <2>7. PICK x : x = [Sort!Done(in, r) EXCEPT !.ruled = r.matched]
    OBVIOUS
  <2>8. IsLetter(Sort!Done(in, r)) /\ Sort!Done(in, r).arrived = mail[m].arrived
    BY <2>3, DoneKeeps
  <2>9. IsLetter(x) /\ x.ruled = r.matched /\ x.arrived = mail[m].arrived
    BY <2>7, <2>8 DEF IsLetter
  <2>10. \A i \in x.ruled : i \in Sort!Ids /\ rules[i].created <= x.arrived
    BY <2>3, <2>5, <2>9 DEF Sort!EnabledFor
  <2>11. mail' = [n \in Letters |-> IF n = m THEN x ELSE mail[n]]
    BY <1>1, <2>6, <2>7
  <2>12. /\ mail' = [n \in Letters |-> mail'[n]]
         /\ \A n \in Letters : mail'[n] = mail[n] \/ mail'[n] = x
    BY <2>11
  <2>. QED  BY <1>1, <2>1, <2>9, <2>10, <2>12, MailKeeps
<1>. QED  BY <1>2, <1>3, <1>4

LEMMA PassKeeps ==
  ASSUME SortInv, NEW c \in Clients, Sort!Pass(c)
  PROVE  SortInv'
<1>. DEFINE i == client[c].id
<1>1. /\ mail = [m \in Letters |-> mail[m]] /\ client = [d \in Clients |-> client[d]]
      /\ day = [now |-> day.now, edits |-> day.edits] /\ day.now \in Nat /\ UNCHANGED <<rules, day>>
      /\ client[c].step = "applying" /\ IsErrand(client[c])
  BY DEF SortInv, SortTypes, Sort!Pass
<1>2. ASSUME NEW e, IsErrand(e), CopyFits(e), client' = [client EXCEPT ![c] = e]
      PROVE  /\ client' = [d \in Clients |-> client'[d]]
             /\ \A d \in Clients : client'[d] = client[d] \/ (IsErrand(client'[d]) /\ CopyFits(client'[d]))
  <2>1. client' = [d \in Clients |-> IF d = c THEN e ELSE client[d]]
    BY <1>1, <1>2
  <2>2. client' = [d \in Clients |-> client'[d]] /\ \A d \in Clients : client'[d] = client[d] \/ client'[d] = e
    BY <2>1
  <2>. QED  BY <1>2, <2>2
<1>3. CASE ~ (rules[i].live /\ rules[i].enabled)
  <2>1. client' = [client EXCEPT ![c] = Sort!Idle] /\ mail' = mail
    BY <1>3 DEF Sort!Pass
  <2>. QED  BY <1>1, <1>2, <2>1, IdleFits, MailKeeps
<1>4. CASE rules[i].live /\ rules[i].enabled
  <2>1. PICK w \in Sort!Windows(Sort!Candidates(i)) :
         /\ mail' = [m \in Letters |-> IF m \in w THEN
                       Sort!Done(mail[m], Sort!Resolved(Sort!EnabledFor(mail[m].account), mail[m].from))
                     ELSE mail[m]]
         /\ client' = [client EXCEPT ![c] =
              IF Sort!Over(Sort!Cardinality(w), Sort!Cardinality(Sort!Candidates(i)) - Sort!Cardinality(w),
                           client[c].passes + 1)
              THEN Sort!Idle ELSE [client[c] EXCEPT !.passes = @ + 1]]
    BY <1>1, <1>4 DEF Sort!Pass
  <2>2. w \subseteq Sort!Candidates(i)
    BY DEF Sort!Windows
  <2>3. \A m \in w : m \in Letters /\ mail[m].at = "inbox"
    BY <2>2 DEF Sort!Candidates
  <2>4. ASSUME NEW m \in Letters
        PROVE  mail'[m] = mail[m] \/
                 (/\ IsLetter(mail'[m])
                  /\ \A j \in mail'[m].ruled : j \in Sort!Ids /\ rules[j].created <= mail'[m].arrived)
    <3>1. CASE m \in w
      <4>1. PICK r : mail'[m] = Sort!Done(mail[m], r)
        BY <2>1, <3>1
      <4>2. IsLetter(mail[m])
            /\ \A j \in mail[m].ruled : j \in Sort!Ids /\ rules[j].created <= mail[m].arrived
        BY <2>3, <3>1 DEF SortInv, SortTypes, RuledByElders
      <4>. QED  BY <4>1, <4>2, DoneKeeps
    <3>2. CASE m \notin w
      BY <2>1, <3>2
    <3>. QED  BY <3>1, <3>2
  <2>5. mail' = [m \in Letters |-> mail'[m]]
    BY <2>1
  <2>6. PICK e : e = IF Sort!Over(Sort!Cardinality(w),
                                  Sort!Cardinality(Sort!Candidates(i)) - Sort!Cardinality(w), client[c].passes + 1)
                     THEN Sort!Idle ELSE [client[c] EXCEPT !.passes = @ + 1]
    OBVIOUS
  <2>7. e = Sort!Idle \/ \E n : e = [client[c] EXCEPT !.passes = n]
    BY <2>6
  <2>8. IsErrand(e) /\ CopyFits(e)
    BY <1>1, <2>7, IdleFits DEF IsErrand, CopyFits
  <2>9. client' = [client EXCEPT ![c] = e]
    BY <2>1, <2>6
  <2>. QED  BY <1>1, <1>2, <2>4, <2>5, <2>8, <2>9, MailKeeps
<1>. QED  BY <1>3, <1>4

LEMMA SortKeeps ==
  ASSUME SortInv, [Sort!Next]_ruleVars
  PROVE  SortInv'
<1>1. CASE Sort!Tick \/ \E m \in Letters : Sort!Arrive(m) \/ Sort!Ingest(m)
  BY <1>1, LettersKeep
<1>2. ASSUME NEW c \in Clients, \/ Sort!Open(c) \/ Sort!Close(c) \/ Sort!Save(c) \/ Sort!Tap(c)
                             \/ Sort!List(c) \/ Sort!Merge(c) \/ Sort!Pass(c)
      PROVE  SortInv'
  BY <1>2, EditsKeep, TapsKeep, PassKeeps
<1>3. ASSUME NEW i \in Sort!Ids, Sort!SetEnabled(i) \/ Sort!Delete(i) PROVE SortInv'
  <2>1. /\ mail' = mail /\ client' = client /\ day' = [day EXCEPT !.edits = day.edits + 1]
    BY <1>3 DEF Sort!SetEnabled, Sort!Delete, Sort!Changes
  <2>2. RulesGrow
    <3>1. rules \in Seq(RuleSet) /\ i \in 1..Len(rules)
      BY DEF SortInv, SortTypes, Sort!Ids
    <3>2. rules[i] \in RuleSet
      BY <3>1, ElementOfSeq
    <3>3. PICK b \in BOOLEAN : b = ~ rules[i].enabled
      BY <3>2 DEF RuleSet
    <3>4. \/ rules' = [rules EXCEPT ![i].enabled = b]
          \/ rules' = [rules EXCEPT ![i].live = FALSE]
      BY <1>3, <3>1, <3>2, <3>3 DEF Sort!SetEnabled, Sort!Delete
    <3>. QED  BY <3>4, FlipGrows
  <2>3. /\ client' = [c \in Clients |-> client'[c]] /\ mail' = [m \in Letters |-> mail'[m]]
        /\ \A c \in Clients : IsErrand(client'[c]) /\ CopyFits(client'[c])
        /\ \A m \in Letters : mail'[m].at # "away" => IsLetter(mail'[m])
        /\ day' = [now |-> day'.now, edits |-> day'.edits] /\ day'.now \in Nat
    BY <2>1 DEF SortInv, SortTypes
  <2>4. SortTypes'
    BY <2>2, <2>3 DEF SortTypes, CopyFits, RulesGrow
  <2>5. RuledByElders'
    <3>1. \A j \in Sort!Ids : j \in Sort!Ids' /\ rules'[j].created = rules[j].created
      <4>1. Len(rules) \in Nat /\ Len(rules') \in Nat
        BY <2>2 DEF RulesGrow, SortInv, SortTypes
      <4>. QED  BY <2>2, <4>1 DEF RulesGrow, Sort!Ids
    <3>. QED  BY <2>1, <3>1 DEF SortInv, RuledByElders
  <2>. QED  BY <2>2, <2>4, <2>5 DEF SortInv, RulesGrow
<1>4. CASE UNCHANGED ruleVars
  BY <1>4 DEF ruleVars, SortInv, SortTypes, OneRuleEach, RuledByElders, Sort!Ids, CopyFits
<1>. QED  BY <1>1, <1>2, <1>3, <1>4 DEF Sort!Next, Sort!ruleVars, ruleVars

ToldApart(i, j) ==
  /\ Len(rules[i].path) \in 1..Depth /\ Len(rules[j].path) \in 1..Depth
  /\ Len(rules[i].path) = Len(rules[j].path) =>
       /\ rules[i].path = rules[j].path
       /\ i # j => (rules[i].scope = "every") # (rules[j].scope = "every")

\* Of the rules that match an address, those as long have one value, and are for one account
\* and for every account.
LEMMA MatchesDiffer ==
  ASSUME SortInv, NEW from, NEW a, NEW i \in Sort!EnabledFor(a), NEW j \in Sort!EnabledFor(a),
         Sort!Matches(rules[i], from), Sort!Matches(rules[j], from)
  PROVE  ToldApart(i, j)
<1>. DEFINE L(h) == Len(rules[h].path)
<1>1. \A h \in {i, j} : /\ h \in Sort!Ids /\ rules[h].live /\ rules[h].scope \in {a, "every"}
                        /\ rules[h].path \in Sort!Paths
  <2>1. rules \in Seq(RuleSet)
    BY DEF SortInv, SortTypes
  <2>2. \A h \in Sort!Ids : rules[h] \in RuleSet
    BY <2>1, ElementOfSeq DEF Sort!Ids
  <2>3. \A h \in Sort!Ids : rules[h].path \in Sort!Paths
    BY <2>2 DEF RuleSet
  <2>. QED  BY <2>3 DEF Sort!EnabledFor
<1>2. Depth \in Nat
  BY ClientSideAssumption
<1>3. ASSUME NEW h \in {i, j}
      PROVE  L(h) \in 1..Depth /\ rules[h].path \in Seq(Labels) /\ SubSeq(rules[h].path, 1, L(h)) = rules[h].path
  <2>1. PICK n \in 1..Depth : rules[h].path \in [1..n -> Labels]
    BY <1>1 DEF Sort!Paths
  <2>2. rules[h].path \in Seq(Labels)
    BY <1>2, <2>1, SeqDef
  <2>3. L(h) = n
    BY <1>2, <2>1, <2>2, LenProperties
  <2>4. SubSeq(rules[h].path, 1, L(h)) = rules[h].path
    BY <2>2, SubSeqFull
  <2>. QED  BY <2>2, <2>3, <2>4
<1>4. /\ SubSeq(rules[i].path, 1, L(i)) = SubSeq(from, 1, L(i))
      /\ SubSeq(rules[j].path, 1, L(j)) = SubSeq(from, 1, L(j))
  BY DEF Sort!Matches, Sort!IsPrefix
<1>5. L(i) = L(j) => rules[i].path = rules[j].path
  BY <1>3, <1>4
<1>6. L(i) = L(j) /\ i # j => (rules[i].scope = "every") # (rules[j].scope = "every")
  <2>1. L(i) = L(j) /\ i # j => rules[i].scope # rules[j].scope
    BY <1>1, <1>5 DEF SortInv, OneRuleEach
  <2>. QED  BY <1>1, <2>1
<1>. QED  BY <1>3, <1>5, <1>6 DEF ToldApart

\* So the one with the longest value, the account's own if it has two, is before all others.
LEMMA OneComesFirst ==
  ASSUME SortInv, NEW from, NEW a,
         NEW S \in SUBSET Sort!EnabledFor(a), S # {}, \A i \in S : Sort!Matches(rules[i], from)
  PROVE  \E i \in S : \A j \in S \ {i} : Sort!Before(rules[i], rules[j])
<1>. DEFINE L(i) == Len(rules[i].path)
            Lens == {L(i) : i \in S}
<1>1. \A i, j \in S : /\ L(i) \in 1..Depth
                      /\ L(i) = L(j) /\ i # j => (rules[i].scope = "every") # (rules[j].scope = "every")
  <2>1. SUFFICES ASSUME NEW i \in S, NEW j \in S
                 PROVE  /\ L(i) \in 1..Depth
                        /\ L(i) = L(j) /\ i # j => (rules[i].scope = "every") # (rules[j].scope = "every")
    OBVIOUS
  <2>2. /\ i \in Sort!EnabledFor(a) /\ j \in Sort!EnabledFor(a)
        /\ Sort!Matches(rules[i], from) /\ Sort!Matches(rules[j], from)
    OBVIOUS
  <2>3. ToldApart(i, j)
    BY <2>2, MatchesDiffer
  <2>. QED  BY <2>3 DEF ToldApart
<1>2. Depth \in Nat
  BY ClientSideAssumption
<1>3. Lens \subseteq 1..Depth /\ Lens # {}
  BY <1>1
<1>4. Lens \in SUBSET (0..Depth)
  BY <1>2, <1>3
<1>. HIDE DEF Lens
<1>5. PICK k \in Lens : \A l \in Lens : l <= k
  BY <1>2, <1>3, <1>4, BoundedGreatest
<1>6. PICK i \in S : L(i) = k /\ (rules[i].scope = "every" => \A j \in S : L(j) = k => rules[j].scope = "every")
  <2>1. PICK i \in S : L(i) = k
    BY <1>5 DEF Lens
  <2>. QED  BY <2>1
<1>7. ASSUME NEW j \in S, j # i PROVE Sort!Before(rules[i], rules[j])
  <2>1. L(j) \in Lens
    BY DEF Lens
  <2>2. L(j) <= L(i) /\ L(i) \in 1..Depth /\ L(j) \in 1..Depth
    BY <1>1, <1>5, <1>6, <2>1
  <2>3. CASE L(j) < L(i)
    BY <1>2, <2>2, <2>3 DEF Sort!Before, Sort!IsSender
  <2>4. CASE L(j) = L(i)
    <3>1. (rules[i].scope = "every") # (rules[j].scope = "every")
      BY <1>1, <1>7, <2>4
    <3>2. rules[j].scope = "every"
      BY <1>6, <2>4, <3>1
    <3>. QED  BY <2>4, <3>1, <3>2 DEF Sort!Before, Sort!IsSender
  <2>. QED  BY <1>2, <2>2, <2>3, <2>4
<1>. QED  BY <1>7

\* The rules of a scene of mail rules are as above.
LEMMA RulesAreKept == FairSpec => [](scene = "rules" => SortInv)
<1>. DEFINE Inv == scene = "rules" => SortInv
<1>1. Init => Inv
  <2>1. SUFFICES ASSUME Sort!Init PROVE SortInv
    BY DEF Init, NoRules
  <2>2. /\ rules = <<>> /\ mail = [m \in Letters |-> [at |-> "away"]]
        /\ client = [c \in Clients |-> Sort!Idle] /\ day = [now |-> 0, edits |-> 0]
    BY <2>1 DEF Sort!Init
  <2>3. rules \in Seq(RuleSet) /\ Sort!Ids = {}
    BY <2>2, EmptySeq DEF Sort!Ids
  <2>4. \A m \in Letters : mail[m].at = "away"
    BY <2>2
  <2>5. /\ mail = [m \in Letters |-> mail[m]] /\ client = [c \in Clients |-> client[c]]
        /\ day = [now |-> day.now, edits |-> day.edits] /\ day.now \in Nat
    BY <2>2
  <2>6. \A c \in Clients : IsErrand(client[c]) /\ CopyFits(client[c])
    BY <2>2, IdleFits
  <2>. QED  BY <2>3, <2>4, <2>5, <2>6 DEF SortInv, SortTypes, OneRuleEach, RuledByElders
<1>2. Inv /\ [Next]_vars => Inv'
  <2>1. SUFFICES ASSUME SortInv, [Next]_vars, scene = "rules" PROVE SortInv'
    BY DEF Next, vars
  <2>2. Sort!Next \/ UNCHANGED ruleVars
    BY <2>1 DEF Next, vars
  <2>. QED  BY <2>1, <2>2, SortKeeps
<1>. QED  BY <1>1, <1>2, PTL DEF FairSpec

\* A rule acts on its own only on mail no older than it, however it was edited, merged or
\* switched (rules/store.ts:144).
THEOREM RulesLookForward == FairSpec => []NoReachBack
<1>1. (scene = "rules" => SortInv) => NoReachBack
  BY DEF NoReachBack, Sort!NoReachBack, SortInv, RuledByElders
<1>. QED  BY <1>1, RulesAreKept, PTL

\* Mail is moved by the rule with the longest value that matches, the account's own before
\* the one for every account, made in whichever order (rules/match.ts:5).
THEOREM SpecificRuleMoves == FairSpec => []SpecificRuleWins
<1>. DEFINE hits(a, from) ==
              {i \in Sort!EnabledFor(a) : rules[i].move # "none" /\ Sort!Matches(rules[i], from)}
            Specific(H, move) ==
              IF H = {} THEN move = "none"
              ELSE \E i \in H : /\ rules[i].move = move
                               /\ \A j \in H \ {i} :
                                    \/ Len(rules[j].path) < Len(rules[i].path)
                                    \/ rules[j].path = rules[i].path /\ rules[j].scope = "every"
<1>1. ASSUME SortInv, NEW a \in Accounts, NEW from \in Sort!Addresses
      PROVE  Specific(hits(a, from), Sort!Resolved(Sort!EnabledFor(a), from).move)
  <2>. DEFINE H == hits(a, from)
              move == Sort!Resolved(Sort!EnabledFor(a), from).move
  <2>1. move = IF H = {} THEN "none" ELSE rules[Sort!First(H)].move
    <3>1. H = {i \in {h \in Sort!EnabledFor(a) : Sort!Acts(rules[h]) /\ Sort!Matches(rules[h], from)} :
                    rules[i].move # "none"}
      BY <1>1 DEF Sort!Acts
    <3>. QED  BY <1>1, <3>1 DEF Sort!Resolved
  <2>2. CASE H # {}
    <3>1. H \in SUBSET Sort!EnabledFor(a) /\ \A i \in H : Sort!Matches(rules[i], from)
      BY <1>1
    <3>2. \E i \in H : \A j \in H \ {i} : Sort!Before(rules[i], rules[j])
      BY <1>1, <2>2, <3>1, OneComesFirst
    <3>3. PICK i \in H : i = Sort!First(H) /\ \A j \in H \ {i} : Sort!Before(rules[i], rules[j])
      BY <3>2 DEF Sort!First
    <3>4. ASSUME NEW j \in H \ {i}
          PROVE  \/ Len(rules[j].path) < Len(rules[i].path)
                 \/ rules[j].path = rules[i].path /\ rules[j].scope = "every"
      <4>1. Sort!Before(rules[i], rules[j])
        BY <3>3
      <4>2. /\ Len(rules[i].path) \in 1..Depth /\ Len(rules[j].path) \in 1..Depth
            /\ Len(rules[i].path) = Len(rules[j].path) =>
                 /\ rules[i].path = rules[j].path
                 /\ (rules[i].scope = "every") # (rules[j].scope = "every")
        <5>1. /\ i \in Sort!EnabledFor(a) /\ j \in Sort!EnabledFor(a) /\ i # j
              /\ Sort!Matches(rules[i], from) /\ Sort!Matches(rules[j], from)
          BY <3>1
        <5>2. ToldApart(i, j)
          BY <1>1, <5>1, MatchesDiffer
        <5>. QED  BY <5>1, <5>2 DEF ToldApart
      <4>3. Depth \in Nat
        BY ClientSideAssumption
      <4>. QED  BY <4>1, <4>2, <4>3 DEF Sort!Before, Sort!IsSender
    <3>. QED  BY <2>1, <2>2, <3>3, <3>4
  <2>. QED  BY <2>1, <2>2
<1>2. (scene = "rules" => SortInv) => SpecificRuleWins
  <2>1. SpecificRuleWins <=> (scene = "rules" =>
          \A a \in Accounts, from \in Sort!Addresses :
            Specific(hits(a, from), Sort!Resolved(Sort!EnabledFor(a), from).move))
    BY DEF SpecificRuleWins, Sort!SpecificRuleWins
  <2>. HIDE DEF Specific, hits
  <2>. QED  BY <1>1, <2>1
<1>. QED  BY <1>2, RulesAreKept, PTL

-----------------------------------------------------------------------------
(* The cleanup review.  What the user unticked stays unticked in the       *)
(* stored review, on the drill screen and in every run under way; and the  *)
(* server has served the keeps that shield, and no release of them since.  *)

IsStore == store = [slice |-> store.slice, here |-> store.here, live |-> store.live, kept |-> store.kept,
                    protected |-> store.protected, queue |-> store.queue]
IsDrill(d) == d = [open |-> d.open, q |-> d.q, of |-> d.of, rows |-> d.rows, total |-> d.total,
                   more |-> d.more, loading |-> d.loading, paging |-> d.paging, restored |-> d.restored,
                   mode |-> d.mode, off |-> d.off, on |-> d.on, exec |-> d.exec, undo |-> d.undo]
IsNote == note = [runs |-> note.runs, stirs |-> note.stirs, wish |-> note.wish, shield |-> note.shield,
                  last |-> note.last]
IsRequest(a) == a = [kind |-> a.kind, by |-> a.by, served |-> a.served, q |-> a.q, offset |-> a.offset,
                     why |-> a.why, sheet |-> a.sheet, msg |-> a.msg, keep |-> a.keep,
                     stands |-> a.stands, scope |-> a.scope, unticked |-> a.unticked, bound |-> a.bound]

Places == 1 .. Len(asks)
Asked == {asks[i] : i \in DOMAIN asks}

\* A run leaves out what was unticked when it was sent.
RunSpares(a) ==
  a.kind = "run" => \A m \in a.unticked : m \in a.scope.except \/ (~ a.scope.all /\ m \notin a.scope.ids)

\* No list is loaded anew but by opening the drill and by a filter.
LoadsAnew(a) == a.kind = "list" /\ a.offset = 0 => a.why \in {"mount", "change"}

Request(a) == IsRequest(a) /\ RunSpares(a) /\ LoadsAnew(a)

Releases(a, m) == a.kind = "keep" /\ ~ a.keep /\ a.msg = m /\ ~ a.served
Stands(a) == a.kind = "keep" /\ a.keep /\ a.stands

\* Requests are served in their turn.
ServedInTurn == \A i, j \in Places : asks[i].served /\ j < i => asks[j].served

\* A keep not taken back is the last that its message has.
KeepsLast ==
  \A i \in Places : Stands(asks[i]) =>
    /\ asks[i].served => asks[i].msg \in store.kept
    /\ \A j \in Places : Releases(asks[j], asks[i].msg) => j < i

\* What was kept is kept.
ShieldHolds ==
  \A m \in note.shield : m \in store.kept /\ \A j \in Places : ~ Releases(asks[j], m)

QueueInv ==
  /\ IsStore /\ IsNote
  /\ asks \in Seq(Asked)
  /\ \A i \in Places : Request(asks[i])
  /\ ServedInTurn /\ KeepsLast /\ ShieldHolds

\* What requests under way become when one is sent, and when one is over.
LEMMA Sent ==
  ASSUME asks \in Seq(Asked), NEW a, asks' = Append(asks, a)
  PROVE  /\ asks' \in Seq(Asked') /\ Places' = Places \cup {Len(asks) + 1} /\ Len(asks) \in Nat
         /\ \A i \in Places : asks'[i] = asks[i]
         /\ asks'[Len(asks) + 1] = a
<1>. DEFINE T == Asked \cup {a}
<1>1. asks \in Seq(T) /\ a \in T
  BY SeqMonotonic
<1>2. /\ asks' \in Seq(T) /\ Len(asks') = Len(asks) + 1 /\ Len(asks) \in Nat
      /\ \A i \in 1..Len(asks) : asks'[i] = asks[i]
      /\ asks'[Len(asks) + 1] = a
  BY <1>1, AppendProperties, LenProperties
<1>3. DOMAIN asks' = 1..Len(asks')
  BY <1>2, LenProperties
<1>4. asks' \in Seq(Asked')
  <2>1. asks' \in [1..Len(asks') -> Asked']
    BY <1>2, <1>3, LenProperties DEF Asked
  <2>2. Len(asks') \in Nat
    BY <1>2
  <2>. QED  BY <2>1, <2>2, SeqDef
<1>. QED  BY <1>2, <1>4 DEF Places

LEMMA Forgotten ==
  ASSUME asks \in Seq(Asked), NEW i \in Places, asks' = Sift!RemoveAt(asks, i)
  PROVE  /\ asks' \in Seq(Asked')
         /\ \E f \in [Places' -> Places \ {i}] :
              /\ \A j \in Places' : asks'[j] = asks[f[j]]
              /\ \A j, k \in Places' : f[j] < f[k] <=> j < k
<1>1. asks' = Prefs!RemoveAt(asks, i)
  BY DEF Sift!RemoveAt, Prefs!RemoveAt
<1>2. DOMAIN asks = Places
  BY LenProperties DEF Places
<1>3. /\ asks' \in Seq(Asked)
      /\ \E f \in [DOMAIN asks' -> DOMAIN asks \ {i}] :
           /\ \A j \in DOMAIN asks' : asks'[j] = asks[f[j]]
           /\ \A j, k \in DOMAIN asks' : f[j] < f[k] <=> j < k
  <2>1. i \in DOMAIN asks
    BY <1>2
  <2>2. PICK t : t = Prefs!RemoveAt(asks, i)
    OBVIOUS
  <2>3. /\ t \in Seq(Asked)
        /\ \E f \in [DOMAIN t -> DOMAIN asks \ {i}] :
             /\ \A j \in DOMAIN t : t[j] = asks[f[j]]
             /\ \A j, k \in DOMAIN t : f[j] < f[k] <=> j < k
    BY <2>1, <2>2, Thinned
  <2>. QED  BY <1>1, <2>2, <2>3
<1>4. Len(asks') \in Nat /\ DOMAIN asks' = Places' /\ Places' = 1..Len(asks')
  BY <1>3, LenProperties DEF Places
<1>5. asks' \in [1..Len(asks') -> Asked']
  BY <1>3, <1>4, LenProperties DEF Asked
<1>6. asks' \in Seq(Asked')
  BY <1>4, <1>5, SeqDef
<1>. QED  BY <1>2, <1>3, <1>4, <1>6

\* Or are changed in their places.
LEMMA Retouched ==
  ASSUME asks \in Seq(Asked), NEW T, asks' \in [DOMAIN asks -> T]
  PROVE  asks' \in Seq(Asked') /\ Places' = Places /\ DOMAIN asks = Places /\ Len(asks') = Len(asks)
<1>1. Len(asks) \in Nat /\ DOMAIN asks = 1..Len(asks)
  BY LenProperties
<1>2. asks' \in [1..Len(asks) -> T]
  BY <1>1
<1>3. asks' \in Seq(T)
  BY <1>1, <1>2, SeqDef
<1>4. Len(asks') \in Nat /\ 1..Len(asks') = 1..Len(asks)
  BY <1>2, <1>3, LenProperties
<1>5. Len(asks') = Len(asks)
  BY <1>1, <1>4
<1>6. asks' \in [1..Len(asks) -> Asked']
  BY <1>2 DEF Asked
<1>7. asks' \in Seq(Asked')
  BY <1>1, <1>6, SeqDef
<1>. QED  BY <1>1, <1>5, <1>7 DEF Places

\* What the screens and the server do to a request under way.
LEMMA Restood ==
  ASSUME NEW a, Request(a), NEW b, NEW r, r = [a EXCEPT !.stands = b]
  PROVE  /\ Request(r) /\ r.stands = b /\ r.served = a.served /\ r.by = a.by
         /\ r.kind = a.kind /\ r.msg = a.msg /\ r.keep = a.keep /\ r.why = a.why /\ r.offset = a.offset
<1>1. r = [kind |-> a.kind, by |-> a.by, served |-> a.served, q |-> a.q, offset |-> a.offset,
           why |-> a.why, sheet |-> a.sheet, msg |-> a.msg, keep |-> a.keep,
           stands |-> b, scope |-> a.scope, unticked |-> a.unticked, bound |-> a.bound]
  BY DEF Request, IsRequest
<1>. QED  BY <1>1 DEF Request, IsRequest, RunSpares, LoadsAnew

LEMMA Reowned ==
  ASSUME NEW a, Request(a), NEW b, NEW r, r = [a EXCEPT !.by = b]
  PROVE  /\ Request(r) /\ r.by = b /\ r.served = a.served /\ r.stands = a.stands
         /\ r.kind = a.kind /\ r.msg = a.msg /\ r.keep = a.keep /\ r.why = a.why /\ r.offset = a.offset
<1>1. r = [kind |-> a.kind, by |-> b, served |-> a.served, q |-> a.q, offset |-> a.offset,
           why |-> a.why, sheet |-> a.sheet, msg |-> a.msg, keep |-> a.keep,
           stands |-> a.stands, scope |-> a.scope, unticked |-> a.unticked, bound |-> a.bound]
  BY DEF Request, IsRequest
<1>. QED  BY <1>1 DEF Request, IsRequest, RunSpares, LoadsAnew

Answer(a, x) == [a EXCEPT !.served = TRUE, !.sheet = x]

LEMMA Answered ==
  ASSUME NEW a, Request(a), NEW x, NEW r, r = Answer(a, x)
  PROVE  /\ Request(r) /\ r.served /\ r.stands = a.stands /\ r.by = a.by
         /\ r.kind = a.kind /\ r.msg = a.msg /\ r.keep = a.keep /\ r.why = a.why /\ r.offset = a.offset
<1>1. r = [kind |-> a.kind, by |-> a.by, served |-> TRUE, q |-> a.q, offset |-> a.offset,
           why |-> a.why, sheet |-> x, msg |-> a.msg, keep |-> a.keep,
           stands |-> a.stands, scope |-> a.scope, unticked |-> a.unticked, bound |-> a.bound]
  BY DEF Answer, Request, IsRequest
<1>. QED  BY <1>1 DEF Request, IsRequest, RunSpares, LoadsAnew

LEMMA QueueSent ==
  ASSUME QueueInv, NEW a, Request(a), ~ a.served, a.kind = "keep" => a.keep,
         asks' = Append(asks, a), IsStore', store'.kept = store.kept,
         IsNote', note'.shield = note.shield
  PROVE  QueueInv'
<1>1. /\ asks' \in Seq(Asked') /\ Places' = Places \cup {Len(asks) + 1} /\ Len(asks) \in Nat
      /\ \A i \in Places : asks'[i] = asks[i]
      /\ asks'[Len(asks) + 1] = a
  BY Sent DEF QueueInv
<1>2. \A m : ~ Releases(a, m)
  BY DEF Releases
<1>3. \A i \in Places : i \in Nat /\ i < Len(asks) + 1
  BY <1>1 DEF Places
<1>4. \A i \in Places' : Request(asks'[i])
  BY <1>1 DEF QueueInv
<1>5. ServedInTurn'
  <2>1. SUFFICES ASSUME NEW i \in Places', NEW j \in Places', asks'[i].served, j < i PROVE asks'[j].served
    BY DEF ServedInTurn
  <2>2. i \in Places /\ j \in Places
    BY <1>1, <1>3, <2>1
  <2>. QED  BY <1>1, <2>1, <2>2 DEF QueueInv, ServedInTurn
<1>6. KeepsLast'
  <2>1. SUFFICES ASSUME NEW i \in Places', Stands(asks'[i])
                 PROVE  /\ asks'[i].served => asks'[i].msg \in store'.kept
                        /\ \A j \in Places' : Releases(asks'[j], asks'[i].msg) => j < i
    BY DEF KeepsLast
  <2>2. \A m : \A j \in Places' : Releases(asks'[j], m) => j \in Places /\ Releases(asks[j], m)
    BY <1>1, <1>2
  <2>3. CASE i \in Places
    BY <1>1, <2>1, <2>2, <2>3 DEF QueueInv, KeepsLast
  <2>4. CASE i = Len(asks) + 1
    BY <1>1, <1>3, <2>2, <2>4
  <2>. QED  BY <1>1, <2>1, <2>3, <2>4
<1>7. ShieldHolds'
  BY <1>1, <1>2 DEF QueueInv, ShieldHolds
<1>. QED  BY <1>1, <1>4, <1>5, <1>6, <1>7 DEF QueueInv

LEMMA QueueForgot ==
  ASSUME QueueInv, NEW i \in Places, asks' = Sift!RemoveAt(asks, i), store' = store, IsNote',
         \/ note'.shield = note.shield
         \/ /\ Stands(asks[i]) /\ asks[i].served
            /\ note'.shield = note.shield \cup {asks[i].msg}
  PROVE  QueueInv'
<1>1. PICK f \in [Places' -> Places \ {i}] :
              /\ \A j \in Places' : asks'[j] = asks[f[j]]
              /\ \A j, k \in Places' : f[j] < f[k] <=> j < k
  BY Forgotten DEF QueueInv
<1>2. asks' \in Seq(Asked')
  BY Forgotten DEF QueueInv
<1>3. \A j \in Places' : f[j] \in Places /\ Request(asks'[j])
  BY <1>1 DEF QueueInv
<1>4. ServedInTurn'
  BY <1>1, <1>3 DEF QueueInv, ServedInTurn
<1>5. KeepsLast'
  BY <1>1, <1>3 DEF QueueInv, KeepsLast
<1>6. ShieldHolds'
  <2>1. SUFFICES ASSUME NEW m \in note'.shield
                 PROVE  m \in store.kept /\ \A j \in Places : ~ Releases(asks[j], m)
    BY <1>1, <1>3 DEF ShieldHolds
  <2>2. CASE m \in note.shield
    BY <2>2 DEF QueueInv, ShieldHolds
  <2>3. CASE m \notin note.shield
    <3>1. Stands(asks[i]) /\ asks[i].served /\ m = asks[i].msg
      BY <2>1, <2>3
    <3>2. m \in store.kept /\ \A j \in Places : Releases(asks[j], m) => j < i
      BY <3>1 DEF QueueInv, KeepsLast
    <3>3. \A j \in Places : j < i => asks[j].served
      BY <3>1 DEF QueueInv, ServedInTurn
    <3>. QED  BY <3>2, <3>3 DEF Releases
  <2>. QED  BY <2>2, <2>3
<1>. QED  BY <1>2, <1>3, <1>4, <1>5, <1>6 DEF QueueInv, IsStore

LEMMA QueueKept ==
  ASSUME QueueInv, asks' = asks \/ asks' = Sift!Orphans, IsStore', store'.kept = store.kept,
         IsNote', note'.shield = note.shield
  PROVE  QueueInv'
<1>1. CASE asks' = asks
  BY <1>1 DEF QueueInv, Asked, Places, ServedInTurn, KeepsLast, ShieldHolds
<1>2. CASE asks' = Sift!Orphans
  <2>1. \A i \in DOMAIN asks : asks'[i] = [asks[i] EXCEPT !.by = "nobody"]
    BY <1>2 DEF Sift!Orphans
  <2>2. asks' \in [DOMAIN asks -> {[asks[i] EXCEPT !.by = "nobody"] : i \in DOMAIN asks}]
    BY <1>2 DEF Sift!Orphans
  <2>3. asks' \in Seq(Asked') /\ Places' = Places /\ DOMAIN asks = Places
    BY <2>2, Retouched DEF QueueInv
  <2>4. \A i \in Places : /\ Request(asks'[i]) /\ asks'[i].kind = asks[i].kind /\ asks'[i].msg = asks[i].msg
                          /\ asks'[i].keep = asks[i].keep /\ asks'[i].served = asks[i].served
                          /\ asks'[i].stands = asks[i].stands
    <3>1. SUFFICES ASSUME NEW i \in Places
                   PROVE  /\ Request(asks'[i]) /\ asks'[i].kind = asks[i].kind /\ asks'[i].msg = asks[i].msg
                          /\ asks'[i].keep = asks[i].keep /\ asks'[i].served = asks[i].served
                          /\ asks'[i].stands = asks[i].stands
      OBVIOUS
    <3>2. asks'[i] = [asks[i] EXCEPT !.by = "nobody"] /\ Request(asks[i])
      BY <2>1, <2>3 DEF QueueInv
    <3>. QED  BY <3>2, Reowned
  <2>5. \A i \in Places : /\ Stands(asks'[i]) = Stands(asks[i])
                          /\ \A m : Releases(asks'[i], m) = Releases(asks[i], m)
    BY <2>4 DEF Stands, Releases
  <2>6. ServedInTurn'
    BY <2>3, <2>4 DEF QueueInv, ServedInTurn
  <2>7. KeepsLast'
    BY <2>3, <2>4, <2>5 DEF QueueInv, KeepsLast
  <2>8. ShieldHolds'
    BY <2>3, <2>4, <2>5 DEF QueueInv, ShieldHolds
  <2>. QED  BY <2>3, <2>4, <2>6, <2>7, <2>8 DEF QueueInv
<1>. QED  BY <1>1, <1>2

\* A keep taken back, on the screen or elsewhere.
Over(R) == {R[i] : i \in Places}

TakenBack(m, R) ==
  /\ Len(asks) \in Nat /\ DOMAIN asks = Places
  /\ R \in Seq(Over(R)) /\ Len(R) = Len(asks)
  /\ \A i \in Places : /\ Request(R[i])
                       /\ Stands(R[i]) <=> Stands(asks[i]) /\ asks[i].msg # m
                       /\ \A n : Releases(R[i], n) <=> Releases(asks[i], n)
                       /\ R[i].served = asks[i].served /\ R[i].msg = asks[i].msg
                       /\ R[i].by = asks[i].by /\ R[i].kind = asks[i].kind
                       /\ R[i].why = asks[i].why /\ R[i].offset = asks[i].offset

LEMMA RevokedFacts == ASSUME QueueInv, NEW m, NEW R, R = Sift!Revoked(m) PROVE TakenBack(m, R)
<1>1. Len(asks) \in Nat /\ DOMAIN asks = Places
  BY LenProperties DEF QueueInv, Places
<1>2. R = [i \in Places |-> [asks[i] EXCEPT !.stands = asks[i].stands /\ asks[i].msg # m]]
  BY <1>1 DEF Sift!Revoked
<1>3. ASSUME NEW i \in Places
      PROVE  /\ Request(R[i])
             /\ Stands(R[i]) <=> Stands(asks[i]) /\ asks[i].msg # m
             /\ \A n : Releases(R[i], n) <=> Releases(asks[i], n)
             /\ R[i].served = asks[i].served /\ R[i].msg = asks[i].msg
             /\ R[i].by = asks[i].by /\ R[i].kind = asks[i].kind
             /\ R[i].why = asks[i].why /\ R[i].offset = asks[i].offset
  <2>1. PICK b : b = (asks[i].stands /\ asks[i].msg # m)
    OBVIOUS
  <2>2. R[i] = [asks[i] EXCEPT !.stands = b] /\ Request(asks[i])
    BY <1>2, <2>1 DEF QueueInv
  <2>3. /\ Request(R[i]) /\ R[i].stands = b /\ R[i].served = asks[i].served /\ R[i].by = asks[i].by
        /\ R[i].kind = asks[i].kind /\ R[i].msg = asks[i].msg /\ R[i].keep = asks[i].keep
        /\ R[i].why = asks[i].why /\ R[i].offset = asks[i].offset
    BY <2>2, Restood
  <2>. QED  BY <2>1, <2>3 DEF Stands, Releases
<1>4. R \in Seq(Over(R)) /\ Len(R) = Len(asks)
  <2>1. R \in [1..Len(asks) -> Over(R)]
    BY <1>2 DEF Places, Over
  <2>2. R \in Seq(Over(R))
    BY <1>1, <2>1, SeqDef
  <2>3. Len(R) \in Nat /\ 1..Len(R) = 1..Len(asks)
    BY <2>1, <2>2, LenProperties
  <2>. QED  BY <1>1, <2>2, <2>3
<1>. QED  BY <1>1, <1>3, <1>4 DEF TakenBack

LEMMA QueueRevoked ==
  ASSUME QueueInv, NEW m, asks' = Sift!Revoked(m), IsStore', \A n \in store.kept \ {m} : n \in store'.kept,
         IsNote', note'.shield = note.shield \ {m}
  PROVE  QueueInv'
<1>1. PICK R : R = Sift!Revoked(m)
  OBVIOUS
<1>2. TakenBack(m, R)
  BY <1>1, RevokedFacts
<1>3. asks' = R
  BY <1>1
<1>4. asks' \in Seq(Asked') /\ Places' = Places
  <2>1. asks' \in [DOMAIN asks -> Over(R)]
    BY <1>2, <1>3, LenProperties DEF TakenBack, Places
  <2>. QED  BY <2>1, Retouched DEF QueueInv
<1>5. \A i \in Places' : Request(asks'[i])
  BY <1>2, <1>3, <1>4 DEF TakenBack
<1>6. ServedInTurn'
  BY <1>2, <1>3, <1>4 DEF TakenBack, QueueInv, ServedInTurn
<1>7. KeepsLast'
  BY <1>2, <1>3, <1>4 DEF TakenBack, QueueInv, KeepsLast
<1>8. ShieldHolds'
  BY <1>2, <1>3, <1>4 DEF TakenBack, QueueInv, ShieldHolds
<1>. QED  BY <1>4, <1>5, <1>6, <1>7, <1>8 DEF QueueInv

LEMMA QueueReleased ==
  ASSUME QueueInv, NEW m, NEW a, Request(a), ~ a.served, a.kind = "keep", ~ a.keep, a.msg = m,
         asks' = Append(Sift!Revoked(m), a), store' = store,
         IsNote', note'.shield = note.shield \ {m}
  PROVE  /\ QueueInv' /\ Places' = Places \cup {Len(asks) + 1}
         /\ \A i \in Places : /\ asks'[i].by = asks[i].by /\ asks'[i].kind = asks[i].kind
                              /\ asks'[i].why = asks[i].why /\ asks'[i].offset = asks[i].offset
         /\ asks'[Len(asks) + 1] = a
<1>. DEFINE n == Len(asks)
<1>1. PICK R : R = Sift!Revoked(m)
  OBVIOUS
<1>2. TakenBack(m, R)
  BY <1>1, RevokedFacts
<1>3. /\ n \in Nat /\ DOMAIN asks = Places
      /\ R \in Seq(Over(R)) /\ Len(R) = n
      /\ \A i \in Places : /\ Request(R[i])
                           /\ Stands(R[i]) <=> Stands(asks[i]) /\ asks[i].msg # m
                           /\ \A k : Releases(R[i], k) <=> Releases(asks[i], k)
                           /\ R[i].served = asks[i].served /\ R[i].msg = asks[i].msg
                           /\ R[i].by = asks[i].by /\ R[i].kind = asks[i].kind
                           /\ R[i].why = asks[i].why /\ R[i].offset = asks[i].offset
  BY <1>2 DEF TakenBack
<1>4. asks' = Append(R, a)
  BY <1>1
<1>. DEFINE T == Over(R) \cup {a}
<1>5. /\ asks' \in Seq(T) /\ Len(asks') = n + 1
      /\ asks'[n + 1] = a /\ \A i \in Places : asks'[i] = R[i]
  <2>1. R \in Seq(T) /\ a \in T
    BY <1>3, SeqMonotonic
  <2>2. /\ asks' \in Seq(T) /\ Len(asks') = Len(R) + 1
        /\ \A i \in 1..Len(R) : asks'[i] = R[i]
        /\ asks'[Len(R) + 1] = a
    BY <1>4, <2>1, AppendProperties
  <2>. QED  BY <1>3, <2>2 DEF Places
<1>6. Places' = Places \cup {n + 1} /\ \A i \in Places : i \in Nat /\ i < n + 1
  BY <1>3, <1>5 DEF Places
<1>7. asks' \in Seq(Asked')
  <2>1. DOMAIN asks' = 1..Len(asks') /\ Len(asks') \in Nat
    BY <1>5, LenProperties
  <2>2. PICK k \in Nat : k = Len(asks')
    BY <2>1
  <2>3. asks' \in [1..k -> Asked']
    BY <1>5, <2>1, <2>2, LenProperties DEF Asked
  <2>. QED  BY <2>3, SeqDef
<1>8. \A i \in Places' : Request(asks'[i])
  BY <1>3, <1>5, <1>6
<1>9. ASSUME NEW k, NEW j \in Places', Releases(asks'[j], k)
      PROVE  k = m \/ (j \in Places /\ Releases(asks[j], k))
  <2>1. CASE j \in Places
    BY <1>3, <1>5, <1>9, <2>1
  <2>2. CASE j = n + 1
    BY <1>5, <1>9, <2>2 DEF Releases
  <2>. QED  BY <1>6, <2>1, <2>2
<1>10. \A j \in Places' : Stands(asks'[j]) => j \in Places /\ Stands(asks[j]) /\ asks[j].msg # m
  BY <1>3, <1>5, <1>6 DEF Stands
<1>11. ServedInTurn'
  <2>1. SUFFICES ASSUME NEW i \in Places', NEW j \in Places', asks'[i].served, j < i PROVE asks'[j].served
    BY DEF ServedInTurn
  <2>2. i \in Places /\ j \in Places
    BY <1>3, <1>5, <1>6, <2>1
  <2>. QED  BY <1>3, <1>5, <2>1, <2>2 DEF QueueInv, ServedInTurn
<1>12. KeepsLast'
  <2>1. SUFFICES ASSUME NEW i \in Places', Stands(asks'[i])
                 PROVE  /\ asks'[i].served => asks'[i].msg \in store'.kept
                        /\ \A j \in Places' : Releases(asks'[j], asks'[i].msg) => j < i
    BY DEF KeepsLast
  <2>2. /\ i \in Places /\ Stands(asks[i]) /\ asks[i].msg # m
        /\ asks'[i].served = asks[i].served /\ asks'[i].msg = asks[i].msg
    BY <1>3, <1>5, <1>10, <2>1
  <2>. QED  BY <1>9, <2>2 DEF QueueInv, KeepsLast
<1>13. ShieldHolds'
  BY <1>9 DEF QueueInv, ShieldHolds
<1>. QED  BY <1>3, <1>5, <1>6, <1>7, <1>8, <1>11, <1>12, <1>13 DEF QueueInv, IsStore

\* The server takes a request: a run moves what it may, and nothing that is kept.
LEMMA ServeSpares ==
  ASSUME QueueInv, Sift!MarkedIsSpared, "order" \notin Faults, NEW i \in DOMAIN asks, Sift!Serve(i)
  PROVE  QueueInv' /\ Sift!MarkedIsSpared' /\ Places' = Places
<1>. DEFINE a == asks[i]
            moved == Sift!Resolved(a.scope)
<1>1. PICK x : asks' = [asks EXCEPT ![i] = Answer(a, x)]
  BY DEF Sift!Serve, Answer
<1>2. i \in Places /\ DOMAIN asks = Places /\ \A j \in Places : j \in Nat
  BY LenProperties DEF QueueInv, Places
<1>3. Request(a) /\ ~ a.served /\ \A j \in Places : j < i => asks[j].served
  <2>1. \A j \in 1..i - 1 : asks[j].served
    BY DEF Sift!Serve, Sift!InTurn
  <2>. QED  BY <1>2, <2>1 DEF QueueInv, Sift!Serve, Places
<1>4. PICK r : r = Answer(a, x)
  OBVIOUS
<1>5. /\ Request(r) /\ r.served /\ r.stands = a.stands
      /\ r.kind = a.kind /\ r.msg = a.msg /\ r.keep = a.keep
  BY <1>4, <1>3, Answered
<1>6. asks' = [j \in Places |-> IF j = i THEN r ELSE asks[j]]
  BY <1>4, <1>1, <1>2
<1>7. asks' \in Seq(Asked') /\ Places' = Places
  <2>1. asks' \in [DOMAIN asks -> {IF j = i THEN r ELSE asks[j] : j \in Places}]
    BY <1>2, <1>6
  <2>. QED  BY <2>1, Retouched DEF QueueInv
<1>8. \A j \in Places : /\ Request(asks'[j]) /\ asks'[j].msg = asks[j].msg
                        /\ Stands(asks'[j]) <=> Stands(asks[j])
                        /\ \A m : Releases(asks'[j], m) => Releases(asks[j], m) /\ j # i
                        /\ asks'[j].served <=> asks[j].served \/ j = i
  BY <1>3, <1>5, <1>6 DEF QueueInv, Stands, Releases
<1>9. ServedInTurn'
  BY <1>2, <1>3, <1>7, <1>8 DEF QueueInv, ServedInTurn
<1>10. /\ IsStore'
      /\ store'.kept = IF a.kind = "keep" THEN IF a.keep THEN store.kept \cup {a.msg}
                                               ELSE store.kept \ {a.msg}
                       ELSE store.kept
  <2>1. store = [slice |-> store.slice, here |-> store.here, live |-> store.live, kept |-> store.kept,
                 protected |-> store.protected, queue |-> store.queue]
    BY DEF QueueInv, IsStore
  <2>2. CASE a.kind = "keep"
    <3>1. PICK K : K = IF a.keep THEN store.kept \cup {a.msg} ELSE store.kept \ {a.msg}
      OBVIOUS
    <3>2. store' = [store EXCEPT !.kept = K]
      BY <2>2, <3>1 DEF Sift!Serve
    <3>. QED  BY <2>1, <2>2, <3>1, <3>2 DEF IsStore
  <2>3. CASE a.kind = "run"
    <3>1. store' = [store EXCEPT !.live = store.live \ moved, !.queue = store.queue \cup moved]
      BY <2>3 DEF Sift!Serve
    <3>. HIDE DEF moved
    <3>2. store' = [slice |-> store.slice, here |-> store.here, live |-> store.live \ moved,
                    kept |-> store.kept, protected |-> store.protected, queue |-> store.queue \cup moved]
      BY <2>1, <3>1
    <3>. QED  BY <2>3, <3>2 DEF IsStore
  <2>4. CASE a.kind \notin {"keep", "run"}
    <3>1. store' = store
      BY <2>4 DEF Sift!Serve
    <3>. QED  BY <2>1, <2>4, <3>1 DEF IsStore
  <2>. QED  BY <2>2, <2>3, <2>4
<1>11. KeepsLast'
  <2>1. SUFFICES ASSUME NEW k \in Places, Stands(asks'[k])
                 PROVE  /\ asks'[k].served => asks'[k].msg \in store'.kept
                        /\ \A j \in Places : Releases(asks'[j], asks'[k].msg) => j < k
    BY <1>7 DEF KeepsLast
  <2>2. Stands(asks[k]) /\ asks'[k].msg = asks[k].msg
    BY <1>8, <2>1
  <2>3. \A j \in Places : Releases(asks[j], asks[k].msg) => j < k
    BY <2>2 DEF QueueInv, KeepsLast
  <2>4. CASE k = i
    BY <1>8, <1>10, <2>2, <2>3, <2>4 DEF Stands
  <2>5. CASE k # i
    <3>1. asks'[k].served => asks[k].served /\ asks[k].msg \in store.kept
      BY <1>8, <2>2, <2>5 DEF QueueInv, KeepsLast
    <3>2. asks[k].served => ~ Releases(a, asks[k].msg)
      BY <1>2, <1>3, <2>3 DEF QueueInv, ServedInTurn
    <3>3. asks'[k].served => asks[k].msg \in store'.kept
      BY <1>3, <1>10, <3>1, <3>2 DEF Releases
    <3>. QED  BY <1>8, <2>2, <2>3, <3>3
  <2>. QED  BY <2>4, <2>5
<1>12. /\ IsNote' /\ note'.shield = note.shield
       /\ Sift!MarkedIsSpared'
  <2>1. note = [runs |-> note.runs, stirs |-> note.stirs, wish |-> note.wish, shield |-> note.shield,
                last |-> note.last]
    BY DEF QueueInv, IsNote
  <2>2. CASE a.kind # "run"
    <3>1. note' = note
      BY <2>2 DEF Sift!Serve
    <3>. QED  BY <2>1, <3>1 DEF IsNote, Sift!MarkedIsSpared
  <2>3. CASE a.kind = "run"
    <3>1. PICK l : l = [moved |-> moved, unticked |-> a.unticked, bound |-> a.bound, shield |-> note.shield]
      OBVIOUS
    <3>2. note' = [note EXCEPT !.last = l]
      BY <2>3, <3>1 DEF Sift!Serve
    <3>3. moved \cap a.unticked = {}
      BY <1>3, <2>3 DEF Request, RunSpares, Sift!Resolved
    <3>4. moved \cap note.shield = {}
      <4>1. moved \subseteq Sift!Eligible
        BY DEF Sift!Resolved, Sift!Movable
      <4>2. note.shield \cap Sift!Eligible = {}
        BY DEF QueueInv, ShieldHolds, Sift!Eligible
      <4>. QED  BY <4>1, <4>2
    <3>5. note' = [runs |-> note.runs, stirs |-> note.stirs, wish |-> note.wish, shield |-> note.shield,
                   last |-> l]
      BY <2>1, <3>2
    <3>6. l.moved \cap l.unticked = {} /\ l.moved \cap l.shield = {}
      <4>. HIDE DEF moved
      <4>. QED  BY <3>1, <3>3, <3>4
    <3>. QED  BY <3>5, <3>6 DEF IsNote, Sift!MarkedIsSpared
  <2>. QED  BY <2>2, <2>3
<1>13. ShieldHolds'
  <2>1. SUFFICES ASSUME NEW m \in note.shield
                 PROVE  m \in store'.kept /\ \A j \in Places : ~ Releases(asks'[j], m)
    BY <1>7, <1>12 DEF ShieldHolds
  <2>2. m \in store.kept /\ \A j \in Places : ~ Releases(asks[j], m)
    BY DEF QueueInv, ShieldHolds
  <2>. QED  BY <1>2, <1>3, <1>8, <1>10, <2>2 DEF Releases
<1>. QED  BY <1>7, <1>8, <1>9, <1>10, <1>11, <1>12, <1>13 DEF QueueInv

-----------------------------------------------------------------------------
(* What the drill screen shows of the review, and what is stored of it. *)

IsMode(mode) == mode \in {"all", "manual"}
Stored(s) == IF s.mode = "none" THEN {} ELSE Sift!Unticked(s)

\* What the user has unticked, w, is unticked in the stored review s and on the screen d.
Shows(d, s, w) ==
  /\ IsDrill(d) /\ IsMode(d.mode)
  /\ s = Sift!NoReview \/ IsMode(s.mode)
  /\ Sift!Unticked(w) \subseteq Stored(s)
  /\ d.open => Sift!Unticked(w) \subseteq Sift!Unticked(d)
  /\ d.exec = "done" => Sift!Unticked(w) = {}

OwnList(a) == a.kind = "list" /\ a.by = "drill"
Mount(a) == OwnList(a) /\ a.why = "mount"

\* A screen that is shut waits for nothing.
ScreenShut == ~ drill.open => drill = Sift!Closed /\ \A i \in Places : asks[i].by # "drill"

\* The list that a review taken up again waits for is the first that the screen gets.
MountsFirst ==
  \A i \in Places : Mount(asks[i]) =>
    /\ drill.rows = <<>> /\ drill.undo = 0
    /\ drill.restored \/ Sift!Unticked(note.wish) = {}
    /\ \A j \in Places : j < i => ~ OwnList(asks[j])

ScreenInv == Shows(drill, saved, note.wish) /\ ScreenShut /\ MountsFirst

ReviewInv == QueueInv /\ ScreenInv /\ Sift!MarkedIsSpared

\* Every request under way is an earlier one in its order, or a last one that is new.
TracedBy(Old, f) ==
  /\ \A j, k \in Old : j < k => f[j] < f[k]
  /\ \A j \in Old : /\ asks'[j].kind = asks[f[j]].kind /\ asks'[j].why = asks[f[j]].why
                    /\ asks'[j].by = asks[f[j]].by
  /\ \A j \in Places' \ Old : /\ asks'[j].by = "drill" => drill'.open
                              /\ ~ Mount(asks'[j])
                              /\ \A k \in Old : k < j
Traced == \E Old \in SUBSET Places' : \E f \in [Old -> Places] : TracedBy(Old, f)

LEMMA SentTraced ==
  ASSUME asks \in Seq(Asked), NEW a, asks' = Append(asks, a), a.by = "drill" => drill'.open, ~ Mount(a)
  PROVE  Traced
<1>. DEFINE f == [j \in Places |-> j]
<1>1. /\ Places' = Places \cup {Len(asks) + 1} /\ Len(asks) \in Nat
      /\ \A i \in Places : asks'[i] = asks[i]
      /\ asks'[Len(asks) + 1] = a
  BY Sent
<1>2. f \in [Places -> Places] /\ \A j \in Places : f[j] = j
  OBVIOUS
<1>3. \A j \in Places : j < Len(asks) + 1
  BY <1>1 DEF Places
<1>. HIDE DEF f
<1>4. TracedBy(Places, f)
  <2>1. \A j \in Places' \ Places : asks'[j] = a /\ \A k \in Places : k < j
    BY <1>1, <1>3
  <2>. QED  BY <1>1, <1>2, <2>1 DEF TracedBy
<1>5. Places \in SUBSET Places'
  BY <1>1
<1>. QED  BY <1>2, <1>4, <1>5 DEF Traced

LEMMA ForgottenTraced ==
  ASSUME asks \in Seq(Asked), NEW i \in Places, asks' = Sift!RemoveAt(asks, i)
  PROVE  Traced
<1>1. PICK f \in [Places' -> Places \ {i}] :
              /\ \A j \in Places' : asks'[j] = asks[f[j]]
              /\ \A j, k \in Places' : f[j] < f[k] <=> j < k
  BY Forgotten
<1>2. f \in [Places' -> Places]
  BY <1>1
<1>3. TracedBy(Places', f)
  BY <1>1 DEF TracedBy
<1>. QED  BY <1>2, <1>3 DEF Traced

LEMMA AlikeTraced ==
  ASSUME Places' = Places,
         \A j \in Places : /\ asks'[j].kind = asks[j].kind /\ asks'[j].why = asks[j].why
                           /\ asks'[j].by = asks[j].by
  PROVE  Traced
<1>. DEFINE f == [j \in Places |-> j]
<1>1. f \in [Places -> Places] /\ \A j \in Places : f[j] = j
  OBVIOUS
<1>. HIDE DEF f
<1>2. TracedBy(Places, f)
  BY <1>1 DEF TracedBy
<1>. QED  BY <1>1, <1>2 DEF Traced

LEMMA ShutStays ==
  ASSUME ScreenShut, Traced, drill'.open \/ drill' = drill
  PROVE  ScreenShut'
<1>1. SUFFICES ASSUME ~ drill'.open, NEW j \in Places'
               PROVE  drill' = Sift!Closed /\ asks'[j].by # "drill"
  BY DEF ScreenShut
<1>2. drill' = drill /\ drill = Sift!Closed /\ \A i \in Places : asks[i].by # "drill"
  BY <1>1 DEF ScreenShut
<1>3. PICK Old \in SUBSET Places' : \E f \in [Old -> Places] : TracedBy(Old, f)
  BY DEF Traced
<1>. QED  BY <1>1, <1>2, <1>3 DEF TracedBy

LEMMA MountsStay ==
  ASSUME MountsFirst, Traced,
         (\E i \in Places : Mount(asks[i])) =>
           /\ drill'.rows = drill.rows /\ drill'.undo = drill.undo /\ drill'.restored = drill.restored
           /\ Sift!Unticked(note.wish) = {} => Sift!Unticked(note'.wish) = {}
  PROVE  MountsFirst'
<1>1. SUFFICES ASSUME NEW i \in Places', Mount(asks'[i])
               PROVE  /\ drill'.rows = <<>> /\ drill'.undo = 0
                      /\ drill'.restored \/ Sift!Unticked(note'.wish) = {}
                      /\ \A j \in Places' : j < i => ~ OwnList(asks'[j])
  BY DEF MountsFirst, Sift!Unticked, Sift!Msgs
<1>2. PICK Old \in SUBSET Places' : \E f \in [Old -> Places] : TracedBy(Old, f)
  BY DEF Traced
<1>3. PICK f \in [Old -> Places] : TracedBy(Old, f)
  BY <1>2
<1>4. i \in Old /\ f[i] \in Places /\ Mount(asks[f[i]])
  BY <1>1, <1>3 DEF TracedBy, Mount, OwnList
<1>5. /\ drill.rows = <<>> /\ drill.undo = 0
      /\ drill.restored \/ Sift!Unticked(note.wish) = {}
      /\ \A j \in Places : j < f[i] => ~ OwnList(asks[j])
  BY <1>4 DEF MountsFirst
<1>6. ASSUME NEW j \in Places', j < i PROVE ~ OwnList(asks'[j])
  <2>1. j \in Old
    <3>1. \A k \in Places' : k \in Nat
      BY DEF Places
    <3>. QED  BY <1>3, <1>4, <1>6, <3>1 DEF TracedBy
  <2>. QED  BY <1>3, <1>4, <1>5, <1>6, <2>1 DEF TracedBy, OwnList
<1>. QED  BY <1>4, <1>5, <1>6

\* Showing stores the review as it is shown.
LEMMA ShowSaves ==
  ASSUME NEW d, NEW w, IsDrill(d), IsMode(d.mode), Sift!Show(d), note'.wish = w,
         saved = Sift!NoReview \/ IsMode(saved.mode),
         Sift!Unticked(w) \subseteq Sift!Unticked(d),
         d.loading => Sift!Unticked(w) \subseteq Stored(saved),
         d.exec = "done" => Sift!Unticked(w) = {}
  PROVE  Shows(drill, saved, note.wish)'
<1>1. drill' = d /\ saved' = Sift!Review(d)
  BY DEF Sift!Show
<1>2. /\ saved' = Sift!NoReview \/ IsMode(saved'.mode)
      /\ Sift!Unticked(w) \subseteq Stored(saved')
  <2>1. CASE d.loading
    BY <1>1, <2>1 DEF Sift!Review
  <2>2. CASE ~ d.loading /\ (d.exec = "done" \/ (d.mode = "all" /\ d.off = {} /\ d.q = "any"))
    <3>1. saved' = Sift!NoReview
      BY <1>1, <2>2 DEF Sift!Review
    <3>2. Sift!Unticked(w) = {}
      BY <2>2 DEF Sift!Unticked
    <3>. QED  BY <3>1, <3>2
  <2>3. CASE ~ d.loading /\ ~ (d.exec = "done" \/ (d.mode = "all" /\ d.off = {} /\ d.q = "any"))
    <3>1. saved' = [q |-> d.q, mode |-> d.mode, off |-> d.off, on |-> d.on]
      BY <1>1, <2>3 DEF Sift!Review
    <3>2. IsMode(saved'.mode) /\ Stored(saved') = Sift!Unticked(d)
      BY <3>1 DEF IsMode, Stored, Sift!Unticked
    <3>. QED  BY <3>2
  <2>. QED  BY <2>1, <2>2, <2>3
<1>3. Shows(d, saved', w)
  BY <1>2 DEF Shows
<1>. QED  BY <1>1, <1>3 DEF Shows, IsDrill, IsMode, Stored, Sift!Unticked, Sift!NoReview, Sift!Msgs

\* The notes of bounds and history go on, now with the wish w.
NoteStays(w) == IsNote' /\ note'.shield = note.shield /\ note'.last = note.last /\ note'.wish = w

LEMMA NoteMoves ==
  ASSUME IsNote, NEW w, NEW n
  PROVE  /\ note' = note => NoteStays(note.wish)
         /\ note' = [note EXCEPT !.wish = w] => NoteStays(w)
         /\ note' = [note EXCEPT !.runs = n] => NoteStays(note.wish)
         /\ note' = [note EXCEPT !.stirs = n] => NoteStays(note.wish)
         /\ note' = [note EXCEPT !.wish = w, !.stirs = n] => NoteStays(w)
BY DEF IsNote, NoteStays

LEMMA SparedStays == ASSUME Sift!MarkedIsSpared, note'.last = note.last PROVE Sift!MarkedIsSpared'
BY DEF Sift!MarkedIsSpared

LEMMA ListRequest ==
  ASSUME NEW q, NEW offset, NEW why, NEW a, a = Sift!List(q, offset, why),
         offset # 0 \/ why \in {"mount", "change"}
  PROVE  /\ Request(a) /\ ~ a.served /\ a.kind = "list" /\ a.by = "drill" /\ a.why = why
BY DEF Sift!List, Sift!Ask, Request, IsRequest, RunSpares, LoadsAnew

LEMMA RunRequest ==
  ASSUME NEW by, NEW scope, NEW unticked, NEW bound, NEW a, a = Sift!Run(by, scope, unticked, bound),
         \A m \in unticked : m \in scope.except \/ (~ scope.all /\ m \notin scope.ids)
  PROVE  /\ Request(a) /\ ~ a.served /\ a.kind = "run" /\ a.by = by
<1>1. a = [kind |-> "run", by |-> by, served |-> FALSE, q |-> "any", offset |-> 0, why |-> "mount",
           sheet |-> [rows |-> <<>>, total |-> 0, more |-> FALSE], msg |-> 0, keep |-> TRUE,
           stands |-> TRUE, scope |-> scope, unticked |-> unticked, bound |-> bound]
  BY DEF Sift!Run, Sift!Ask
<1>. QED  BY <1>1 DEF Request, IsRequest, RunSpares, LoadsAnew

\* The screen goes on with the same ticks.
LEMMA ScreenGoesOn ==
  ASSUME ReviewInv, Traced, note'.wish = note.wish, drill.open,
         NEW d, IsDrill(d), Sift!Show(d), d.open, d.mode = drill.mode, d.off = drill.off, d.on = drill.on,
         d.exec = "done" => drill.exec = "done",
         (\E i \in Places : Mount(asks[i])) =>
           d.rows = drill.rows /\ d.undo = drill.undo /\ d.restored = drill.restored
  PROVE  ScreenInv'
<1>1. drill' = d
  BY DEF Sift!Show
<1>2. Shows(drill, saved, note.wish)'
  <2>1. /\ IsMode(d.mode) /\ (saved = Sift!NoReview \/ IsMode(saved.mode))
        /\ Sift!Unticked(note.wish) \subseteq Sift!Unticked(d)
        /\ Sift!Unticked(note.wish) \subseteq Stored(saved)
        /\ d.exec = "done" => Sift!Unticked(note.wish) = {}
    BY DEF ReviewInv, ScreenInv, Shows, Sift!Unticked
  <2>. QED  BY <1>1, <2>1, ShowSaves
<1>3. ScreenShut'
  BY <1>1, ShutStays DEF ReviewInv, ScreenInv
<1>4. MountsFirst'
  BY <1>1, MountsStay DEF ReviewInv, ScreenInv
<1>. QED  BY <1>2, <1>3, <1>4 DEF ScreenInv

\* The user ticks, on a list of some rows.
LEMMA ScreenTicked ==
  ASSUME ReviewInv, Traced, drill.rows # <<>>,
         NEW d, IsDrill(d), Sift!Show(d), d.open, IsMode(d.mode), ~ d.loading, d.exec = "idle",
         note'.wish = Sift!Ticks(d)
  PROVE  ScreenInv'
<1>1. drill' = d
  BY DEF Sift!Show
<1>2. Shows(drill, saved, note.wish)'
  <2>1. Sift!Unticked(Sift!Ticks(d)) = Sift!Unticked(d)
    BY DEF Sift!Unticked, Sift!Ticks
  <2>2. saved = Sift!NoReview \/ IsMode(saved.mode)
    BY DEF ReviewInv, ScreenInv, Shows
  <2>. QED  BY <2>1, <2>2, ShowSaves
<1>3. ScreenShut'
  BY <1>1, ShutStays DEF ReviewInv, ScreenInv
<1>4. ~ \E i \in Places : Mount(asks[i])
  BY DEF ReviewInv, ScreenInv, MountsFirst
<1>5. MountsFirst'
  BY <1>4, MountsStay DEF ReviewInv, ScreenInv
<1>. QED  BY <1>2, <1>3, <1>5 DEF ScreenInv

\* The screen is left alone.
LEMMA ScreenRests ==
  ASSUME ReviewInv, Traced, drill' = drill,
         \/ saved' = saved /\ note'.wish = note.wish
         \/ saved' = Sift!NoReview /\ note'.wish = Sift!AllTicked
  PROVE  ScreenInv'
<1>1. Sift!Unticked(Sift!AllTicked) = {} /\ Stored(Sift!NoReview) = {}
  BY DEF Sift!Unticked, Sift!AllTicked, Stored, Sift!NoReview
<1>2. Shows(drill, saved, note.wish)'
  <2>1. CASE saved' = saved /\ note'.wish = note.wish
    <3>1. Shows(drill, saved, note.wish)
      BY DEF ReviewInv, ScreenInv
    <3>. QED  BY <2>1, <3>1 DEF Shows, IsDrill, IsMode, Stored, Sift!Unticked, Sift!NoReview, Sift!Msgs
  <2>2. CASE saved' = Sift!NoReview /\ note'.wish = Sift!AllTicked
    <3>1. Shows(drill, Sift!NoReview, Sift!AllTicked)
      BY <1>1 DEF ReviewInv, ScreenInv, Shows
    <3>. QED  BY <2>2, <3>1
              DEF Shows, IsDrill, IsMode, Stored, Sift!Unticked, Sift!NoReview, Sift!AllTicked, Sift!Msgs
  <2>. QED  BY <2>1, <2>2
<1>3. ScreenShut'
  BY ShutStays DEF ReviewInv, ScreenInv
<1>4. MountsFirst'
  <2>1. Sift!Unticked(note.wish) = {} => Sift!Unticked(note'.wish) = {}
    BY <1>1
  <2>. QED  BY <2>1, MountsStay DEF ReviewInv, ScreenInv
<1>. QED  BY <1>2, <1>3, <1>4 DEF ScreenInv

\* The screen is shut: its requests are nobody's.
LEMMA ScreenShuts ==
  ASSUME ReviewInv, drill' = Sift!Closed, asks' = Sift!Orphans,
         \/ saved' = saved /\ note'.wish = note.wish
         \/ saved' = Sift!NoReview /\ note'.wish = Sift!AllTicked
  PROVE  ScreenInv'
<1>1. Sift!Unticked(Sift!AllTicked) = {} /\ Stored(Sift!NoReview) = {}
  BY DEF Sift!Unticked, Sift!AllTicked, Stored, Sift!NoReview
<1>2. Places' = Places /\ \A i \in Places : asks'[i].by = "nobody"
  <2>1. asks' \in [DOMAIN asks -> {[asks[i] EXCEPT !.by = "nobody"] : i \in DOMAIN asks}]
        /\ \A i \in DOMAIN asks : asks'[i] = [asks[i] EXCEPT !.by = "nobody"]
    BY DEF Sift!Orphans
  <2>2. Places' = Places /\ DOMAIN asks = Places
    BY <2>1, Retouched DEF ReviewInv, QueueInv
  <2>3. \A i \in Places : Request(asks[i])
    BY DEF ReviewInv, QueueInv
  <2>4. ASSUME NEW i \in Places PROVE asks'[i].by = "nobody"
    <3>1. asks'[i] = [asks[i] EXCEPT !.by = "nobody"] /\ Request(asks[i])
      BY <2>1, <2>2, <2>3
    <3>. QED  BY <3>1, Reowned
  <2>. QED  BY <2>2, <2>4
<1>3. ScreenShut' /\ MountsFirst'
  BY <1>2 DEF ScreenShut, MountsFirst, Mount, OwnList, Sift!Closed
<1>4. Shows(drill, saved, note.wish)'
  <2>1. Shows(drill, saved, note.wish)
    BY DEF ReviewInv, ScreenInv
  <2>2. IsDrill(Sift!Closed) /\ IsMode(Sift!Closed.mode) /\ ~ Sift!Closed.open /\ Sift!Closed.exec = "idle"
    BY DEF IsDrill, IsMode, Sift!Closed
  <2>3. \/ Shows(Sift!Closed, saved, note.wish) /\ saved' = saved /\ note'.wish = note.wish
        \/ Shows(Sift!Closed, Sift!NoReview, Sift!AllTicked) /\ saved' = Sift!NoReview /\ note'.wish = Sift!AllTicked
    BY <1>1, <2>1, <2>2 DEF Shows
  <2>. QED  BY <2>3 DEF Shows, IsDrill, IsMode, Stored, Sift!Unticked, Sift!NoReview, Sift!AllTicked,
                        Sift!Msgs, Sift!Closed
<1>. QED  BY <1>3, <1>4 DEF ScreenInv

\* The actions of the drill screen.
LEMMA OpenKeeps ==
  ASSUME ReviewInv, Sift!OpenDrill
  PROVE  ReviewInv'
<1>1. PICK a : a = Sift!List(saved.q, 0, "mount")
  OBVIOUS
<1>2. /\ Request(a) /\ ~ a.served /\ a.kind = "list" /\ asks' = Append(asks, a)
      /\ store' = store /\ saved' = saved /\ note' = note /\ ~ drill.open
  BY <1>1, ListRequest DEF Sift!OpenDrill, Sift!Asking
<1>3. NoteStays(note.wish) /\ IsStore' /\ store'.kept = store.kept
  BY <1>2, NoteMoves DEF ReviewInv, QueueInv, IsStore
<1>4. QueueInv'
  BY <1>2, <1>3, QueueSent DEF ReviewInv, NoteStays
<1>5. PICK mode : mode = IF saved = Sift!NoReview THEN "all" ELSE saved.mode
  OBVIOUS
<1>6. PICK b : b = (saved # Sift!NoReview)
  OBVIOUS
<1>7. drill' = [open |-> TRUE, q |-> saved.q, of |-> "any", rows |-> <<>>, total |-> 0, more |-> FALSE,
                loading |-> TRUE, paging |-> FALSE, restored |-> b,
                mode |-> mode, off |-> saved.off, on |-> saved.on, exec |-> "idle", undo |-> 0]
  BY <1>5, <1>6 DEF Sift!OpenDrill, Sift!Closed
<1>8. Shows(drill, saved, note.wish)
  BY DEF ReviewInv, ScreenInv
<1>9. IsMode(mode) /\ (~ b => Sift!Unticked(note.wish) = {}) /\ Sift!Unticked(note.wish) \subseteq Sift!Unticked(drill')
  <2>1. CASE saved = Sift!NoReview
    BY <1>5, <1>8, <2>1 DEF Shows, Stored, Sift!NoReview, IsMode
  <2>2. CASE saved # Sift!NoReview
    <3>1. mode = saved.mode /\ IsMode(saved.mode)
      BY <1>5, <1>8, <2>2 DEF Shows
    <3>2. Stored(saved) = Sift!Unticked(drill')
      BY <1>7, <3>1 DEF Stored, Sift!Unticked, IsMode
    <3>. QED  BY <1>6, <1>8, <2>2, <3>1, <3>2 DEF Shows
  <2>. QED  BY <2>1, <2>2
<1>10. Shows(drill', saved, note.wish)
  <2>1. IsDrill(drill') /\ drill'.exec = "idle" /\ drill'.mode = mode
    BY <1>7 DEF IsDrill
  <2>. QED  BY <1>8, <1>9, <2>1 DEF Shows
<1>11. Shows(drill, saved, note.wish)'
  BY <1>2, <1>10 DEF Shows, IsDrill, IsMode, Stored, Sift!Unticked, Sift!NoReview, Sift!Msgs
<1>12. ScreenShut'
  BY <1>7 DEF ScreenShut
<1>13. MountsFirst'
  <2>1. /\ Places' = Places \cup {Len(asks) + 1} /\ Len(asks) \in Nat
        /\ \A i \in Places : asks'[i] = asks[i]
    BY <1>2, Sent DEF ReviewInv, QueueInv
  <2>2. \A i \in Places : ~ OwnList(asks'[i])
    BY <1>2, <2>1 DEF ReviewInv, ScreenInv, ScreenShut, OwnList
  <2>3. \A i, j \in Places' : j < i => j \in Places
    BY <2>1 DEF Places
  <2>4. drill'.rows = <<>> /\ drill'.undo = 0 /\ (drill'.restored \/ Sift!Unticked(note.wish) = {})
    BY <1>7, <1>9
  <2>. QED  BY <1>2, <2>2, <2>3, <2>4 DEF MountsFirst, Mount, Sift!Unticked, Sift!Msgs
<1>14. Sift!MarkedIsSpared'
  BY <1>3, SparedStays DEF ReviewInv, NoteStays
<1>. QED  BY <1>4, <1>11, <1>12, <1>13, <1>14 DEF ReviewInv, ScreenInv

\* The screen sends a request and goes on with the same ticks.
LEMMA ScreenSends ==
  ASSUME ReviewInv, NEW a, Request(a), ~ a.served, a.kind = "keep" => a.keep, ~ Mount(a),
         asks' = Append(asks, a), store' = store, NoteStays(note.wish), drill.open,
         NEW d, IsDrill(d), Sift!Show(d), d.open, d.mode = drill.mode, d.off = drill.off, d.on = drill.on,
         d.exec = "done" => drill.exec = "done",
         d.rows = drill.rows, d.undo = drill.undo, d.restored = drill.restored
  PROVE  ReviewInv'
<1>1. QueueInv'
  BY QueueSent DEF ReviewInv, QueueInv, NoteStays, IsStore
<1>2. Traced
  BY SentTraced DEF ReviewInv, QueueInv, Sift!Show
<1>3. ScreenInv'
  BY <1>2, ScreenGoesOn DEF NoteStays
<1>. QED  BY <1>1, <1>3, SparedStays DEF ReviewInv, NoteStays

LEMMA ListsKeep ==
  ASSUME ReviewInv, Sift!LoadMore \/ \E q \in {"any", "hits"} : Sift!Filter(q)
  PROVE  ReviewInv'
<1>1. IsDrill(drill) /\ IsNote
  BY DEF ReviewInv, QueueInv, ScreenInv, Shows
<1>2. CASE Sift!LoadMore
  <2>1. PICK a : a = Sift!List(drill.q, Len(drill.rows), "more")
    OBVIOUS
  <2>2. /\ Len(drill.rows) # 0 /\ asks' = Append(asks, a)
        /\ store' = store /\ note' = note /\ drill.open
        /\ Sift!Show([drill EXCEPT !.paging = TRUE])
    BY <1>2, <2>1 DEF Sift!LoadMore, Sift!Asking
  <2>3. Request(a) /\ ~ a.served /\ a.kind = "list" /\ ~ Mount(a)
    BY <2>1, <2>2, ListRequest DEF Mount
  <2>4. NoteStays(note.wish)
    BY <1>1, <2>2, NoteMoves
  <2>5. PICK d : d = [drill EXCEPT !.paging = TRUE]
    OBVIOUS
  <2>6. /\ IsDrill(d) /\ d.open = drill.open /\ d.mode = drill.mode /\ d.off = drill.off /\ d.on = drill.on
        /\ d.exec = drill.exec /\ d.rows = drill.rows /\ d.undo = drill.undo /\ d.restored = drill.restored
    BY <1>1, <2>5 DEF IsDrill
  <2>7. Sift!Show(d)
    BY <2>2, <2>5
  <2>. QED  BY <2>2, <2>3, <2>4, <2>6, <2>7, ScreenSends
<1>3. ASSUME NEW q, Sift!Filter(q) PROVE ReviewInv'
  <2>1. PICK a : a = Sift!List(q, 0, "change")
    OBVIOUS
  <2>2. /\ asks' = Append(asks, a)
        /\ store' = store /\ note' = note /\ drill.open
        /\ Sift!Show([drill EXCEPT !.q = q, !.loading = TRUE])
    BY <1>3, <2>1 DEF Sift!Filter, Sift!Asking
  <2>3. Request(a) /\ ~ a.served /\ a.kind = "list" /\ ~ Mount(a)
    BY <2>1, <2>2, ListRequest DEF Mount
  <2>4. NoteStays(note.wish)
    BY <1>1, <2>2, NoteMoves
  <2>5. PICK d : d = [drill EXCEPT !.q = q, !.loading = TRUE]
    OBVIOUS
  <2>6. /\ IsDrill(d) /\ d.open = drill.open /\ d.mode = drill.mode /\ d.off = drill.off /\ d.on = drill.on
        /\ d.exec = drill.exec /\ d.rows = drill.rows /\ d.undo = drill.undo /\ d.restored = drill.restored
    BY <1>1, <2>5 DEF IsDrill
  <2>7. Sift!Show(d)
    BY <2>2, <2>5
  <2>. QED  BY <2>2, <2>3, <2>4, <2>6, <2>7, ScreenSends
<1>. QED  BY <1>2, <1>3

LEMMA TicksKeep ==
  ASSUME ReviewInv, Sift!SelectAll \/ \E m \in Sift!Msgs : Sift!Toggle(m)
  PROVE  ReviewInv'
<1>1. IsDrill(drill) /\ IsMode(drill.mode) /\ IsNote /\ IsStore
  BY DEF ReviewInv, QueueInv, ScreenInv, Shows
<1>2. \E d : /\ IsDrill(d) /\ d.open = drill.open /\ d.exec = drill.exec /\ d.loading = drill.loading
             /\ IsMode(d.mode) /\ Sift!Tick(d)
  <2>1. CASE Sift!SelectAll
    <3>1. PICK d : /\ Sift!Tick(d)
                   /\ d \in {[drill EXCEPT !.mode = "manual", !.on = {}], [drill EXCEPT !.mode = "all", !.off = {}]}
      BY <2>1 DEF Sift!SelectAll
    <3>2. /\ IsDrill(d) /\ d.open = drill.open /\ d.exec = drill.exec /\ d.loading = drill.loading
          /\ IsMode(d.mode)
      BY <1>1, <3>1 DEF IsDrill, IsMode
    <3>. QED  BY <3>1, <3>2
  <2>2. ASSUME NEW m, Sift!Toggle(m)
        PROVE  \E d : /\ IsDrill(d) /\ d.open = drill.open /\ d.exec = drill.exec /\ d.loading = drill.loading
                      /\ IsMode(d.mode) /\ Sift!Tick(d)
    <3>1. PICK S, T : S = Sift!Flip(drill.off, m) /\ T = Sift!Flip(drill.on, m)
      OBVIOUS
    <3>2. PICK d : Sift!Tick(d) /\ d \in {[drill EXCEPT !.off = S], [drill EXCEPT !.on = T]}
      BY <2>2, <3>1 DEF Sift!Toggle
    <3>3. /\ IsDrill(d) /\ d.open = drill.open /\ d.exec = drill.exec /\ d.loading = drill.loading
          /\ d.mode = drill.mode
      BY <1>1, <3>2 DEF IsDrill
    <3>. QED  BY <1>1, <3>2, <3>3
  <2>. QED  BY <2>1, <2>2
<1>3. PICK d : /\ IsDrill(d) /\ d.open = drill.open /\ d.exec = drill.exec /\ d.loading = drill.loading
               /\ IsMode(d.mode) /\ Sift!Tick(d)
  BY <1>2
<1>4. /\ drill.open /\ drill.exec = "idle" /\ ~ drill.loading /\ drill.rows # <<>>
      /\ store' = store /\ asks' = asks
  <2>1. Sift!Range(<<>>) = {}
    BY DEF Sift!Range
  <2>. QED  BY <2>1 DEF Sift!SelectAll, Sift!Toggle, Sift!Ready
<1>5. /\ Sift!Show(d) /\ NoteStays(Sift!Ticks(d))
  <2>1. Sift!Show(d) /\ note' = [note EXCEPT !.wish = Sift!Ticks(d)]
    BY <1>3 DEF Sift!Tick
  <2>. QED  BY <1>1, <2>1, NoteMoves
<1>6. QueueInv'
  BY <1>1, <1>4, <1>5, QueueKept DEF ReviewInv, NoteStays, IsStore
<1>7. Traced
  BY <1>4, AlikeTraced DEF Places
<1>8. ScreenInv'
  BY <1>3, <1>4, <1>5, <1>7, ScreenTicked DEF NoteStays
<1>. QED  BY <1>5, <1>6, <1>8, SparedStays DEF ReviewInv, NoteStays

LEMMA KeepsKeep ==
  ASSUME ReviewInv, NEW m \in Sift!Msgs, Sift!KeepMessage(m)
  PROVE  ReviewInv'
<1>1. IsDrill(drill) /\ IsMode(drill.mode) /\ IsNote /\ IsStore
  BY DEF ReviewInv, QueueInv, ScreenInv, Shows
<1>2. PICK a : a = [Sift!Ask EXCEPT !.kind = "keep", !.msg = m]
  OBVIOUS
<1>3. Request(a) /\ ~ a.served /\ a.kind = "keep" /\ a.keep /\ a.by = "drill"
  BY <1>2 DEF Sift!Ask, Request, IsRequest, RunSpares, LoadsAnew
<1>4. PICK rows, total, off, on : Sift!Tick([drill EXCEPT !.rows = rows, !.total = total, !.off = off,
                                                        !.on = on, !.undo = m])
  BY DEF Sift!KeepMessage
<1>5. PICK d : d = [drill EXCEPT !.rows = rows, !.total = total, !.off = off, !.on = on, !.undo = m]
  OBVIOUS
<1>6. /\ IsDrill(d) /\ d.open = drill.open /\ d.exec = drill.exec /\ d.loading = drill.loading
      /\ d.mode = drill.mode
  BY <1>1, <1>5 DEF IsDrill
<1>7. /\ drill.open /\ drill.exec = "idle" /\ ~ drill.loading /\ drill.rows # <<>>
      /\ store' = store /\ asks' = Append(asks, a)
  <2>1. Sift!Range(<<>>) = {}
    BY DEF Sift!Range
  <2>. QED  BY <1>2, <2>1 DEF Sift!KeepMessage, Sift!Ready, Sift!Asking
<1>8. Sift!Show(d) /\ NoteStays(Sift!Ticks(d))
  <2>1. Sift!Show(d) /\ note' = [note EXCEPT !.wish = Sift!Ticks(d)]
    BY <1>4, <1>5 DEF Sift!Tick
  <2>. QED  BY <1>1, <2>1, NoteMoves
<1>9. QueueInv'
  BY <1>1, <1>3, <1>7, <1>8, QueueSent DEF ReviewInv, NoteStays, IsStore
<1>10. Traced
  BY <1>3, <1>6, <1>7, <1>8, SentTraced DEF ReviewInv, QueueInv, Mount, OwnList, Sift!Show
<1>11. ScreenInv'
  BY <1>1, <1>6, <1>7, <1>8, <1>10, ScreenTicked DEF NoteStays
<1>. QED  BY <1>8, <1>9, <1>11, SparedStays DEF ReviewInv, NoteStays

LEMMA UndoKeeps ==
  ASSUME ReviewInv, Sift!UndoKeep
  PROVE  ReviewInv'
<1>. DEFINE m == drill.undo
<1>1. IsDrill(drill) /\ IsNote /\ IsStore
  BY DEF ReviewInv, QueueInv, ScreenInv, Shows
<1>2. PICK a : a = [Sift!Ask EXCEPT !.kind = "keep", !.msg = m, !.keep = FALSE]
  OBVIOUS
<1>3. Request(a) /\ ~ a.served /\ a.kind = "keep" /\ ~ a.keep /\ a.msg = m /\ a.by = "drill"
  BY <1>2 DEF Sift!Ask, Request, IsRequest, RunSpares, LoadsAnew
<1>4. PICK rows, total : Sift!Show([drill EXCEPT !.undo = 0, !.total = total, !.rows = rows])
  BY DEF Sift!UndoKeep
<1>5. PICK d : d = [drill EXCEPT !.undo = 0, !.total = total, !.rows = rows]
  OBVIOUS
<1>6. /\ IsDrill(d) /\ d.open = drill.open /\ d.exec = drill.exec
      /\ d.mode = drill.mode /\ d.off = drill.off /\ d.on = drill.on /\ Sift!Show(d)
  BY <1>1, <1>4, <1>5 DEF IsDrill
<1>7. /\ drill.undo # 0 /\ asks' = Append(Sift!Revoked(m), a) /\ store' = store
      /\ note' = [note EXCEPT !.shield = note.shield \ {m}]
  BY <1>2 DEF Sift!UndoKeep
<1>8. /\ IsNote' /\ note'.shield = note.shield \ {m} /\ note'.last = note.last /\ note'.wish = note.wish
  <2>1. PICK S : S = note.shield \ {m}
    OBVIOUS
  <2>2. note' = [note EXCEPT !.shield = S]
    BY <1>7, <2>1
  <2>. QED  BY <1>1, <2>1, <2>2 DEF IsNote
<1>9. drill.open /\ ~ \E i \in Places : Mount(asks[i])
  BY <1>7 DEF ReviewInv, ScreenInv, ScreenShut, MountsFirst, Sift!Closed
<1>10. /\ QueueInv' /\ Places' = Places \cup {Len(asks) + 1}
       /\ \A i \in Places : /\ asks'[i].by = asks[i].by /\ asks'[i].kind = asks[i].kind
                            /\ asks'[i].why = asks[i].why
       /\ asks'[Len(asks) + 1] = a
  BY <1>3, <1>7, <1>8, QueueReleased DEF ReviewInv
<1>11. Shows(drill, saved, note.wish)'
  <2>1. /\ IsMode(d.mode) /\ (saved = Sift!NoReview \/ IsMode(saved.mode))
        /\ Sift!Unticked(note.wish) \subseteq Sift!Unticked(d)
        /\ Sift!Unticked(note.wish) \subseteq Stored(saved)
        /\ d.exec = "done" => Sift!Unticked(note.wish) = {}
    BY <1>6, <1>9 DEF ReviewInv, ScreenInv, Shows, Sift!Unticked
  <2>. QED  BY <1>6, <1>8, <2>1, ShowSaves
<1>12. ScreenShut'
  BY <1>6, <1>9 DEF ScreenShut, Sift!Show
<1>13. MountsFirst'
  BY <1>3, <1>9, <1>10 DEF MountsFirst, Mount, OwnList
<1>. QED  BY <1>8, <1>10, <1>11, <1>12, <1>13, SparedStays DEF ReviewInv, ScreenInv

\* A request is over, and the screen may go on with the same ticks.
LEMMA EndsKeep ==
  ASSUME ReviewInv, NEW i \in DOMAIN asks,
         Sift!ListFails(i) \/ Sift!KeepArrives(i) \/ Sift!RunArrives(i) \/ Sift!RunFails(i)
  PROVE  ReviewInv'
<1>. DEFINE a == asks[i]
<1>1. /\ IsDrill(drill) /\ IsMode(drill.mode) /\ IsNote /\ IsStore
      /\ asks \in Seq(Asked) /\ i \in Places
  BY LenProperties DEF ReviewInv, QueueInv, ScreenInv, Shows, Places
<1>2. asks' = Sift!RemoveAt(asks, i) /\ store' = store
  BY DEF Sift!ListFails, Sift!KeepArrives, Sift!RunArrives, Sift!RunFails, Sift!Forget
<1>3. /\ IsNote' /\ note'.last = note.last /\ note'.wish = note.wish
      /\ \/ note'.shield = note.shield
         \/ Stands(a) /\ a.served /\ note'.shield = note.shield \cup {a.msg}
  <2>1. CASE Sift!KeepArrives(i)
    <3>1. PICK S : S = IF a.keep /\ a.stands THEN note.shield \cup {a.msg} ELSE note.shield
      OBVIOUS
    <3>2. note' = [note EXCEPT !.shield = S] /\ a.kind = "keep" /\ a.served
      BY <2>1, <3>1 DEF Sift!KeepArrives
    <3>3. IsNote' /\ note'.last = note.last /\ note'.wish = note.wish /\ note'.shield = S
      BY <1>1, <3>2 DEF IsNote
    <3>. QED  BY <3>1, <3>2, <3>3 DEF Stands
  <2>2. CASE ~ Sift!KeepArrives(i)
    <3>1. note' = note
      BY <2>2 DEF Sift!ListFails, Sift!RunArrives, Sift!RunFails
    <3>. QED  BY <1>1, <3>1 DEF IsNote
  <2>. QED  BY <2>1, <2>2
<1>4. QueueInv'
  BY <1>1, <1>2, <1>3, QueueForgot DEF ReviewInv
<1>5. Traced
  BY <1>1, <1>2, ForgottenTraced
<1>6. \/ drill' = drill /\ saved' = saved
      \/ /\ a.by = "drill"
         /\ \/ Sift!Show([drill EXCEPT !.loading = FALSE, !.paging = FALSE])
            \/ Sift!Show([drill EXCEPT !.exec = "moving"])
            \/ Sift!Show([drill EXCEPT !.exec = "error"])
  BY DEF Sift!ListFails, Sift!KeepArrives, Sift!RunArrives, Sift!RunFails
<1>7. ScreenInv'
  <2>1. CASE drill' = drill /\ saved' = saved
    BY <1>3, <1>5, <2>1, ScreenRests
  <2>2. CASE a.by = "drill" /\ ~ (drill' = drill /\ saved' = saved)
    <3>1. PICK d : /\ Sift!Show(d)
                   /\ \/ d = [drill EXCEPT !.loading = FALSE, !.paging = FALSE]
                      \/ d = [drill EXCEPT !.exec = "moving"]
                      \/ d = [drill EXCEPT !.exec = "error"]
      BY <1>6, <2>2
    <3>2. /\ IsDrill(d) /\ d.open = drill.open /\ d.mode = drill.mode /\ d.off = drill.off /\ d.on = drill.on
          /\ d.exec = "done" => drill.exec = "done"
          /\ d.rows = drill.rows /\ d.undo = drill.undo /\ d.restored = drill.restored
      BY <1>1, <3>1 DEF IsDrill
    <3>3. drill.open
      BY <1>1, <2>2 DEF ReviewInv, ScreenInv, ScreenShut
    <3>. QED  BY <1>3, <1>5, <3>1, <3>2, <3>3, ScreenGoesOn
  <2>. QED  BY <1>6, <2>1, <2>2
<1>. QED  BY <1>3, <1>4, <1>7, SparedStays DEF ReviewInv

\* The list comes: the first after the review was taken up again leaves the ticks, and no
\* other is loaded anew but by a filter, which starts a new review.
LEMMA ListArrivesKeeps ==
  ASSUME ReviewInv, "order" \notin Faults, NEW i \in DOMAIN asks, Sift!ListArrives(i)
  PROVE  ReviewInv'
<1>. DEFINE a == asks[i]
<1>1. /\ IsDrill(drill) /\ IsMode(drill.mode) /\ IsNote /\ IsStore
      /\ asks \in Seq(Asked) /\ i \in Places /\ Request(a)
  BY LenProperties DEF ReviewInv, QueueInv, ScreenInv, Shows, Places
<1>2. asks' = Sift!RemoveAt(asks, i) /\ store' = store /\ a.kind = "list"
  BY DEF Sift!ListArrives, Sift!Forget
<1>3. Traced
  BY <1>1, <1>2, ForgottenTraced
<1>4. CASE a.by = "nobody" /\ UNCHANGED <<drill, saved, note>>
  <2>1. QueueInv'
    BY <1>1, <1>2, <1>4, QueueForgot DEF ReviewInv, IsNote
  <2>2. ScreenInv'
    BY <1>3, <1>4, ScreenRests
  <2>. QED  BY <1>4, <2>1, <2>2, SparedStays DEF ReviewInv
<1>5. CASE a.by = "drill"
  <2>1. PICK w : w = IF a.why = "change" THEN Sift!AllTicked ELSE note.wish
    OBVIOUS
  <2>2. NoteStays(w)
    <3>1. note' = [note EXCEPT !.wish = w]
      BY <1>5, <2>1 DEF Sift!ListArrives
    <3>. QED  BY <1>1, <3>1, NoteMoves
  <2>3. QueueInv'
    BY <1>1, <1>2, <2>2, QueueForgot DEF ReviewInv, NoteStays
  <2>4. /\ Sift!Unticked(w) = {} \/ w = note.wish
        /\ a.why = "change" => Sift!Unticked(w) = {}
    BY <2>1 DEF Sift!Unticked, Sift!AllTicked
  <2>5. \A k \in Places \ {i} : ~ Mount(asks[k])
    <3>1. \A j \in 1..i - 1 : asks[j].kind # "list"
      BY DEF Sift!ListArrives, Sift!FirstList
    <3>2. ASSUME NEW k \in Places \ {i}, Mount(asks[k]) PROVE FALSE
      <4>1. k < i => k \in 1..i - 1
        BY <1>1 DEF Places
      <4>2. ~ (k < i)
        BY <3>1, <3>2, <4>1 DEF Mount, OwnList
      <4>3. i < k
        BY <1>1, <4>2 DEF Places
      <4>. QED  BY <1>1, <1>2, <1>5, <3>2, <4>3 DEF ReviewInv, ScreenInv, MountsFirst, OwnList
    <3>. QED  BY <3>2
  <2>6. Mount(a) => drill.restored \/ Sift!Unticked(note.wish) = {}
    BY <1>1 DEF ReviewInv, ScreenInv, MountsFirst
  <2>7. drill.open
    BY <1>1, <1>5 DEF ReviewInv, ScreenInv, ScreenShut
  <2>8. /\ Shows(drill, saved, note.wish)
    BY DEF ReviewInv, ScreenInv
  <2>9. PICK d : /\ Sift!Show(d) /\ IsDrill(d) /\ IsMode(d.mode) /\ d.open /\ ~ d.loading
                 /\ d.exec = drill.exec
                 /\ \/ d.mode = drill.mode /\ d.off = drill.off /\ d.on = drill.on
                    \/ a.offset = 0 /\ ~ drill.restored
    <3>1. PICK e : e = [drill EXCEPT !.total = a.sheet.total, !.more = a.sheet.more,
                                     !.loading = FALSE, !.paging = FALSE]
      OBVIOUS
    <3>2. /\ IsDrill(e) /\ e.mode = drill.mode /\ e.off = drill.off /\ e.on = drill.on /\ e.open = drill.open
          /\ e.exec = drill.exec /\ e.restored = drill.restored /\ ~ e.loading
      BY <1>1, <3>1 DEF IsDrill
    <3>3. CASE a.offset = 0
      <4>1. PICK g : g = [e EXCEPT !.rows = a.sheet.rows, !.of = a.q]
        OBVIOUS
      <4>2. /\ IsDrill(g) /\ g.mode = drill.mode /\ g.off = drill.off /\ g.on = drill.on /\ g.open = drill.open
            /\ g.exec = drill.exec /\ g.restored = drill.restored /\ ~ g.loading
        BY <3>2, <4>1 DEF IsDrill
      <4>3. Sift!Show(Sift!Fresh(g))
        BY <1>5, <3>1, <3>3, <4>1 DEF Sift!ListArrives
      <4>4. CASE g.restored
        <5>1. PICK d : d = [g EXCEPT !.restored = FALSE]
          OBVIOUS
        <5>2. /\ IsDrill(d) /\ d.mode = drill.mode /\ d.off = drill.off /\ d.on = drill.on /\ d.open = drill.open
              /\ d.exec = drill.exec /\ ~ d.loading
          BY <4>2, <5>1 DEF IsDrill
        <5>3. Sift!Show(d)
          BY <4>3, <4>4, <5>1 DEF Sift!Fresh
        <5>. QED  BY <1>1, <2>7, <5>2, <5>3
      <4>5. CASE ~ g.restored
        <5>1. PICK d : d = [g EXCEPT !.mode = "all", !.off = {}, !.on = {}]
          OBVIOUS
        <5>2. IsDrill(d) /\ IsMode(d.mode) /\ d.open = drill.open /\ d.exec = drill.exec /\ ~ d.loading
          BY <4>2, <5>1 DEF IsDrill, IsMode
        <5>3. Sift!Show(d)
          BY <4>3, <4>5, <5>1 DEF Sift!Fresh
        <5>. QED  BY <2>7, <3>3, <4>2, <4>5, <5>2, <5>3
      <4>. QED  BY <4>4, <4>5
    <3>4. CASE a.offset # 0
      <4>1. PICK rows : rows = e.rows \o a.sheet.rows
        OBVIOUS
      <4>2. PICK d : d = [e EXCEPT !.rows = rows]
        OBVIOUS
      <4>3. /\ IsDrill(d) /\ d.mode = drill.mode /\ d.off = drill.off /\ d.on = drill.on /\ d.open = drill.open
            /\ d.exec = drill.exec /\ ~ d.loading
        BY <3>2, <4>2 DEF IsDrill
      <4>4. Sift!Show(d)
        BY <1>5, <3>1, <3>4, <4>1, <4>2 DEF Sift!ListArrives
      <4>. QED  BY <1>1, <2>7, <4>3, <4>4
    <3>. QED  BY <3>3, <3>4
  <2>10. a.offset = 0 /\ ~ drill.restored => Sift!Unticked(w) = {}
    BY <1>1, <1>2, <1>5, <2>4, <2>6 DEF Request, LoadsAnew, Mount, OwnList
  <2>11. Shows(drill, saved, note.wish)'
    <3>1. Sift!Unticked(w) \subseteq Sift!Unticked(drill)
      BY <2>4, <2>7, <2>8 DEF Shows
    <3>2. Sift!Unticked(w) \subseteq Sift!Unticked(d)
      BY <2>9, <2>10, <3>1 DEF Sift!Unticked
    <3>3. /\ saved = Sift!NoReview \/ IsMode(saved.mode)
          /\ d.exec = "done" => Sift!Unticked(w) = {}
      BY <2>4, <2>8, <2>9 DEF Shows
    <3>4. note'.wish = w
      BY <2>2 DEF NoteStays
    <3>. QED  BY <2>9, <3>2, <3>3, <3>4, ShowSaves
  <2>12. ScreenShut'
    BY <2>9 DEF ScreenShut, Sift!Show
  <2>13. MountsFirst'
    <3>1. PICK f \in [Places' -> Places \ {i}] : \A j \in Places' : asks'[j] = asks[f[j]]
      BY <1>1, <1>2, Forgotten
    <3>2. \A j \in Places' : ~ Mount(asks'[j])
      BY <2>5, <3>1
    <3>. QED  BY <3>2 DEF MountsFirst
  <2>. QED  BY <2>2, <2>3, <2>11, <2>12, <2>13, SparedStays DEF ReviewInv, ScreenInv, NoteStays
<1>. QED  BY <1>4, <1>5 DEF Sift!ListArrives

\* The runs are sent with what is unticked on the screen, or in the stored review.
LEMMA RunsKeep ==
  ASSUME ReviewInv, Sift!RunTrash \/ Sift!TrashSelected \/ Sift!MoveAll
  PROVE  ReviewInv'
<1>1. /\ IsDrill(drill) /\ IsMode(drill.mode) /\ IsNote /\ IsStore /\ asks \in Seq(Asked)
      /\ Shows(drill, saved, note.wish)
  BY DEF ReviewInv, QueueInv, ScreenInv, Shows
<1>2. NoteStays(note.wish)
  <2>1. PICK n : n = note.runs + 1
    OBVIOUS
  <2>2. note' = [note EXCEPT !.runs = n]
    BY <2>1 DEF Sift!RunTrash, Sift!TrashSelected, Sift!MoveAll, Sift!Counted
  <2>. QED  BY <1>1, <2>2, NoteMoves
<1>3. CASE Sift!RunTrash
  <2>1. PICK bound : Sift!Asking(Sift!Run("drill", Sift!Scope(drill), Sift!Unticked(note.wish), bound))
    BY <1>3 DEF Sift!RunTrash
  <2>2. PICK a : a = Sift!Run("drill", Sift!Scope(drill), Sift!Unticked(note.wish), bound)
    OBVIOUS
  <2>3. PICK d : d = [drill EXCEPT !.exec = "running"]
    OBVIOUS
  <2>4. asks' = Append(asks, a) /\ store' = store /\ drill.open /\ Sift!Show(d)
    BY <1>3, <2>1, <2>2, <2>3 DEF Sift!RunTrash, Sift!Asking
  <2>5. /\ IsDrill(d) /\ d.open = drill.open /\ d.mode = drill.mode /\ d.off = drill.off /\ d.on = drill.on
        /\ d.exec = "running" /\ d.rows = drill.rows /\ d.undo = drill.undo /\ d.restored = drill.restored
    BY <1>1, <2>3 DEF IsDrill
  <2>6. PICK scope : scope = Sift!Scope(drill)
    OBVIOUS
  <2>7. \A m \in Sift!Unticked(note.wish) : m \in scope.except \/ (~ scope.all /\ m \notin scope.ids)
    <3>1. SUFFICES ASSUME NEW m \in Sift!Unticked(drill)
                   PROVE  m \in scope.except \/ (~ scope.all /\ m \notin scope.ids)
      BY <1>1, <2>4 DEF Shows
    <3>2. ~ Sift!Checked(drill, m)
      BY <1>1 DEF Sift!Unticked, Sift!Checked, IsMode
    <3>3. CASE Sift!Express(drill)
      <4>1. scope.except = drill.off /\ m \in drill.off
        BY <2>6, <3>3 DEF Sift!Scope, Sift!Whole, Sift!Express, Sift!Unticked
      <4>. QED  BY <4>1
    <3>4. CASE ~ Sift!Express(drill)
      <4>1. scope = [all |-> FALSE, ids |-> Sift!Picked(drill), except |-> {}]
        BY <2>6, <3>4 DEF Sift!Scope
      <4>. QED  BY <3>2, <4>1 DEF Sift!Picked
    <3>. QED  BY <3>3, <3>4
  <2>8. Request(a) /\ ~ a.served /\ a.kind = "run"
    BY <2>2, <2>6, <2>7, RunRequest
  <2>. QED  BY <1>2, <2>4, <2>5, <2>8, ScreenSends DEF Mount, OwnList
<1>4. CASE Sift!TrashSelected \/ Sift!MoveAll
  <2>1. PICK scope, unticked :
              /\ Sift!Asking(Sift!Run("card", scope, unticked, Sift!Msgs))
              /\ \/ scope = Sift!SenderScope /\ unticked = Sift!Unticked(note.wish)
                 \/ unticked = {}
    BY <1>4 DEF Sift!TrashSelected, Sift!MoveAll
  <2>2. PICK a : a = Sift!Run("card", scope, unticked, Sift!Msgs)
    OBVIOUS
  <2>3. /\ asks' = Append(asks, a) /\ store' = store /\ drill' = drill /\ saved' = saved
    BY <1>4, <2>1, <2>2 DEF Sift!TrashSelected, Sift!MoveAll, Sift!Asking
  <2>4. \A m \in unticked : m \in scope.except \/ (~ scope.all /\ m \notin scope.ids)
    <3>1. SUFFICES ASSUME scope = Sift!SenderScope, NEW m \in Stored(saved)
                   PROVE  m \in scope.except \/ (~ scope.all /\ m \notin scope.ids)
      BY <1>1, <2>1 DEF Shows
    <3>2. IsMode(saved.mode)
      BY <1>1, <3>1 DEF Shows, Stored, Sift!NoReview
    <3>3. CASE saved.mode = "manual"
      <4>1. scope = [all |-> FALSE, ids |-> saved.on, except |-> {}] /\ m \notin saved.on
        BY <3>1, <3>3 DEF Sift!SenderScope, Stored, Sift!Unticked
      <4>. QED  BY <4>1
    <3>4. CASE saved.mode = "all"
      <4>1. scope = [Sift!Whole EXCEPT !.except = saved.off] /\ m \in saved.off
        BY <3>1, <3>4 DEF Sift!SenderScope, Stored, Sift!Unticked
      <4>. QED  BY <4>1 DEF Sift!Whole
    <3>. QED  BY <3>2, <3>3, <3>4 DEF IsMode
  <2>5. Request(a) /\ ~ a.served /\ a.kind = "run" /\ a.by = "card"
    BY <2>2, <2>4, RunRequest
  <2>6. QueueInv'
    BY <1>1, <1>2, <2>3, <2>5, QueueSent DEF ReviewInv, NoteStays, IsStore
  <2>7. Traced
    BY <1>1, <2>3, <2>5, SentTraced DEF Mount, OwnList
  <2>8. ScreenInv'
    BY <1>2, <2>3, <2>7, ScreenRests DEF NoteStays
  <2>. QED  BY <1>2, <2>6, <2>8, SparedStays DEF ReviewInv, NoteStays
<1>. QED  BY <1>3, <1>4

\* Runs drain, reviews are cleared, screens are left.
LEMMA ClosingsKeep ==
  ASSUME ReviewInv,
         \/ Sift!DrillDone \/ Sift!CardDone \/ Sift!ClearReview \/ Sift!LeaveDrill \/ Sift!Protect
  PROVE  ReviewInv'
<1>1. IsDrill(drill) /\ IsMode(drill.mode) /\ IsNote /\ IsStore /\ Sift!Unticked(Sift!AllTicked) = {}
  BY DEF ReviewInv, QueueInv, ScreenInv, Shows, Sift!Unticked, Sift!AllTicked
<1>2. NoteStays(note'.wish)
      /\ (note'.wish = note.wish \/ note'.wish = Sift!AllTicked)
  <2>1. PICK n : n = note.stirs + 1
    OBVIOUS
  <2>2. PICK w : w = Sift!AllTicked
    OBVIOUS
  <2>3. note' = note \/ note' = [note EXCEPT !.wish = w] \/ note' = [note EXCEPT !.wish = w, !.stirs = n]
    <3>1. Sift!Protect => note' = [note EXCEPT !.wish = w, !.stirs = n]
      <4>1. [note EXCEPT !.wish = w].stirs = note.stirs
        BY <1>1 DEF IsNote
      <4>2. Sift!Protect => note' = [[note EXCEPT !.wish = w] EXCEPT !.stirs = n]
        BY <2>1, <2>2, <4>1 DEF Sift!Protect, Sift!Stirred
      <4>. QED  BY <1>1, <4>2 DEF IsNote
    <3>2. ~ Sift!Protect => note' = note \/ note' = [note EXCEPT !.wish = w]
      BY <2>2 DEF Sift!DrillDone, Sift!CardDone, Sift!ClearReview, Sift!LeaveDrill
    <3>. QED  BY <3>1, <3>2
  <2>4. NoteStays(note.wish) \/ NoteStays(w)
    BY <1>1, <2>3, NoteMoves
  <2>. QED  BY <2>2, <2>4 DEF NoteStays
<1>3. IsStore' /\ store'.kept = store.kept
  <2>1. store' = store \/ store' = [store EXCEPT !.protected = TRUE]
    BY DEF Sift!DrillDone, Sift!CardDone, Sift!ClearReview, Sift!LeaveDrill, Sift!Protect
  <2>. QED  BY <1>1, <2>1 DEF IsStore
<1>4. QueueInv'
  <2>1. asks' = asks \/ asks' = Sift!Orphans
    BY DEF Sift!DrillDone, Sift!CardDone, Sift!ClearReview, Sift!LeaveDrill, Sift!Protect
  <2>. QED  BY <1>2, <1>3, <2>1, QueueKept DEF ReviewInv, NoteStays
<1>5. CASE Sift!DrillDone
  <2>1. PICK d : d = [drill EXCEPT !.exec = "done"]
    OBVIOUS
  <2>2. /\ IsDrill(d) /\ d.open = drill.open /\ d.mode = drill.mode /\ d.exec = "done"
        /\ d.rows = drill.rows /\ d.undo = drill.undo /\ d.restored = drill.restored
    BY <1>1, <2>1 DEF IsDrill
  <2>3. Sift!Show(d) /\ drill.exec = "moving" /\ asks' = asks /\ note'.wish = Sift!AllTicked
    <3>1. note' = [note EXCEPT !.wish = Sift!AllTicked]
      BY <1>5 DEF Sift!DrillDone
    <3>. QED  BY <1>1, <1>5, <2>1, <3>1 DEF Sift!DrillDone, IsNote
  <2>4. drill.open
    BY <2>3 DEF ReviewInv, ScreenInv, ScreenShut, Sift!Closed
  <2>5. Traced
    BY <2>3, AlikeTraced DEF Places
  <2>6. Shows(drill, saved, note.wish)'
    <3>1. saved = Sift!NoReview \/ IsMode(saved.mode)
      BY DEF ReviewInv, ScreenInv, Shows
    <3>. QED  BY <1>1, <2>2, <2>3, <3>1, ShowSaves
  <2>7. ScreenShut'
    BY <2>2, <2>3, <2>4 DEF ScreenShut, Sift!Show
  <2>8. MountsFirst'
    BY <1>1, <2>2, <2>3, <2>5, MountsStay DEF ReviewInv, ScreenInv, Sift!Show
  <2>. QED  BY <1>2, <1>4, <2>6, <2>7, <2>8, SparedStays DEF ReviewInv, ScreenInv, NoteStays
<1>6. CASE Sift!CardDone \/ Sift!ClearReview
  <2>1. /\ asks' = asks /\ drill' = drill
        /\ \/ saved' = saved /\ note' = note
           \/ saved' = Sift!NoReview /\ note' = [note EXCEPT !.wish = Sift!AllTicked]
    BY <1>6 DEF Sift!CardDone, Sift!ClearReview
  <2>2. \/ saved' = saved /\ note'.wish = note.wish
        \/ saved' = Sift!NoReview /\ note'.wish = Sift!AllTicked
    BY <1>1, <2>1 DEF IsNote
  <2>3. Traced
    BY <2>1, AlikeTraced DEF Places
  <2>4. ScreenInv'
    BY <2>1, <2>2, <2>3, ScreenRests
  <2>. QED  BY <1>2, <1>4, <2>4, SparedStays DEF ReviewInv, NoteStays
<1>7. CASE Sift!LeaveDrill \/ Sift!Protect
  <2>1. \/ saved' = saved /\ note'.wish = note.wish
        \/ saved' = Sift!NoReview /\ note'.wish = Sift!AllTicked
    <3>1. CASE Sift!LeaveDrill
      BY <3>1 DEF Sift!LeaveDrill
    <3>2. CASE Sift!Protect
      <4>1. note' = [[note EXCEPT !.wish = Sift!AllTicked] EXCEPT
                      !.stirs = [note EXCEPT !.wish = Sift!AllTicked].stirs + 1]
        BY <3>2 DEF Sift!Protect, Sift!Stirred
      <4>2. note'.wish = Sift!AllTicked
        BY <1>1, <4>1 DEF IsNote
      <4>. QED  BY <3>2, <4>2 DEF Sift!Protect
    <3>. QED  BY <1>7, <3>1, <3>2
  <2>2. drill' = Sift!Closed /\ asks' = Sift!Orphans
    BY <1>7 DEF Sift!LeaveDrill, Sift!Protect
  <2>3. ScreenInv'
    BY <2>1, <2>2, ScreenShuts
  <2>. QED  BY <1>2, <1>4, <2>3, SparedStays DEF ReviewInv, NoteStays
<1>. QED  BY <1>5, <1>6, <1>7

\* Mail comes and goes, senders are protected and messages kept elsewhere.
LEMMA ElsewhereKeeps ==
  ASSUME ReviewInv,
         \/ Sift!Arrive \/ Sift!ProtectedElsewhere
         \/ \E m \in Sift!Msgs : Sift!QueueMoves(m) \/ Sift!QueueGivesUp(m) \/ Sift!KeptElsewhere(m)
  PROVE  ReviewInv'
<1>1. IsNote /\ IsStore
  BY DEF ReviewInv, QueueInv
<1>2. drill' = drill /\ saved' = saved
  BY DEF Sift!Arrive, Sift!ProtectedElsewhere, Sift!QueueMoves, Sift!QueueGivesUp, Sift!KeptElsewhere
<1>3. CASE \/ Sift!Arrive \/ Sift!ProtectedElsewhere
           \/ \E m \in Sift!Msgs : Sift!QueueMoves(m) \/ Sift!QueueGivesUp(m)
  <2>1. asks' = asks
    BY <1>3 DEF Sift!Arrive, Sift!ProtectedElsewhere, Sift!QueueMoves, Sift!QueueGivesUp
  <2>2. NoteStays(note.wish)
    <3>1. PICK n : n = note.stirs + 1
      OBVIOUS
    <3>2. note' = note \/ note' = [note EXCEPT !.stirs = n]
      BY <1>3, <3>1 DEF Sift!Arrive, Sift!ProtectedElsewhere, Sift!QueueMoves, Sift!QueueGivesUp, Sift!Stirred
    <3>. QED  BY <1>1, <3>2, NoteMoves
  <2>3. IsStore' /\ store'.kept = store.kept
    <3>1. \E here, live, queue :
            \/ store' = [store EXCEPT !.here = here, !.live = live]
            \/ store' = [store EXCEPT !.protected = TRUE]
            \/ store' = [store EXCEPT !.queue = queue]
            \/ store' = [store EXCEPT !.queue = queue, !.live = live]
      BY <1>3 DEF Sift!Arrive, Sift!ProtectedElsewhere, Sift!QueueMoves, Sift!QueueGivesUp
    <3>. QED  BY <1>1, <3>1 DEF IsStore
  <2>4. QueueInv'
    BY <2>1, <2>2, <2>3, QueueKept DEF ReviewInv, NoteStays
  <2>5. ScreenInv'
    BY <1>2, <2>1, <2>2, AlikeTraced, ScreenRests DEF Places, NoteStays
  <2>. QED  BY <2>2, <2>4, <2>5, SparedStays DEF ReviewInv, NoteStays
<1>4. ASSUME NEW m, Sift!KeptElsewhere(m) PROVE ReviewInv'
  <2>1. asks' = Sift!Revoked(m)
    BY <1>4 DEF Sift!KeptElsewhere
  <2>2. IsStore' /\ store'.kept = Sift!Flip(store.kept, m)
    <3>1. PICK K : K = Sift!Flip(store.kept, m)
      OBVIOUS
    <3>2. store' = [store EXCEPT !.kept = K]
      BY <1>4, <3>1 DEF Sift!KeptElsewhere
    <3>. QED  BY <1>1, <3>1, <3>2 DEF IsStore
  <2>3. IsNote' /\ note'.shield = note.shield \ {m} /\ note'.last = note.last /\ note'.wish = note.wish
    <3>1. PICK S : S = note.shield \ {m}
      OBVIOUS
    <3>2. PICK n : n = [note EXCEPT !.shield = S].stirs + 1
      OBVIOUS
    <3>3. note' = [[note EXCEPT !.shield = S] EXCEPT !.stirs = n]
      BY <1>4, <3>1, <3>2 DEF Sift!KeptElsewhere, Sift!Stirred
    <3>. QED  BY <1>1, <3>1, <3>3 DEF IsNote
  <2>4. \A k \in store.kept \ {m} : k \in store'.kept
    BY <2>2 DEF Sift!Flip
  <2>5. QueueInv'
    BY <2>1, <2>2, <2>3, <2>4, QueueRevoked DEF ReviewInv
  <2>6. Traced
    <3>1. TakenBack(m, asks')
      BY <2>1, RevokedFacts DEF ReviewInv
    <3>. QED  BY <3>1, AlikeTraced DEF TakenBack, Places
  <2>7. ScreenInv'
    BY <1>2, <2>3, <2>6, ScreenRests
  <2>. QED  BY <2>3, <2>5, <2>7, SparedStays DEF ReviewInv
<1>. QED  BY <1>3, <1>4

LEMMA ServeKeeps ==
  ASSUME ReviewInv, "order" \notin Faults, NEW i \in DOMAIN asks, Sift!Serve(i)
  PROVE  ReviewInv'
<1>. DEFINE a == asks[i]
<1>1. QueueInv' /\ Sift!MarkedIsSpared' /\ Places' = Places
  BY ServeSpares DEF ReviewInv
<1>2. DOMAIN asks = Places /\ Request(a) /\ IsNote
  BY LenProperties DEF ReviewInv, QueueInv, Places
<1>3. PICK x : asks' = [asks EXCEPT ![i] = Answer(a, x)]
  BY DEF Sift!Serve, Answer
<1>4. Traced
  <2>1. PICK r : r = Answer(a, x)
    OBVIOUS
  <2>2. r.kind = a.kind /\ r.why = a.why /\ r.by = a.by
    BY <1>2, <2>1, Answered
  <2>3. asks' = [asks EXCEPT ![i] = r]
    BY <1>3, <2>1
  <2>. QED  BY <1>1, <1>2, <2>2, <2>3, AlikeTraced
<1>5. drill' = drill /\ saved' = saved /\ note'.wish = note.wish
  <2>1. PICK l : note' = note \/ note' = [note EXCEPT !.last = l]
    BY DEF Sift!Serve
  <2>. QED  BY <1>2, <2>1 DEF IsNote, Sift!Serve
<1>6. ScreenInv'
  BY <1>4, <1>5, ScreenRests
<1>. QED  BY <1>1, <1>6 DEF ReviewInv

LEMMA ReviewKeeps ==
  ASSUME ReviewInv, {"keep", "order"} \cap Faults = {}, [Sift!Next]_reviewVars
  PROVE  ReviewInv'
<1>1. CASE UNCHANGED reviewVars
  BY <1>1 DEF reviewVars, ReviewInv, QueueInv, ScreenInv, IsStore, IsNote, Asked, Places, ServedInTurn,
              KeepsLast, ShieldHolds, Shows, IsDrill, Stored, Sift!Unticked, Sift!Msgs, Sift!NoReview,
              ScreenShut, Sift!Closed, MountsFirst, Sift!MarkedIsSpared
<1>2. ASSUME NEW m \in Sift!Msgs, \/ Sift!Toggle(m) \/ Sift!KeepMessage(m) \/ Sift!KeptElsewhere(m)
                                 \/ Sift!QueueMoves(m) \/ Sift!QueueGivesUp(m)
      PROVE  ReviewInv'
  BY <1>2, TicksKeep, KeepsKeep, ElsewhereKeeps
<1>3. ASSUME NEW i \in DOMAIN asks,
             \/ Sift!Serve(i) \/ Sift!ListArrives(i) \/ Sift!ListFails(i) \/ Sift!KeepArrives(i)
             \/ Sift!KeepFails(i) \/ Sift!RunArrives(i) \/ Sift!RunFails(i)
      PROVE  ReviewInv'
  <2>1. ~ Sift!KeepFails(i)
    BY DEF Sift!KeepFails, Sift!MayFail
  <2>. QED  BY <1>3, <2>1, ServeKeeps, ListArrivesKeeps, EndsKeep
<1>4. CASE \/ Sift!OpenDrill \/ Sift!LeaveDrill \/ Sift!LoadMore \/ Sift!SelectAll \/ Sift!UndoKeep
           \/ Sift!RunTrash \/ Sift!TrashSelected \/ Sift!MoveAll \/ Sift!DrillDone \/ Sift!CardDone
           \/ Sift!ClearReview \/ Sift!Arrive \/ Sift!Protect \/ Sift!ProtectedElsewhere
           \/ \E q \in {"any", "hits"} : Sift!Filter(q)
  BY <1>4, OpenKeeps, ListsKeep, TicksKeep, UndoKeeps, RunsKeep, ClosingsKeep, ElsewhereKeeps
<1>. QED  BY <1>1, <1>2, <1>3, <1>4 DEF Sift!Next

LEMMA ReviewStarts == ASSUME Sift!Init PROVE ReviewInv
<1>1. /\ drill = Sift!Closed /\ saved = Sift!NoReview /\ asks = <<>>
      /\ note = [runs |-> 0, stirs |-> 0, wish |-> Sift!AllTicked, shield |-> {},
                 last |-> [moved |-> {}, unticked |-> {}, bound |-> Sift!Msgs, shield |-> {}]]
      /\ IsStore
  BY DEF Sift!Init, IsStore
<1>2. asks \in Seq(Asked) /\ Places = {}
  <2>1. asks \in Seq({}) /\ Len(asks) = 0
    BY <1>1, EmptySeq
  <2>2. asks \in Seq(Asked)
    BY <2>1, SeqMonotonic
  <2>. QED  BY <2>1, <2>2 DEF Places
<1>3. QueueInv
  BY <1>1, <1>2 DEF QueueInv, IsNote, ServedInTurn, KeepsLast, ShieldHolds
<1>4. Shows(drill, saved, note.wish)
  <2>1. Sift!Unticked(note.wish) = {}
    BY <1>1 DEF Sift!Unticked, Sift!AllTicked
  <2>. QED  BY <1>1, <2>1 DEF Shows, IsDrill, IsMode, Sift!Closed
<1>5. ScreenShut /\ MountsFirst
  BY <1>1, <1>2 DEF ScreenShut, MountsFirst
<1>6. Sift!MarkedIsSpared
  BY <1>1 DEF Sift!MarkedIsSpared
<1>. QED  BY <1>3, <1>4, <1>5, <1>6 DEF ReviewInv, ScreenInv

\* A run spares what the user marked and what was kept, while keeps do not fail and answers
\* come in order: lists and runs may fail, and mail, rules and keeps may come from elsewhere
\* (routes/Cleanup.tsx:662).  A keep that fails, or an older filter's
\* list answered last, ticks all again.
THEOREM RunsSpareTheMarked ==
  ASSUME {"keep", "order"} \cap Faults = {}
  PROVE  FairSpec => []MarkedIsSpared
<1>. DEFINE Inv == scene = "review" => ReviewInv
<1>1. Init => Inv
  BY ReviewStarts DEF Init
<1>2. Inv /\ [Next]_vars => Inv'
  <2>1. SUFFICES ASSUME ReviewInv, [Next]_vars, scene = "review" PROVE ReviewInv'
    BY DEF Next, vars
  <2>2. Sift!Next \/ UNCHANGED reviewVars
    BY <2>1 DEF Next, vars
  <2>. QED  BY <2>1, <2>2, ReviewKeeps
<1>3. Inv => MarkedIsSpared
  BY DEF ReviewInv, MarkedIsSpared
<1>. QED  BY <1>1, <1>2, <1>3, PTL DEF FairSpec

-----------------------------------------------------------------------------
(* Preferences.  A key set once, and only here, shows that value, and no   *)
(* push of another value comes after a push of it.  Once the key is synced *)
(* the server has the value, and nothing under way overwrites it there or  *)
(* brings another back.                                                    *)

Patches == UNION {[S -> Values] : S \in SUBSET Keys}
PushSet == [patch : Patches, step : {"asked", "ok"}, heard : BOOLEAN]
ReadSet == [overtaken : BOOLEAN, served : BOOLEAN, answer : Patches]
DeviceSet == [prefs : [Keys -> Values], unsynced : SUBSET Keys,
              timer : BOOLEAN, told : BOOLEAN, online : BOOLEAN]
Entries == {"here", "elsewhere"} \X Values
DiarySet == [made : [Keys -> Seq(Entries)], empty : BOOLEAN, seeded : BOOLEAN, edits : Nat, trouble : Nat]

PrefTypes ==
  /\ stored \in Patches /\ device \in DeviceSet
  /\ pushes \in Seq(PushSet) /\ reads \in Seq(ReadSet)
  /\ diary \in DiarySet

\* The values a patch has for a key: one, or none.
Patched(k, p) == IF k \in DOMAIN p.patch THEN {p.patch[k]} ELSE {}

\* Pushes are served in the order sent.
PushedInTurn ==
  \A i, j \in DOMAIN pushes : i < j /\ pushes[j].step = "ok" => pushes[i].step = "ok"

\* Nobody ever set the key.
Untouched(k) ==
  /\ device.prefs[k] = Default /\ Prefs!Value(stored, k) = Default
  /\ \A i \in DOMAIN pushes : Patched(k, pushes[i]) \subseteq {Default}
  /\ \A i \in DOMAIN reads : Prefs!Value(reads[i].answer, k) = Default

\* The key was set once, here, to v: behind a push with v comes no other value, one that was
\* served has left v on the server, and if the key is synced then no push is to overwrite it
\* and no read to be adopted has anything else.
OnlySet(k, v) ==
  /\ device.prefs[k] = v /\ v # Default
  /\ \A i, j \in DOMAIN pushes :
       i < j /\ v \in Patched(k, pushes[i]) => Patched(k, pushes[j]) \subseteq {v}
  /\ \A i \in DOMAIN pushes :
       pushes[i].step = "ok" /\ v \in Patched(k, pushes[i]) => Prefs!Value(stored, k) = v
  /\ k \notin device.unsynced =>
       /\ Prefs!Value(stored, k) = v
       /\ \A i \in DOMAIN pushes : pushes[i].step = "asked" => Patched(k, pushes[i]) \subseteq {v}
       /\ \A i \in DOMAIN reads :
            reads[i].served /\ ~ reads[i].overtaken => Prefs!Value(reads[i].answer, k) = v

KeysInv ==
  ~ diary.seeded =>
    \A k \in Keys :
      /\ diary.made[k] = <<>> => Untouched(k)
      /\ \A v \in Values : diary.made[k] = << <<"here", v>> >> => OnlySet(k, v)

PrefInv == PrefTypes /\ PushedInTurn /\ KeysInv

LEMMA NoAnswer == <<>> \in Patches /\ \A k \in Keys : Prefs!Value(<<>>, k) = Default
<1>1. <<>> \in [{} -> Values] /\ DOMAIN <<>> = {}
  OBVIOUS
<1>. QED  BY <1>1 DEF Patches, Prefs!Value

LEMMA GetTypes == Prefs!Get \in ReadSet /\ ~ Prefs!Get.served /\ Prefs!Get.answer = <<>>
BY NoAnswer DEF Prefs!Get, ReadSet

LEMMA PatchTypes ==
  ASSUME NEW p \in Patches
  PROVE  DOMAIN p \in SUBSET Keys /\ \A k \in DOMAIN p : p[k] \in Values
BY DEF Patches

LEMMA PatchMakes ==
  ASSUME NEW S \in SUBSET Keys, NEW p \in [S -> Values]
  PROVE  p \in Patches /\ DOMAIN p = S
BY DEF Patches

LEMMA TroubleTypes ==
  ASSUME PrefInv, diary' = diary \/ diary' = [diary EXCEPT !.trouble = @ + 1]
  PROVE  diary'.made = diary.made /\ diary'.seeded = diary.seeded /\ diary' \in DiarySet
<1>1. PICK n : n = diary.trouble + 1
  OBVIOUS
<1>2. diary \in DiarySet /\ n \in Nat
  BY <1>1 DEF PrefInv, PrefTypes, DiarySet
<1>3. diary' = diary \/ diary' = [diary EXCEPT !.trouble = n]
  BY <1>1
<1>. QED  BY <1>2, <1>3 DEF DiarySet

\* No page's copy, nothing of the server's, no diary entry that matters: only pushes go.
LEMMA PushGone ==
  ASSUME PrefInv, NEW i \in DOMAIN pushes, pushes' = Prefs!RemoveAt(pushes, i)
  PROVE  /\ pushes' \in Seq(PushSet) /\ PushedInTurn'
         /\ \E f \in [DOMAIN pushes' -> DOMAIN pushes \ {i}] :
              /\ \A j \in DOMAIN pushes' : pushes'[j] = pushes[f[j]]
              /\ \A j, k \in DOMAIN pushes' : f[j] < f[k] <=> j < k
<1>1. /\ pushes' \in Seq(PushSet)
      /\ \E f \in [DOMAIN pushes' -> DOMAIN pushes \ {i}] :
           /\ \A j \in DOMAIN pushes' : pushes'[j] = pushes[f[j]]
           /\ \A j, k \in DOMAIN pushes' : f[j] < f[k] <=> j < k
  <2>1. pushes \in Seq(PushSet)
    BY DEF PrefInv, PrefTypes
  <2>. QED  BY <2>1, Thinned
<1>. QED  BY <1>1 DEF PrefInv, PushedInTurn

LEMMA ReadGone ==
  ASSUME PrefInv, NEW i \in DOMAIN reads, reads' = Prefs!RemoveAt(reads, i)
  PROVE  /\ reads' \in Seq(ReadSet)
         /\ \A j \in DOMAIN reads' : \E k \in DOMAIN reads : reads'[j] = reads[k]
<1>1. /\ reads' \in Seq(ReadSet)
      /\ \E f \in [DOMAIN reads' -> DOMAIN reads \ {i}] :
           /\ \A j \in DOMAIN reads' : reads'[j] = reads[f[j]]
           /\ \A j, k \in DOMAIN reads' : f[j] < f[k] <=> j < k
  <2>1. reads \in Seq(ReadSet)
    BY DEF PrefInv, PrefTypes
  <2>. QED  BY <2>1, Thinned
<1>. QED  BY <1>1

LEMMA ReadSent ==
  ASSUME PrefInv, reads' = Prefs!WithRead
  PROVE  /\ reads' \in Seq(ReadSet)
         /\ \A j \in DOMAIN reads' : reads'[j] = Prefs!Get \/ \E k \in DOMAIN reads : reads'[j] = reads[k]
<1>1. /\ reads' \in Seq(ReadSet) /\ Len(reads) \in Nat /\ reads'[Len(reads) + 1] = Prefs!Get
      /\ DOMAIN reads' = 1 .. Len(reads) + 1 /\ DOMAIN reads = 1 .. Len(reads)
      /\ \A j \in DOMAIN reads : reads'[j] = reads[j]
  BY GetTypes, OneAppended DEF PrefInv, PrefTypes, Prefs!WithRead
<1>. QED  BY <1>1

\* push() after which the page has what is unsynced in r: the copy's value of each such key
\* goes behind what is under way.
LEMMA PushSent ==
  ASSUME PrefInv, NEW r \in DeviceSet, r.prefs = device.prefs, pushes' = Prefs!WithPush(r)
  PROVE  /\ pushes' \in Seq(PushSet) /\ PushedInTurn'
         /\ DOMAIN pushes \subseteq DOMAIN pushes'
         /\ \A j \in DOMAIN pushes : pushes'[j] = pushes[j]
         /\ \A j \in DOMAIN pushes' \ DOMAIN pushes :
              /\ pushes'[j].step = "asked"
              /\ \A i \in DOMAIN pushes' : i <= j
              /\ \A k \in Keys : Patched(k, pushes'[j]) = IF k \in r.unsynced THEN {device.prefs[k]} ELSE {}
<1>1. CASE r.unsynced = {}
  BY <1>1 DEF Prefs!WithPush, PrefInv, PrefTypes, PushedInTurn
<1>2. CASE r.unsynced # {}
  <2>1. PICK p : p = [k \in r.unsynced |-> r.prefs[k]]
    OBVIOUS
  <2>2. PICK m : m = [patch |-> p, step |-> "asked", heard |-> TRUE]
    OBVIOUS
  <2>3. r.unsynced \in SUBSET Keys /\ p \in [r.unsynced -> Values]
    BY <2>1 DEF DeviceSet
  <2>4. p \in Patches /\ DOMAIN p = r.unsynced
    BY <2>3, PatchMakes
  <2>5. m \in PushSet /\ m.step = "asked" /\ m.patch = p
    BY <2>2, <2>4 DEF PushSet
  <2>6. pushes' = Append(pushes, m)
    BY <1>2, <2>1, <2>2 DEF Prefs!WithPush
  <2>7. /\ pushes' \in Seq(PushSet) /\ Len(pushes) \in Nat /\ pushes'[Len(pushes) + 1] = m
        /\ DOMAIN pushes' = 1 .. Len(pushes) + 1 /\ DOMAIN pushes = 1 .. Len(pushes)
        /\ \A j \in DOMAIN pushes : pushes'[j] = pushes[j]
    BY <2>5, <2>6, OneAppended DEF PrefInv, PrefTypes
  <2>8. \A k \in Keys : Patched(k, m) = IF k \in r.unsynced THEN {device.prefs[k]} ELSE {}
    BY <2>1, <2>4, <2>5 DEF Patched
  <2>9. PushedInTurn'
    BY <2>5, <2>7 DEF PushedInTurn, PrefInv
  <2>. QED  BY <2>5, <2>7, <2>8, <2>9
<1>. QED  BY <1>1, <1>2

\* A push more does no harm to what a key stands at.
LEMMA PushSentKeeps ==
  ASSUME PrefInv, NEW r \in DeviceSet, r.prefs = device.prefs, pushes' = Prefs!WithPush(r),
         device.unsynced \subseteq r.unsynced,
         device' \in DeviceSet, device'.prefs = device.prefs, device'.unsynced = r.unsynced,
         stored' = stored, diary' = diary, reads' \in Seq(ReadSet),
         \A j \in DOMAIN reads' : \E k \in DOMAIN reads : reads'[j] = reads[k]
  PROVE  PrefInv'
<1>1. /\ pushes' \in Seq(PushSet) /\ PushedInTurn'
      /\ DOMAIN pushes \subseteq DOMAIN pushes'
      /\ \A j \in DOMAIN pushes : pushes'[j] = pushes[j]
      /\ \A j \in DOMAIN pushes' \ DOMAIN pushes :
           /\ pushes'[j].step = "asked"
           /\ \A i \in DOMAIN pushes' : i <= j
           /\ \A k \in Keys : Patched(k, pushes'[j]) = IF k \in r.unsynced THEN {device.prefs[k]} ELSE {}
  BY PushSent
<1>2. ASSUME NEW k \in Keys, Untouched(k) PROVE Untouched(k)'
  <2>1. \A i \in DOMAIN pushes' : Patched(k, pushes'[i]) \subseteq {Default}
    BY <1>1, <1>2 DEF Untouched
  <2>. QED  BY <1>2, <2>1 DEF Untouched
<1>3. ASSUME NEW k \in Keys, NEW v \in Values, OnlySet(k, v) PROVE OnlySet(k, v)'
  <2>1. \A i \in DOMAIN pushes' \ DOMAIN pushes : Patched(k, pushes'[i]) \subseteq {v}
    BY <1>1, <1>3 DEF OnlySet
  <2>2. DOMAIN pushes' \in SUBSET Nat
    BY <1>1, LenProperties
  <2>3. \A i, j \in DOMAIN pushes' :
          i < j /\ v \in Patched(k, pushes'[i]) => Patched(k, pushes'[j]) \subseteq {v}
    <3>1. SUFFICES ASSUME NEW i \in DOMAIN pushes', NEW j \in DOMAIN pushes', i < j,
                          v \in Patched(k, pushes'[i])
                   PROVE  Patched(k, pushes'[j]) \subseteq {v}
      OBVIOUS
    <3>2. CASE j \notin DOMAIN pushes
      BY <2>1, <3>2
    <3>3. CASE j \in DOMAIN pushes
      <4>1. i \in DOMAIN pushes
        BY <1>1, <2>2, <3>1, <3>3
      <4>. QED  BY <1>1, <1>3, <3>1, <3>3, <4>1 DEF OnlySet
    <3>. QED  BY <3>2, <3>3
  <2>4. \A i \in DOMAIN pushes' :
          pushes'[i].step = "ok" /\ v \in Patched(k, pushes'[i]) => Prefs!Value(stored, k) = v
    BY <1>1, <1>3 DEF OnlySet
  <2>5. k \notin device'.unsynced =>
          /\ Prefs!Value(stored, k) = v
          /\ \A i \in DOMAIN pushes' : pushes'[i].step = "asked" => Patched(k, pushes'[i]) \subseteq {v}
          /\ \A i \in DOMAIN reads' :
               reads'[i].served /\ ~ reads'[i].overtaken => Prefs!Value(reads'[i].answer, k) = v
    BY <1>1, <1>3, <2>1 DEF OnlySet
  <2>. QED  BY <1>3, <2>3, <2>4, <2>5 DEF OnlySet
<1>4. PrefTypes'
  BY <1>1 DEF PrefInv, PrefTypes
<1>5. KeysInv'
  BY <1>2, <1>3 DEF PrefInv, KeysInv
<1>. QED  BY <1>1, <1>4, <1>5 DEF PrefInv

\* So does one fewer, while the page and the server stay as they are or k turns unsynced.
LEMMA PushGoneKeeps ==
  ASSUME PrefInv, NEW i \in DOMAIN pushes, Prefs!PushAnswered(i) \/ Prefs!PushFails(i)
  PROVE  PrefInv'
<1>1. /\ pushes' \in Seq(PushSet) /\ PushedInTurn'
      /\ \E f \in [DOMAIN pushes' -> DOMAIN pushes \ {i}] :
           /\ \A j \in DOMAIN pushes' : pushes'[j] = pushes[f[j]]
           /\ \A j, k \in DOMAIN pushes' : f[j] < f[k] <=> j < k
  BY PushGone DEF Prefs!PushAnswered, Prefs!PushFails
<1>2. PICK f \in [DOMAIN pushes' -> DOMAIN pushes \ {i}] :
              /\ \A j \in DOMAIN pushes' : pushes'[j] = pushes[f[j]]
              /\ \A j, k \in DOMAIN pushes' : f[j] < f[k] <=> j < k
  BY <1>1
<1>3. device \in DeviceSet /\ reads \in Seq(ReadSet) /\ pushes \in Seq(PushSet)
      /\ DOMAIN pushes = 1 .. Len(pushes) /\ Len(pushes) \in Nat
  BY LenProperties DEF PrefInv, PrefTypes
<1>. DEFINE p == pushes[i].patch
            Synced == Prefs!PushAnswered(i) /\ pushes[i].heard
<1>4. /\ stored' = stored
      /\ diary'.made = diary.made /\ diary'.seeded = diary.seeded /\ diary' \in DiarySet
  <2>1. stored' = stored /\ (diary' = diary \/ diary' = [diary EXCEPT !.trouble = @ + 1])
    BY DEF Prefs!PushAnswered, Prefs!PushFails, Prefs!Troubled
  <2>. QED  BY <2>1, TroubleTypes
<1>5. CASE ~ Synced
  <2>1. device' = device /\ reads' = reads
    BY <1>5 DEF Prefs!PushAnswered, Prefs!PushFails
  <2>2. ASSUME NEW k \in Keys, Untouched(k) PROVE Untouched(k)'
    BY <1>2, <1>4, <2>1, <2>2 DEF Untouched
  <2>3. ASSUME NEW k \in Keys, NEW v \in Values, OnlySet(k, v) PROVE OnlySet(k, v)'
    BY <1>2, <1>4, <2>1, <2>3 DEF OnlySet
  <2>4. PrefTypes'
    BY <1>1, <1>4, <2>1 DEF PrefInv, PrefTypes
  <2>5. KeysInv'
    BY <1>4, <2>2, <2>3 DEF PrefInv, KeysInv
  <2>. QED  BY <1>1, <2>4, <2>5 DEF PrefInv
<1>6. CASE Synced
  <2>1. reads' = Prefs!Overtaken /\ pushes[i].step = "ok" /\ device' = Prefs!Confirmed(device, p)
    BY <1>6 DEF Prefs!PushAnswered
  <2>2. /\ reads' \in Seq(ReadSet) /\ DOMAIN reads' = DOMAIN reads
        /\ \A j \in DOMAIN reads : reads'[j].overtaken /\ reads'[j].answer = reads[j].answer
    <3>1. \A j \in DOMAIN reads : reads[j] \in ReadSet
      BY <1>3, ElementOfSeq, LenProperties
    <3>2. reads' \in [DOMAIN reads -> ReadSet]
      BY <2>1, <3>1 DEF Prefs!Overtaken, ReadSet
    <3>3. \A j \in DOMAIN reads : reads'[j] = [reads[j] EXCEPT !.overtaken = TRUE]
      BY <2>1 DEF Prefs!Overtaken
    <3>. QED  BY <1>3, <3>1, <3>2, <3>3, Touched DEF ReadSet
  <2>3. /\ device' \in DeviceSet /\ device'.prefs = device.prefs
        /\ device'.unsynced = {k \in device.unsynced : ~ (k \in DOMAIN p /\ device.prefs[k] = p[k])}
    BY <1>3, <2>1 DEF Prefs!Confirmed, DeviceSet
  <2>4. ASSUME NEW k \in Keys, Untouched(k) PROVE Untouched(k)'
    BY <1>2, <1>4, <2>2, <2>3, <2>4 DEF Untouched
  <2>5. ASSUME NEW k \in Keys, NEW v \in Values, OnlySet(k, v) PROVE OnlySet(k, v)'
    <3>1. k \in device.unsynced /\ k \notin device'.unsynced => v \in Patched(k, pushes[i])
      BY <2>3, <2>5 DEF OnlySet, Patched
    <3>2. \A j \in DOMAIN pushes : pushes[j].step = "asked" => i < j
      <4>1. SUFFICES ASSUME NEW j \in DOMAIN pushes, pushes[j].step = "asked" PROVE i < j
        OBVIOUS
      <4>2. ~ (j < i) /\ j # i
        BY <2>1, <4>1 DEF PrefInv, PushedInTurn
      <4>. QED  BY <1>3, <4>2
    <3>3. k \notin device'.unsynced =>
            /\ Prefs!Value(stored, k) = v
            /\ \A j \in DOMAIN pushes : pushes[j].step = "asked" => Patched(k, pushes[j]) \subseteq {v}
      <4>1. CASE k \notin device.unsynced
        BY <2>5, <4>1 DEF OnlySet
      <4>2. CASE v \in Patched(k, pushes[i])
        BY <2>1, <2>5, <3>2, <4>2 DEF OnlySet
      <4>. QED  BY <3>1, <4>1, <4>2
    <3>. QED  BY <1>2, <1>4, <2>2, <2>3, <2>5, <3>3 DEF OnlySet
  <2>6. PrefTypes'
    BY <1>1, <1>4, <2>2, <2>3 DEF PrefInv, PrefTypes
  <2>7. KeysInv'
    BY <1>4, <2>4, <2>5 DEF PrefInv, KeysInv
  <2>. QED  BY <1>1, <2>6, <2>7 DEF PrefInv
<1>. QED  BY <1>5, <1>6

\* A diary that goes on with one edit.
LEMMA DiaryGoesOn ==
  ASSUME PrefInv, NEW k \in Keys, NEW e \in Entries, NEW n \in Nat,
         diary' = [[diary EXCEPT !.edits = n] EXCEPT !.made[k] = Append(diary.made[k], e)]
  PROVE  /\ diary' \in DiarySet /\ diary'.seeded = diary.seeded
         /\ \A x \in Keys \ {k} : diary'.made[x] = diary.made[x]
         /\ diary'.made[k] # <<>>
         /\ \A x : diary'.made[k] = << x >> => diary.made[k] = <<>> /\ x = e
<1>. DEFINE s == diary.made[k]
            t == Append(s, e)
<1>1. diary \in DiarySet /\ s \in Seq(Entries)
  BY DEF PrefInv, PrefTypes, DiarySet
<1>2. t \in Seq(Entries) /\ Len(t) = Len(s) + 1 /\ Len(s) \in Nat /\ t[Len(t)] = e
  BY <1>1, AppendProperties, LenProperties
<1>3. t # <<>>
  BY <1>2
<1>4. ASSUME NEW x, t = << x >> PROVE s = <<>> /\ x = e
  <2>1. Len(t) = 1 /\ t[1] = x
    BY <1>4
  <2>2. Len(s) = 0
    BY <1>2, <2>1
  <2>. QED  BY <1>1, <1>2, <2>1, <2>2, EmptySeq
<1>. HIDE DEF s, t
<1>5. diary' = [diary EXCEPT !.edits = n, !.made = [diary.made EXCEPT ![k] = t]]
  BY DEF s, t
<1>6. diary.made \in [Keys -> Seq(Entries)]
  BY <1>1 DEF DiarySet
<1>7. PICK made : made = [diary.made EXCEPT ![k] = t]
  OBVIOUS
<1>8. made \in [Keys -> Seq(Entries)] /\ made[k] = t /\ \A x \in Keys \ {k} : made[x] = diary.made[x]
  BY <1>2, <1>6, <1>7
<1>9. diary' \in DiarySet /\ diary'.seeded = diary.seeded /\ diary'.made = made
  BY <1>1, <1>5, <1>7, <1>8 DEF DiarySet
<1>. QED  BY <1>3, <1>4, <1>8, <1>9 DEF s

LEMMA EditKeeps ==
  ASSUME PrefInv, NEW key \in Keys, NEW new \in Values, Prefs!Edit(key, new)
  PROVE  PrefInv'
<1>1. diary \in DiarySet /\ device \in DeviceSet
  BY DEF PrefInv, PrefTypes
<1>2. /\ diary' \in DiarySet /\ diary'.seeded = diary.seeded
      /\ \A x \in Keys \ {key} : diary'.made[x] = diary.made[x]
      /\ diary'.made[key] # <<>>
      /\ \A x : diary'.made[key] = << x >> => diary.made[key] = <<>> /\ x = <<"here", new>>
  <2>1. PICK n : n = diary.edits + 1
    OBVIOUS
  <2>2. n \in Nat /\ <<"here", new>> \in Entries
    BY <1>1, <2>1 DEF DiarySet, Entries
  <2>3. diary' = [[diary EXCEPT !.edits = n] EXCEPT !.made[key] = Append(diary.made[key], <<"here", new>>)]
    BY <1>1, <2>1 DEF Prefs!Edit, DiarySet
  <2>. QED  BY <2>2, <2>3, DiaryGoesOn
<1>3. /\ device' \in DeviceSet /\ device'.prefs = [device.prefs EXCEPT ![key] = new]
      /\ device'.unsynced = device.unsynced \cup {key} /\ new # device.prefs[key]
  <2>1. PICK p : p = [device.prefs EXCEPT ![key] = new]
    OBVIOUS
  <2>2. PICK u : u = device.unsynced \cup {key}
    OBVIOUS
  <2>3. p \in [Keys -> Values] /\ u \in SUBSET Keys
    BY <1>1, <2>1, <2>2 DEF DeviceSet
  <2>4. device' = [device EXCEPT !.prefs = p, !.unsynced = u, !.timer = TRUE]
    BY <1>1, <2>1, <2>2 DEF Prefs!Edit, DeviceSet
  <2>. QED  BY <1>1, <2>1, <2>2, <2>3, <2>4 DEF DeviceSet, Prefs!Edit
<1>4. stored' = stored /\ pushes' = pushes /\ reads' = reads
  BY DEF Prefs!Edit
<1>5. device.prefs \in [Keys -> Values]
  BY <1>1 DEF DeviceSet
<1>6. ASSUME NEW k \in Keys \ {key}, Untouched(k) PROVE Untouched(k)'
  BY <1>3, <1>4, <1>5, <1>6 DEF Untouched
<1>7. ASSUME NEW k \in Keys \ {key}, NEW v \in Values, OnlySet(k, v) PROVE OnlySet(k, v)'
  BY <1>3, <1>4, <1>5, <1>7 DEF OnlySet
<1>8. ASSUME Untouched(key) PROVE OnlySet(key, new)'
  <2>1. new # Default /\ device'.prefs[key] = new /\ key \in device'.unsynced
    BY <1>3, <1>5, <1>8 DEF Untouched
  <2>2. \A i \in DOMAIN pushes : new \notin Patched(key, pushes[i])
    BY <1>8, <2>1 DEF Untouched
  <2>. QED  BY <1>4, <2>1, <2>2 DEF OnlySet
<1>9. KeysInv'
  <2>1. SUFFICES ASSUME ~ diary.seeded, NEW k \in Keys
                 PROVE  /\ diary'.made[k] = <<>> => Untouched(k)'
                        /\ \A v \in Values : diary'.made[k] = << <<"here", v>> >> => OnlySet(k, v)'
    BY <1>2 DEF KeysInv
  <2>2. CASE k # key
    BY <1>2, <1>6, <1>7, <2>1, <2>2 DEF PrefInv, KeysInv
  <2>3. CASE k = key
    <3>1. \A v \in Values : diary'.made[key] = << <<"here", v>> >> => diary.made[key] = <<>> /\ v = new
      BY <1>2
    <3>2. diary.made[key] = <<>> => OnlySet(key, new)'
      BY <1>8, <2>1 DEF PrefInv, KeysInv
    <3>. QED  BY <1>2, <2>3, <3>1, <3>2
  <2>. QED  BY <2>2, <2>3
<1>10. PrefTypes' /\ PushedInTurn'
  BY <1>2, <1>3, <1>4 DEF PrefInv, PrefTypes, PushedInTurn
<1>. QED  BY <1>9, <1>10 DEF PrefInv

\* The page's flags and its reads are no matter, so long as no read is answered anew.
LEMMA ReadsGoOn ==
  ASSUME PrefInv, device' \in DeviceSet, device'.prefs = device.prefs, device'.unsynced = device.unsynced,
         stored' = stored, diary' \in DiarySet, diary'.made = diary.made, diary'.seeded = diary.seeded,
         pushes' \in Seq(PushSet), DOMAIN pushes' = DOMAIN pushes,
         \A i \in DOMAIN pushes : pushes'[i].patch = pushes[i].patch /\ pushes'[i].step = pushes[i].step,
         reads' \in Seq(ReadSet),
         \A j \in DOMAIN reads' : reads'[j] = Prefs!Get \/ \E k \in DOMAIN reads : reads'[j] = reads[k]
  PROVE  PrefInv'
<1>1. \A k \in Keys : Prefs!Value(Prefs!Get.answer, k) = Default
  BY GetTypes, NoAnswer
<1>2. \A k, i : i \in DOMAIN pushes => Patched(k, pushes'[i]) = Patched(k, pushes[i])
  BY DEF Patched
<1>3. ASSUME NEW k \in Keys, Untouched(k) PROVE Untouched(k)'
  BY <1>1, <1>2, <1>3 DEF Untouched
<1>4. ASSUME NEW k \in Keys, NEW v \in Values, OnlySet(k, v) PROVE OnlySet(k, v)'
  BY <1>2, <1>4, GetTypes DEF OnlySet
<1>5. KeysInv'
  BY <1>3, <1>4 DEF PrefInv, KeysInv
<1>6. PushedInTurn' /\ PrefTypes'
  BY DEF PrefInv, PrefTypes, PushedInTurn
<1>. QED  BY <1>5, <1>6 DEF PrefInv

LEMMA PageKeeps ==
  ASSUME PrefInv,
         \/ Prefs!Told \/ Prefs!Foreground \/ Prefs!Disconnect \/ Prefs!Reload
         \/ \E i \in DOMAIN reads : Prefs!ReadFails(i)
  PROVE  PrefInv'
<1>1. /\ device \in DeviceSet /\ reads \in Seq(ReadSet) /\ pushes \in Seq(PushSet) /\ diary \in DiarySet
      /\ \A i \in DOMAIN pushes : pushes[i] \in PushSet
  <2>1. pushes \in Seq(PushSet)
    BY DEF PrefInv, PrefTypes
  <2>2. \A i \in DOMAIN pushes : pushes[i] \in PushSet
    BY <2>1, ElementOfSeq, LenProperties
  <2>. QED  BY <2>2 DEF PrefInv, PrefTypes
<1>2. stored' = stored
      /\ (diary' = diary \/ diary' = [diary EXCEPT !.trouble = @ + 1])
  BY DEF Prefs!Told, Prefs!Foreground, Prefs!Disconnect, Prefs!Reload, Prefs!ReadFails, Prefs!Troubled
<1>3. diary' \in DiarySet /\ diary'.made = diary.made /\ diary'.seeded = diary.seeded
  BY <1>2, TroubleTypes
<1>4. device' \in DeviceSet /\ device'.prefs = device.prefs /\ device'.unsynced = device.unsynced
  <2>1. \/ device' = device
        \/ device' = [device EXCEPT !.told = FALSE]
        \/ device' = [device EXCEPT !.online = TRUE]
        \/ device' = [device EXCEPT !.online = FALSE, !.told = FALSE]
        \/ device' = [device EXCEPT !.timer = FALSE, !.told = FALSE, !.online = TRUE]
    BY DEF Prefs!Told, Prefs!Foreground, Prefs!Disconnect, Prefs!Reload, Prefs!ReadFails
  <2>. QED  BY <1>1, <2>1 DEF DeviceSet
<1>5. /\ pushes' \in Seq(PushSet) /\ DOMAIN pushes' = DOMAIN pushes
      /\ \A i \in DOMAIN pushes : pushes'[i].patch = pushes[i].patch /\ pushes'[i].step = pushes[i].step
  <2>1. CASE pushes' = pushes
    BY <1>1, <2>1
  <2>2. CASE Prefs!Reload
    <3>1. pushes' \in [DOMAIN pushes -> PushSet]
      BY <1>1, <2>2 DEF Prefs!Reload, PushSet
    <3>2. \A i \in DOMAIN pushes : pushes'[i] = [pushes[i] EXCEPT !.heard = FALSE]
      BY <2>2 DEF Prefs!Reload
    <3>3. \A i \in DOMAIN pushes : pushes'[i].patch = pushes[i].patch /\ pushes'[i].step = pushes[i].step
      BY <1>1, <3>2 DEF PushSet
    <3>. QED  BY <1>1, <3>1, <3>3, Touched
  <2>. QED  BY <2>1, <2>2 DEF Prefs!Told, Prefs!Foreground, Prefs!Disconnect, Prefs!ReadFails
<1>6. /\ reads' \in Seq(ReadSet)
      /\ \A j \in DOMAIN reads' : reads'[j] = Prefs!Get \/ \E k \in DOMAIN reads : reads'[j] = reads[k]
  <2>1. CASE Prefs!Told \/ Prefs!Foreground
    BY <2>1, ReadSent DEF Prefs!Told, Prefs!Foreground
  <2>2. CASE Prefs!Reload
    <3>1. reads' = << Prefs!Get >>
      BY <2>2 DEF Prefs!Reload
    <3>2. reads' \in Seq(ReadSet) /\ DOMAIN reads' = {1} /\ reads'[1] = Prefs!Get
      BY <3>1, GetTypes
    <3>. QED  BY <3>2
  <2>3. CASE Prefs!Disconnect
    BY <1>1, <2>3 DEF Prefs!Disconnect
  <2>4. ASSUME NEW i \in DOMAIN reads, Prefs!ReadFails(i)
        PROVE  /\ reads' \in Seq(ReadSet)
               /\ \A j \in DOMAIN reads' : \E k \in DOMAIN reads : reads'[j] = reads[k]
    BY <2>4, ReadGone DEF Prefs!ReadFails
  <2>. QED  BY <2>1, <2>2, <2>3, <2>4
<1>. QED  BY <1>2, <1>3, <1>4, <1>5, <1>6, ReadsGoOn

LEMMA PushTimerKeeps ==
  ASSUME PrefInv, Prefs!PushTimer
  PROVE  PrefInv'
<1>1. device \in DeviceSet /\ reads \in Seq(ReadSet)
  BY DEF PrefInv, PrefTypes
<1>2. device' \in DeviceSet /\ device'.prefs = device.prefs /\ device'.unsynced = device.unsynced
  BY <1>1 DEF Prefs!PushTimer, DeviceSet
<1>3. pushes' = Prefs!WithPush(device) /\ stored' = stored /\ reads' = reads /\ diary' = diary
  BY DEF Prefs!PushTimer
<1>. QED  BY <1>1, <1>2, <1>3, PushSentKeeps

LEMMA ReadArrivesKeeps ==
  ASSUME PrefInv, NEW i \in DOMAIN reads, Prefs!ReadArrives(i)
  PROVE  PrefInv'
<1>. DEFINE answer == reads[i].answer
<1>1. /\ device \in DeviceSet /\ reads \in Seq(ReadSet) /\ pushes \in Seq(PushSet) /\ diary \in DiarySet
      /\ answer \in Patches
  <2>1. reads \in Seq(ReadSet)
    BY DEF PrefInv, PrefTypes
  <2>2. reads[i] \in ReadSet
    BY <2>1, ElementOfSeq, LenProperties
  <2>. QED  BY <2>1, <2>2 DEF PrefInv, PrefTypes, ReadSet
<1>2. /\ reads' \in Seq(ReadSet)
      /\ \A j \in DOMAIN reads' : \E k \in DOMAIN reads : reads'[j] = reads[k]
  BY ReadGone DEF Prefs!ReadArrives
<1>3. stored' = stored /\ diary' = diary
  BY DEF Prefs!ReadArrives
<1>4. CASE reads[i].overtaken
  <2>1. device' = device /\ pushes' = pushes
    BY <1>4 DEF Prefs!ReadArrives
  <2>. QED  BY <1>1, <1>2, <1>3, <2>1, ReadsGoOn
<1>5. CASE ~ reads[i].overtaken /\ answer = <<>>
  <2>1. PICK seed : seed = [device EXCEPT !.unsynced = Keys]
    OBVIOUS
  <2>2. device' = seed /\ pushes' = Prefs!WithPush(seed)
    BY <1>5, <2>1 DEF Prefs!ReadArrives
  <2>3. seed \in DeviceSet /\ seed.prefs = device.prefs /\ seed.unsynced = Keys /\ device.unsynced \subseteq Keys
    BY <1>1, <2>1 DEF DeviceSet
  <2>. QED  BY <1>2, <1>3, <2>2, <2>3, PushSentKeeps
<1>6. CASE ~ reads[i].overtaken /\ answer # <<>>
  <2>1. device' = Prefs!Rearmed(Prefs!Adopted(device, answer)) /\ pushes' = pushes /\ reads[i].served
    BY <1>6 DEF Prefs!ReadArrives
  <2>2. PICK p : p = [k \in Keys |-> IF k \in device.unsynced THEN device.prefs[k] ELSE Prefs!Value(answer, k)]
    OBVIOUS
  <2>3. p \in [Keys -> Values]
    <3>1. \A k \in Keys : Prefs!Value(answer, k) \in Values
      BY <1>1, PatchTypes, ClientSideAssumption DEF Prefs!Value
    <3>. QED  BY <1>1, <2>2, <3>1 DEF DeviceSet
  <2>4. device' \in DeviceSet /\ device'.prefs = p /\ device'.unsynced = device.unsynced
    <3>1. Prefs!Adopted(device, answer) = [device EXCEPT !.prefs = p]
      BY <2>2 DEF Prefs!Adopted
    <3>2. PICK a : a = [device EXCEPT !.prefs = p]
      OBVIOUS
    <3>3. a \in DeviceSet /\ a.prefs = p /\ a.unsynced = device.unsynced
      BY <1>1, <2>3, <3>2 DEF DeviceSet
    <3>4. PICK t \in BOOLEAN : device' = [a EXCEPT !.timer = t]
      BY <2>1, <3>1, <3>2, <3>3 DEF Prefs!Rearmed, DeviceSet
    <3>. QED  BY <3>3, <3>4 DEF DeviceSet
  <2>5. ASSUME NEW k \in Keys, Untouched(k) PROVE Untouched(k)'
    <3>1. device'.prefs[k] = Default
      BY <2>2, <2>4, <2>5 DEF Untouched
    <3>. QED  BY <1>2, <1>3, <2>1, <2>5, <3>1 DEF Untouched
  <2>6. ASSUME NEW k \in Keys, NEW v \in Values, OnlySet(k, v) PROVE OnlySet(k, v)'
    <3>1. device'.prefs[k] = v
      BY <1>6, <2>1, <2>2, <2>4, <2>6 DEF OnlySet
    <3>. QED  BY <1>2, <1>3, <2>1, <2>4, <2>6, <3>1 DEF OnlySet
  <2>7. PrefTypes' /\ PushedInTurn' /\ KeysInv'
    BY <1>2, <1>3, <2>1, <2>4, <2>5, <2>6 DEF PrefInv, PrefTypes, PushedInTurn, KeysInv
  <2>. QED  BY <2>7 DEF PrefInv
<1>. QED  BY <1>4, <1>5, <1>6

\* PATCH: what it names is replaced, the rest stays.
LEMMA PatchedFacts ==
  ASSUME PrefInv, NEW p \in Patches, Prefs!Patch(p)
  PROVE  /\ stored' \in Patches /\ device' \in DeviceSet
         /\ device'.prefs = device.prefs /\ device'.unsynced = device.unsynced
         /\ \A k \in Keys : Prefs!Value(stored', k) = IF k \in DOMAIN p THEN p[k] ELSE Prefs!Value(stored, k)
<1>1. stored \in Patches /\ device \in DeviceSet
  BY DEF PrefInv, PrefTypes
<1>2. PICK D : D = DOMAIN stored \cup DOMAIN p
  OBVIOUS
<1>3. D \in SUBSET Keys /\ stored' = [k \in D |-> IF k \in DOMAIN p THEN p[k] ELSE stored[k]]
  BY <1>1, <1>2, PatchTypes DEF Prefs!Patch
<1>4. stored' \in [D -> Values]
  BY <1>1, <1>2, <1>3, PatchTypes
<1>5. stored' \in Patches /\ DOMAIN stored' = D
  BY <1>3, <1>4, PatchMakes
<1>6. \A k \in Keys : Prefs!Value(stored', k) = IF k \in DOMAIN p THEN p[k] ELSE Prefs!Value(stored, k)
  BY <1>2, <1>3, <1>5 DEF Prefs!Value
<1>7. device' = [device EXCEPT !.told = device.online]
  BY DEF Prefs!Patch
<1>8. device' \in DeviceSet /\ device'.prefs = device.prefs /\ device'.unsynced = device.unsynced
  BY <1>1, <1>7 DEF DeviceSet
<1>. QED  BY <1>5, <1>6, <1>8

LEMMA ServePushKeeps ==
  ASSUME PrefInv, InOrder, NEW i \in DOMAIN pushes, Prefs!ServePush(i)
  PROVE  PrefInv'
<1>. DEFINE p == pushes[i].patch
<1>1. /\ reads \in Seq(ReadSet) /\ pushes \in Seq(PushSet) /\ diary \in DiarySet
      /\ \A j \in DOMAIN pushes : pushes[j] \in PushSet
  <2>1. pushes \in Seq(PushSet)
    BY DEF PrefInv, PrefTypes
  <2>2. \A j \in DOMAIN pushes : pushes[j] \in PushSet
    BY <2>1, ElementOfSeq, LenProperties
  <2>. QED  BY <2>2 DEF PrefInv, PrefTypes
<1>2. p \in Patches /\ pushes[i].step = "asked"
  BY <1>1 DEF PushSet, Prefs!ServePush
<1>3. /\ stored' \in Patches /\ device' \in DeviceSet
      /\ device'.prefs = device.prefs /\ device'.unsynced = device.unsynced
      /\ \A k \in Keys : Prefs!Value(stored', k) = IF k \in DOMAIN p THEN p[k] ELSE Prefs!Value(stored, k)
  BY <1>2, PatchedFacts DEF Prefs!ServePush
<1>4. reads' = reads /\ diary' = diary /\ pushes' = [pushes EXCEPT ![i].step = "ok"]
  BY DEF Prefs!ServePush
<1>5. /\ pushes' \in Seq(PushSet) /\ DOMAIN pushes' = DOMAIN pushes /\ DOMAIN pushes \in SUBSET Nat
      /\ pushes'[i].step = "ok" /\ \A j \in DOMAIN pushes \ {i} : pushes'[j] = pushes[j]
      /\ \A j \in DOMAIN pushes : pushes'[j].patch = pushes[j].patch
  <2>1. PICK q : q = [pushes[i] EXCEPT !.step = "ok"]
    OBVIOUS
  <2>2. q \in PushSet /\ q.step = "ok" /\ q.patch = p
    BY <1>1, <2>1 DEF PushSet
  <2>3. pushes' = [pushes EXCEPT ![i] = q]
    BY <1>4, <2>1
  <2>4. pushes' \in [DOMAIN pushes -> PushSet]
    BY <1>1, <2>2, <2>3
  <2>5. pushes'[i] = q /\ \A j \in DOMAIN pushes \ {i} : pushes'[j] = pushes[j]
    BY <2>3
  <2>. QED  BY <1>1, <2>2, <2>4, <2>5, Touched
<1>6. \A j \in DOMAIN pushes : j < i <=> j # i /\ pushes[j].step = "ok"
  <2>1. DOMAIN pushes = 1 .. Len(pushes)
    BY <1>1, LenProperties
  <2>2. \A j \in 1 .. i - 1 : pushes[j].step = "ok"
    BY DEF Prefs!ServePush
  <2>3. \A j \in DOMAIN pushes : j < i => pushes[j].step = "ok"
    BY <2>1, <2>2
  <2>4. \A j \in DOMAIN pushes : i < j => pushes[j].step # "ok"
    BY <1>2 DEF PrefInv, PushedInTurn
  <2>. QED  BY <1>5, <2>3, <2>4
<1>7. \A k \in Keys, j \in DOMAIN pushes : Patched(k, pushes'[j]) = Patched(k, pushes[j])
  BY <1>5 DEF Patched
<1>8. PushedInTurn'
  <2>1. \A j, m \in DOMAIN pushes : j < m /\ pushes'[m].step = "ok" => pushes'[j].step = "ok"
    BY <1>5, <1>6 DEF PrefInv, PushedInTurn
  <2>. QED  BY <1>5, <2>1 DEF PushedInTurn
<1>9. ASSUME NEW k \in Keys, Untouched(k) PROVE Untouched(k)'
  <2>1. Prefs!Value(stored', k) = Default
    BY <1>3, <1>9 DEF Untouched, Patched
  <2>. QED  BY <1>3, <1>4, <1>5, <1>7, <1>9, <2>1 DEF Untouched
<1>10. ASSUME NEW k \in Keys, NEW v \in Values, OnlySet(k, v) PROVE OnlySet(k, v)'
  <2>1. Patched(k, pushes[i]) \subseteq {v} /\ Prefs!Value(stored, k) = v => Prefs!Value(stored', k) = v
    BY <1>3 DEF Patched
  <2>2. v \in Patched(k, pushes[i]) => Prefs!Value(stored', k) = v
    BY <1>3 DEF Patched
  <2>3. \A j \in DOMAIN pushes :
          pushes'[j].step = "ok" /\ v \in Patched(k, pushes[j]) => Prefs!Value(stored', k) = v
    <3>1. SUFFICES ASSUME NEW j \in DOMAIN pushes, j # i, pushes[j].step = "ok", v \in Patched(k, pushes[j])
                   PROVE  Prefs!Value(stored', k) = v
      BY <1>5, <2>2
    <3>2. j < i /\ Prefs!Value(stored, k) = v
      BY <1>6, <1>10, <3>1 DEF OnlySet
    <3>3. Patched(k, pushes[i]) \subseteq {v}
      BY <1>10, <3>1, <3>2 DEF OnlySet
    <3>. QED  BY <2>1, <3>2, <3>3
  <2>4. k \notin device.unsynced => Prefs!Value(stored', k) = v
    BY <1>2, <1>10, <2>1 DEF OnlySet
  <2>5. \A j, m \in DOMAIN pushes' :
          j < m /\ v \in Patched(k, pushes'[j]) => Patched(k, pushes'[m]) \subseteq {v}
    BY <1>5, <1>7, <1>10 DEF OnlySet
  <2>6. k \notin device.unsynced =>
          \A j \in DOMAIN pushes' : pushes'[j].step = "asked" => Patched(k, pushes'[j]) \subseteq {v}
    <3>1. \A j \in DOMAIN pushes : pushes'[j].step = "asked" => pushes[j].step = "asked"
      BY <1>5
    <3>. QED  BY <1>5, <1>7, <1>10, <3>1 DEF OnlySet
  <2>. QED  BY <1>3, <1>4, <1>5, <1>7, <1>10, <2>3, <2>4, <2>5, <2>6 DEF OnlySet
<1>11. PrefTypes' /\ KeysInv'
  BY <1>1, <1>3, <1>4, <1>5, <1>9, <1>10 DEF PrefInv, PrefTypes, KeysInv
<1>. QED  BY <1>8, <1>11 DEF PrefInv

LEMMA ElsewhereSets ==
  ASSUME PrefInv, \/ \E k \in Keys, v \in Values : Prefs!OthersWrite(k, v)
                  \/ Prefs!OthersSeed
  PROVE  PrefInv'
<1>1. /\ reads \in Seq(ReadSet) /\ pushes \in Seq(PushSet) /\ diary \in DiarySet
  BY DEF PrefInv, PrefTypes
<1>2. pushes' = pushes /\ reads' = reads
  BY DEF Prefs!OthersWrite, Prefs!OthersSeed
<1>3. CASE Prefs!OthersSeed
  <2>1. PICK p : p = [k \in Keys |-> Default]
    OBVIOUS
  <2>2. p \in [Keys -> Values]
    BY <2>1, ClientSideAssumption
  <2>3. p \in Patches
    BY <2>2, PatchMakes
  <2>4. stored' \in Patches /\ device' \in DeviceSet
    BY <1>3, <2>1, <2>3, PatchedFacts DEF Prefs!OthersSeed
  <2>5. diary' = [diary EXCEPT !.seeded = TRUE]
    BY <1>3 DEF Prefs!OthersSeed
  <2>6. diary' \in DiarySet /\ diary'.seeded
    BY <1>1, <2>5 DEF DiarySet
  <2>. QED  BY <1>2, <2>4, <2>6 DEF PrefInv, PrefTypes, PushedInTurn, KeysInv
<1>4. ASSUME NEW key \in Keys, NEW new \in Values, Prefs!OthersWrite(key, new) PROVE PrefInv'
  <2>1. PICK p : p = [x \in {key} |-> new]
    OBVIOUS
  <2>2. p \in [{key} -> Values] /\ {key} \in SUBSET Keys
    BY <2>1
  <2>3. p \in Patches /\ DOMAIN p = {key}
    BY <2>2, PatchMakes
  <2>4. /\ stored' \in Patches /\ device' \in DeviceSet
        /\ device'.prefs = device.prefs /\ device'.unsynced = device.unsynced
        /\ \A k \in Keys : Prefs!Value(stored', k) = IF k \in DOMAIN p THEN p[k] ELSE Prefs!Value(stored, k)
    BY <1>4, <2>1, <2>3, PatchedFacts DEF Prefs!OthersWrite
  <2>5. /\ diary' \in DiarySet /\ diary'.seeded = diary.seeded
        /\ \A x \in Keys \ {key} : diary'.made[x] = diary.made[x]
        /\ diary'.made[key] # <<>>
        /\ \A x : diary'.made[key] = << x >> => diary.made[key] = <<>> /\ x = <<"elsewhere", new>>
    <3>1. PICK n : n = diary.edits + 1
      OBVIOUS
    <3>2. n \in Nat /\ <<"elsewhere", new>> \in Entries
      BY <1>1, <3>1 DEF DiarySet, Entries
    <3>3. diary' = [[diary EXCEPT !.edits = n] EXCEPT !.made[key] =
                      Append(diary.made[key], <<"elsewhere", new>>)]
      BY <1>1, <1>4, <3>1 DEF Prefs!OthersWrite, DiarySet
    <3>. QED  BY <3>2, <3>3, DiaryGoesOn
  <2>6. ASSUME NEW k \in Keys \ {key}, Untouched(k) PROVE Untouched(k)'
    BY <1>2, <2>3, <2>4, <2>6 DEF Untouched
  <2>7. ASSUME NEW k \in Keys \ {key}, NEW v \in Values, OnlySet(k, v) PROVE OnlySet(k, v)'
    BY <1>2, <2>3, <2>4, <2>7 DEF OnlySet
  <2>8. \A v \in Values : diary'.made[key] # << <<"here", v>> >>
    <3>1. SUFFICES ASSUME NEW v \in Values, diary'.made[key] = << <<"here", v>> >> PROVE FALSE
      OBVIOUS
    <3>2. <<"here", v>> = <<"elsewhere", new>>
      BY <2>5, <3>1
    <3>. QED  BY <3>2
  <2>9. KeysInv'
    BY <2>5, <2>6, <2>7, <2>8 DEF PrefInv, KeysInv
  <2>. QED  BY <1>2, <2>4, <2>5, <2>9 DEF PrefInv, PrefTypes, PushedInTurn
<1>. QED  BY <1>3, <1>4

LEMMA ServeReadKeeps ==
  ASSUME PrefInv, NEW i \in DOMAIN reads, Prefs!ServeRead(i)
  PROVE  PrefInv'
<1>1. /\ reads \in Seq(ReadSet) /\ stored \in Patches
      /\ \A j \in DOMAIN reads : reads[j] \in ReadSet
  <2>1. reads \in Seq(ReadSet)
    BY DEF PrefInv, PrefTypes
  <2>2. \A j \in DOMAIN reads : reads[j] \in ReadSet
    BY <2>1, ElementOfSeq, LenProperties
  <2>. QED  BY <2>2 DEF PrefInv, PrefTypes
<1>2. /\ reads' \in Seq(ReadSet) /\ DOMAIN reads' = DOMAIN reads
      /\ reads'[i].answer = stored /\ \A j \in DOMAIN reads \ {i} : reads'[j] = reads[j]
  <2>1. PICK q : q = [reads[i] EXCEPT !.served = TRUE, !.answer = stored]
    OBVIOUS
  <2>2. q \in ReadSet /\ q.answer = stored
    BY <1>1, <2>1 DEF ReadSet
  <2>3. reads' = [reads EXCEPT ![i] = q]
    BY <1>1, <2>1 DEF Prefs!ServeRead, ReadSet
  <2>4. reads' \in [DOMAIN reads -> ReadSet]
    BY <1>1, <2>2, <2>3
  <2>5. reads'[i] = q /\ \A j \in DOMAIN reads \ {i} : reads'[j] = reads[j]
    BY <2>3
  <2>. QED  BY <1>1, <2>2, <2>4, <2>5, Touched
<1>3. stored' = stored /\ device' = device /\ pushes' = pushes /\ diary' = diary
  BY DEF Prefs!ServeRead
<1>4. ASSUME NEW k \in Keys, Untouched(k) PROVE Untouched(k)'
  BY <1>2, <1>3, <1>4 DEF Untouched
<1>5. ASSUME NEW k \in Keys, NEW v \in Values, OnlySet(k, v) PROVE OnlySet(k, v)'
  BY <1>2, <1>3, <1>5 DEF OnlySet
<1>6. PrefTypes' /\ PushedInTurn' /\ KeysInv'
  BY <1>2, <1>3, <1>4, <1>5 DEF PrefInv, PrefTypes, PushedInTurn, KeysInv
<1>. QED  BY <1>6 DEF PrefInv

LEMMA PrefKeeps ==
  ASSUME PrefInv, InOrder, [Prefs!Next]_prefVars
  PROVE  PrefInv'
<1>1. CASE UNCHANGED prefVars
  BY <1>1 DEF prefVars, PrefInv, PrefTypes, PushedInTurn, KeysInv, Untouched, OnlySet
<1>2. CASE Prefs!PushTimer \/ Prefs!Told \/ Prefs!Foreground \/ Prefs!Disconnect \/ Prefs!Reload
           \/ Prefs!OthersSeed
  BY <1>2, PushTimerKeeps, PageKeeps, ElsewhereSets
<1>3. ASSUME NEW k \in Keys, NEW v \in Values, Prefs!Edit(k, v) \/ Prefs!OthersWrite(k, v) PROVE PrefInv'
  BY <1>3, EditKeeps, ElsewhereSets
<1>4. ASSUME NEW i, Prefs!ServePush(i) \/ Prefs!PushAnswered(i) \/ Prefs!PushFails(i) PROVE PrefInv'
  <2>1. i \in DOMAIN pushes
    BY <1>4 DEF Prefs!ServePush, Prefs!PushAnswered, Prefs!PushFails
  <2>. QED  BY <1>4, <2>1, ServePushKeeps, PushGoneKeeps
<1>5. ASSUME NEW i, Prefs!ServeRead(i) \/ Prefs!ReadArrives(i) \/ Prefs!ReadFails(i) PROVE PrefInv'
  <2>1. i \in DOMAIN reads
    BY <1>5 DEF Prefs!ServeRead, Prefs!ReadArrives, Prefs!ReadFails
  <2>. QED  BY <1>5, <2>1, ServeReadKeeps, ReadArrivesKeeps, PageKeeps
<1>. QED  BY <1>1, <1>2, <1>3, <1>4, <1>5 DEF Prefs!Next

LEMMA PrefStarts == ASSUME Prefs!Init PROVE PrefInv
<1>1. stored \in Patches /\ \A k \in Keys : Prefs!Value(stored, k) = Default
  <2>1. PICK p : p = [k \in Keys |-> Default]
    OBVIOUS
  <2>2. p \in [Keys -> Values]
    BY <2>1, ClientSideAssumption
  <2>3. p \in Patches /\ \A k \in Keys : Prefs!Value(p, k) = Default
    BY <2>1, <2>2, PatchMakes DEF Prefs!Value
  <2>4. stored = <<>> \/ stored = p
    BY <2>1 DEF Prefs!Init
  <2>. QED  BY <2>3, <2>4, NoAnswer
<1>2. device \in DeviceSet /\ \A k \in Keys : device.prefs[k] = Default
  BY ClientSideAssumption DEF Prefs!Init, DeviceSet
<1>3. pushes \in Seq(PushSet) /\ DOMAIN pushes = {}
  BY EmptySeq DEF Prefs!Init
<1>4. reads \in Seq(ReadSet) /\ DOMAIN reads = {1} /\ reads[1].answer = <<>>
  BY GetTypes DEF Prefs!Init
<1>5. diary \in DiarySet /\ \A k \in Keys : diary.made[k] = <<>>
  <2>1. <<>> \in Seq(Entries)
    OBVIOUS
  <2>. QED  BY <2>1 DEF Prefs!Init, DiarySet
<1>6. \A k \in Keys : Untouched(k)
  BY <1>1, <1>2, <1>3, <1>4, NoAnswer DEF Untouched
<1>7. PushedInTurn /\ PrefTypes /\ KeysInv
  BY <1>1, <1>2, <1>3, <1>4, <1>5, <1>6 DEF PushedInTurn, PrefTypes, KeysInv
<1>. QED  BY <1>7 DEF PrefInv

\* Where pushes land in the order they are sent, an edit of a key that is edited here alone
\* shows, and is on the server or among what is still to be pushed: no read overtaken by it and
\* no answer to another push takes it back (state/prefs.ts setPref, hydratePrefs, pushPrefs).
THEOREM LoneEditsSurvive ==
  ASSUME InOrder
  PROVE  FairSpec => []LoneEditIsKept
<1>. DEFINE Inv == scene = "prefs" => PrefInv
<1>1. Init => Inv
  BY PrefStarts DEF Init
<1>2. Inv /\ [Next]_vars => Inv'
  <2>1. SUFFICES ASSUME PrefInv, [Next]_vars, scene = "prefs" PROVE PrefInv'
    BY DEF Next, vars
  <2>2. Prefs!Next \/ UNCHANGED prefVars
    BY <2>1 DEF Next, vars
  <2>. QED  BY <2>1, <2>2, PrefKeeps
<1>3. Inv => LoneEditIsKept
  BY DEF PrefInv, KeysInv, OnlySet, LoneEditIsKept, Prefs!LoneEditIsKept
<1>. QED  BY <1>1, <1>2, <1>3, PTL DEF FairSpec
=============================================================================
