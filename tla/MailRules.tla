----------------------------- MODULE MailRules -----------------------------
(***************************************************************************)
(* Mail rules: what a rule matches and which rule wins (rules/match.ts),   *)
(* the store (rules/store.ts, routes/api/rules.ts), the hook that acts on  *)
(* new INBOX mail and the bounded passes over mail already there           *)
(* (rules/apply.ts), the editor, and the one-tap Block and Protect         *)
(* (state/rules.ts).  An address is the path from its top domain down to   *)
(* the user; a rule's value is a prefix of such paths, the whole of one if *)
(* it is a sender rule.                                                    *)
(*                                                                         *)
(* What a rule does goes through the outbox (OutboxQueue); here it is done *)
(* at once.  Hit counts, which nothing reads, are left out.                *)
(***************************************************************************)
EXTENDS Naturals, FiniteSets, SequencesExt

CONSTANTS Labels, Depth,      \* addresses: paths of Depth labels
          Accounts, Furnished,\* accounts; those with an Archive and a Spam folder
          Scopes,             \* what a rule may be for: accounts, "every"
          Moves, Marks,       \* of "spam", "archive", "trash"; of "read", "star"
          Mail, Clients,
          Batch, MaxPasses,   \* APPLY_BATCH, MAX_APPLY_PASSES
          MaxRules, MaxTime, MaxEdits  \* bounds: rules made, instants, taps and edits

VARIABLES rules,    \* mail_rules, a deleted one dead in its place
          mail,     \* messages on their way to the inbox, in it, or moved
          client,   \* what each device is about
          day       \* the clock; bound used

ruleVars == <<rules, mail, client, day>>

Addresses == [1 .. Depth -> Labels]
Paths == UNION {[1 .. n -> Labels] : n \in 1 .. Depth}
Does == [move : Moves \cup {"none"}, marks : SUBSET Marks, protect : BOOLEAN]

\* validateRuleInput: a rule does something, and what it shields it does not trash.
Valid(d) == d.move # "none" \/ d.marks # {} \/ d.protect
Sound(d) == Valid(d) /\ ~ (d.protect /\ d.move = "trash")

Idle == [step |-> "idle", id |-> 0, copy |-> <<>>, passes |-> 0]

-----------------------------------------------------------------------------
(* Matching *)

Ids == 1 .. Len(rules)
IsSender(r) == Len(r.path) = Depth
Acts(r) == r.move # "none" \/ r.marks # {}
Matches(r, from) == IsPrefix(r.path, from)

\* enabledRulesFor
EnabledFor(a) == {i \in Ids : rules[i].live /\ rules[i].enabled /\ rules[i].scope \in {a, "every"}}

\* Mutant: a rule for this account goes first.
BeforeOwn(r, s) ==
  IF (r.scope = "every") # (s.scope = "every") THEN s.scope = "every"
  ELSE Len(r.path) > Len(s.path)

\* bySpecificity
Before(r, s) ==
  IF IsSender(r) # IsSender(s) THEN IsSender(r)
  ELSE IF Len(r.path) # Len(s.path) THEN Len(r.path) > Len(s.path)
  ELSE IF (r.scope = "every") # (s.scope = "every") THEN s.scope = "every"
  ELSE r.created < s.created

\* The first of a set of rules, once sorted.
First(S) == CHOOSE i \in S : \A j \in S \ {i} : Before(rules[i], rules[j])

\* resolveRules
Resolved(ids, from) ==
  LET hits == {i \in ids : Acts(rules[i]) /\ Matches(rules[i], from)}
      moving == {i \in hits : rules[i].move # "none"} IN
  [move |-> IF moving = {} THEN "none" ELSE rules[First(moving)].move,
   marks |-> UNION {rules[i].marks : i \in hits},
   matched |-> hits]

\* execute: an account without the folder keeps the message in its inbox.
Done(m, r) ==
  [m EXCEPT !.marks = @ \cup r.marks,
            !.at = IF r.move = "trash" \/ (r.move # "none" /\ m.account \in Furnished)
                   THEN r.move ELSE @]

-----------------------------------------------------------------------------
(* The store *)

Changed == day.edits < MaxEdits
Changes == day' = [day EXCEPT !.edits = @ + 1]

Taken(scope, path, but) ==
  \E i \in Ids \ {but} : rules[i].live /\ rules[i].scope = scope /\ rules[i].path = path

Rule(scope, path, does, on, at) ==
  [live |-> TRUE, scope |-> scope, path |-> path, move |-> does.move, marks |-> does.marks,
   protect |-> does.protect, enabled |-> on, created |-> at]

\* createRule, if the unique index lets it.
Create(scope, path, does) ==
  /\ ~ Taken(scope, path, 0) /\ Len(rules) < MaxRules
  /\ rules' = Append(rules, Rule(scope, path, does, TRUE, day.now))

\* Mutant: a replaced rule is new.
ReplacedAnew(i, scope, path, does, on) ==
  [rules EXCEPT ![i] = Rule(scope, path, does, on, day.now)]

\* updateRule: everything but the cut-off.
Replaced(i, scope, path, does, on) ==
  [rules EXCEPT ![i] = Rule(scope, path, does, on, @.created)]

\* The editor's Save, with the switch as it was when the editor opened, and what may follow.
Save(c) ==
  /\ client[c].step = "editing"
  /\ LET i == client[c].id IN
     \E scope \in Scopes, path \in Paths, does \in {d \in Does : Sound(d)}, more \in BOOLEAN :
       /\ \/ i = 0 /\ Create(scope, path, does)
          \/ /\ i \in Ids /\ rules[i].live /\ ~ Taken(scope, path, i)
             /\ rules' = Replaced(i, scope, path, does, client[c].copy.enabled)
       /\ more => client[c].copy.enabled
       /\ client' = [client EXCEPT ![c] =
            IF more THEN [Idle EXCEPT !.step = "applying", !.id = IF i = 0 THEN Len(rules) + 1 ELSE i]
            ELSE Idle]
  /\ UNCHANGED <<mail, day>>

\* The editor opens over a rule of the list, or a new one, and may be closed again.
Open(c) ==
  /\ client[c] = Idle /\ Changed /\ Changes
  /\ \E i \in {0} \cup {j \in Ids : rules[j].live} :
       client' = [client EXCEPT ![c] = [Idle EXCEPT !.step = "editing", !.id = i,
                    !.copy = IF i = 0 THEN [enabled |-> TRUE] ELSE rules[i]]]
  /\ UNCHANGED <<rules, mail>>

Close(c) ==
  /\ client[c].step = "editing"
  /\ client' = [client EXCEPT ![c] = Idle]
  /\ UNCHANGED <<rules, mail, day>>

\* The switch in the list, and the editor's Delete.
SetEnabled(i) ==
  /\ rules[i].live /\ Changed /\ Changes
  /\ rules' = [rules EXCEPT ![i].enabled = ~ @]
  /\ UNCHANGED <<mail, client>>

Delete(i) ==
  /\ rules[i].live /\ Changed /\ Changes
  /\ rules' = [rules EXCEPT ![i].live = FALSE]
  /\ UNCHANGED <<mail, client>>

-----------------------------------------------------------------------------
(* upsertEveryAccountRule: Block, Protect *)

Blocks == [move |-> "spam", marks |-> {}, protect |-> FALSE]
Protects == [move |-> "none", marks |-> {}, protect |-> TRUE]

\* Create, or hear that there is one.
Tap(c) ==
  /\ client[c] = Idle /\ Changed /\ Changes
  /\ \E path \in Paths, does \in {Blocks, Protects} :
       IF Taken("every", path, 0)
       THEN /\ client' = [client EXCEPT ![c] = [Idle EXCEPT !.step = "listing",
                            !.copy = Rule("every", path, does, TRUE, 0)]]
            /\ UNCHANGED rules
       ELSE Create("every", path, does) /\ UNCHANGED client
  /\ UNCHANGED mail

\* Find it in the list; it may be gone.
List(c) ==
  /\ client[c].step = "listing"
  /\ LET want == client[c].copy
         found == {i \in Ids : rules[i].live /\ rules[i].scope = "every" /\ rules[i].path = want.path} IN
     client' = [client EXCEPT ![c] =
       IF found = {} THEN Idle
       ELSE LET i == CHOOSE j \in found : TRUE IN
            [Idle EXCEPT !.step = "merging", !.id = i,
               !.copy = [rules[i] EXCEPT !.move = IF want.protect THEN @ ELSE want.move,
                                         !.protect = @ \/ want.protect, !.enabled = TRUE]]]
  /\ UNCHANGED <<rules, mail, day>>

\* Replace it by the copy with the action added; the server refuses to shield what is trashed.
Merge(c) ==
  /\ client[c].step = "merging"
  /\ LET i == client[c].id
         w == client[c].copy IN
     rules' = IF rules[i].live /\ Sound(w) /\ ~ Taken(w.scope, w.path, i)
              THEN Replaced(i, w.scope, w.path, w, w.enabled) ELSE rules
  /\ client' = [client EXCEPT ![c] = Idle]
  /\ UNCHANGED <<mail, day>>

-----------------------------------------------------------------------------
(* Mail *)

Tick ==
  /\ day.now < MaxTime
  /\ day' = [day EXCEPT !.now = @ + 1]
  /\ UNCHANGED <<rules, mail, client>>

Arrive(m) ==
  /\ mail[m].at = "away"
  /\ \E a \in Accounts, from \in Addresses :
       mail' = [mail EXCEPT ![m] = [at |-> "coming", account |-> a, from |-> from,
                  arrived |-> day.now, marks |-> {}, ruled |-> {}]]
  /\ UNCHANGED <<rules, client, day>>

\* applyRulesOnIngest: rules made by the time the message arrived, as they are now.
Ingest(m) ==
  /\ mail[m].at = "coming"
  /\ LET in == [mail[m] EXCEPT !.at = "inbox"]
         old == {i \in EnabledFor(in.account) : rules[i].created <= in.arrived}
         r == Resolved(old, in.from) IN
     mail' = [mail EXCEPT ![m] = [Done(in, r) EXCEPT !.ruled = r.matched]]
  /\ UNCHANGED <<rules, client, day>>

\* candidates: what a rule would still change.
Candidates(i) ==
  {m \in Mail : /\ mail[m].at = "inbox"
                /\ rules[i].scope \in {"every", mail[m].account}
                /\ Matches(rules[i], mail[m].from)
                /\ rules[i].move # "none" \/ ~ rules[i].marks \subseteq mail[m].marks}

\* The newest of them, a batch at most.
Windows(set) ==
  {w \in SUBSET set : /\ Cardinality(w) = IF Cardinality(set) < Batch THEN Cardinality(set) ELSE Batch
                      /\ \A m \in w, n \in set \ w : mail[m].arrived >= mail[n].arrived}

\* Mutant: the last full batch is taken for the end.
OverEarly(applied, remaining, pass) == remaining <= applied \/ applied = 0 \/ pass = MaxPasses

\* The client's loop, after a pass.
Over(applied, remaining, pass) == remaining = 0 \/ applied = 0 \/ pass = MaxPasses

\* POST /api/rules/:id/apply; a rule gone or off is an error.
Pass(c) ==
  /\ client[c].step = "applying"
  /\ LET i == client[c].id IN
     IF ~ (rules[i].live /\ rules[i].enabled)
     THEN client' = [client EXCEPT ![c] = Idle] /\ UNCHANGED mail
     ELSE \E w \in Windows(Candidates(i)) :
            /\ mail' = [m \in Mail |-> IF m \in w THEN
                          Done(mail[m], Resolved(EnabledFor(mail[m].account), mail[m].from))
                        ELSE mail[m]]
            /\ client' = [client EXCEPT ![c] =
                 IF Over(Cardinality(w), Cardinality(Candidates(i)) - Cardinality(w),
                         client[c].passes + 1)
                 THEN Idle ELSE [client[c] EXCEPT !.passes = @ + 1]]
  /\ UNCHANGED <<rules, day>>

-----------------------------------------------------------------------------

Init ==
  /\ rules = <<>>
  /\ mail = [m \in Mail |-> [at |-> "away"]]
  /\ client = [c \in Clients |-> Idle]
  /\ day = [now |-> 0, edits |-> 0]

Next ==
  \/ Tick
  \/ \E c \in Clients : Open(c) \/ Close(c) \/ Save(c) \/ Tap(c) \/ List(c) \/ Merge(c) \/ Pass(c)
  \/ \E i \in Ids : SetEnabled(i) \/ Delete(i)
  \/ \E m \in Mail : Arrive(m) \/ Ingest(m)

Spec == Init /\ [][Next]_ruleVars

-----------------------------------------------------------------------------
(* Properties *)

\* Whichever rules there are, made in whichever order, mail is moved by the rule whose value
\* is the longest match, the account's own before the one for every account (match.ts:5).
SpecificRuleWins ==
  \A a \in Accounts, from \in Addresses :
    LET ids == EnabledFor(a)
        move == Resolved(ids, from).move
        hits == {i \in ids : rules[i].move # "none" /\ Matches(rules[i], from)} IN
    IF hits = {} THEN move = "none"
    ELSE \E i \in hits : /\ rules[i].move = move
                         /\ \A j \in hits \ {i} : \/ Len(rules[j].path) < Len(rules[i].path)
                                                  \/ rules[j].path = rules[i].path /\ rules[j].scope = "every"

\* On their way in, messages are touched only by rules as old as they are, however often
\* those were edited, merged or switched (store.ts:144 "doesn't reset the cut-off either").
NoReachBack ==
  \A m \in Mail : mail[m].at \notin {"away", "coming"} =>
    \A i \in mail[m].ruled : rules[i].created <= mail[m].arrived

\* The loop over old mail that ends, the rule still on, leaves nothing it would change
\* (state/rules.ts:132 "pass by pass, until none is left").
EndsWithNone ==
  \A c \in Clients, i \in Ids :
    /\ client[c].step = "applying" /\ client[c].id = i /\ client'[c].step = "idle"
    /\ rules[i].live /\ rules[i].enabled
    => Candidates(i)' = {}
LoopLeavesNone == [][EndsWithNone]_ruleVars

\* It reaches every message it could move (state/rules.ts:133 "stops early if a pass changes
\* nothing").
EveryMatchIsMoved ==
  [][\A c \in Clients, i \in Ids :
       /\ client[c].step = "applying" /\ client[c].id = i /\ client'[c].step = "idle"
       /\ rules[i].live /\ rules[i].enabled
       => \A m \in Candidates(i)' : mail[m].account \notin Furnished]_ruleVars

\* A tap adds its action to the rule and keeps the others (state/rules.ts:81).
MergeKeeps ==
  [][\A c \in Clients : LET i == client[c].id IN
       client[c].step = "merging" /\ client'[c].step = "idle" /\ rules[i].live
         => /\ rules[i].protect => rules'[i].protect
            /\ rules[i].move = "spam" => rules'[i].move = "spam"]_ruleVars

\* "Changes apply to mail that arrives from now on" (RuleEditor.tsx): what a message on its way
\* meets is not changed by an edit.
EditsSpareOldMail ==
  [][\A c \in Clients : client[c].step = "editing" /\ rules' # rules =>
       \A m \in Mail : mail[m].at = "coming" =>
         LET old == {i \in EnabledFor(mail[m].account) : rules[i].created <= mail[m].arrived} IN
         Resolved(old, mail[m].from).move = Resolved(old, mail[m].from)'.move]_ruleVars

=============================================================================
