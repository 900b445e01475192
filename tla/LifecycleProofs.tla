--------------------------- MODULE LifecycleProofs ---------------------------
(***************************************************************************)
(* The trash queue, restore, delete forever, Empty Trash and detach,       *)
(* proved for every set of messages, with or without UIDPLUS, and for      *)
(* every cap of attempts and number of crashes: mail that stays hidden is  *)
(* in the trash or nowhere, and what is deleted or detached here has been  *)
(* dealt with at the provider first.                                       *)
(***************************************************************************)
EXTENDS MessageLifecycle, FiniteSetTheorems, WellFoundedInduction, TLAPS

-----------------------------------------------------------------------------
(* A non-empty set of natural numbers has a least member. *)

LEMMA LeastNatural ==
  ASSUME NEW S \in SUBSET Nat, S # {}
  PROVE  \E x \in S : \A y \in S : x <= y
<1>1. \E x \in S : \A y \in S : ~ (<<y, x>> \in OpToRel(<, Nat))
  BY NatLessThanWellFounded, WFMin
<1>2. PICK x \in S : \A y \in S : ~ (<<y, x>> \in OpToRel(<, Nat))
  BY <1>1
<1>3. \A y \in S : ~ (y < x)
  BY <1>2 DEF OpToRel
<1>. QED  BY <1>3

-----------------------------------------------------------------------------
(* The inductive invariant *)

Uids == 0 .. MaxUid
Places == [folder : Folders \cup {"nowhere"}, uid : Uids]
Mappings == [folder : Folders, uid : Uids]
Items == [msg : Msgs, folder : Folders, uid : Uids]
Whos == {"queue", "restore", "forever", "detach"}
DestOf(who) == IF who = "restore" THEN "inbox" ELSE IF who = "forever" THEN "nowhere" ELSE "trash"
Calls == [by : Whos, items : SUBSET Items, dest : Folders \cup {"nowhere"}, done : BOOLEAN,
          got : [Msgs -> Uids]]
QueueRows == [status : {"none", "pending", "done", "dead"}, attempts : 0 .. MaxAttempts, cooling : BOOLEAN]

Types ==
  /\ server \in [Msgs -> Places] /\ seen \in [Msgs -> Uids]
  /\ maps \in [Msgs -> SUBSET Mappings]
  /\ tomb \in [Msgs -> BOOLEAN] /\ purged \in [Msgs -> BOOLEAN] /\ local \in [Msgs -> BOOLEAN]
  /\ row \in [Msgs -> QueueRows]
  /\ left \in SUBSET SUBSET Items /\ todo \in SUBSET SUBSET Items /\ calls \in SUBSET Calls

\* A place of m that maily has: an earlier one of its copy, or the one it is in.
Known(m, x) ==
  server[m] # Gone => x.uid <= server[m].uid /\ (x.uid = server[m].uid => x = server[m])

\* Sync is not ahead of the provider, and what is mapped was once so.
MailInv(m) ==
  /\ server[m] = Gone \/ (server[m].folder \in Folders /\ server[m].uid > 0 /\ seen[m] <= server[m].uid)
  /\ seen[m] > 0
  /\ \A x \in maps[m] : Known(m, x)
  /\ \A x, y \in maps[m] : x.folder = y.folder => x = y

\* Every call, made or to be made, is about a place the message has had, and a
\* call that was performed leaves none of its messages where it found them.
ItemsKnown(b) == \A i \in b : Known(i.msg, At(i.folder, i.uid))
CallInv(c) ==
  /\ c.dest = DestOf(c.by) /\ ItemsKnown(c.items)
  /\ c.done => \A i \in c.items : server[i.msg] # At(i.folder, i.uid)
  /\ \A m \in Msgs : c.got[m] # NoUid => Known(m, At(c.dest, c.got[m]))

\* Once sync has sighted the copy where it is, it is mapped there.
SightInv(m) ==
  m \notin stray /\ ~ local[m] /\ server[m] # Gone /\ seen[m] = server[m].uid => server[m] \in maps[m]

\* Mail that is hidden waits for the queue, is gone, or is yet to be sighted.
HiddenInv(m) ==
  m \notin stray /\ tomb[m] /\ ~ purged[m] /\ ~ local[m] =>
    \/ row[m].status = "pending"
    \/ server[m].folder \in {"trash", "nowhere"}
    \/ seen[m] # server[m].uid

\* A pending row has attempts left; a message is in one batch of the queue,
\* with a pending row; the queue and the detach job have one call at a time.
Apart(b, d) == \A i \in b, j \in d : i.msg # j.msg
QueueInv ==
  /\ \A m \in Msgs : row[m].status = "pending" => row[m].attempts < MaxAttempts
  /\ \A b \in left : \A i \in b : row[i.msg].status = "pending"
  /\ \A b, d \in left : b # d => Apart(b, d)
  /\ \A c \in By("queue") : (\A i \in c.items : row[i.msg].status = "pending") /\ \A b \in left : Apart(b, c.items)
  /\ \A c, d \in calls : c.by \in {"queue", "detach"} /\ d.by = c.by => c = d

IInv ==
  /\ Types /\ QueueInv
  /\ \A m \in Msgs : MailInv(m) /\ SightInv(m) /\ HiddenInv(m)
  /\ \A b \in left \cup todo : ItemsKnown(b)
  /\ \A c \in calls : CallInv(c)

-----------------------------------------------------------------------------
(* Lemmas on the operators *)

LEMMA AtIs == ASSUME NEW f, NEW u PROVE At(f, u).folder = f /\ At(f, u).uid = u
BY DEF At

\* Where a request finds a message: nowhere the provider knows of, or in the
\* first of its folders that has a UID for it, the trash being the last.
LEMMA PlacementIs ==
  ASSUME Types, NEW m \in Msgs
  PROVE  \/ local[m] /\ Placement(m) = LocalOnly
         \/ ~ local[m] /\ Placement(m) = Unplaced /\ \A x \in maps[m] : x.uid = NoUid
         \/ /\ ~ local[m] /\ Placement(m) \in maps[m] /\ Placement(m).uid # NoUid
            /\ Placement(m).folder = "trash" => \A x \in maps[m] : x.uid # NoUid => x.folder = "trash"
<1>. DEFINE placed == {x \in maps[m] : x.uid # NoUid}
            rank(x) == PathOrder[x.folder]
<1>1. /\ \A f \in Folders : PathOrder[f] \in 1 .. 3
      /\ \A f \in Folders : PathOrder[f] >= PathOrder["trash"] => f = "trash"
      /\ "trash" \in Folders
  BY DEF PathOrder, Folders
<1>2. \A x \in placed : x \in Mappings /\ x.folder \in Folders
  BY DEF Types, Mappings
<1>3. CASE local[m] \/ placed = {}
  <2>1. CASE local[m]
    <3>1. Placement(m) = LocalOnly
      BY <2>1 DEF Placement
    <3>. QED  BY <2>1, <3>1
  <2>2. CASE ~ local[m] /\ placed = {}
    <3>1. Placement(m) = Unplaced
      BY <2>2 DEF Placement
    <3>2. \A x \in maps[m] : x.uid = NoUid
      BY <2>2
    <3>. QED  BY <2>2, <3>1, <3>2
  <2>. QED  BY <1>3, <2>1, <2>2 DEF Types
<1>4. CASE ~ local[m] /\ placed # {}
  <2>1. \E x \in placed : \A y \in placed : rank(x) <= rank(y)
    <3>. DEFINE ranks == {rank(x) : x \in placed}
    <3>1. ranks \in SUBSET Nat /\ ranks # {}
      BY <1>1, <1>2, <1>4
    <3>. HIDE DEF ranks
    <3>2. PICK least \in ranks : \A n \in ranks : least <= n
      BY <3>1, LeastNatural
    <3>3. PICK x \in placed : rank(x) = least
      BY <3>2 DEF ranks
    <3>4. \A y \in placed : rank(y) \in ranks
      BY DEF ranks
    <3>. QED  BY <3>2, <3>3, <3>4
  <2>2. Placement(m) = CHOOSE x \in placed : \A y \in placed : rank(x) <= rank(y)
    BY <1>4 DEF Placement
  <2>. HIDE DEF placed
  <2>3. Placement(m) \in placed /\ \A y \in placed : rank(Placement(m)) <= rank(y)
    BY <2>1, <2>2
  <2>4. Placement(m).folder = "trash" => \A x \in placed : x.folder = "trash"
    BY <1>1, <1>2, <2>3
  <2>. QED  BY <1>4, <2>3, <2>4 DEF placed
<1>. QED  BY <1>3, <1>4

\* A batch has the messages of one folder, at the places they are mapped to.
LEMMA BatchesFit ==
  ASSUME IInv, NEW S \in SUBSET Msgs
  PROVE  /\ Batches(S) \in SUBSET SUBSET Items
         /\ \A b \in Batches(S) : ItemsKnown(b) /\ \A i \in b : i.msg \in S
         /\ \A b, d \in Batches(S) : b # d => Apart(b, d)
<1>. DEFINE from(f) == {Item(m, Placement(m)) : m \in {n \in S : Placement(n).folder = f}}
<1>1. Batches(S) = {from(f) : f \in Folders} \ {{}}
  BY DEF Batches
<1>2. ASSUME NEW f \in Folders, NEW i \in from(f)
      PROVE  /\ i \in Items /\ Known(i.msg, At(i.folder, i.uid)) /\ i.msg \in S /\ i.folder = f
             /\ Placement(i.msg).folder = f
  <2>1. PICK m \in S : Placement(m).folder = f /\ i = Item(m, Placement(m))
    BY <1>2
  <2>2. Placement(m) \in maps[m]
    <3>1. LocalOnly.folder \notin Folders /\ Unplaced.folder \notin Folders
      BY DEF LocalOnly, Unplaced, At, Folders
    <3>. QED  BY <2>1, <3>1, PlacementIs DEF IInv
  <2>3. Placement(m) \in Mappings /\ Known(m, Placement(m))
    BY <2>2 DEF IInv, Types, MailInv
  <2>4. i = [msg |-> m, folder |-> f, uid |-> Placement(m).uid] /\ At(f, Placement(m).uid) = Placement(m)
    BY <2>1, <2>3 DEF Item, At, Mappings
  <2>. QED  BY <2>1, <2>3, <2>4 DEF Items, Mappings
<1>. HIDE DEF from
<1>3. \A b \in Batches(S) : \E f \in Folders : b = from(f)
  BY <1>1
<1>4. \A b \in Batches(S) : b \in SUBSET Items /\ ItemsKnown(b) /\ \A i \in b : i.msg \in S
  BY <1>2, <1>3 DEF ItemsKnown
<1>5. ASSUME NEW b \in Batches(S), NEW d \in Batches(S), b # d PROVE Apart(b, d)
  <2>1. PICK f \in Folders, g \in Folders : b = from(f) /\ d = from(g)
    BY <1>3
  <2>2. f # g
    BY <1>5, <2>1
  <2>3. ASSUME NEW i \in b, NEW j \in d PROVE i.msg # j.msg
    BY <1>2, <2>1, <2>2
  <2>. QED  BY <2>3 DEF Apart
<1>. QED  BY <1>4, <1>5

\* A copy that moves on, or goes, leaves each place it had behind.
LEMMA KnownForward ==
  ASSUME Types, Types', NEW m \in Msgs, NEW x, x.uid \in Uids, x # Gone, Known(m, x),
         server'[m] = server[m] \/ server'[m] = Gone \/ (server[m] # Gone /\ server'[m].uid > server[m].uid)
  PROVE  Known(m, x)' /\ (server[m] # x => server'[m] # x)
<1>1. server[m].uid \in Nat /\ server'[m].uid \in Nat /\ x.uid \in Nat
  BY DEF Types, Places, Uids
<1>. QED  BY <1>1 DEF Known

-----------------------------------------------------------------------------
(* Steps *)

\* A call that is made now.
Made(c) == c \in Calls /\ c.dest = DestOf(c.by) /\ ItemsKnown(c.items) /\ ~ c.done
           /\ \A m \in Msgs : c.got[m] = NoUid

LEMMA MadeCall ==
  ASSUME NEW by \in Whos, NEW items \in SUBSET Items, ItemsKnown(items)
  PROVE  Made(Call(by, items, DestOf(by))) /\ Call(by, items, DestOf(by)).by = by
         /\ Call(by, items, DestOf(by)).items = items
<1>1. PICK c : c = Call(by, items, DestOf(by))
  OBVIOUS
<1>2. c = [by |-> by, items |-> items, dest |-> DestOf(by), done |-> FALSE, got |-> [m \in Msgs |-> NoUid]]
  BY <1>1 DEF Call
<1>3. DestOf(by) \in Folders \cup {"nowhere"} /\ NoUid \in Uids
  BY LifecycleAssumption DEF DestOf, Folders, NoUid, Uids
<1>4. c \in Calls /\ c.by = by /\ c.items = items /\ c.dest = DestOf(by) /\ ~ c.done
      /\ \A m \in Msgs : c.got[m] = NoUid
  BY <1>2, <1>3 DEF Calls
<1>. QED  BY <1>1, <1>4 DEF Made

\* A step of maily, or the end of one: the provider's copies stay where they are.
LEMMA StillStep ==
  ASSUME IInv, Types', QueueInv', UNCHANGED server,
         \A m \in Msgs : seen'[m] = seen[m] \/ (seen'[m] = server[m].uid /\ server[m] # Gone),
         \A m \in Msgs : \A x \in maps'[m] : x \in maps[m] \/ Known(m, x),
         \A m \in Msgs : \A x, y \in maps'[m] : x.folder = y.folder => x = y,
         \A m \in Msgs : SightInv(m)' /\ HiddenInv(m)',
         \A b \in left' \cup todo' : b \in left \cup todo \/ ItemsKnown(b),
         \A c \in calls' : c \in calls \/ Made(c)
  PROVE  IInv'
<1>1. \A m, x : Known(m, x)' <=> Known(m, x)
  BY DEF Known
<1>2. \A b : ItemsKnown(b)' <=> ItemsKnown(b)
  BY <1>1 DEF ItemsKnown
<1>3. ASSUME NEW m \in Msgs PROVE MailInv(m)'
  <2>1. \A x \in maps'[m] : Known(m, x)
    BY DEF IInv, MailInv
  <2>2. /\ server[m] = Gone \/ (server[m].folder \in Folders /\ server[m].uid > 0 /\ seen'[m] <= server[m].uid)
        /\ seen'[m] > 0
    BY DEF IInv, MailInv, Types, Places, Uids
  <2>. QED  BY <1>1, <2>1, <2>2 DEF MailInv
<1>4. ASSUME NEW b \in (left \cup todo)' PROVE ItemsKnown(b)'
  BY <1>2 DEF IInv
<1>5. ASSUME NEW c \in calls' PROVE CallInv(c)'
  <2>1. CASE c \in calls
    BY <1>1, <1>2, <2>1 DEF IInv, CallInv
  <2>2. CASE Made(c)
    BY <1>1, <1>2, <2>2 DEF Made, CallInv
  <2>. QED  BY <2>1, <2>2
<1>. QED  BY <1>3, <1>4, <1>5 DEF IInv

\* A step of the jobs and the requests that leaves the mailbox alone.
LEMMA JobStep ==
  ASSUME IInv, Types', QueueInv', UNCHANGED <<server, seen, maps, tomb, purged, local, stray>>,
         \A m \in Msgs : row[m].status = "pending" => row'[m].status = "pending",
         \A b \in left' \cup todo' : b \in left \cup todo \/ ItemsKnown(b),
         \A c \in calls' : c \in calls \/ Made(c)
  PROVE  IInv'
<1>1. \A m \in Msgs : SightInv(m)' /\ HiddenInv(m)'
  BY DEF IInv, SightInv, HiddenInv
<1>2. \A m \in Msgs : \A x, y \in maps'[m] : x.folder = y.folder => x = y
  BY DEF IInv, MailInv
<1>3. /\ UNCHANGED server
      /\ \A m \in Msgs : seen'[m] = seen[m] \/ (seen'[m] = server[m].uid /\ server[m] # Gone)
      /\ \A m \in Msgs : \A x \in maps'[m] : x \in maps[m] \/ Known(m, x)
  OBVIOUS
<1>. QED  BY <1>1, <1>2, <1>3, StillStep

LEMMA BatchStep == ASSUME IInv, NextBatch PROVE IInv'
<1>1. PICK b \in left : calls' = calls \cup {Call("queue", b, "trash")} /\ left' = left \ {b}
  BY DEF NextBatch
<1>2. By("queue") = {} /\ UNCHANGED <<server, seen, mailbox, row, todo, bounds, stray>>
  BY DEF NextBatch
<1>3. b \in SUBSET Items /\ ItemsKnown(b)
  BY DEF IInv, Types
<1>4. PICK c : c = Call("queue", b, "trash")
  OBVIOUS
<1>5. Made(c) /\ c.by = "queue" /\ c.items = b
  BY <1>3, <1>4, MadeCall DEF Whos, DestOf
<1>6. Types'
  BY <1>1, <1>2, <1>4, <1>5 DEF IInv, Types, mailbox, Made
<1>7. QueueInv'
  <2>1. By("queue")' = {c}
    BY <1>1, <1>2, <1>4, <1>5 DEF By
  <2>2. \A d, e \in calls' : d.by \in {"queue", "detach"} /\ e.by = d.by => d = e
    BY <1>1, <1>2, <1>4, <1>5 DEF By, IInv, QueueInv
  <2>3. /\ \A m \in Msgs : row[m].status = "pending" => row[m].attempts < MaxAttempts
        /\ \A e \in left : \A i \in e : row[i.msg].status = "pending"
        /\ \A e, d \in left : e # d => Apart(e, d)
    BY DEF IInv, QueueInv
  <2>4. \A e \in left' : Apart(e, b)
    BY <1>1, <2>3
  <2>. QED  BY <1>1, <1>2, <1>5, <2>1, <2>2, <2>3, <2>4 DEF QueueInv, Apart
<1>. QED  BY <1>1, <1>2, <1>4, <1>5, <1>6, <1>7, JobStep DEF mailbox

LEMMA DetachBatchStep == ASSUME IInv, NextDetach PROVE IInv'
<1>1. PICK b \in todo : calls' = calls \cup {Call("detach", b, "trash")} /\ todo' = todo \ {b}
  BY DEF NextDetach
<1>2. By("detach") = {} /\ UNCHANGED <<server, seen, mailbox, row, left, bounds, stray>>
  BY DEF NextDetach
<1>3. b \in SUBSET Items /\ ItemsKnown(b)
  BY DEF IInv, Types
<1>4. PICK c : c = Call("detach", b, "trash")
  OBVIOUS
<1>5. Made(c) /\ c.by = "detach" /\ c.items = b
  BY <1>3, <1>4, MadeCall DEF Whos, DestOf
<1>6. Types'
  BY <1>1, <1>2, <1>4, <1>5 DEF IInv, Types, mailbox, Made
<1>7. QueueInv'
  <2>1. By("queue")' = By("queue")
    BY <1>1, <1>4, <1>5 DEF By
  <2>2. \A d, e \in calls' : d.by \in {"queue", "detach"} /\ e.by = d.by => d = e
    BY <1>1, <1>2, <1>4, <1>5 DEF By, IInv, QueueInv
  <2>. QED  BY <1>2, <2>1, <2>2 DEF IInv, QueueInv
<1>. QED  BY <1>1, <1>2, <1>4, <1>5, <1>6, <1>7, JobStep DEF mailbox

\* Calls that end without a word, or with the process.
LEMMA EndStep ==
  ASSUME IInv, NEW S \in SUBSET calls, calls' = calls \ S, left' \in {left, {}}, todo' \in {todo, {}},
         UNCHANGED <<server, seen, mailbox, row, stray>>
  PROVE  IInv'
<1>1. Types'
  BY DEF IInv, Types, mailbox
<1>2. QueueInv'
  <2>1. By("queue")' \subseteq By("queue")
    BY DEF By
  <2>2. left' \subseteq left
    OBVIOUS
  <2>. QED  BY <2>1, <2>2 DEF IInv, QueueInv
<1>. QED  BY <1>1, <1>2, JobStep DEF mailbox

LEMMA BackoffStep == ASSUME IInv, NEW m \in Msgs, BackoffElapses(m) PROVE IInv'
<1>1. PICK r \in QueueRows : r = row[m]
  BY DEF IInv, Types
<1>2. PICK q : q = [r EXCEPT !.cooling = FALSE]
  OBVIOUS
<1>3. q = [status |-> r.status, attempts |-> r.attempts, cooling |-> FALSE]
  BY <1>2 DEF QueueRows
<1>4. q \in QueueRows /\ q.status = r.status /\ q.attempts = r.attempts
  BY <1>3 DEF QueueRows
<1>5. row' = [row EXCEPT ![m] = q] /\ UNCHANGED <<server, seen, mailbox, left, todo, calls, stray>>
  BY <1>1, <1>2 DEF BackoffElapses
<1>6. Types' /\ \A n \in Msgs : row'[n].status = row[n].status /\ row'[n].attempts = row[n].attempts
  BY <1>1, <1>4, <1>5 DEF IInv, Types, mailbox
<1>7. QueueInv'
  <2>1. \A i \in Items : i.msg \in Msgs
    BY DEF Items
  <2>2. \A b \in left \cup {c.items : c \in calls} : \A i \in b : i.msg \in Msgs
    BY <2>1 DEF IInv, Types, Calls
  <2>. QED  BY <1>5, <1>6, <2>2 DEF IInv, QueueInv, By
<1>. QED  BY <1>5, <1>6, <1>7, JobStep DEF mailbox

-----------------------------------------------------------------------------
(* Moves at the provider *)

\* The message's copy stays, goes, or is somewhere else under a later UID.
Onward(m) ==
  \/ server'[m] = server[m] \/ server'[m] = Gone
  \/ server[m] # Gone /\ server'[m].folder \in Folders /\ server'[m].uid > server[m].uid

LEMMA ItemForward ==
  ASSUME IInv, Types', NEW i \in Items, Known(i.msg, At(i.folder, i.uid)), \A m \in Msgs : Onward(m)
  PROVE  /\ Known(i.msg, At(i.folder, i.uid))'
         /\ server[i.msg] # At(i.folder, i.uid) => server'[i.msg] # At(i.folder, i.uid)
<1>1. PICK x : x = At(i.folder, i.uid)
  OBVIOUS
<1>2. x # Gone /\ x.uid \in Uids /\ i.msg \in Msgs
  BY <1>1 DEF At, Gone, Items, Folders
<1>3. Onward(i.msg) /\ Known(i.msg, x) /\ Types
  BY <1>1, <1>2 DEF IInv
<1>4. Known(i.msg, x)' /\ (server[i.msg] # x => server'[i.msg] # x)
  BY <1>2, <1>3, KnownForward DEF Onward
<1>. QED  BY <1>1, <1>4

LEMMA CallForward ==
  ASSUME IInv, Types', NEW c \in calls, \A m \in Msgs : Onward(m)
  PROVE  CallInv(c)'
<1>1. CallInv(c) /\ c \in Calls /\ Types
  BY DEF IInv, Types
<1>2. \A i \in c.items : i \in Items /\ Known(i.msg, At(i.folder, i.uid))
  BY <1>1 DEF CallInv, ItemsKnown, Calls
<1>3. \A i \in c.items : /\ Known(i.msg, At(i.folder, i.uid))'
                         /\ server[i.msg] # At(i.folder, i.uid) => server'[i.msg] # At(i.folder, i.uid)
  BY <1>2, ItemForward
<1>4. ASSUME NEW m \in Msgs, c.got[m] # NoUid PROVE Known(m, At(c.dest, c.got[m]))'
  <2>1. PICK x : x = At(c.dest, c.got[m])
    OBVIOUS
  <2>2. x # Gone /\ x.uid \in Uids
    BY <1>1, <1>4, <2>1 DEF At, Gone, Calls
  <2>3. Known(m, x) /\ Onward(m)
    BY <1>1, <1>4, <2>1 DEF CallInv
  <2>4. Known(m, x)'
    BY <1>1, <2>2, <2>3, KnownForward DEF Onward
  <2>. QED  BY <2>1, <2>4
<1>. QED  BY <1>1, <1>3, <1>4 DEF CallInv, ItemsKnown

LEMMA MoveStep ==
  ASSUME IInv, Types', QueueInv', UNCHANGED <<seen, mailbox, row, left, todo, stray>>,
         \A m \in Msgs : Onward(m), \A c \in calls' : CallInv(c)'
  PROVE  IInv'
<1>1. ASSUME NEW m \in Msgs PROVE MailInv(m)' /\ SightInv(m)' /\ HiddenInv(m)'
  <2>1. Onward(m) /\ MailInv(m) /\ SightInv(m) /\ HiddenInv(m) /\ Types
    BY DEF IInv
  <2>2. /\ server[m].uid \in Nat /\ server'[m].uid \in Nat /\ seen[m] \in Nat /\ seen'[m] = seen[m]
        /\ maps'[m] = maps[m] /\ maps[m] \in SUBSET Mappings
    BY <2>1 DEF Types, Places, Uids, mailbox
  <2>3. ASSUME NEW x \in maps[m] PROVE Known(m, x)'
    <3>1. x # Gone /\ x.uid \in Uids
      BY <2>2 DEF Mappings, Gone, At, Folders
    <3>. QED  BY <2>1, <3>1, KnownForward DEF Onward, MailInv
  <2>4. \/ server'[m] = server[m] \/ server'[m] = Gone
        \/ server'[m].folder \in Folders /\ server'[m].uid > 0 /\ seen[m] < server'[m].uid
    BY <2>1, <2>2 DEF Onward, MailInv
  <2>5. MailInv(m)'
    BY <2>1, <2>2, <2>3, <2>4 DEF MailInv
  <2>6. Gone.folder = "nowhere"
    BY DEF Gone, At
  <2>7. UNCHANGED <<stray, local, tomb, purged, row>>
    BY DEF mailbox
  <2>8. SightInv(m)'
    BY <2>1, <2>2, <2>4, <2>7 DEF SightInv
  <2>9. HiddenInv(m)'
    BY <2>1, <2>2, <2>4, <2>6, <2>7 DEF HiddenInv
  <2>. QED  BY <2>5, <2>8, <2>9
<1>2. ASSUME NEW b \in left \cup todo PROVE ItemsKnown(b)'
  <2>1. ItemsKnown(b) /\ b \in SUBSET Items
    BY DEF IInv, Types
  <2>. QED  BY <2>1, ItemForward DEF ItemsKnown
<1>. QED  BY <1>1, <1>2 DEF IInv

LEMMA OtherMovesStep ==
  ASSUME IInv, NEW m \in Msgs, NEW f \in Folders, OtherMoves(m, f)
  PROVE  IInv'
<1>1. server[m] \in Places /\ server[m].uid < MaxUid /\ server[m] # Gone /\ server \in [Msgs -> Places]
  BY DEF OtherMoves, IInv, Types
<1>2. PICK x : x = At(f, server[m].uid + 1)
  OBVIOUS
<1>3. x \in Places /\ x.folder = f /\ x.uid = server[m].uid + 1 /\ x.uid > server[m].uid
  BY <1>1, <1>2, LifecycleAssumption DEF At, Places, Uids
<1>4. server' = [server EXCEPT ![m] = x] /\ UNCHANGED <<seen, mailbox, jobs, bounds, stray>>
  BY <1>2 DEF OtherMoves
<1>5. server'[m] = x /\ \A n \in Msgs : n # m => server'[n] = server[n]
  BY <1>1, <1>4
<1>6. \A n \in Msgs : Onward(n)
  BY <1>1, <1>3, <1>5 DEF Onward
<1>7. Types'
  BY <1>3, <1>4 DEF IInv, Types, mailbox, jobs
<1>8. QueueInv'
  BY <1>4 DEF IInv, QueueInv, jobs, By
<1>9. \A c \in calls' : CallInv(c)'
  BY <1>4, <1>6, <1>7, CallForward DEF jobs
<1>. QED  BY <1>4, <1>6, <1>7, <1>8, <1>9, MoveStep DEF jobs

LEMMA PerformStep == ASSUME IInv, NEW c \in calls, Perform(c) PROVE IInv'
<1>. DEFINE found == {i \in c.items : server[i.msg] = At(i.folder, i.uid)}
            hit == {i.msg : i \in found}
            moved == [m \in Msgs |-> IF m \notin hit THEN server[m]
                                     ELSE IF c.dest = "nowhere" THEN Gone
                                     ELSE At(c.dest, server[m].uid + 1)]
            got == [m \in Msgs |-> IF m \in hit /\ UidPlus THEN server[m].uid + 1 ELSE NoUid]
<1>1. /\ c \in Calls /\ CallInv(c) /\ Types /\ QueueInv
      /\ ~ c.done /\ \A m \in hit : server[m].uid < MaxUid
      /\ server' = moved /\ UNCHANGED <<seen, mailbox, row, left, todo, bounds, stray>>
  BY DEF Perform, IInv, Types
<1>2. PICK d : d = [c EXCEPT !.done = TRUE, !.got = got]
  OBVIOUS
<1>3. calls' = (calls \ {c}) \cup {d}
  BY <1>2 DEF Perform
<1>4. d = [by |-> c.by, items |-> c.items, dest |-> c.dest, done |-> TRUE, got |-> got]
  BY <1>1, <1>2 DEF Calls
<1>5. \A i \in c.items : i \in Items /\ i.msg \in Msgs
  BY <1>1 DEF Calls, Items
<1>6. \A m \in hit : /\ m \in Msgs /\ server[m] # Gone /\ server[m].uid \in Nat
                     /\ server[m].uid + 1 \in Uids /\ server[m].uid < MaxUid
  <2>1. \A i \in found : i.msg \in Msgs /\ server[i.msg] # Gone /\ server[i.msg] \in Places
    BY <1>1, <1>5 DEF At, Gone, Items, Folders, Types
  <2>2. \A x \in Places : x.uid \in Nat /\ (x.uid < MaxUid => x.uid + 1 \in Uids)
    BY LifecycleAssumption DEF Places, Uids
  <2>. QED  BY <1>1, <2>1, <2>2
<1>7. \A i \in c.items : server[i.msg] = At(i.folder, i.uid) => i.msg \in hit
  OBVIOUS
<1>. HIDE DEF found, hit
<1>8. NoUid \in Uids /\ Gone \in Places
  BY LifecycleAssumption DEF NoUid, Uids, Gone, At, Places
<1>9. moved \in [Msgs -> Places] /\ got \in [Msgs -> Uids]
  <2>1. \A m \in Msgs : server[m] \in Places
    BY <1>1 DEF Types
  <2>2. \A m \in hit : c.dest # "nowhere" => At(c.dest, server[m].uid + 1) \in Places
    BY <1>1, <1>6 DEF At, Places, Calls
  <2>. QED  BY <1>6, <1>8, <2>1, <2>2
<1>10. /\ \A m \in Msgs \ hit : server'[m] = server[m]
       /\ \A m \in hit : server'[m] = IF c.dest = "nowhere" THEN Gone ELSE At(c.dest, server[m].uid + 1)
       /\ \A m \in Msgs : got[m] # NoUid => m \in hit /\ got[m] = server[m].uid + 1
  BY <1>1, <1>6
<1>. HIDE DEF moved, got
<1>11. \A m \in Msgs : Onward(m)
  <2>1. ASSUME NEW m \in hit
        PROVE  \/ server'[m] = Gone
               \/ server[m] # Gone /\ server'[m].folder \in Folders /\ server'[m].uid > server[m].uid
    <3>1. CASE c.dest = "nowhere"
      BY <1>10, <3>1
    <3>2. CASE c.dest # "nowhere"
      <4>1. server'[m].folder = c.dest /\ server'[m].uid = server[m].uid + 1
        <5>1. server'[m] = At(c.dest, server[m].uid + 1)
          BY <1>10, <3>2
        <5>. QED  BY <5>1, AtIs
      <4>2. c.dest \in Folders
        BY <1>1, <3>2 DEF Calls
      <4>. QED  BY <1>6, <4>1, <4>2
    <3>. QED  BY <3>1, <3>2
  <2>. QED  BY <1>10, <2>1 DEF Onward
<1>12. d \in Calls /\ d.by = c.by /\ d.items = c.items /\ d.dest = c.dest /\ d.done /\ d.got = got
  BY <1>1, <1>4, <1>9 DEF Calls
<1>13. Types'
  BY <1>1, <1>3, <1>9, <1>12 DEF Types, mailbox
<1>14. QueueInv'
  <2>1. By("queue")' = IF c.by = "queue" THEN {d} ELSE By("queue")
    BY <1>1, <1>3, <1>12 DEF By, QueueInv
  <2>2. \A e, g \in calls' : e.by \in {"queue", "detach"} /\ g.by = e.by => e = g
    BY <1>1, <1>3, <1>12 DEF QueueInv
  <2>3. \A e \in By("queue")' : (\A i \in e.items : row[i.msg].status = "pending")
                                /\ \A b \in left : Apart(b, e.items)
    BY <1>1, <1>12, <2>1 DEF QueueInv, By
  <2>. QED  BY <1>1, <2>2, <2>3 DEF QueueInv
<1>15. CallInv(d)'
  <2>1. CallInv(c)'
    BY <1>11, <1>13, CallForward
  <2>2. ASSUME NEW i \in c.items PROVE server'[i.msg] # At(i.folder, i.uid)
    <3>1. CASE server[i.msg] = At(i.folder, i.uid)
      <4>1. i.msg \in hit /\ server[i.msg].uid = i.uid /\ i.folder # "nowhere"
        BY <1>5, <1>7, <3>1 DEF At, Items, Folders
      <4>2. server'[i.msg] = Gone \/ server'[i.msg].uid = server[i.msg].uid + 1
        <5>1. server'[i.msg] = Gone \/ server'[i.msg] = At(c.dest, server[i.msg].uid + 1)
          BY <1>10, <4>1
        <5>. QED  BY <5>1, AtIs
      <4>3. Gone # At(i.folder, i.uid) /\ At(i.folder, i.uid).uid = i.uid
        BY <4>1 DEF At, Gone
      <4>. QED  BY <1>6, <4>1, <4>2, <4>3
    <3>2. CASE server[i.msg] # At(i.folder, i.uid)
      BY <1>1, <1>5, <1>11, <1>13, <3>2, ItemForward DEF CallInv, ItemsKnown
    <3>. QED  BY <3>1, <3>2
  <2>3. ASSUME NEW m \in Msgs, d.got[m] # NoUid PROVE Known(m, At(d.dest, d.got[m]))'
    <3>1. server'[m] = Gone \/ server'[m] = At(d.dest, d.got[m])
      BY <1>10, <1>12, <2>3
    <3>2. PICK x : x = At(d.dest, d.got[m])
      OBVIOUS
    <3>3. x.uid = d.got[m] /\ d.got[m] \in Nat
      BY <1>9, <1>12, <3>2, AtIs DEF Uids
    <3>4. Known(m, x)'
      BY <3>1, <3>2, <3>3 DEF Known
    <3>. QED  BY <3>2, <3>4
  <2>4. d.dest = DestOf(d.by) /\ ItemsKnown(d.items)'
    BY <1>1, <1>12, <2>1 DEF CallInv
  <2>5. \A i \in d.items : server'[i.msg] # At(i.folder, i.uid)
    BY <1>12, <2>2
  <2>. QED  BY <2>3, <2>4, <2>5 DEF CallInv
<1>16. \A e \in calls' : CallInv(e)'
  BY <1>3, <1>11, <1>13, <1>15, CallForward
<1>. QED  BY <1>1, <1>11, <1>13, <1>14, <1>16, MoveStep

-----------------------------------------------------------------------------
(* Answers *)

\* What an answered MOVE says of a message is not ahead of the provider; and
\* unless sync has overtaken it, a copy that sync knows is where it says.
LEMMA RelinkFits ==
  ASSUME IInv, NEW c \in calls, c.dest \in Folders
  PROVE  /\ Relinked(c) \in [Msgs -> SUBSET Mappings]
         /\ \A m \in Msgs : \A x \in Relinked(c)[m] : x \in maps[m] \/ Known(m, x)
         /\ \A m \in Msgs : \A x, y \in Relinked(c)[m] : x.folder = y.folder => x = y
         /\ \A m \in Of(c) \ Overtaken(c) : server[m] # Gone /\ seen[m] = server[m].uid =>
              server[m].folder = c.dest /\ server[m] \in Relinked(c)[m]
<1>1. c \in Calls /\ CallInv(c) /\ Types /\ \A m \in Msgs : MailInv(m)
  BY DEF IInv, Types
<1>2. ASSUME NEW m \in Of(c)
      PROVE  m \in Msgs /\ At(c.dest, c.got[m]) \in Mappings /\ Known(m, At(c.dest, c.got[m]))
  <2>1. m \in Msgs
    BY <1>1 DEF Of, Calls, Items
  <2>2. PICK x : x = At(c.dest, c.got[m])
    OBVIOUS
  <2>3. x = [folder |-> c.dest, uid |-> c.got[m]] /\ c.got[m] \in Uids
    BY <1>1, <2>1, <2>2 DEF At, Calls
  <2>4. Known(m, x)
    <3>1. CASE c.got[m] # NoUid
      BY <1>1, <2>1, <2>2, <3>1 DEF CallInv
    <3>2. CASE c.got[m] = NoUid
      BY <1>1, <2>1, <2>3, <3>2 DEF Known, MailInv, NoUid, Types, Places, Uids
    <3>. QED  BY <3>1, <3>2
  <2>. QED  BY <2>1, <2>2, <2>3, <2>4 DEF Mappings
<1>3. \A m \in Msgs : IF m \in Of(c) THEN Relinked(c)[m] = {At(c.dest, c.got[m])} ELSE Relinked(c)[m] = maps[m]
  BY DEF Relinked
<1>4. Relinked(c) \in [Msgs -> SUBSET Mappings]
  <2>1. \A m \in Of(c) : {At(c.dest, c.got[m])} \in SUBSET Mappings
    BY <1>2
  <2>. QED  BY <1>1, <2>1 DEF Relinked, Types
<1>5. \A m \in Msgs : \A x \in Relinked(c)[m] : x \in maps[m] \/ Known(m, x)
  BY <1>2, <1>3
<1>6. \A m \in Msgs : \A x, y \in Relinked(c)[m] : x.folder = y.folder => x = y
  BY <1>1, <1>3 DEF MailInv
<1>7. ASSUME NEW m \in Of(c) \ Overtaken(c), server[m] # Gone, seen[m] = server[m].uid
      PROVE  server[m].folder = c.dest /\ server[m] \in Relinked(c)[m]
  <2>1. m \in Msgs /\ c.got[m] \in Nat /\ seen[m] \in Nat /\ Known(m, At(c.dest, c.got[m]))
    BY <1>1, <1>2 DEF Calls, Types, Uids
  <2>2. seen[m] <= c.got[m] /\ seen[m] > 0
    BY <1>1, <2>1 DEF Overtaken, MailInv
  <2>3. server[m] = At(c.dest, c.got[m])
    <3>1. At(c.dest, c.got[m]).uid = c.got[m]
      BY AtIs
    <3>. QED  BY <1>7, <2>1, <2>2, <3>1 DEF Known
  <2>. QED  BY <1>3, <2>1, <2>3, AtIs
<1>. QED  BY <1>4, <1>5, <1>6, <1>7

\* A call that is over, its messages' rows settled or put back.
LEMMA QueueLeft ==
  ASSUME IInv, NEW c \in calls, calls' = calls \ {c}, UNCHANGED left, Types',
         \A m \in Msgs : row'[m].status = "pending" => row'[m].attempts < MaxAttempts,
         \A m \in Msgs : row'[m] = row[m] \/ (c.by = "queue" /\ m \in Of(c))
  PROVE  QueueInv'
<1>1. QueueInv /\ Types
  BY DEF IInv
<1>2. \A b \in left : \A i \in b : i.msg \in Msgs
  BY <1>1 DEF Types, Items
<1>3. \A b \in left : \A i \in b : row'[i.msg].status = "pending"
  <2>1. c.by = "queue" => \A b \in left : \A i \in b : i.msg \notin Of(c)
    BY <1>1 DEF QueueInv, By, Apart, Of
  <2>. QED  BY <1>1, <1>2, <2>1 DEF QueueInv
<1>4. \A d \in By("queue")' : d \in By("queue") /\ c.by # "queue"
  BY <1>1 DEF By, QueueInv
<1>5. \A d \in By("queue") : \A i \in d.items : i.msg \in Msgs
  BY <1>1 DEF Types, Calls, Items, By
<1>6. \A d \in By("queue")' : (\A i \in d.items : row'[i.msg].status = "pending") /\ \A b \in left : Apart(b, d.items)
  BY <1>1, <1>4, <1>5 DEF QueueInv
<1>. QED  BY <1>1, <1>3, <1>6 DEF QueueInv

\* A row whose status alone is set.
LEMMA StatusSet ==
  ASSUME NEW rw \in [Msgs -> QueueRows], NEW S, NEW st \in {"none", "pending", "done", "dead"}
  PROVE  /\ SetStatus(rw, S, st) \in [Msgs -> QueueRows]
         /\ \A m \in Msgs : IF m \in S THEN SetStatus(rw, S, st)[m].status = st ELSE SetStatus(rw, S, st)[m] = rw[m]
<1>1. ASSUME NEW m \in Msgs PROVE [rw[m] EXCEPT !.status = st] \in QueueRows /\ [rw[m] EXCEPT !.status = st].status = st
  <2>1. PICK r \in QueueRows : r = rw[m]
    OBVIOUS
  <2>2. PICK q : q = [r EXCEPT !.status = st]
    OBVIOUS
  <2>3. q = [status |-> st, attempts |-> r.attempts, cooling |-> r.cooling]
    BY <2>2 DEF QueueRows
  <2>4. q \in QueueRows /\ q.status = st
    BY <2>3 DEF QueueRows
  <2>. QED  BY <2>1, <2>2, <2>4
<1>. QED  BY <1>1 DEF SetStatus

LEMMA QueueMovedStep == ASSUME IInv, NEW c \in calls, QueueMoved(c) PROVE IInv'
<1>1. /\ c.by = "queue" /\ c \in Calls /\ CallInv(c) /\ Types
      /\ row \in [Msgs -> QueueRows] /\ QueueInv
      /\ maps' = Relinked(c) /\ row' = SetStatus(row, Of(c), "done")
      /\ stray' = stray \cup Overtaken(c) /\ calls' = calls \ {c}
      /\ UNCHANGED <<server, seen, tomb, purged, local, left, todo, bounds>>
  BY DEF QueueMoved, IInv, Types
<1>2. c.dest = "trash" /\ c.dest \in Folders
  BY <1>1 DEF CallInv, DestOf, Folders
<1>3. /\ row' \in [Msgs -> QueueRows]
      /\ \A m \in Msgs : IF m \in Of(c) THEN row'[m].status = "done" ELSE row'[m] = row[m]
  BY <1>1, StatusSet
<1>4. Types'
  BY <1>1, <1>2, <1>3, RelinkFits DEF Types
<1>5. QueueInv'
  <2>1. \A m \in Msgs : row'[m].status = "pending" => row'[m].attempts < MaxAttempts
    BY <1>1, <1>3 DEF QueueInv
  <2>. QED  BY <1>1, <1>3, <1>4, <2>1, QueueLeft
<1>6. ASSUME NEW m \in Msgs PROVE SightInv(m)' /\ HiddenInv(m)'
  <2>1. CASE m \in Of(c)
    <3>1. m \notin stray' /\ server[m] # Gone /\ seen[m] = server[m].uid =>
            server[m].folder = "trash" /\ server[m] \in maps'[m]
      BY <1>1, <1>2, <2>1, RelinkFits
    <3>2. server[m] = Gone => server[m].folder = "nowhere"
      BY AtIs DEF Gone
    <3>. QED  BY <1>1, <3>1, <3>2 DEF SightInv, HiddenInv
  <2>2. CASE m \notin Of(c)
    <3>1. maps'[m] = maps[m] /\ row'[m] = row[m] /\ (m \notin stray' => m \notin stray)
      BY <1>1, <1>3, <2>2 DEF Relinked
    <3>. QED  BY <1>1, <3>1 DEF IInv, SightInv, HiddenInv
  <2>. QED  BY <2>1, <2>2
<1>7. /\ \A m \in Msgs : \A x \in maps'[m] : x \in maps[m] \/ Known(m, x)
      /\ \A m \in Msgs : \A x, y \in maps'[m] : x.folder = y.folder => x = y
  BY <1>1, <1>2, RelinkFits
<1>. QED  BY <1>1, <1>4, <1>5, <1>6, <1>7, StillStep

LEMMA RestoredStep == ASSUME IInv, NEW c \in calls, Restored(c) PROVE IInv'
<1>1. /\ c.by = "restore" /\ c \in Calls /\ CallInv(c) /\ Types /\ QueueInv
      /\ maps' = Relinked(c) /\ tomb' = [m \in Msgs |-> tomb[m] /\ m \notin Of(c)]
      /\ stray' = stray \cup Overtaken(c) /\ calls' = calls \ {c}
      /\ UNCHANGED <<server, seen, purged, local, row, left, todo, bounds>>
  BY DEF Restored, IInv, Types
<1>2. c.dest \in Folders
  BY <1>1 DEF CallInv, DestOf, Folders
<1>3. Types'
  BY <1>1, <1>2, RelinkFits DEF Types
<1>4. QueueInv'
  BY <1>1, <1>3, QueueLeft DEF QueueInv
<1>5. ASSUME NEW m \in Msgs PROVE SightInv(m)' /\ HiddenInv(m)'
  <2>1. CASE m \in Of(c)
    <3>1. m \notin stray' /\ server[m] # Gone /\ seen[m] = server[m].uid => server[m] \in maps'[m]
      BY <1>1, <1>2, <2>1, RelinkFits
    <3>2. ~ tomb'[m]
      BY <1>1, <2>1
    <3>. QED  BY <1>1, <3>1, <3>2 DEF SightInv, HiddenInv
  <2>2. CASE m \notin Of(c)
    <3>1. maps'[m] = maps[m] /\ (tomb'[m] => tomb[m]) /\ (m \notin stray' => m \notin stray)
      BY <1>1, <2>2 DEF Relinked
    <3>. QED  BY <1>1, <3>1 DEF IInv, SightInv, HiddenInv
  <2>. QED  BY <2>1, <2>2
<1>6. /\ \A m \in Msgs : \A x \in maps'[m] : x \in maps[m] \/ Known(m, x)
      /\ \A m \in Msgs : \A x, y \in maps'[m] : x.folder = y.folder => x = y
  BY <1>1, <1>2, RelinkFits
<1>. QED  BY <1>1, <1>3, <1>4, <1>5, <1>6, StillStep

LEMMA QueueFailsStep == ASSUME IInv, NEW c \in calls, QueueFails(c) PROVE IInv'
<1>. DEFINE rows == [m \in Msgs |-> IF m \in Of(c) THEN Failed(row[m]) ELSE row[m]]
<1>1. /\ c.by = "queue" /\ c \in Calls /\ Types /\ QueueInv /\ row \in [Msgs -> QueueRows]
      /\ row' = rows /\ tomb' = [m \in Msgs |-> tomb[m] /\ ~ (m \in Of(c) /\ rows[m].status = "dead")]
      /\ calls' = calls \ {c}
      /\ UNCHANGED <<server, seen, maps, purged, local, left, todo, bounds, stray>>
  BY DEF QueueFails, MarkFailed, IInv, Types
<1>2. ASSUME NEW m \in Of(c)
      PROVE  /\ m \in Msgs /\ Failed(row[m]) \in QueueRows
             /\ \/ Failed(row[m]).status = "dead"
                \/ Failed(row[m]).status = "pending" /\ Failed(row[m]).attempts < MaxAttempts
  <2>1. m \in Msgs /\ row[m].status = "pending" /\ row[m].attempts < MaxAttempts
    BY <1>1 DEF Of, QueueInv, By, Calls, Items
  <2>2. PICK n \in Nat : n = row[m].attempts + 1
    BY <1>1, <2>1 DEF QueueRows
  <2>3. MaxAttempts \in Nat /\ n <= MaxAttempts
    BY <1>1, <2>1, <2>2, LifecycleAssumption DEF QueueRows
  <2>4. CASE n >= MaxAttempts
    <3>1. Failed(row[m]) = [status |-> "dead", attempts |-> n, cooling |-> FALSE]
      BY <2>2, <2>4 DEF Failed
    <3>. QED  BY <2>1, <2>3, <3>1 DEF QueueRows
  <2>5. CASE n < MaxAttempts
    <3>1. Failed(row[m]) = [status |-> "pending", attempts |-> n, cooling |-> TRUE]
      BY <2>2, <2>3, <2>5 DEF Failed
    <3>. QED  BY <2>1, <2>3, <2>5, <3>1 DEF QueueRows
  <2>. QED  BY <2>3, <2>4, <2>5
<1>3. \A m \in Msgs : rows[m] = IF m \in Of(c) THEN Failed(row[m]) ELSE row[m]
  OBVIOUS
<1>4. rows \in [Msgs -> QueueRows]
  BY <1>1, <1>2
<1>. HIDE DEF rows
<1>5. Types'
  <2>1. tomb' \in [Msgs -> BOOLEAN]
    BY <1>1
  <2>. QED  BY <1>1, <1>4, <2>1 DEF Types
<1>6. QueueInv'
  <2>1. \A m \in Msgs : row'[m].status = "pending" => row'[m].attempts < MaxAttempts
    BY <1>1, <1>2, <1>3 DEF QueueInv
  <2>2. \A m \in Msgs : row'[m] = row[m] \/ (c.by = "queue" /\ m \in Of(c))
    BY <1>1, <1>3
  <2>. QED  BY <1>1, <1>5, <2>1, <2>2, QueueLeft
<1>7. ASSUME NEW m \in Msgs PROVE SightInv(m)' /\ HiddenInv(m)'
  <2>1. SightInv(m)'
    BY <1>1 DEF IInv, SightInv
  <2>2. CASE m \in Of(c)
    <3>1. ~ tomb'[m] \/ row'[m].status = "pending"
      BY <1>1, <1>2, <1>3, <2>2
    <3>. QED  BY <2>1, <3>1 DEF HiddenInv
  <2>3. CASE m \notin Of(c)
    <3>1. row'[m] = row[m] /\ (tomb'[m] => tomb[m])
      BY <1>1, <1>3, <2>3
    <3>. QED  BY <1>1, <2>1, <3>1 DEF IInv, HiddenInv
  <2>. QED  BY <2>2, <2>3
<1>8. \A m \in Msgs : \A x, y \in maps'[m] : x.folder = y.folder => x = y
  BY <1>1 DEF IInv, MailInv
<1>. QED  BY <1>1, <1>5, <1>6, <1>7, <1>8, StillStep

-----------------------------------------------------------------------------
(* Purges and detaches *)

LEMMA PurgeStep ==
  ASSUME IInv, NEW S \in SUBSET Msgs, Purge(S), NEW ended \in SUBSET calls, calls' = calls \ ended,
         UNCHANGED <<server, seen, maps, local, row, left, todo, stray>>
  PROVE  IInv'
<1>1. /\ tomb' = [m \in Msgs |-> tomb[m] \/ m \in S] /\ purged' = [m \in Msgs |-> purged[m] \/ m \in S]
      /\ Types /\ QueueInv
  BY DEF Purge, IInv
<1>2. Types'
  <2>1. tomb' \in [Msgs -> BOOLEAN] /\ purged' \in [Msgs -> BOOLEAN]
    BY <1>1
  <2>. QED  BY <1>1, <2>1 DEF Types
<1>3. QueueInv'
  BY <1>1 DEF QueueInv, By
<1>4. ASSUME NEW m \in Msgs PROVE SightInv(m)' /\ HiddenInv(m)'
  <2>1. tomb'[m] /\ ~ purged'[m] => tomb[m] /\ ~ purged[m]
    BY <1>1
  <2>. QED  BY <2>1 DEF IInv, SightInv, HiddenInv
<1>5. \A m \in Msgs : \A x, y \in maps'[m] : x.folder = y.folder => x = y
  BY DEF IInv, MailInv
<1>. QED  BY <1>2, <1>3, <1>4, <1>5, StillStep

LEMMA LocalStep ==
  ASSUME IInv, NEW S \in SUBSET Msgs, local' = Localised(S), NEW ended \in SUBSET calls, calls' = calls \ ended,
         todo' \in SUBSET SUBSET Items, \A b \in todo' : b \in todo \/ ItemsKnown(b),
         UNCHANGED <<server, seen, maps, tomb, purged, row, left, stray>>
  PROVE  IInv'
<1>1. local' = [m \in Msgs |-> local[m] \/ m \in S] /\ Types /\ QueueInv
  BY DEF Localised, IInv
<1>2. Types'
  <2>1. local' \in [Msgs -> BOOLEAN]
    BY <1>1
  <2>. QED  BY <1>1, <2>1 DEF Types
<1>3. QueueInv'
  BY <1>1 DEF QueueInv, By
<1>4. ASSUME NEW m \in Msgs PROVE SightInv(m)' /\ HiddenInv(m)'
  <2>1. ~ local'[m] => ~ local[m]
    BY <1>1
  <2>. QED  BY <2>1 DEF IInv, SightInv, HiddenInv
<1>5. \A m \in Msgs : \A x, y \in maps'[m] : x.folder = y.folder => x = y
  BY DEF IInv, MailInv
<1>. QED  BY <1>2, <1>3, <1>4, <1>5, StillStep

LEMMA StartDetachStep == ASSUME IInv, NEW S \in SUBSET Candidates, StartDetach(S) PROVE IInv'
<1>1. PICK moving \in SUBSET S : local' = Localised(S \ moving) /\ todo' = Batches(moving)
  BY DEF StartDetach
<1>2. S \ moving \in SUBSET Msgs /\ moving \in SUBSET Msgs
  BY LifecycleAssumption DEF Candidates
<1>3. UNCHANGED <<server, seen, maps, tomb, purged, row, left, calls, bounds, stray>>
  BY DEF StartDetach
<1>4. todo' \in SUBSET SUBSET Items /\ \A b \in todo' : b \in todo \/ ItemsKnown(b)
  BY <1>1, <1>2, BatchesFit
<1>5. {} \in SUBSET calls /\ calls' = calls \ {}
  BY <1>3
<1>. QED  BY <1>1, <1>2, <1>3, <1>4, <1>5, LocalStep

LEMMA DetachedStep == ASSUME IInv, NEW c \in calls, Detached(c) PROVE IInv'
<1>1. /\ local' = Localised(Of(c)) /\ calls' = calls \ {c}
      /\ UNCHANGED <<server, seen, maps, tomb, purged, row, left, todo, bounds, stray>>
  BY DEF Detached
<1>2. Of(c) \in SUBSET Msgs /\ {c} \in SUBSET calls /\ todo' \in SUBSET SUBSET Items
  BY <1>1 DEF Of, IInv, Types, Calls, Items
<1>. QED  BY <1>1, <1>2, LocalStep

LEMMA ErasedStep == ASSUME IInv, NEW c \in calls, Erased(c) PROVE IInv'
<1>1. /\ Purge(Of(c)) /\ calls' = calls \ {c}
      /\ UNCHANGED <<server, seen, maps, local, row, left, todo, bounds, stray>>
  BY DEF Erased
<1>2. Of(c) \in SUBSET Msgs /\ {c} \in SUBSET calls
  BY DEF Of, IInv, Types, Calls, Items
<1>. QED  BY <1>1, <1>2, PurgeStep

LEMMA EmptyTrashStep == ASSUME IInv, EmptyTrash PROVE IInv'
<1>1. Purge(InTrash) /\ UNCHANGED <<server, seen, maps, local, jobs, bounds, stray>>
  BY DEF EmptyTrash
<1>2. InTrash \in SUBSET Msgs /\ {} \in SUBSET calls /\ calls' = calls \ {}
  BY <1>1 DEF InTrash, jobs
<1>. QED  BY <1>1, <1>2, PurgeStep DEF jobs

-----------------------------------------------------------------------------
(* Requests *)

LEMMA ItemFits ==
  ASSUME IInv, NEW m \in Msgs, NEW x \in maps[m]
  PROVE  Item(m, x) \in Items /\ Known(Item(m, x).msg, At(Item(m, x).folder, Item(m, x).uid))
<1>1. x \in Mappings /\ Known(m, x)
  BY DEF IInv, Types, MailInv
<1>2. PICK i : i = Item(m, x)
  OBVIOUS
<1>3. i = [msg |-> m, folder |-> x.folder, uid |-> x.uid]
  BY <1>2 DEF Item
<1>4. At(i.folder, i.uid) = x /\ i.msg = m
  BY <1>1, <1>3 DEF At, Mappings
<1>. QED  BY <1>1, <1>2, <1>3, <1>4 DEF Items, Mappings

\* A request that asks the provider first.
LEMMA RequestStep ==
  ASSUME IInv, NEW by \in {"restore", "forever"}, NEW b \in SUBSET Items, ItemsKnown(b),
         calls' = calls \cup {Call(by, b, DestOf(by))},
         UNCHANGED <<server, seen, maps, tomb, purged, local, row, left, todo, stray>>
  PROVE  IInv'
<1>1. PICK c : c = Call(by, b, DestOf(by))
  OBVIOUS
<1>2. Made(c) /\ c.by = by
  BY <1>1, MadeCall DEF Whos
<1>3. Types'
  BY <1>1, <1>2 DEF IInv, Types, Made
<1>4. QueueInv'
  <2>1. By("queue")' = By("queue")
    BY <1>1, <1>2 DEF By
  <2>2. \A d \in calls' : d.by \in {"queue", "detach"} => d \in calls
    BY <1>1, <1>2
  <2>. QED  BY <2>1, <2>2 DEF IInv, QueueInv
<1>. QED  BY <1>1, <1>2, <1>3, <1>4, JobStep

LEMMA RestoreStep == ASSUME IInv, NEW m \in Msgs, Restore(m) PROVE IInv'
<1>1. /\ Types /\ QueueInv /\ MailInv(m) /\ Placement(m) # Unplaced
      /\ UNCHANGED <<server, seen, purged, local, row, left, todo, stray>>
  BY DEF Restore, IInv
<1>2. CASE Placement(m) = LocalOnly
  <2>1. /\ maps' = [maps EXCEPT ![m] = {At("inbox", NoUid)}] /\ tomb' = [tomb EXCEPT ![m] = FALSE]
        /\ calls' = calls
    BY <1>2 DEF Restore
  <2>2. local[m]
    <3>1. LocalOnly \notin Mappings /\ LocalOnly # Unplaced
      BY DEF LocalOnly, Unplaced, At, Mappings, Folders
    <3>. QED  BY <1>1, <1>2, <3>1, PlacementIs DEF Types
  <2>3. PICK x : x = At("inbox", NoUid)
    OBVIOUS
  <2>4. x \in Mappings /\ Known(m, x)
    <3>1. x = [folder |-> "inbox", uid |-> NoUid] /\ NoUid \in Uids /\ "inbox" \in Folders
      BY <2>3, LifecycleAssumption DEF At, NoUid, Uids, Folders
    <3>2. server[m] # Gone => x.uid <= server[m].uid /\ x.uid # server[m].uid
      BY <1>1, <3>1 DEF MailInv, NoUid, Types, Places, Uids
    <3>. QED  BY <3>1, <3>2 DEF Known, Mappings
  <2>5. \A n \in Msgs : maps'[n] = IF n = m THEN {x} ELSE maps[n]
    BY <1>1, <2>1, <2>3 DEF Types
  <2>6. Types'
    <3>1. maps' \in [Msgs -> SUBSET Mappings] /\ tomb' \in [Msgs -> BOOLEAN]
      BY <1>1, <2>1, <2>3, <2>4 DEF Types
    <3>. QED  BY <1>1, <2>1, <3>1 DEF Types
  <2>7. QueueInv'
    BY <1>1, <2>1 DEF QueueInv, By
  <2>8. ASSUME NEW n \in Msgs PROVE SightInv(n)' /\ HiddenInv(n)'
    <3>1. CASE n = m
      BY <1>1, <2>1, <2>2, <3>1 DEF SightInv, HiddenInv
    <3>2. CASE n # m
      <4>1. maps'[n] = maps[n] /\ tomb'[n] = tomb[n]
        BY <1>1, <2>1, <3>2 DEF Types
      <4>. QED  BY <1>1, <4>1 DEF IInv, SightInv, HiddenInv
    <3>. QED  BY <3>1, <3>2
  <2>9. /\ \A n \in Msgs : \A y \in maps'[n] : y \in maps[n] \/ Known(n, y)
        /\ \A n \in Msgs : \A y, z \in maps'[n] : y.folder = z.folder => y = z
    BY <2>4, <2>5 DEF IInv, MailInv
  <2>. QED  BY <1>1, <2>1, <2>6, <2>7, <2>8, <2>9, StillStep
<1>3. CASE Placement(m) # LocalOnly
  <2>1. calls' = calls \cup {Call("restore", {Item(m, Placement(m))}, "inbox")} /\ UNCHANGED <<maps, tomb>>
    BY <1>3 DEF Restore
  <2>2. Placement(m) \in maps[m]
    BY <1>1, <1>3, PlacementIs
  <2>3. PICK b : b = {Item(m, Placement(m))}
    OBVIOUS
  <2>4. b \in SUBSET Items /\ ItemsKnown(b)
    BY <2>2, <2>3, ItemFits DEF IInv, ItemsKnown
  <2>. QED  BY <1>1, <2>1, <2>3, <2>4, RequestStep DEF Whos, DestOf
<1>. QED  BY <1>2, <1>3

LEMMA ForeverStep == ASSUME IInv, NEW m \in Msgs, Forever(m) PROVE IInv'
<1>1. UNCHANGED <<server, seen, maps, local, row, left, todo, stray>>
  BY DEF Forever
<1>2. CASE local[m]
  <2>1. Purge({m}) /\ calls' = calls \ {} /\ {} \in SUBSET calls /\ {m} \in SUBSET Msgs
    BY <1>2 DEF Forever
  <2>. QED  BY <1>1, <2>1, PurgeStep
<1>3. CASE ~ local[m]
  <2>1. PICK there \in SUBSET maps[m] : calls' = calls \cup {Call("forever", {Item(m, x) : x \in there}, "nowhere")}
    BY <1>3 DEF Forever
  <2>2. PICK b : b = {Item(m, x) : x \in there}
    OBVIOUS
  <2>3. b \in SUBSET Items /\ ItemsKnown(b)
    BY <2>1, <2>2, ItemFits DEF ItemsKnown
  <2>4. UNCHANGED <<tomb, purged>>
    BY <1>3 DEF Forever
  <2>. QED  BY <1>1, <2>1, <2>2, <2>3, <2>4, RequestStep DEF Whos, DestOf
<1>. QED  BY <1>2, <1>3

-----------------------------------------------------------------------------
(* Sync and restarts *)

LEMMA SightStep == ASSUME IInv, NEW m \in Msgs, Sight(m) PROVE IInv'
<1>1. /\ Types /\ QueueInv /\ MailInv(m)
      /\ server[m] # Gone /\ server[m].uid > seen[m] /\ seen' = [seen EXCEPT ![m] = server[m].uid]
      /\ UNCHANGED <<server, purged, local, row, left, todo, calls, stray>>
  BY DEF Sight, jobs, IInv
<1>2. /\ \A n \in Msgs : n # m => seen'[n] = seen[n] /\ maps'[n] = maps[n] /\ tomb'[n] = tomb[n]
      /\ seen'[m] = server[m].uid /\ seen' \in [Msgs -> Uids]
  BY <1>1 DEF Sight, Types, Places
<1>3. \/ local[m] /\ UNCHANGED <<maps, tomb>>
      \/ /\ ~ local[m]
         /\ maps' = [maps EXCEPT ![m] = {x \in maps[m] : x.folder # server[m].folder} \cup {server[m]}]
         /\ tomb' = [tomb EXCEPT ![m] = tomb[m] /\ ~ Revived(m)]
  BY DEF Sight
<1>4. server[m] \in Mappings /\ Known(m, server[m])
  BY <1>1 DEF MailInv, Types, Places, Mappings, Known, Uids
<1>5. /\ maps' \in [Msgs -> SUBSET Mappings] /\ tomb' \in [Msgs -> BOOLEAN]
      /\ \A x \in maps'[m] : x \in maps[m] \/ x = server[m]
      /\ \A x, y \in maps'[m] : x.folder = y.folder => x = y
      /\ local[m] \/ (server[m] \in maps'[m] /\ (tomb'[m] => ~ Revived(m)))
  BY <1>1, <1>3, <1>4 DEF Types, MailInv
<1>6. Types'
  BY <1>1, <1>2, <1>5 DEF Types
<1>7. QueueInv'
  BY <1>1 DEF QueueInv, By
<1>8. ASSUME NEW n \in Msgs PROVE SightInv(n)' /\ HiddenInv(n)'
  <2>1. CASE n = m
    BY <1>1, <1>5, <2>1 DEF SightInv, HiddenInv, Revived
  <2>2. CASE n # m
    BY <1>1, <1>2, <2>2 DEF IInv, SightInv, HiddenInv
  <2>. QED  BY <2>1, <2>2
<1>9. /\ \A n \in Msgs : seen'[n] = seen[n] \/ (seen'[n] = server[n].uid /\ server[n] # Gone)
      /\ \A n \in Msgs : \A x \in maps'[n] : x \in maps[n] \/ Known(n, x)
      /\ \A n \in Msgs : \A x, y \in maps'[n] : x.folder = y.folder => x = y
  BY <1>1, <1>2, <1>4, <1>5 DEF IInv, MailInv
<1>. QED  BY <1>1, <1>6, <1>7, <1>8, <1>9, StillStep

LEMMA UnlinkStep == ASSUME IInv, NEW m \in Msgs, Unlink(m) PROVE IInv'
<1>1. PICK x \in maps[m] :
        /\ x # server[m] /\ maps' = [maps EXCEPT ![m] = @ \ {x}]
        /\ tomb' = [tomb EXCEPT ![m] = @ \/ maps'[m] = {}]
  BY DEF Unlink
<1>2. Types /\ QueueInv /\ UNCHANGED <<server, seen, purged, local, row, left, todo, calls, stray>>
  BY DEF Unlink, jobs, IInv
<1>3. /\ maps' \in [Msgs -> SUBSET Mappings] /\ tomb' \in [Msgs -> BOOLEAN]
      /\ maps'[m] = maps[m] \ {x} /\ (tomb'[m] => tomb[m] \/ maps'[m] = {})
      /\ \A n \in Msgs : n # m => maps'[n] = maps[n] /\ tomb'[n] = tomb[n]
  BY <1>1, <1>2 DEF Types
<1>4. Types'
  BY <1>2, <1>3 DEF Types
<1>5. QueueInv'
  BY <1>2 DEF QueueInv, By
<1>6. ASSUME NEW n \in Msgs PROVE SightInv(n)' /\ HiddenInv(n)'
  <2>1. CASE n = m
    <3>1. SightInv(m)'
      BY <1>1, <1>2, <1>3 DEF IInv, SightInv
    <3>2. server[m] = Gone => server[m].folder = "nowhere"
      BY AtIs DEF Gone
    <3>. QED  BY <1>2, <1>3, <2>1, <3>1, <3>2 DEF IInv, SightInv, HiddenInv
  <2>2. CASE n # m
    BY <1>2, <1>3, <2>2 DEF IInv, SightInv, HiddenInv
  <2>. QED  BY <2>1, <2>2
<1>7. /\ \A n \in Msgs : \A y \in maps'[n] : y \in maps[n] \/ Known(n, y)
      /\ \A n \in Msgs : \A y, z \in maps'[n] : y.folder = z.folder => y = z
  BY <1>3 DEF IInv, MailInv
<1>. QED  BY <1>2, <1>4, <1>5, <1>6, <1>7, StillStep

LEMMA CrashInExecuteStep == ASSUME IInv, NEW S \in SUBSET Msgs, CrashInExecute(S) PROVE IInv'
<1>1. /\ Types /\ QueueInv
      /\ tomb' = [m \in Msgs |-> tomb[m] \/ m \in S] /\ stray' = stray \cup S
      /\ calls' = {} /\ left' = {} /\ todo' = {} /\ UNCHANGED <<server, seen, maps, purged, local, row>>
  BY DEF CrashInExecute, IInv
<1>2. Types'
  <2>1. tomb' \in [Msgs -> BOOLEAN]
    BY <1>1
  <2>. QED  BY <1>1, <2>1 DEF Types
<1>3. QueueInv'
  BY <1>1 DEF QueueInv, By
<1>4. ASSUME NEW m \in Msgs PROVE SightInv(m)' /\ HiddenInv(m)'
  <2>1. m \notin stray' => m \notin stray /\ tomb'[m] = tomb[m]
    BY <1>1 DEF Types
  <2>. QED  BY <1>1, <2>1 DEF IInv, SightInv, HiddenInv
<1>5. \A m \in Msgs : \A x, y \in maps'[m] : x.folder = y.folder => x = y
  BY <1>1 DEF IInv, MailInv
<1>. QED  BY <1>1, <1>2, <1>3, <1>4, <1>5, StillStep

-----------------------------------------------------------------------------
(* A pass of the trash queue *)

\* Rows that are as they were, or just queued.
Queueing(rw) ==
  /\ rw \in [Msgs -> QueueRows]
  /\ \A m \in Msgs : rw[m] = row[m] \/ (rw[m].status = "pending" /\ rw[m].attempts = 0)

\* What a pass makes of such rows: it settles a message that is detached, or
\* that has no UID outside the trash, and batches the rest.
Passed(rw) ==
  /\ row' \in [Msgs -> QueueRows] /\ maps' \in [Msgs -> SUBSET Mappings] /\ left' \in SUBSET SUBSET Items
  /\ \A m \in Msgs :
       \/ row'[m] = rw[m]
       \/ row'[m].status = "done" /\ (local[m] \/ \A x \in maps[m] : x.uid # NoUid => x.folder = "trash")
  /\ \A m \in Msgs : maps'[m] = maps[m] \/ (local[m] /\ maps'[m] = {At("trash", NoUid)})
  /\ \A b \in left' : ItemsKnown(b) /\ \A i \in b : row'[i.msg].status = "pending"
  /\ \A b, d \in left' : b # d => Apart(b, d)

LEMMA PassFits == ASSUME IInv, NEW rw, Queueing(rw), Pass(rw) PROVE Passed(rw)
<1>. DEFINE here == {m \in Due(rw) : Placement(m) = LocalOnly}
            idle == {m \in Due(rw) : Placement(m).folder \in {"unplaced", "trash"}}
            settled == here \cup idle
<1>1. /\ row' = SetStatus(rw, settled, "done")
      /\ maps' = [m \in Msgs |-> IF m \in here THEN {At("trash", NoUid)} ELSE maps[m]]
      /\ left' = Batches(Due(rw) \ settled)
  BY DEF Pass
<1>2. Types /\ rw \in [Msgs -> QueueRows]
  BY DEF IInv, Queueing
<1>3. Due(rw) \in SUBSET Msgs /\ \A m \in Due(rw) : rw[m].status = "pending"
  BY DEF Due
<1>4. /\ \A f \in Folders : f # "unplaced" /\ f # "local-only"
      /\ LocalOnly.folder = "local-only" /\ Unplaced.folder = "unplaced"
  BY DEF LocalOnly, Unplaced, At, Folders
<1>5. \A m \in Msgs : \A x \in maps[m] : x.folder \in Folders
  BY <1>2 DEF Types, Mappings
<1>6. \A m \in here : m \in Msgs /\ local[m]
  BY <1>2, <1>3, <1>4, <1>5, PlacementIs
<1>7. \A m \in settled : local[m] \/ \A x \in maps[m] : x.uid # NoUid => x.folder = "trash"
  <2>1. ASSUME NEW m \in idle, ~ local[m] PROVE \A x \in maps[m] : x.uid # NoUid => x.folder = "trash"
    BY <1>2, <1>3, <1>4, <1>5, <2>1, PlacementIs
  <2>. QED  BY <1>6, <2>1
<1>8. Due(rw) \ settled \in SUBSET Msgs
  BY <1>3
<1>9. PICK mine : mine = Due(rw) \ settled
  OBVIOUS
<1>. HIDE DEF here, idle, settled
<1>10. /\ row' \in [Msgs -> QueueRows]
       /\ \A m \in Msgs : IF m \in settled THEN row'[m].status = "done" ELSE row'[m] = rw[m]
  BY <1>1, <1>2, StatusSet
<1>11. At("trash", NoUid) \in Mappings
  BY LifecycleAssumption DEF At, Mappings, Folders, NoUid, Uids
<1>12. maps' \in [Msgs -> SUBSET Mappings]
  BY <1>1, <1>2, <1>11 DEF Types
<1>13. \A m \in Msgs : maps'[m] = maps[m] \/ (local[m] /\ maps'[m] = {At("trash", NoUid)})
  BY <1>1, <1>6
<1>14. \A m \in Msgs : \/ row'[m] = rw[m]
                       \/ row'[m].status = "done" /\ (local[m] \/ \A x \in maps[m] : x.uid # NoUid => x.folder = "trash")
  BY <1>7, <1>10
<1>15. /\ left' \in SUBSET SUBSET Items
       /\ \A b \in left' : ItemsKnown(b) /\ \A i \in b : i.msg \in mine
       /\ \A b, d \in left' : b # d => Apart(b, d)
  BY <1>1, <1>8, <1>9, BatchesFit
<1>16. \A b \in left' : \A i \in b : row'[i.msg].status = "pending"
  BY <1>3, <1>9, <1>10, <1>15
<1>. QED  BY <1>10, <1>12, <1>13, <1>14, <1>15, <1>16 DEF Passed

LEMMA PassStep ==
  ASSUME IInv, NEW rw, Queueing(rw), Pass(rw), ~ Busy, NEW S \in SUBSET Msgs,
         tomb' = [m \in Msgs |-> tomb[m] \/ m \in S],
         stray' = stray \cup {m \in S : row[m].status \in {"done", "dead"}},
         \A m \in S : rw[m].status # "none",
         UNCHANGED <<server, seen, purged, local, todo, calls>>
  PROVE  IInv'
<1>1. Passed(rw) /\ Types /\ QueueInv
  BY PassFits DEF IInv
<1>2. left = {} /\ By("queue") = {}
  BY DEF Busy
<1>3. Types'
  <2>1. tomb' \in [Msgs -> BOOLEAN]
    BY <1>1 DEF Types
  <2>. QED  BY <1>1, <2>1 DEF Types, Passed
<1>4. QueueInv'
  <2>1. \A m \in Msgs : rw[m].status = "pending" => rw[m].attempts < MaxAttempts
    BY <1>1, LifecycleAssumption DEF Queueing, QueueInv
  <2>2. \A m \in Msgs : row'[m].status = "pending" => row'[m].attempts < MaxAttempts
    BY <1>1, <2>1 DEF Passed
  <2>3. By("queue")' = {}
    BY <1>2 DEF By
  <2>. QED  BY <1>1, <2>2, <2>3 DEF QueueInv, Passed
<1>5. ASSUME NEW m \in Msgs PROVE SightInv(m)' /\ HiddenInv(m)'
  <2>1. SightInv(m) /\ HiddenInv(m) /\ MailInv(m) /\ (m \notin stray' => m \notin stray)
    BY DEF IInv
  <2>2. SightInv(m)'
    BY <1>1, <2>1 DEF SightInv, Passed
  <2>3. ASSUME m \notin stray', tomb'[m], ~ purged[m], ~ local[m]
        PROVE  rw[m].status = "pending" \/ server[m].folder \in {"trash", "nowhere"} \/ seen[m] # server[m].uid
    <3>1. CASE m \in S
      <4>1. row[m].status \in {"none", "pending"} /\ rw[m].status # "none" /\ (rw[m] = row[m] \/ rw[m].status = "pending")
        BY <1>1, <2>3, <3>1 DEF Types, QueueRows, Queueing
      <4>. QED  BY <4>1
    <3>2. CASE m \notin S
      BY <2>1, <2>3, <3>2 DEF HiddenInv, Queueing
    <3>. QED  BY <3>1, <3>2
  <2>4. ASSUME m \notin stray', ~ local[m], server[m] # Gone, seen[m] = server[m].uid,
               \A x \in maps[m] : x.uid # NoUid => x.folder = "trash"
        PROVE  server[m].folder = "trash"
    <3>1. server[m].uid # NoUid
      BY <2>1, <2>4 DEF MailInv, NoUid
    <3>. QED  BY <2>1, <2>4, <3>1 DEF SightInv
  <2>5. server[m] = Gone => server[m].folder = "nowhere"
    BY AtIs DEF Gone
  <2>. QED  BY <1>1, <2>2, <2>3, <2>4, <2>5 DEF HiddenInv, Passed
<1>6. ASSUME NEW m \in Msgs, NEW x \in maps'[m] PROVE x \in maps[m] \/ Known(m, x)
  <2>1. MailInv(m)
    BY DEF IInv
  <2>2. CASE x \notin maps[m]
    <3>1. x.uid = NoUid
      BY <1>1, <1>6, <2>2, AtIs DEF Passed
    <3>. QED  BY <1>1, <2>1, <3>1 DEF Known, MailInv, NoUid, Types, Places, Uids
  <2>. QED  BY <2>2
<1>7. \A m \in Msgs : \A x, y \in maps'[m] : x.folder = y.folder => x = y
  BY <1>1 DEF IInv, MailInv, Passed
<1>8. \A b \in left' \cup todo' : b \in left \cup todo \/ ItemsKnown(b)
  BY <1>1 DEF Passed
<1>. QED  BY <1>3, <1>4, <1>5, <1>6, <1>7, <1>8, StillStep

LEMMA DrainStep == ASSUME IInv, Drain PROVE IInv'
<1>1. ~ Busy /\ Pass(row) /\ UNCHANGED <<server, seen, tomb, purged, local, todo, calls, bounds, stray>>
  BY DEF Drain
<1>2. Queueing(row)
  BY DEF Queueing, IInv, Types
<1>3. PICK S \in SUBSET Msgs : S = {}
  OBVIOUS
<1>4. tomb' = [m \in Msgs |-> tomb[m] \/ m \in S]
  BY <1>1, <1>3 DEF IInv, Types
<1>5. stray' = stray \cup {m \in S : row[m].status \in {"done", "dead"}} /\ \A m \in S : row[m].status # "none"
  BY <1>1, <1>3
<1>. QED  BY <1>1, <1>2, <1>4, <1>5, PassStep

LEMMA ExecuteStep == ASSUME IInv, NEW S \in SUBSET Msgs, Execute(S) PROVE IInv'
<1>1. /\ tomb' = [m \in Msgs |-> tomb[m] \/ m \in S]
      /\ stray' = stray \cup {m \in S : row[m].status \in {"done", "dead"}}
      /\ UNCHANGED <<server, seen, purged, local, todo, calls>> /\ Types /\ QueueInv
  BY DEF Execute, IInv
<1>2. PICK rw : rw = Enqueued(S)
  OBVIOUS
<1>3. PICK fresh : fresh = [NoRow EXCEPT !.status = "pending"]
  OBVIOUS
<1>4. fresh \in QueueRows /\ fresh.status = "pending" /\ fresh.attempts = 0
  <2>1. fresh = [status |-> "pending", attempts |-> 0, cooling |-> FALSE]
    BY <1>3 DEF NoRow
  <2>2. 0 \in 0 .. MaxAttempts
    BY LifecycleAssumption
  <2>. QED  BY <2>1, <2>2 DEF QueueRows
<1>5. rw = [m \in Msgs |-> IF m \in S /\ row[m].status = "none" THEN fresh ELSE row[m]]
  BY <1>2, <1>3 DEF Enqueued
<1>6. Queueing(rw) /\ \A m \in S : rw[m].status # "none"
  BY <1>1, <1>4, <1>5 DEF Queueing, Types
<1>7. CASE Pass(rw) /\ ~ Busy
  BY <1>1, <1>6, <1>7, PassStep
<1>8. CASE row' = rw /\ UNCHANGED <<maps, left>>
  <2>1. Types'
    <3>1. tomb' \in [Msgs -> BOOLEAN]
      BY <1>1 DEF Types
    <3>. QED  BY <1>1, <1>6, <1>8, <3>1 DEF Types, Queueing
  <2>2. \A m \in Msgs : row[m].status = "pending" => row'[m].status = "pending"
    BY <1>6, <1>8 DEF Queueing
  <2>3. QueueInv'
    <3>1. \A m \in Msgs : row'[m].status = "pending" => row'[m].attempts < MaxAttempts
      BY <1>1, <1>6, <1>8, LifecycleAssumption DEF Queueing, QueueInv
    <3>2. \A b \in left \cup {c.items : c \in calls} : \A i \in b : i.msg \in Msgs
      BY <1>1 DEF Types, Calls, Items
    <3>. QED  BY <1>1, <1>8, <2>2, <3>1, <3>2 DEF QueueInv, By
  <2>4. ASSUME NEW m \in Msgs PROVE SightInv(m)' /\ HiddenInv(m)'
    <3>1. SightInv(m) /\ HiddenInv(m) /\ (m \notin stray' => m \notin stray)
      BY <1>1 DEF IInv
    <3>2. m \in S /\ m \notin stray' => row'[m].status = "pending"
      BY <1>1, <1>6, <1>8 DEF Types, QueueRows, Queueing
    <3>3. m \notin S => tomb'[m] = tomb[m]
      BY <1>1 DEF Types
    <3>. QED  BY <1>1, <1>8, <2>2, <3>1, <3>2, <3>3 DEF SightInv, HiddenInv
  <2>5. \A m \in Msgs : \A x, y \in maps'[m] : x.folder = y.folder => x = y
    BY <1>8 DEF IInv, MailInv
  <2>. QED  BY <1>1, <1>8, <2>1, <2>3, <2>4, <2>5, StillStep
<1>. QED  BY <1>2, <1>7, <1>8 DEF Execute

-----------------------------------------------------------------------------
(* The invariant *)

LEMMA InitInv == Init => IInv
<1>. SUFFICES ASSUME Init PROVE IInv
  OBVIOUS
<1>1. PICK x : x = At("inbox", 1)
  OBVIOUS
<1>2. /\ x = [folder |-> "inbox", uid |-> 1] /\ x.folder = "inbox" /\ x.uid = 1
      /\ 1 \in Uids /\ "inbox" \in Folders /\ x # Gone
  BY <1>1, LifecycleAssumption DEF At, Gone, Uids, Folders
<1>3. x \in Places /\ x \in Mappings
  BY <1>2 DEF Places, Mappings
<1>4. NoRow \in QueueRows /\ NoRow.status = "none"
  BY LifecycleAssumption DEF NoRow, QueueRows
<1>5. /\ server = [m \in Msgs |-> x] /\ seen = [m \in Msgs |-> 1] /\ maps = [m \in Msgs |-> {x}]
      /\ tomb = [m \in Msgs |-> FALSE] /\ purged = [m \in Msgs |-> FALSE] /\ local = [m \in Msgs |-> FALSE]
      /\ row = [m \in Msgs |-> NoRow] /\ left = {} /\ todo = {} /\ calls = {} /\ stray = {}
  BY <1>1 DEF Init
<1>6. Types
  BY <1>2, <1>3, <1>4, <1>5 DEF Types
<1>7. QueueInv
  BY <1>4, <1>5 DEF QueueInv, By
<1>8. ASSUME NEW m \in Msgs PROVE MailInv(m) /\ SightInv(m) /\ HiddenInv(m)
  BY <1>2, <1>5 DEF MailInv, SightInv, HiddenInv, Known
<1>. QED  BY <1>5, <1>6, <1>7, <1>8 DEF IInv

LEMMA InvStep == IInv /\ [Next]_vars => IInv'
<1>. SUFFICES ASSUME IInv, [Next]_vars PROVE IInv'
  OBVIOUS
<1>1. CASE UNCHANGED vars
  <2>1. UNCHANGED <<server, seen, mailbox, row, stray>> /\ left' = left /\ todo' = todo /\ calls' = calls \ {}
        /\ {} \in SUBSET calls
    BY <1>1 DEF vars, jobs
  <2>. QED  BY <2>1, EndStep
<1>2. ASSUME NEW S \in SUBSET Msgs, Execute(S) \/ CrashInExecute(S) PROVE IInv'
  BY <1>2, ExecuteStep, CrashInExecuteStep
<1>3. ASSUME NEW S \in SUBSET Candidates, StartDetach(S) PROVE IInv'
  BY <1>3, StartDetachStep
<1>4. CASE Drain \/ NextBatch \/ NextDetach \/ EmptyTrash
  BY <1>4, DrainStep, BatchStep, DetachBatchStep, EmptyTrashStep
<1>5. CASE Crash
  <2>1. UNCHANGED <<server, seen, mailbox, row, stray>> /\ left' = {} /\ todo' = {} /\ calls' = calls \ calls
        /\ calls \in SUBSET calls
    BY <1>5 DEF Crash
  <2>. QED  BY <2>1, EndStep
<1>6. ASSUME NEW c \in calls, Perform(c) \/ Answer(c) PROVE IInv'
  BY <1>6, PerformStep, QueueMovedStep, RestoredStep, ErasedStep, DetachedStep DEF Answer
<1>7. ASSUME NEW c \in calls, Fail(c) PROVE IInv'
  <2>1. CASE RequestFails(c) \/ DetachFails(c)
    <3>1. UNCHANGED <<server, seen, mailbox, row, stray>> /\ left' = left /\ todo' \in {todo, {}}
          /\ calls' = calls \ {c} /\ {c} \in SUBSET calls
      BY <2>1 DEF RequestFails, DetachFails
    <3>. QED  BY <3>1, EndStep
  <2>. QED  BY <1>7, <2>1, QueueFailsStep DEF Fail
<1>8. ASSUME NEW m \in Msgs, Restore(m) \/ Forever(m) \/ BackoffElapses(m) \/ Synced(m) PROVE IInv'
  BY <1>8, RestoreStep, ForeverStep, BackoffStep, SightStep, UnlinkStep DEF Synced
<1>9. ASSUME NEW m \in Msgs, NEW f \in Folders, OtherMoves(m, f) PROVE IInv'
  BY <1>9, OtherMovesStep
<1>. QED  BY <1>1, <1>2, <1>3, <1>4, <1>5, <1>6, <1>7, <1>8, <1>9 DEF Next

LEMMA Invariance == Spec => []IInv
<1>. QED  BY InitInv, InvStep, PTL DEF Spec

-----------------------------------------------------------------------------
(* What follows *)

\* The shapes, whatever interleaves: a batch of the queue that is out or to go
\* has pending rows only, so a late answer settles no row that was given up;
\* the queue and the detach job have one provider call each.
THEOREM LifecycleTypes == Spec => []LifeTypeOK
<1>1. IInv => LifeTypeOK
  <2>. SUFFICES ASSUME IInv PROVE LifeTypeOK
    OBVIOUS
  <2>1. Types /\ QueueInv
    BY DEF IInv
  <2>2. ASSUME NEW m \in Msgs
        PROVE  /\ server[m].folder \in Folders \cup {"nowhere"}
               /\ \A x, y \in maps[m] : x.folder = y.folder => x = y
               /\ \A x \in maps[m] : x.folder \in Folders /\ x.uid \in 0..MaxUid
               /\ row[m].status \in {"none", "pending", "done", "dead"}
               /\ row[m].attempts <= MaxAttempts
    <3>1. MailInv(m) /\ server[m] \in Places /\ maps[m] \in SUBSET Mappings /\ row[m] \in QueueRows
      BY <2>1 DEF IInv, Types
    <3>. QED  BY <3>1 DEF MailInv, Places, Mappings, QueueRows, Uids
  <2>3. \A b \in left \cup {c.items : c \in By("queue")} : \A i \in b : row[i.msg].status = "pending"
    BY <2>1 DEF QueueInv
  <2>4. ASSUME NEW who \in {"queue", "detach"} PROVE Cardinality(By(who)) <= 1
    <3>1. By(who) = {} \/ \E c \in calls : By(who) = {c}
      BY <2>1, <2>4 DEF QueueInv, By
    <3>2. Cardinality({}) = 0 /\ \A c : Cardinality({c}) = 1
      BY FS_EmptySet, FS_Singleton
    <3>. QED  BY <3>1, <3>2
  <2>. QED  BY <2>2, <2>3, <2>4 DEF LifeTypeOK
<1>. QED  BY <1>1, Invariance, PTL

\* However MOVEs, lost answers, restores, other clients and sync interleave,
\* no tombstone stays on mail the provider has outside the trash, but for the
\* messages one of the three known gaps has hit (stray).
THEOREM HiddenOnlyInTrash == Spec => []HiddenMailIsInTrash
<1>1. IInv => HiddenMailIsInTrash
  <2>. SUFFICES ASSUME IInv, NEW m \in Msgs \ stray, Quiet(m), tomb[m], ~ purged[m], ~ local[m]
                PROVE  server[m].folder \in {"trash", "nowhere"}
    BY DEF HiddenMailIsInTrash
  <2>1. HiddenInv(m)
    BY DEF IInv
  <2>2. row[m].status # "pending" /\ (server[m] # Gone => seen[m] = server[m].uid)
    BY DEF Quiet, Pending
  <2>3. Gone.folder = "nowhere"
    BY AtIs DEF Gone
  <2>. QED  BY <2>1, <2>2, <2>3 DEF HiddenInv
<1>. QED  BY <1>1, Invariance, PTL

\* A call that leaves with an effect here is one whose answer came.
LEMMA Leaving ==
  ASSUME IInv, [Next]_vars, NEW c \in calls \ calls'
  PROVE  /\ purged' = purged \/ (Erased(c) /\ c.done)
         /\ local' = local \/ (Detached(c) /\ c.done)
<1>1. CASE UNCHANGED vars
  BY <1>1 DEF vars, jobs
<1>2. ASSUME NEW S \in SUBSET Msgs, Execute(S) \/ CrashInExecute(S) PROVE UNCHANGED <<purged, local>>
  BY <1>2 DEF Execute, CrashInExecute
<1>3. ASSUME NEW S \in SUBSET Candidates, StartDetach(S) PROVE FALSE
  BY <1>3 DEF StartDetach
<1>4. CASE Drain \/ NextBatch \/ NextDetach \/ Crash
  BY <1>4 DEF Drain, NextBatch, NextDetach, Crash, mailbox
<1>5. CASE EmptyTrash
  BY <1>5 DEF EmptyTrash, jobs
<1>6. ASSUME NEW d \in calls, Perform(d) \/ QueueMoved(d) \/ Restored(d) \/ Fail(d) PROVE UNCHANGED <<purged, local>>
  BY <1>6 DEF Perform, QueueMoved, Restored, Fail, QueueFails, RequestFails, DetachFails, mailbox
<1>7. ASSUME NEW d \in calls, Erased(d) PROVE d = c /\ d.done /\ local' = local
  BY <1>7 DEF Erased
<1>8. ASSUME NEW d \in calls, Detached(d) PROVE d = c /\ d.done /\ purged' = purged
  BY <1>8 DEF Detached
<1>9. ASSUME NEW m \in Msgs, Restore(m) \/ Forever(m) PROVE FALSE
  <2>1. CASE Restore(m)
    BY <2>1 DEF Restore
  <2>2. CASE Forever(m)
    BY <2>2 DEF Forever
  <2>. QED  BY <1>9, <2>1, <2>2
<1>10. ASSUME NEW m \in Msgs, BackoffElapses(m) \/ Synced(m) PROVE FALSE
  BY <1>10 DEF BackoffElapses, Synced, Sight, Unlink, jobs
<1>11. ASSUME NEW m \in Msgs, NEW f \in Folders, OtherMoves(m, f) PROVE FALSE
  BY <1>11 DEF OtherMoves, jobs
<1>. QED  BY <1>1, <1>2, <1>3, <1>4, <1>5, <1>6, <1>7, <1>8, <1>9, <1>10, <1>11 DEF Next, Answer

\* Delete forever drops the local copy only when the provider no longer has
\* the message where the request found it: lost answers, crashes, other clients
\* and late sync included.
THEOREM ForeverIsSafe == Spec => ForeverLosesNothing
<1>1. ASSUME IInv, [Next]_vars, NEW c \in calls \ calls', c.by = "forever", NEW i \in c.items,
             ~ purged[i.msg], purged'[i.msg]
      PROVE  server[i.msg] # At(i.folder, i.uid)
  <2>1. Erased(c) /\ c.done
    BY <1>1, Leaving
  <2>. QED  BY <1>1, <2>1 DEF IInv, CallInv
<1>2. IInv /\ [Next]_vars =>
        [\A c \in calls \ calls' : c.by = "forever" =>
           \A i \in c.items : ~ purged[i.msg] /\ purged'[i.msg] => server[i.msg] # At(i.folder, i.uid)]_vars
  BY <1>1
<1>. QED  BY <1>2, Invariance, PTL DEF Spec, ForeverLosesNothing

\* Detach flags a message it had to move only when the provider no longer has
\* it where detach found it.
THEOREM DetachIsSafe == Spec => DetachedIsOffServer
<1>1. ASSUME IInv, [Next]_vars, NEW c \in calls \ calls', c.by = "detach", NEW i \in c.items,
             ~ local[i.msg], local'[i.msg]
      PROVE  server[i.msg] # At(i.folder, i.uid)
  <2>1. Detached(c) /\ c.done
    BY <1>1, Leaving
  <2>. QED  BY <1>1, <2>1 DEF IInv, CallInv
<1>2. IInv /\ [Next]_vars =>
        [\A c \in calls \ calls' : c.by = "detach" =>
           \A i \in c.items : ~ local[i.msg] /\ local'[i.msg] => server[i.msg] # At(i.folder, i.uid)]_vars
  BY <1>1
<1>. QED  BY <1>2, Invariance, PTL DEF Spec, DetachedIsOffServer
=============================================================================
