------------------------------ MODULE SyncProofs ------------------------------
(***************************************************************************)
(* Folder sync, proved for every set of messages and folders, every fetch  *)
(* batch, every number of UIDVALIDITY changes and of lost connections, and *)
(* with or without UIDPLUS: no cursor passes mail that is not stored, and  *)
(* no event heard during a pass is dropped.                                *)
(***************************************************************************)
EXTENDS FolderSync, FiniteSetTheorems, WellFoundedInduction, TLAPS

-----------------------------------------------------------------------------
(* Sets of natural numbers: a non-empty one has a least member, a finite   *)
(* one a greatest, by the least counterexample.                            *)

LEMMA LeastNatural ==
  ASSUME NEW S \in SUBSET Nat, S # {}
  PROVE  \E x \in S : \A y \in S : x <= y
<1>1. \E x \in S : \A y \in S : ~ (<<y, x>> \in OpToRel(<, Nat))
  BY NatLessThanWellFounded, WFMin
<1>2. PICK x \in S : \A y \in S : ~ (<<y, x>> \in OpToRel(<, Nat))
  BY <1>1
<1>3. \A y \in S : ~ (y < x)
  BY <1>2 DEF OpToRel
<1>. QED  BY <1>3

LEMMA MinIsLeast ==
  ASSUME NEW S \in SUBSET Nat, S # {}
  PROVE  Min(S) \in S /\ \A y \in S : Min(S) <= y
BY LeastNatural DEF Min

\* A set of n numbers has a greatest, for the least n for which one might not.
LEMMA GreatestNatural ==
  ASSUME NEW S \in SUBSET Nat, S # {}, IsFiniteSet(S)
  PROVE  \E x \in S : \A y \in S : y <= x
<1>. DEFINE Topped(T) == \E x \in T : \A y \in T : y <= x
            Bad == {T \in SUBSET Nat : T # {} /\ IsFiniteSet(T) /\ ~ Topped(T)}
            Sizes == {Cardinality(T) : T \in Bad}
<1>1. SUFFICES ASSUME S \in Bad PROVE FALSE
  OBVIOUS
<1>2. Sizes \in SUBSET Nat /\ Sizes # {}
  BY <1>1, FS_CardinalityType
<1>3. PICK n \in Sizes : \A k \in Sizes : n <= k
  BY <1>2, LeastNatural
<1>4. PICK T \in Bad : Cardinality(T) = n
  BY <1>3
<1>5. PICK x \in T : TRUE
  BY <1>4
<1>. DEFINE R == T \ {x}
<1>6. IsFiniteSet(R) /\ Cardinality(R) = n - 1 /\ R \in SUBSET Nat /\ n \in Nat
  BY <1>2, <1>3, <1>4, <1>5, FS_RemoveElement, FS_CardinalityType
<1>7. R \notin Bad
  <2>1. SUFFICES ASSUME R \in Bad PROVE FALSE
    OBVIOUS
  <2>2. n - 1 \in Sizes
    BY <1>6, <2>1
  <2>3. n <= n - 1
    BY <1>3, <2>2
  <2>. QED  BY <1>6, <2>3
<1>8. CASE R = {}
  BY <1>4, <1>5, <1>8
<1>9. CASE Topped(R)
  <2>1. PICK r \in R : \A y \in R : y <= r
    BY <1>9
  <2>2. r \in Nat /\ x \in Nat /\ T = R \cup {x}
    BY <1>4, <1>5, <2>1
  <2>3. CASE x <= r
    BY <1>4, <2>1, <2>2, <2>3
  <2>4. CASE r <= x
    <3>1. \A y \in T : y <= x
      BY <1>4, <2>1, <2>2, <2>4
    <3>. QED  BY <1>4, <1>5, <3>1
  <2>. QED  BY <2>2, <2>3, <2>4
<1>. QED  BY <1>6, <1>7, <1>8, <1>9

LEMMA MaxIsGreatest ==
  ASSUME NEW S \in SUBSET Nat, S # {}, IsFiniteSet(S)
  PROVE  Max(S) \in S /\ \A y \in S : y <= Max(S)
<1>1. \E x \in S : \A y \in S : x >= y
  BY GreatestNatural
<1>. QED  BY <1>1 DEF Max

-----------------------------------------------------------------------------
(* The inductive invariant *)

Places == [folder : Folders \cup {"nowhere"}, uid : Nat]
Mappings == [folder : Folders, uid : Nat]
Cursors == [validity : Nat, lastUid : Nat]
FetchPhases == {"fetching", "storing", "body"}
ScanPhases == {"scanning", "unlinking"}
Phases == {"none", "opening", "listing"} \cup FetchPhases \cup ScanPhases
Passes == [phase : Phases, folder : Folders, full : BOOLEAN, validity : Nat, from : Nat,
           uids : SUBSET Nat, batch : SUBSET (Msgs \X Nat), live : SUBSET Nat, top : Nat]

ProviderTypes ==
  /\ server \in [Msgs -> Places]
  /\ nextUid \in [Folders -> Nat] /\ epoch \in [Folders -> Nat]
  /\ own \in [Msgs -> [dest : Folders \cup {"nowhere"}, uid : Nat]]

StoreTypes ==
  /\ stored \subseteq Msgs
  /\ maps \in [Msgs -> SUBSET Mappings]
  /\ tomb \in [Msgs -> BOOLEAN]
  /\ cursor \in [Folders -> Cursors]

EngineTypes ==
  /\ link \in {"down", "catchup", "live"}
  /\ pending \in BOOLEAN /\ owed \in BOOLEAN
  /\ cron \subseteq CronFolders
  /\ pass \in [Conns -> Passes]

Types == ProviderTypes /\ StoreTypes /\ EngineTypes

\* A folder's UIDs are distinct and below its UIDNEXT.
ServerInv ==
  /\ \A f \in Folders : epoch[f] > 0 /\ nextUid[f] > 0
  /\ \A m \in Msgs : server[m].folder \in Folders =>
       0 < server[m].uid /\ server[m].uid < nextUid[server[m].folder]
  /\ \A m, n \in Msgs : server[m].folder \in Folders /\ server[m] = server[n] => m = n

\* What is mapped, tombstoned or moved by maily has a row; one mapping per folder.
RowInv ==
  \A m \in Msgs :
    /\ maps[m] # {} \/ tomb[m] \/ own[m] # NotMoving => m \in stored
    /\ own[m] # NotMoving => own[m].dest \in Folders
    /\ \A x, y \in maps[m] : x.folder = y.folder => x = y

\* Each folder is reconciled by one connection.
Divided ==
  /\ pass["idle"].folder = "inbox"
  /\ pass["cron"].phase # "none" => pass["cron"].folder # "inbox"

Window == Msgs \ (Old \cup Frozen)
Found(m) == m \in stored /\ (server[m] \in maps[m] \/ m \in mislaid)

\* All mail below the folder's cursor is found, and the cursor is below UIDNEXT.
FolderInv(f) ==
  /\ cursor[f].validity <= epoch[f]
  /\ cursor[f].validity = epoch[f] =>
       /\ cursor[f].lastUid <= nextUid[f]
       /\ \A m \in Window : server[m].folder = f /\ server[m].uid < cursor[f].lastUid => Found(m)

\* Beyond all that pass p has listed, and beyond the cursor.
Beyond(p, u) ==
  /\ u >= p.top /\ u >= cursor[p.folder].lastUid
  /\ \A x \in p.uids \cup p.live : x < u

\* Until it lists its folder, a pass holds the cursor it read.
PassBegun(p) ==
  LET f == p.folder IN
  /\ p.phase = "opening" => p.validity = cursor[f].validity /\ p.from = cursor[f].lastUid
  /\ p.phase \in {"opening", "listing"} => p.batch = {} /\ p.live = {}
  /\ p.phase \notin {"none", "opening"} => p.validity = epoch[f] /\ p.top <= nextUid[f]
  /\ p.phase \in FetchPhases \cup ScanPhases => cursor[f].validity = epoch[f]
  /\ p.phase = "listing" =>
       IF p.full THEN cursor[f].validity # epoch[f]
       ELSE cursor[f] = [validity |-> epoch[f], lastUid |-> p.from] /\ p.top = p.from

\* While it fetches, all mail of its folder is yet to be fetched, at hand,
\* found, or beyond what it listed.
PassFetches(p) ==
  LET f == p.folder IN
  p.phase \in FetchPhases =>
    /\ IsFiniteSet(p.uids) /\ IsFiniteSet(p.live)
    /\ IF p.phase = "fetching" THEN p.uids # {} /\ p.live = {} /\ p.batch = {} ELSE p.live # {}
    /\ \A x \in p.uids \cup p.live : x < nextUid[f]
    /\ \A x \in p.live, y \in p.uids : x < y
    /\ \A x, y \in p.batch : x[1] = y[1] => x = y
    /\ \A x \in p.batch : server[x[1]].folder = f => server[x[1]].uid = x[2] \/ Beyond(p, server[x[1]].uid)
    /\ \A m \in Window : server[m].folder = f =>
         \/ server[m].uid \in p.uids \/ <<m, server[m].uid>> \in p.batch
         \/ Found(m) \/ Beyond(p, server[m].uid)

\* While it scans, all mail below its new cursor is found, and is in the scan.
PassScans(p) ==
  p.phase \in ScanPhases =>
    /\ ~ p.full
    /\ \A m \in Window : server[m].folder = p.folder /\ server[m].uid < p.top =>
         Found(m) /\ (p.phase = "unlinking" => server[m].uid \in p.live)

Sound(p) == PassBegun(p) /\ PassFetches(p) /\ PassScans(p)

\* An event that is owed is noted while its connection is up, and a connection
\* that is down has no pass.
EventInv ==
  /\ owed => link # "catchup" /\ (link = "live" => pending /\ pass["idle"].phase # "none")
  /\ link = "down" => pass["idle"].phase = "none"

IInv ==
  /\ Types /\ ServerInv /\ RowInv /\ Divided /\ EventInv
  /\ \A f \in Folders : FolderInv(f)
  /\ \A c \in Conns : Sound(pass[c])

-----------------------------------------------------------------------------
(* Lemmas on the operators *)

\* The FetchBatch lowest UIDs: some, and below all the others.
LEMMA ChunkIsLowest ==
  ASSUME NEW uids \in SUBSET Nat, IsFiniteSet(uids), uids # {}
  PROVE  /\ Chunk(uids) \subseteq uids /\ Chunk(uids) # {}
         /\ IsFiniteSet(Chunk(uids)) /\ IsFiniteSet(uids \ Chunk(uids))
         /\ \A x \in Chunk(uids), y \in uids \ Chunk(uids) : x < y
<1>. DEFINE below(u) == {v \in uids : v < u}
<1>1. Chunk(uids) = {u \in uids : Cardinality(below(u)) < FetchBatch}
  BY DEF Chunk
<1>2. \A u \in uids : u \in Nat
  OBVIOUS
<1>3. \A u \in uids : u \in Nat /\ IsFiniteSet(below(u)) /\ Cardinality(below(u)) \in Nat
  BY FS_Subset, FS_CardinalityType
<1>4. Chunk(uids) # {}
  <2>1. PICK least \in uids : \A y \in uids : least <= y
    BY LeastNatural
  <2>2. below(least) = {}
    <3>1. ASSUME NEW v \in below(least) PROVE FALSE
      BY <1>2, <2>1
    <3>. QED  BY <3>1
  <2>3. Cardinality(below(least)) = 0
    BY <2>2, FS_EmptySet
  <2>. QED  BY <1>1, <2>1, <2>3, SyncAssumption
<1>5. ASSUME NEW x \in Chunk(uids), NEW y \in uids \ Chunk(uids) PROVE x < y
  <2>1. SUFFICES ASSUME y < x PROVE FALSE
    <3>1. x # y /\ x \in Nat /\ y \in Nat
      BY <1>1, <1>3
    <3>. QED  BY <3>1
  <2>2. below(y) \subseteq below(x)
    <3>1. x \in Nat /\ y \in Nat
      BY <1>2, <1>1
    <3>2. ASSUME NEW v \in uids, v < y PROVE v < x
      BY <1>2, <2>1, <3>1, <3>2
    <3>. QED  BY <3>2
  <2>3. Cardinality(below(y)) <= Cardinality(below(x))
    BY <1>1, <1>3, <2>2, FS_Subset
  <2>4. Cardinality(below(x)) < FetchBatch /\ ~ (Cardinality(below(y)) < FetchBatch)
    BY <1>1
  <2>. HIDE DEF below
  <2>5. Cardinality(below(x)) \in Nat /\ Cardinality(below(y)) \in Nat
    BY <1>1, <1>3
  <2>. QED  BY <2>3, <2>4, <2>5, SyncAssumption
<1>6. IsFiniteSet(Chunk(uids)) /\ IsFiniteSet(uids \ Chunk(uids))
  BY <1>1, FS_Subset, FS_Difference
<1>. QED  BY <1>1, <1>4, <1>5, <1>6

\* A pass that has yet to open its folder, with the cursor it read.
Started(p, read) ==
  /\ p \in Passes
  /\ p.phase = "none" \/ p.phase = "opening"
  /\ p.phase = "opening" => /\ p.validity = read[p.folder].validity
                            /\ p.from = read[p.folder].lastUid
                            /\ p.batch = {} /\ p.live = {}

LEMMA IdlePass == Idle \in Passes /\ Idle.phase = "none" /\ Idle.folder = "inbox"
BY SyncAssumption DEF Idle, NewPass, Passes, Phases

LEMMA BegunPass ==
  ASSUME NEW c \in Conns, NEW f \in Folders, NEW read \in [Folders -> Cursors], Types
  PROVE  /\ Begin(c, f, read) \in [Conns -> Passes]
         /\ Begin(c, f, read)[c].folder = f /\ Begin(c, f, read)[c].phase = "opening"
         /\ Started(Begin(c, f, read)[c], read)
         /\ \A d \in Conns \ {c} : Begin(c, f, read)[d] = pass[d]
<1>. DEFINE p == [phase |-> "opening", folder |-> f, full |-> FALSE, validity |-> read[f].validity,
                  from |-> read[f].lastUid, uids |-> {}, batch |-> {}, live |-> {}, top |-> 0]
<1>1. Begin(c, f, read) = [pass EXCEPT ![c] = p]
  BY DEF Begin, NewPass
<1>2. p \in Passes /\ Started(p, read)
  BY DEF Passes, Phases, Cursors, Started
<1>3. p.folder = f /\ p.phase = "opening" /\ p.batch = {} /\ p.live = {}
  OBVIOUS
<1>. HIDE DEF p
<1>. QED  BY <1>1, <1>2, <1>3 DEF Types, EngineTypes

-----------------------------------------------------------------------------
(* What a step leaves alone *)

\* A step that stays clear of folder f: its cursor stands, its mail is where
\* it was and no less found, and what came is beyond all UIDs assigned.
Steady(f) ==
  /\ cursor'[f] = cursor[f] /\ epoch'[f] = epoch[f]
  /\ nextUid'[f] \in Nat /\ nextUid'[f] >= nextUid[f]
  /\ \A m \in Msgs : server'[m].folder = f =>
       \/ server'[m] = server[m] /\ (m \in Window /\ Found(m) => Found(m)')
       \/ server'[m].uid \in Nat /\ server'[m].uid >= nextUid[f]

LEMMA SteadyFolder ==
  ASSUME Types, NEW f \in Folders, FolderInv(f), Steady(f)
  PROVE  FolderInv(f)'
BY DEF Types, ProviderTypes, StoreTypes, Cursors, Places, FolderInv, Steady, Window

LEMMA SteadyPass ==
  ASSUME Types, NEW d \in Conns, pass'[d] = pass[d], Sound(pass[d]),
         FolderInv(pass[d].folder), Steady(pass[d].folder)
  PROVE  Sound(pass[d])'
<1>. DEFINE p == pass[d]
            f == p.folder
<1>1. f \in Folders /\ p \in Passes
  BY DEF Types, EngineTypes, Passes
<1>2. cursor[f].validity = epoch[f] => cursor[f].lastUid <= nextUid[f]
  BY DEF FolderInv
<1>3. cursor[f].lastUid \in Nat /\ nextUid[f] \in Nat /\ p.top \in Nat
  BY <1>1 DEF Types, ProviderTypes, StoreTypes, Cursors, Passes
<1>4. PassBegun(pass[d])'
  BY <1>1, <1>3 DEF Sound, PassBegun, Steady
<1>5. PassFetches(pass[d])'
  <2>. SUFFICES ASSUME p.phase \in FetchPhases PROVE PassFetches(pass[d])'
    BY DEF PassFetches
  <2>1. p.top <= nextUid[f] /\ cursor[f].lastUid <= nextUid[f] /\ \A x \in p.uids \cup p.live : x < nextUid[f]
    BY <1>2 DEF Sound, PassBegun, PassFetches, FetchPhases
  <2>2. \A x \in p.uids \cup p.live : x \in Nat
    BY <1>1 DEF Passes
  <2>3. \A u \in Nat : u >= nextUid[f] \/ Beyond(p, u) => Beyond(pass[d], u)'
    BY <1>3, <2>1, <2>2 DEF Beyond, Steady
  <2>4. \A m \in Msgs : server[m].uid \in Nat
    BY DEF Types, ProviderTypes, Places
  <2>5. \A x \in p.uids \cup p.live : x < nextUid'[f]
    BY <1>3, <2>1, <2>2 DEF Steady
  <2>6. ASSUME NEW x \in p.batch, server'[x[1]].folder = f
        PROVE  server'[x[1]].uid = x[2] \/ Beyond(pass[d], server[x[1]].uid)'
    <3>1. x[1] \in Msgs
      BY <1>1 DEF Passes
    <3>. QED  BY <2>3, <2>4, <2>6, <3>1 DEF Sound, PassFetches, Steady
  <2>7. ASSUME NEW m \in Window, server'[m].folder = f
        PROVE  \/ server'[m].uid \in p.uids \/ <<m, server'[m].uid>> \in p.batch
               \/ Found(m)' \/ Beyond(pass[d], server[m].uid)'
    BY <2>3, <2>4, <2>7 DEF Sound, PassFetches, Steady, Window
  <2>. QED  BY <2>5, <2>6, <2>7 DEF Sound, PassFetches
<1>6. PassScans(pass[d])'
  BY <1>1, <1>3 DEF Sound, PassBegun, PassScans, Steady, Window, ScanPhases
<1>. QED  BY <1>4, <1>5, <1>6 DEF Sound

LEMMA StartedPass ==
  ASSUME NEW d \in Conns, Started(pass[d], cursor)'
  PROVE  Sound(pass[d])'
BY DEF Started, Sound, PassBegun, PassFetches, PassScans, FetchPhases, ScanPhases

\* Steps that stay clear of every folder, and of every pass.
LEMMA SteadyStep ==
  ASSUME IInv, pass' = pass, \A f \in Folders : Steady(f)
  PROVE  /\ \A f \in Folders : FolderInv(f)'
         /\ \A c \in Conns : Sound(pass[c])'
<1>1. \A f \in Folders : FolderInv(f)'
  BY SteadyFolder DEF IInv
<1>2. ASSUME NEW c \in Conns PROVE Sound(pass[c])'
  <2>1. pass[c].folder \in Folders
    BY DEF IInv, Types, EngineTypes, Passes
  <2>. QED  BY <2>1, SteadyPass DEF IInv
<1>. QED  BY <1>1, <1>2

-----------------------------------------------------------------------------
(* The provider *)

\* A message gets the next UID of a folder.
LEMMA NextUidIsNew ==
  ASSUME Types, ServerInv, NEW m \in Msgs, NEW f \in Folders,
         server' = [server EXCEPT ![m] = Mapping(f, nextUid[f])],
         nextUid' = [nextUid EXCEPT ![f] = @ + 1], UNCHANGED epoch
  PROVE  /\ server' \in [Msgs -> Places] /\ nextUid' \in [Folders -> Nat]
         /\ ServerInv'
         /\ \A g \in Folders : \A n \in Msgs : server'[n].folder = g =>
              (server'[n] = server[n] /\ n # m) \/ (n = m /\ server'[n].uid >= nextUid[g])
         /\ \A g \in Folders : nextUid'[g] >= nextUid[g]
<1>1. Mapping(f, nextUid[f]) \in Places /\ Mapping(f, nextUid[f]).folder = f
      /\ Mapping(f, nextUid[f]).uid = nextUid[f]
  BY DEF Mapping, Places, Types, ProviderTypes
<1>2. server' \in [Msgs -> Places] /\ nextUid' \in [Folders -> Nat]
  BY <1>1 DEF Types, ProviderTypes
<1>3. \A n \in Msgs : server'[n] = IF n = m THEN Mapping(f, nextUid[f]) ELSE server[n]
  BY DEF Types, ProviderTypes
<1>4. \A g \in Folders : nextUid[g] \in Nat /\ nextUid'[g] = IF g = f THEN nextUid[g] + 1 ELSE nextUid[g]
  BY DEF Types, ProviderTypes
<1>5. \A n \in Msgs : server[n].uid \in Nat
  BY DEF Types, ProviderTypes, Places
<1>6. \A g \in Folders : \A n \in Msgs : server'[n].folder = g =>
        (server'[n] = server[n] /\ n # m) \/ (n = m /\ server'[n].uid >= nextUid[g])
  BY <1>1, <1>3, <1>4
<1>7. ServerInv'
  <2>1. \A g \in Folders : epoch'[g] > 0 /\ nextUid'[g] > 0
    BY <1>4 DEF ServerInv
  <2>2. ASSUME NEW n \in Msgs, server'[n].folder \in Folders
        PROVE  0 < server'[n].uid /\ server'[n].uid < nextUid'[server'[n].folder]
    BY <1>1, <1>3, <1>4, <1>5, <2>2 DEF ServerInv
  <2>3. ASSUME NEW n \in Msgs, NEW k \in Msgs, server'[n].folder \in Folders, server'[n] = server'[k]
        PROVE  n = k
    BY <1>1, <1>3, <1>4, <1>5, <2>3 DEF ServerInv
  <2>. QED  BY <2>1, <2>2, <2>3 DEF ServerInv
<1>. QED  BY <1>2, <1>4, <1>6, <1>7

LEMMA ArrivesStep ==
  ASSUME IInv, NEW m \in Msgs, NEW f \in Folders, Arrives(m, f)
  PROVE  IInv'
<1>1. Types /\ ServerInv
  BY DEF IInv
<1>2. /\ server' \in [Msgs -> Places] /\ nextUid' \in [Folders -> Nat] /\ ServerInv'
      /\ \A g \in Folders : \A n \in Msgs : server'[n].folder = g =>
           (server'[n] = server[n] /\ n # m) \/ (n = m /\ server'[n].uid >= nextUid[g])
      /\ \A g \in Folders : nextUid'[g] >= nextUid[g]
  BY <1>1, NextUidIsNew DEF Arrives
<1>3. ASSUME NEW g \in Folders PROVE Steady(g)
  <2>1. \A n \in Msgs : n # m /\ server'[n] = server[n] /\ Found(n) => Found(n)'
    BY DEF Found, Arrives, database
  <2>. QED  BY <1>2, <2>1 DEF Arrives, database, Steady, Places
<1>4. Types' /\ RowInv' /\ Divided' /\ EventInv'
  BY <1>2 DEF IInv, Arrives, database, engine, Types, ProviderTypes, StoreTypes, EngineTypes, RowInv,
     Divided, EventInv
<1>5. pass' = pass
  BY DEF Arrives, engine
<1>. QED  BY <1>2, <1>3, <1>4, <1>5, SteadyStep DEF IInv

LEMMA LeavesStep ==
  ASSUME IInv, NEW m \in Msgs, Leaves(m)
  PROVE  IInv'
<1>1. \A n \in Msgs : server'[n] = IF n = m THEN Gone ELSE server[n]
  BY DEF IInv, Types, ProviderTypes, Leaves
<1>2. Gone \in Places /\ Gone.folder \notin Folders
  BY SyncAssumption DEF Gone, Mapping, Places, NoUid
<1>3. ASSUME NEW g \in Folders PROVE Steady(g)
  <2>1. \A n \in Msgs : n # m /\ server'[n] = server[n] /\ Found(n) => Found(n)'
    BY DEF Found, Leaves, database
  <2>2. nextUid'[g] \in Nat /\ nextUid'[g] = nextUid[g]
    BY DEF Leaves, IInv, Types, ProviderTypes
  <2>. QED  BY <1>1, <1>2, <2>1, <2>2 DEF Leaves, database, Steady
<1>4. Types' /\ ServerInv' /\ RowInv' /\ Divided' /\ EventInv'
  BY <1>1, <1>2 DEF IInv, Leaves, database, engine, Types, ProviderTypes, StoreTypes, EngineTypes,
     ServerInv, RowInv, Divided, EventInv
<1>5. pass' = pass
  BY DEF Leaves, engine
<1>. QED  BY <1>3, <1>4, <1>5, SteadyStep DEF IInv

LEMMA OwnMoveStep ==
  ASSUME IInv, NEW m \in Msgs, NEW f \in OwnDests, OwnMove(m, f)
  PROVE  IInv'
<1>1. Types /\ ServerInv /\ f \in Folders
  BY SyncAssumption DEF IInv
<1>2. /\ server' \in [Msgs -> Places] /\ nextUid' \in [Folders -> Nat] /\ ServerInv'
      /\ \A g \in Folders : \A n \in Msgs : server'[n].folder = g =>
           (server'[n] = server[n] /\ n # m) \/ (n = m /\ server'[n].uid >= nextUid[g])
      /\ \A g \in Folders : nextUid'[g] >= nextUid[g]
  BY <1>1, NextUidIsNew DEF OwnMove
<1>3. ASSUME NEW g \in Folders PROVE Steady(g)
  <2>1. \A n \in Msgs : n # m /\ server'[n] = server[n] /\ Found(n) => Found(n)'
    BY DEF Found, OwnMove
  <2>. QED  BY <1>2, <2>1 DEF OwnMove, Steady, Places
<1>4. m \in stored
  BY DEF IInv, RowInv, OwnMove
<1>5. Types'
  BY <1>1, <1>2 DEF OwnMove, engine, Types, ProviderTypes, StoreTypes, EngineTypes
<1>6. RowInv'
  BY <1>1, <1>4 DEF IInv, OwnMove, Types, ProviderTypes, StoreTypes, RowInv, NotMoving
<1>7. Divided' /\ EventInv' /\ pass' = pass
  BY DEF IInv, OwnMove, engine, Divided, EventInv
<1>. QED  BY <1>2, <1>3, <1>5, <1>6, <1>7, SteadyStep DEF IInv

LEMMA OwnRelinkStep ==
  ASSUME IInv, NEW m \in Msgs, OwnRelink(m)
  PROVE  IInv'
<1>. DEFINE x == Mapping(own[m].dest, IF UidPlus THEN own[m].uid ELSE NoUid)
<1>1. m \in stored /\ own[m].dest \in Folders
  BY DEF IInv, RowInv, OwnRelink
<1>2. x \in Mappings
  BY <1>1 DEF IInv, Types, ProviderTypes, Mapping, Mappings, NoUid
<1>3. \A n \in Msgs : maps'[n] = IF n = m THEN {x} ELSE maps[n]
  BY DEF IInv, Types, StoreTypes, OwnRelink
<1>4. maps' = [maps EXCEPT ![m] = {x}]
  BY DEF OwnRelink
<1>. HIDE DEF x
<1>5. Types'
  <2>1. maps' \in [Msgs -> SUBSET Mappings]
    BY <1>2, <1>4 DEF IInv, Types, StoreTypes
  <2>2. tomb' \in [Msgs -> BOOLEAN]
    BY DEF IInv, Types, StoreTypes, OwnRelink
  <2>3. own' \in [Msgs -> [dest : Folders \cup {"nowhere"}, uid : Nat]]
    BY DEF IInv, Types, ProviderTypes, OwnRelink, NotMoving, NoUid
  <2>. QED  BY <2>1, <2>2, <2>3 DEF IInv, OwnRelink, provider, engine, Types, ProviderTypes,
            StoreTypes, EngineTypes
<1>6. RowInv'
  <2>1. \A n \in Msgs : /\ own'[n] # NotMoving => own'[n] = own[n]
                        /\ tomb'[n] => tomb[n]
    BY DEF IInv, Types, ProviderTypes, StoreTypes, OwnRelink
  <2>2. stored' = stored
    BY DEF OwnRelink
  <2>. QED  BY <1>1, <1>3, <2>1, <2>2 DEF IInv, RowInv
<1>7. ASSUME NEW g \in Folders PROVE Steady(g)
  <2>1. \A n \in Msgs \ {m} : Found(n) => Found(n)'
    BY <1>3 DEF Found, OwnRelink, provider
  <2>2. Found(m)'
    BY <1>1, <1>3 DEF Found, OwnRelink, provider
  <2>. QED  BY <2>1, <2>2 DEF IInv, Types, ProviderTypes, OwnRelink, provider, Steady
<1>8. ServerInv' /\ Divided' /\ EventInv' /\ pass' = pass
  BY DEF IInv, OwnRelink, provider, engine, ServerInv, Divided, EventInv
<1>. QED  BY <1>5, <1>6, <1>7, <1>8, SteadyStep DEF IInv

LEMMA LiveUidsFinite ==
  ASSUME Types, NEW f \in Folders
  PROVE  /\ LiveUids(f) \in SUBSET Nat /\ IsFiniteSet(LiveUids(f))
         /\ IsFiniteSet(In(f)) /\ Cardinality(LiveUids(f)) <= Cardinality(In(f))
<1>. DEFINE uidOf == [m \in In(f) |-> server[m].uid]
<1>1. LiveUids(f) \in SUBSET Nat
  BY DEF LiveUids, In, Types, ProviderTypes, Places
<1>2. IsFiniteSet(In(f))
  BY SyncAssumption, FS_Subset DEF In
<1>3. uidOf \in Surjection(In(f), LiveUids(f))
  BY DEF Surjection, LiveUids
<1>. QED  BY <1>1, <1>2, <1>3, FS_Surjection

\* The rank a renumbering goes by.
Rank(f, u) == Cardinality({v \in LiveUids(f) : v < u})

LEMMA RanksAscend ==
  ASSUME Types, NEW f \in Folders
  PROVE  /\ Cardinality(In(f)) \in Nat
         /\ \A u \in LiveUids(f) : Rank(f, u) \in Nat /\ Rank(f, u) < Cardinality(In(f))
         /\ \A u, w \in LiveUids(f) : u # w => Rank(f, u) # Rank(f, w)
<1>. DEFINE L == LiveUids(f)
            below(u) == {v \in L : v < u}
<1>1. L \in SUBSET Nat
  BY LiveUidsFinite
<1>2. Cardinality(In(f)) \in Nat
  BY LiveUidsFinite, FS_CardinalityType
<1>3. IsFiniteSet(L) /\ Cardinality(L) <= Cardinality(In(f)) /\ Cardinality(L) \in Nat
  BY LiveUidsFinite, FS_CardinalityType
<1>4. \A u \in L : IsFiniteSet(below(u)) /\ Cardinality(below(u)) \in Nat
  BY <1>3, FS_Subset, FS_CardinalityType
<1>5. ASSUME NEW u \in L PROVE Cardinality(below(u)) < Cardinality(L)
  <2>1. below(u) \subseteq L /\ u \notin below(u)
    BY <1>1
  <2>2. Cardinality(below(u)) <= Cardinality(L) /\ Cardinality(below(u)) # Cardinality(L)
    BY <1>3, <2>1, FS_Subset
  <2>. QED  BY <1>3, <1>4, <2>2
<1>6. ASSUME NEW u \in L, NEW w \in L, u < w PROVE Cardinality(below(u)) # Cardinality(below(w))
  <2>1. \A v \in L : v \in Nat
    BY <1>1
  <2>2. u \in below(w) /\ u \notin below(u)
    BY <1>6, <2>1
  <2>3. ASSUME NEW v \in L, v < u PROVE v < w
    BY <1>6, <2>1, <2>3
  <2>4. below(u) \subseteq below(w) /\ below(u) # below(w)
    BY <2>2, <2>3
  <2>. QED  BY <1>4, <2>4, FS_Subset
<1>7. \A u, w \in L : u # w => u < w \/ w < u
  BY <1>1
<1>. HIDE DEF L
<1>8. \A u \in L : Rank(f, u) = Cardinality(below(u))
  BY DEF Rank, L
<1>. HIDE DEF below
<1>. QED  BY <1>2, <1>3, <1>4, <1>5, <1>6, <1>7, <1>8 DEF L

LEMMA RenumberedStep ==
  ASSUME IInv, NEW f \in Folders, Renumbered(f)
  PROVE  IInv'
<1>. DEFINE moved(u) == FirstUid + Rank(f, u)
            N == Cardinality(In(f))
<1>1. /\ server' = [m \in Msgs |-> IF m \in In(f) THEN Mapping(f, moved(server[m].uid)) ELSE server[m]]
      /\ nextUid' = [nextUid EXCEPT ![f] = FirstUid + N]
  BY DEF Renumbered, Rank
<1>2. Types /\ ServerInv /\ FirstUid \in Nat /\ FirstUid > 0
  BY SyncAssumption DEF IInv
<1>3. /\ N \in Nat
      /\ \A m \in In(f) : moved(server[m].uid) \in Nat /\ moved(server[m].uid) < FirstUid + N
                          /\ moved(server[m].uid) > 0
      /\ \A m, n \in In(f) : server[m].uid # server[n].uid => moved(server[m].uid) # moved(server[n].uid)
  BY <1>2, RanksAscend DEF LiveUids
<1>. HIDE DEF moved
<1>4. \A m \in Msgs : server'[m] \in Places
  BY <1>1, <1>2, <1>3 DEF Mapping, Places, Types, ProviderTypes
<1>5. Types'
  BY <1>1, <1>2, <1>3, <1>4 DEF Renumbered, database, engine, Types, ProviderTypes, StoreTypes, EngineTypes
<1>6. /\ \A m \in In(f) : server'[m].folder = f /\ server'[m].uid = moved(server[m].uid)
      /\ \A m \in Msgs \ In(f) : server'[m] = server[m] /\ server[m].folder # f
  BY <1>1 DEF In, Mapping
<1>7. \A g \in Folders : nextUid'[g] = IF g = f THEN FirstUid + N ELSE nextUid[g]
  BY <1>1, <1>2 DEF Types, ProviderTypes
<1>8. ServerInv'
  <2>1. \A g \in Folders : epoch'[g] > 0 /\ nextUid'[g] > 0
    BY <1>2, <1>3, <1>7 DEF Renumbered, Types, ProviderTypes, ServerInv
  <2>2. ASSUME NEW n \in Msgs, server'[n].folder \in Folders
        PROVE  0 < server'[n].uid /\ server'[n].uid < nextUid'[server'[n].folder]
    BY <1>2, <1>3, <1>6, <1>7, <2>2 DEF ServerInv
  <2>3. ASSUME NEW n \in Msgs, NEW k \in Msgs, server'[n].folder \in Folders, server'[n] = server'[k]
        PROVE  n = k
    <3>1. CASE n \in In(f) /\ k \in In(f)
      <4>1. server[n].uid = server[k].uid
        BY <1>3, <1>6, <2>3, <3>1
      <4>2. server[n] = server[k] /\ server[n].folder \in Folders
        BY <1>2, <3>1, <4>1 DEF Types, ProviderTypes, Places, In
      <4>. QED  BY <1>2, <4>2 DEF ServerInv
    <3>2. CASE ~ (n \in In(f) /\ k \in In(f))
      BY <1>2, <1>6, <2>3, <3>2 DEF ServerInv
    <3>. QED  BY <3>1, <3>2
  <2>. QED  BY <2>1, <2>2, <2>3 DEF ServerInv
<1>9. RowInv' /\ Divided' /\ EventInv'
  BY DEF IInv, Renumbered, database, engine, RowInv, Divided, EventInv
<1>10. ASSUME NEW g \in Folders, g # f PROVE Steady(g)
  <2>1. \A m \in Msgs \ In(f) : Found(m) => Found(m)'
    BY <1>6 DEF Found, Renumbered, database
  <2>2. cursor'[g] = cursor[g] /\ epoch'[g] = epoch[g]
    BY <1>2, <1>10 DEF Renumbered, database, Types, ProviderTypes
  <2>. QED  BY <1>2, <1>6, <1>7, <1>10, <2>1, <2>2 DEF Steady, Types, ProviderTypes
<1>11. ASSUME NEW g \in Folders PROVE FolderInv(g)'
  <2>1. CASE g = f
    <3>1. epoch'[f] = epoch[f] + 1 /\ cursor'[f] = cursor[f] /\ cursor[f].validity <= epoch[f]
          /\ cursor[f].validity \in Nat /\ epoch[f] \in Nat
      BY <1>2 DEF Renumbered, database, Types, ProviderTypes, StoreTypes, Cursors, IInv, FolderInv
    <3>. QED  BY <2>1, <3>1 DEF FolderInv
  <2>. QED  BY <1>2, <1>10, <2>1, SteadyFolder DEF IInv
<1>12. ASSUME NEW c \in Conns PROVE Sound(pass[c])'
  <2>1. pass' = pass /\ cursor' = cursor /\ pass[c].folder \in Folders
    BY <1>2 DEF Renumbered, engine, database, Types, EngineTypes, Passes
  <2>2. CASE pass[c].folder # f
    BY <1>2, <1>10, <2>1, <2>2, SteadyPass DEF IInv
  <2>3. CASE pass[c].phase \in {"none", "opening"}
    BY <2>1, <2>3 DEF IInv, Sound, PassBegun, PassFetches, PassScans, FetchPhases, ScanPhases
  <2>. QED  BY <2>2, <2>3 DEF Renumbered
<1>. QED  BY <1>5, <1>8, <1>9, <1>11, <1>12 DEF IInv

-----------------------------------------------------------------------------
(* The engine *)

LEMMA Connections == Conns = {"idle", "cron"} /\ "inbox" \in Folders /\ "inbox" \notin CronFolders
                     /\ CronFolders \subseteq Folders
BY SyncAssumption DEF Conns, CronFolders

\* Steps that touch neither the provider nor the database.
LEMMA EngineStep ==
  ASSUME IInv, Types', Divided', EventInv', UNCHANGED <<provider, database, own, mislaid>>,
         \A c \in Conns : pass'[c] = pass[c] \/ Started(pass[c], cursor)'
  PROVE  IInv'
<1>1. ASSUME NEW f \in Folders PROVE Steady(f)
  BY DEF IInv, Types, ProviderTypes, Places, Steady, Found, provider, database
<1>2. \A f \in Folders : FolderInv(f)'
  BY <1>1, SteadyFolder DEF IInv
<1>3. ASSUME NEW c \in Conns PROVE Sound(pass[c])'
  <2>1. pass[c].folder \in Folders
    BY DEF IInv, Types, EngineTypes, Passes
  <2>. QED  BY <1>1, <2>1, SteadyPass, StartedPass DEF IInv
<1>4. ServerInv' /\ RowInv'
  BY DEF IInv, ServerInv, RowInv, provider, database
<1>. QED  BY <1>2, <1>3, <1>4 DEF IInv

LEMMA ConnectStep == ASSUME IInv, Connect PROVE IInv'
<1>1. pass' = Begin("idle", "inbox", cursor) /\ cursor' = cursor /\ cursor \in [Folders -> Cursors]
  BY DEF Connect, database, IInv, Types, StoreTypes
<1>2. /\ pass' \in [Conns -> Passes] /\ pass'["idle"].folder = "inbox"
      /\ Started(pass["idle"], cursor)' /\ pass'["cron"] = pass["cron"]
  BY <1>1, BegunPass, Connections DEF IInv
<1>3. Types' /\ Divided' /\ EventInv'
  BY <1>2 DEF IInv, Connect, provider, database, Types, ProviderTypes, StoreTypes, EngineTypes,
     Divided, EventInv
<1>. QED  BY <1>2, <1>3, EngineStep, Connections DEF Connect

LEMMA OnInboxEventStep == ASSUME IInv, OnInboxEvent PROVE IInv'
<1>1. CASE pass["idle"].phase = "none"
  <2>1. pass' = Begin("idle", "inbox", cursor) /\ cursor' = cursor /\ cursor \in [Folders -> Cursors]
    BY <1>1 DEF OnInboxEvent, database, IInv, Types, StoreTypes
  <2>2. /\ pass' \in [Conns -> Passes] /\ pass'["idle"].folder = "inbox"
        /\ Started(pass["idle"], cursor)' /\ pass'["cron"] = pass["cron"]
    BY <2>1, BegunPass, Connections DEF IInv
  <2>3. Types' /\ Divided' /\ EventInv'
    BY <1>1, <2>2 DEF IInv, OnInboxEvent, provider, database, Types, ProviderTypes, StoreTypes,
       EngineTypes, Divided, EventInv
  <2>. QED  BY <2>2, <2>3, EngineStep, Connections DEF OnInboxEvent
<1>2. CASE pass["idle"].phase # "none"
  <2>1. pass' = pass
    BY <1>2 DEF OnInboxEvent
  <2>2. Types' /\ Divided' /\ EventInv'
    BY <1>2, <2>1 DEF IInv, OnInboxEvent, provider, database, Types, ProviderTypes, StoreTypes,
       EngineTypes, Divided, EventInv
  <2>. QED  BY <2>1, <2>2, EngineStep DEF OnInboxEvent
<1>. QED  BY <1>1, <1>2

LEMMA StartCronStep == ASSUME IInv, StartCron PROVE IInv'
<1>1. PICK f \in CronFolders : cron' = CronFolders \ {f} /\ pass' = Begin("cron", f, cursor)
  BY DEF StartCron
<1>2. cursor' = cursor /\ cursor \in [Folders -> Cursors]
  BY DEF StartCron, database, IInv, Types, StoreTypes
<1>3. /\ pass' \in [Conns -> Passes] /\ pass'["cron"].folder = f
      /\ Started(pass["cron"], cursor)' /\ pass'["idle"] = pass["idle"]
  BY <1>1, <1>2, BegunPass, Connections DEF IInv
<1>4. Types' /\ Divided' /\ EventInv'
  BY <1>1, <1>3, Connections DEF IInv, StartCron, provider, database, history, Types, ProviderTypes,
     StoreTypes, EngineTypes, Divided, EventInv
<1>. QED  BY <1>3, <1>4, EngineStep, Connections DEF StartCron, history

LEMMA RestartStep == ASSUME IInv, Restart PROVE IInv'
<1>1. \A c \in Conns : pass'[c] = Idle
  BY DEF Restart
<1>2. \A c \in Conns : Started(pass[c], cursor)'
  BY <1>1, IdlePass DEF Started
<1>3. Types' /\ Divided' /\ EventInv'
  BY <1>1, IdlePass, Connections DEF IInv, Restart, provider, database, Types, ProviderTypes,
     StoreTypes, EngineTypes, Divided, EventInv, NotMoving, NoUid
<1>4. ASSUME NEW f \in Folders PROVE Steady(f)
  BY DEF IInv, Types, ProviderTypes, Places, Steady, Found, Restart, provider, database
<1>5. \A f \in Folders : FolderInv(f)'
  BY <1>4, SteadyFolder DEF IInv
<1>6. ServerInv' /\ RowInv'
  BY DEF IInv, ServerInv, RowInv, Restart, provider, database
<1>. QED  BY <1>2, <1>3, <1>5, <1>6, StartedPass DEF IInv

LEMMA AbortedStep ==
  ASSUME IInv, NEW c \in Conns, Aborted(c), UNCHANGED <<provider, database, own, owed, mislaid>>
  PROVE  IInv'
<1>1. \A d \in Conns : pass'[d] = IF d = c THEN Idle ELSE pass[d]
  BY DEF Aborted, IInv, Types, EngineTypes
<1>2. \A d \in Conns : pass'[d] = pass[d] \/ Started(pass[d], cursor)'
  BY <1>1, IdlePass DEF Started
<1>3. pass' \in [Conns -> Passes]
  BY IdlePass DEF Aborted, IInv, Types, EngineTypes
<1>4. Types' /\ Divided' /\ EventInv'
  BY <1>1, <1>3, IdlePass, Connections DEF IInv, Aborted, provider, database, Types, ProviderTypes,
     StoreTypes, EngineTypes, Divided, EventInv
<1>. QED  BY <1>2, <1>4, EngineStep

\* A pass that is over leaves each connection idle, at work as it was, or about
\* to open a folder with the cursor as it now is.
LEMMA EndsKept ==
  ASSUME IInv, NEW c \in Conns, pass[c].phase # "none", cursor' \in [Folders -> Cursors], Ends(c)
  PROVE  /\ EngineTypes' /\ Divided' /\ EventInv'
         /\ \A d \in Conns : (d # c /\ pass'[d] = pass[d]) \/ Started(pass[d], cursor)'
<1>1. CASE c = "cron" /\ cron = {}
  <2>1. \A d \in Conns : pass'[d] = IF d = c THEN Idle ELSE pass[d]
    BY <1>1 DEF Ends, IInv, Types, EngineTypes
  <2>2. pass' \in [Conns -> Passes]
    BY <1>1, IdlePass DEF Ends, IInv, Types, EngineTypes
  <2>. QED  BY <1>1, <2>1, <2>2, IdlePass, Connections DEF Ends, IInv, Types, EngineTypes, Divided,
            EventInv, Started
<1>2. CASE c = "cron" /\ cron # {}
  <2>1. PICK f \in cron : cron' = cron \ {f} /\ pass' = Begin("cron", f, cursor')
    BY <1>2 DEF Ends
  <2>2. f \in CronFolders
    BY <2>1 DEF IInv, Types, EngineTypes
  <2>3. /\ pass' \in [Conns -> Passes] /\ pass'["cron"].folder = f
        /\ Started(pass["cron"], cursor)' /\ pass'["idle"] = pass["idle"]
    BY <2>1, <2>2, BegunPass, Connections DEF IInv
  <2>. QED  BY <1>2, <2>1, <2>2, <2>3, Connections DEF Ends, IInv, Types, EngineTypes, Divided, EventInv
<1>3. CASE c = "idle" /\ link = "catchup" /\ cron = {} /\ pass["cron"].phase = "none" /\ CronFolders # {}
  <2>1. PICK f \in CronFolders :
          cron' = CronFolders \ {f} /\ pass' = [Begin("cron", f, cursor') EXCEPT !["idle"] = Idle]
    BY <1>3 DEF Ends
  <2>2. /\ pass' \in [Conns -> Passes] /\ pass'["cron"].folder = f /\ pass'["idle"] = Idle
        /\ Started(pass["cron"], cursor)'
    BY <2>1, BegunPass, IdlePass, Connections DEF IInv
  <2>. QED  BY <1>3, <2>1, <2>2, IdlePass, Connections DEF Ends, IInv, Types, EngineTypes, Divided,
            EventInv, Started
<1>4. CASE c = "idle" /\ ~ (link = "catchup" /\ cron = {} /\ pass["cron"].phase = "none" /\ CronFolders # {})
  <2>1. CASE link = "live" /\ pending
    <3>1. pass' = Begin("idle", "inbox", cursor')
      BY <1>4, <2>1 DEF Ends
    <3>2. /\ pass' \in [Conns -> Passes] /\ pass'["idle"].folder = "inbox"
          /\ Started(pass["idle"], cursor)' /\ pass'["cron"] = pass["cron"]
      BY <3>1, BegunPass, Connections DEF IInv
    <3>. QED  BY <1>4, <2>1, <3>2, Connections DEF Ends, IInv, Types, EngineTypes, Divided, EventInv
  <2>2. CASE ~ (link = "live" /\ pending)
    <3>1. pass' = [pass EXCEPT !["idle"] = Idle]
      BY <1>4, <2>2 DEF Ends
    <3>2. pass' \in [Conns -> Passes] /\ pass'["idle"] = Idle /\ pass'["cron"] = pass["cron"]
      BY <3>1, IdlePass, Connections DEF IInv, Types, EngineTypes
    <3>. QED  BY <1>4, <2>2, <3>2, IdlePass, Connections DEF Ends, IInv, Types, EngineTypes, Divided,
              EventInv, Started
  <2>. QED  BY <2>1, <2>2
<1>. QED  BY <1>1, <1>2, <1>3, <1>4, Connections

LEMMA DropStep == ASSUME IInv, NEW c \in Conns, Drop(c) \/ Refuse(c) PROVE IInv'
BY AbortedStep DEF Drop, Refuse, provider, database, history

-----------------------------------------------------------------------------
(* A pass *)

\* A step of one pass touches its own folder and no other.
LEMMA PassStep ==
  ASSUME IInv, NEW c \in Conns, NEW f \in Folders, f = pass[c].folder, pass[c].phase # "none",
         Types', Divided', EventInv', RowInv', UNCHANGED provider,
         FolderInv(f)', Sound(pass[c])',
         \A g \in Folders \ {f} : Steady(g),
         \A d \in Conns \ {c} : pass'[d] = pass[d] \/ Started(pass[d], cursor)'
  PROVE  IInv'
<1>1. ASSUME NEW g \in Folders, g # f PROVE FolderInv(g)'
  <2>1. Steady(g) /\ FolderInv(g) /\ Types
    BY <1>1 DEF IInv
  <2>. QED  BY <2>1, SteadyFolder
<1>2. ASSUME NEW d \in Conns \ {c}, pass'[d] = pass[d] PROVE Sound(pass[d])'
  <2>1. CASE pass[d].phase = "none"
    BY <1>2, <2>1 DEF Sound, PassBegun, PassFetches, PassScans, FetchPhases, ScanPhases
  <2>2. CASE pass[d].phase # "none"
    <3>1. pass[d].folder # pass[c].folder /\ pass[d].folder \in Folders
      BY <2>2, Connections DEF IInv, Divided, Types, EngineTypes, Passes
    <3>. QED  BY <1>2, <3>1, SteadyPass DEF IInv
  <2>. QED  BY <2>1, <2>2
<1>3. ASSUME NEW d \in Conns PROVE Sound(pass[d])'
  BY <1>2, StartedPass
<1>4. ServerInv'
  BY DEF IInv, ServerInv, provider
<1>. QED  BY <1>1, <1>3, <1>4 DEF IInv

\* The folder a step does not touch keeps its cursor, and its mail its mappings.
LEMMA SteadyElsewhere ==
  ASSUME Types, NEW g \in Folders, UNCHANGED <<provider, mislaid>>, cursor'[g] = cursor[g],
         stored \subseteq stored',
         \A m \in Msgs : \A x \in maps[m] : x.folder = g => x \in maps'[m]
  PROVE  Steady(g)
<1>1. nextUid'[g] \in Nat /\ nextUid'[g] >= nextUid[g]
  BY DEF Types, ProviderTypes, provider
<1>2. \A m \in Msgs : server[m].folder = g /\ Found(m) => Found(m)'
  BY DEF Found, provider
<1>. QED  BY <1>1, <1>2 DEF Steady, provider

LEMMA ToKept ==
  ASSUME IInv, NEW c \in Conns, NEW p \in Passes, p.folder = pass[c].folder, p.phase # "none",
         pass[c].phase # "none", To(c, p), UNCHANGED <<link, pending, cron, owed>>
  PROVE  /\ EngineTypes' /\ Divided' /\ EventInv'
         /\ pass'[c] = p /\ \A d \in Conns \ {c} : pass'[d] = pass[d]
<1>1. pass' = [pass EXCEPT ![c] = p]
  BY DEF To
<1>2. pass'[c] = p /\ \A d \in Conns \ {c} : pass'[d] = pass[d]
  BY <1>1 DEF IInv, Types, EngineTypes
<1>3. pass' \in [Conns -> Passes]
  BY <1>1 DEF IInv, Types, EngineTypes
<1>. QED  BY <1>2, <1>3, Connections DEF IInv, Types, EngineTypes, Divided, EventInv

LEMMA OpenStep == ASSUME IInv, NEW c \in Conns, Open(c) PROVE IInv'
<1>1. PICK p \in Passes : p = pass[c]
  BY DEF IInv, Types, EngineTypes
<1>2. PICK f \in Folders : f = p.folder
  BY DEF Passes
<1>. DEFINE full == p.validity # epoch[f]
            top == IF full THEN nextUid[f] ELSE p.from
<1>3. p.phase = "opening" /\ Types /\ Sound(p)
  BY <1>1 DEF IInv, Open, At
<1>. HIDE DEF full, top
<1>4. PICK q : q = [p EXCEPT !.phase = "listing", !.full = full, !.validity = epoch[f], !.top = top]
  OBVIOUS
<1>5. To(c, q)
  BY <1>1, <1>2, <1>4 DEF Open, full, top
<1>6. q = [phase |-> "listing", folder |-> f, full |-> full, validity |-> epoch[f], from |-> p.from,
            uids |-> p.uids, batch |-> p.batch, live |-> p.live, top |-> top]
  BY <1>2, <1>4 DEF Passes
<1>7. q \in Passes
  BY <1>3, <1>6 DEF Passes, Phases, Types, ProviderTypes, full, top
<1>8. q.folder = f /\ q.phase = "listing" /\ q.full = full /\ q.validity = epoch[f] /\ q.from = p.from
      /\ q.top = top
      /\ q.batch = p.batch /\ q.live = p.live
  BY <1>6
<1>9. /\ EngineTypes' /\ Divided' /\ EventInv'
      /\ pass'[c] = q /\ \A d \in Conns \ {c} : pass'[d] = pass[d]
  BY <1>1, <1>2, <1>3, <1>8, <1>5, <1>7, ToKept DEF Open, history
<1>10. maps' = (IF full /\ p.validity # 0 THEN Cleared(f) ELSE maps)
  BY <1>1, <1>2 DEF Open, full
<1>11. /\ maps' \in [Msgs -> SUBSET Mappings] /\ \A m \in Msgs : maps'[m] \subseteq maps[m]
       /\ \A m \in Msgs : \A x \in maps[m] : x.folder # f => x \in maps'[m]
       /\ ~ full => maps' = maps
  BY <1>3, <1>10 DEF Cleared, Types, StoreTypes
<1>12. Types'
  BY <1>3, <1>9, <1>11 DEF Open, provider, history, Types, ProviderTypes, StoreTypes
<1>13. RowInv'
  BY <1>11 DEF IInv, RowInv, Open, history
<1>14. cursor[f].validity = p.validity /\ cursor[f].lastUid = p.from
  BY <1>1, <1>2, <1>3 DEF Sound, PassBegun
<1>15. FolderInv(f)'
  <2>1. CASE full
    BY <1>14, <2>1 DEF IInv, FolderInv, Open, provider, full
  <2>2. CASE ~ full
    BY <1>11, <2>2 DEF IInv, FolderInv, Open, provider, history, Found
  <2>. QED  BY <2>1, <2>2
<1>16. Sound(pass[c])'
  <2>1. cursor[f] \in Cursors /\ nextUid[f] \in Nat
    BY <1>3 DEF Types, StoreTypes, ProviderTypes
  <2>2. ~ full => cursor[f] = [validity |-> epoch[f], lastUid |-> p.from] /\ p.from <= nextUid[f]
    BY <1>14, <2>1 DEF IInv, FolderInv, Cursors, full
  <2>3. full => cursor[f].validity # epoch[f]
    BY <1>14 DEF full
  <2>4. p.batch = {} /\ p.live = {}
    BY <1>3 DEF Sound, PassBegun
  <2>. QED  BY <1>8, <1>9, <2>1, <2>2, <2>3, <2>4 DEF Open, provider, Sound, PassBegun, PassFetches, PassScans,
            FetchPhases, ScanPhases, top
<1>17. ASSUME NEW g \in Folders \ {f} PROVE Steady(g)
  BY <1>1, <1>2, <1>3, <1>11, SteadyElsewhere DEF Open, history
<1>. QED  BY <1>1, <1>2, <1>3, <1>9, <1>12, <1>13, <1>15, <1>16, <1>17, PassStep DEF Open, provider

LEMMA ListStep == ASSUME IInv, NEW c \in Conns, List(c) PROVE IInv'
<1>1. PICK p \in Passes : p = pass[c]
  BY DEF IInv, Types, EngineTypes
<1>2. PICK f \in Folders : f = p.folder
  BY DEF Passes
<1>. DEFINE uids == IF p.full THEN {server[m].uid : m \in In(f) \ Old}
                    ELSE {u \in LiveUids(f) : u >= p.from}
            top == IF p.full \/ uids = {} THEN p.top ELSE Max(uids) + 1
            phase == IF uids = {} THEN "scanning" ELSE "fetching"
            floor == [validity |-> p.validity, lastUid |-> (IF uids = {} THEN p.top ELSE Min(uids) - 1)]
<1>3. p.phase = "listing" /\ Types /\ Sound(p) /\ FolderInv(f) /\ ServerInv
  BY <1>1 DEF IInv, List, At
<1>4. /\ p.batch = {} /\ p.live = {} /\ p.validity = epoch[f] /\ p.top <= nextUid[f]
      /\ ~ p.full => cursor[f] = [validity |-> epoch[f], lastUid |-> p.from] /\ p.top = p.from
  BY <1>2, <1>3 DEF Sound, PassBegun
<1>5. uids \in SUBSET Nat /\ IsFiniteSet(uids) /\ \A u \in uids : 0 < u /\ u < nextUid[f]
  <2>1. uids \subseteq LiveUids(f)
    BY DEF LiveUids
  <2>2. \A u \in LiveUids(f) : 0 < u /\ u < nextUid[f]
    BY <1>3 DEF LiveUids, In, ServerInv
  <2>. HIDE DEF uids
  <2>. QED  BY <1>3, <2>1, <2>2, LiveUidsFinite, FS_Subset
<1>6. \A m \in Window : server[m].folder = f =>
        \/ server[m].uid \in uids
        \/ (~ p.full /\ server[m].uid < p.from)
  <2>. SUFFICES ASSUME NEW m \in Window, server[m].folder = f
                PROVE  server[m].uid \in uids \/ (~ p.full /\ server[m].uid < p.from)
    OBVIOUS
  <2>1. m \in In(f) \ Old /\ server[m].uid \in LiveUids(f)
    BY DEF Window, In, LiveUids
  <2>2. server[m].uid \in Nat /\ p.from \in Nat
    BY <1>3, <2>1 DEF Types, ProviderTypes, Places, Passes, In
  <2>3. /\ p.full => \A n \in In(f) \ Old : server[n].uid \in uids
        /\ ~ p.full => \A u \in LiveUids(f) : u >= p.from => u \in uids
    OBVIOUS
  <2>. HIDE DEF uids
  <2>. QED  BY <2>1, <2>2, <2>3
<1>7. \A m \in Window : server[m].folder = f => server[m].uid \in uids \/ Found(m)
  <2>1. ~ p.full => cursor[f].validity = epoch[f] /\ cursor[f].lastUid = p.from
    BY <1>4
  <2>. HIDE DEF uids
  <2>. QED  BY <1>3, <1>6, <2>1 DEF FolderInv
<1>8. nextUid[f] \in Nat /\ epoch[f] \in Nat /\ cursor[f] \in Cursors /\ p.top \in Nat
  BY <1>3 DEF Types, ProviderTypes, StoreTypes, Passes
<1>9. cursor' = [cursor EXCEPT ![f] = IF p.full THEN floor ELSE @]
  BY <1>1, <1>2, <1>3, <1>8 DEF List, Floor, Types, StoreTypes
<1>10. uids # {} => Min(uids) \in uids /\ Max(uids) \in uids /\ \A u \in uids : Min(uids) <= u /\ u <= Max(uids)
  BY <1>5, MinIsLeast, MaxIsGreatest
<1>11. floor \in Cursors /\ floor.validity = epoch[f] /\ floor.lastUid <= nextUid[f]
       /\ \A u \in uids : u > floor.lastUid
  <2>. DEFINE last == IF uids = {} THEN p.top ELSE Min(uids) - 1
  <2>. HIDE DEF uids
  <2>1. last \in Nat /\ last <= nextUid[f] /\ \A u \in uids : u > last
    <3>1. CASE uids = {}
      BY <1>4, <1>8, <3>1
    <3>2. CASE uids # {}
      <4>1. Min(uids) \in Nat /\ 0 < Min(uids) /\ Min(uids) < nextUid[f]
        BY <1>5, <1>10, <3>2
      <4>2. \A u \in uids : u \in Nat /\ Min(uids) <= u
        BY <1>5, <1>10
      <4>. QED  BY <1>8, <3>2, <4>1, <4>2
    <3>. QED  BY <3>1, <3>2
  <2>. QED  BY <1>4, <1>8, <2>1 DEF Cursors
<1>12. top \in Nat /\ top <= nextUid[f]
  BY <1>4, <1>5, <1>8, <1>10
<1>. HIDE DEF uids, floor
<1>13. cursor' \in [Folders -> Cursors] /\ cursor'[f] = IF p.full THEN floor ELSE cursor[f]
  BY <1>9, <1>11, <1>3 DEF Types, StoreTypes
<1>14. FolderInv(f)'
  <2>1. UNCHANGED <<provider, stored, maps, mislaid>>
    BY DEF List
  <2>2. \A m \in Msgs : Found(m)' <=> Found(m)
    BY <2>1 DEF Found, provider
  <2>3. CASE p.full
    <3>1. cursor'[f] = floor /\ epoch'[f] = epoch[f] /\ nextUid'[f] = nextUid[f] /\ server' = server
      BY <1>13, <2>1, <2>3 DEF provider
    <3>2. \A m \in Window : server[m].folder = f => server[m].uid > floor.lastUid /\ server[m].uid \in Nat
      BY <1>3, <1>6, <1>11, <2>3 DEF Types, ProviderTypes, Places, Window
    <3>3. \A m \in Window : server[m].folder = f => ~ (server[m].uid < floor.lastUid)
      BY <1>11, <3>2 DEF Cursors
    <3>. QED  BY <1>8, <1>11, <3>1, <3>3 DEF FolderInv
  <2>4. CASE ~ p.full
    <3>1. cursor'[f] = cursor[f] /\ epoch'[f] = epoch[f] /\ nextUid'[f] = nextUid[f] /\ server' = server
      BY <1>13, <2>1, <2>4 DEF provider
    <3>. QED  BY <1>3, <2>2, <3>1 DEF FolderInv, Window
  <2>. QED  BY <2>3, <2>4
<1>15. ASSUME NEW g \in Folders \ {f} PROVE Steady(g)
  <2>1. cursor'[g] = cursor[g]
    BY <1>3, <1>9 DEF Types, StoreTypes
  <2>. QED  BY <1>3, <2>1, SteadyElsewhere DEF List
<1>16. RowInv'
  BY DEF IInv, RowInv, List
<1>17. CASE p.full /\ uids = {}
  <2>1. Ends(c)
    BY <1>1, <1>2, <1>17 DEF List, uids
  <2>2. /\ EngineTypes' /\ Divided' /\ EventInv'
        /\ \A d \in Conns : (d # c /\ pass'[d] = pass[d]) \/ Started(pass[d], cursor)'
    BY <1>1, <1>3, <1>13, <2>1, EndsKept
  <2>3. Types'
    BY <1>3, <1>13, <2>2 DEF List, provider, Types, ProviderTypes, StoreTypes
  <2>. QED  BY <1>1, <1>2, <1>3, <1>14, <1>15, <1>16, <2>2, <2>3, StartedPass, PassStep DEF List
<1>18. CASE ~ (p.full /\ uids = {})
  <2>1. PICK q : q = [p EXCEPT !.phase = phase, !.uids = uids, !.from = 0, !.top = top]
    OBVIOUS
  <2>2. To(c, q) /\ UNCHANGED <<link, pending, cron, owed>>
    BY <1>1, <1>2, <1>18, <2>1 DEF List, uids
  <2>. HIDE DEF phase, top
  <2>3. q = [phase |-> phase, folder |-> f, full |-> p.full, validity |-> p.validity, from |-> 0,
             uids |-> uids, batch |-> p.batch, live |-> p.live, top |-> top]
    BY <1>2, <2>1 DEF Passes
  <2>4. q \in Passes
    BY <1>5, <1>12, <2>3 DEF Passes, Phases, phase, FetchPhases, ScanPhases
  <2>5. /\ q.phase = phase /\ q.folder = f /\ q.full = p.full /\ q.validity = p.validity
        /\ q.uids = uids /\ q.batch = p.batch /\ q.live = p.live /\ q.top = top
    BY <2>3
  <2>6. /\ EngineTypes' /\ Divided' /\ EventInv'
        /\ pass'[c] = q /\ \A d \in Conns \ {c} : pass'[d] = pass[d]
    BY <1>1, <1>2, <1>3, <2>2, <2>4, <2>5, ToKept DEF phase
  <2>7. Types'
    BY <1>3, <1>13, <2>6 DEF List, provider, Types, ProviderTypes, StoreTypes
  <2>8. UNCHANGED <<provider, stored, maps, mislaid>>
    BY DEF List
  <2>9. cursor'[f].validity = epoch[f]
    BY <1>4, <1>11, <1>13
  <2>10. PassBegun(pass[c])'
    BY <1>4, <1>12, <2>5, <2>6, <2>8, <2>9 DEF PassBegun, phase, provider
  <2>11. PassFetches(pass[c])'
    <3>1. \A m \in Window : server[m].folder = f => server[m].uid \in uids \/ Found(m)'
      BY <1>7, <2>8 DEF Found, provider
    <3>. QED  BY <1>4, <1>5, <2>5, <2>6, <2>8, <3>1, FS_EmptySet DEF PassFetches, phase, FetchPhases, provider
  <2>12. PassScans(pass[c])'
    <3>1. uids = {} => ~ p.full /\ \A m \in Window : server[m].folder = f => Found(m)'
      BY <1>7, <1>18, <2>8 DEF Found, provider
    <3>. QED  BY <2>5, <2>6, <2>8, <3>1 DEF PassScans, phase, ScanPhases, provider
  <2>. QED  BY <1>1, <1>2, <1>3, <1>14, <1>15, <1>16, <2>6, <2>7, <2>8, <2>10, <2>11, <2>12, PassStep DEF Sound
<1>. QED  BY <1>17, <1>18

LEMMA FetchStep == ASSUME IInv, NEW c \in Conns, Fetch(c) PROVE IInv'
<1>1. PICK p \in Passes : p = pass[c]
  BY DEF IInv, Types, EngineTypes
<1>2. PICK f \in Folders : f = p.folder
  BY DEF Passes
<1>3. p.phase = "fetching" /\ Types /\ Sound(p) /\ FolderInv(f) /\ ServerInv
  BY <1>1 DEF IInv, Fetch, At
<1>. DEFINE chunk == Chunk(p.uids)
            rest == p.uids \ chunk
            batch == {<<m, server[m].uid>> : m \in {x \in In(f) : server[x].uid \in chunk}}
<1>4. /\ p.uids \in SUBSET Nat /\ IsFiniteSet(p.uids) /\ p.uids # {} /\ p.live = {} /\ p.batch = {}
      /\ \A x \in p.uids : x < nextUid[f]
      /\ \A m \in Window : server[m].folder = f =>
           server[m].uid \in p.uids \/ Found(m) \/ Beyond(p, server[m].uid)
  BY <1>2, <1>3 DEF Sound, PassFetches, FetchPhases, Passes
<1>5. /\ chunk \subseteq p.uids /\ chunk # {} /\ IsFiniteSet(chunk) /\ IsFiniteSet(rest)
      /\ \A x \in chunk, y \in rest : x < y
  BY <1>4, ChunkIsLowest
<1>6. batch \in SUBSET (Msgs \X Nat) /\ \A x \in batch : x[1] \in Msgs /\ x[2] = server[x[1]].uid
  BY <1>3 DEF In, Types, ProviderTypes, Places
<1>7. \A m \in In(f) : server[m].uid \in chunk => <<m, server[m].uid>> \in batch
  OBVIOUS
<1>8. PICK q : q = [p EXCEPT !.phase = "storing", !.uids = @ \ chunk, !.batch = batch, !.live = chunk]
  OBVIOUS
<1>9. To(c, q)
  BY <1>1, <1>2, <1>8 DEF Fetch
<1>. HIDE DEF chunk, batch
<1>10. q = [phase |-> "storing", folder |-> f, full |-> p.full, validity |-> p.validity, from |-> p.from,
            uids |-> rest, batch |-> batch, live |-> chunk, top |-> p.top]
  BY <1>2, <1>8 DEF Passes
<1>. HIDE DEF rest
<1>11. q \in Passes
  <2>1. rest \in SUBSET Nat /\ chunk \in SUBSET Nat
    BY <1>4, <1>5 DEF rest
  <2>. QED  BY <1>6, <1>10, <2>1 DEF Passes, Phases, FetchPhases
<1>12. /\ q.phase = "storing" /\ q.folder = f /\ q.full = p.full /\ q.validity = p.validity
       /\ q.uids = rest /\ q.batch = batch /\ q.live = chunk /\ q.top = p.top
  BY <1>10
<1>13. /\ EngineTypes' /\ Divided' /\ EventInv'
       /\ pass'[c] = q /\ \A d \in Conns \ {c} : pass'[d] = pass[d]
  BY <1>1, <1>2, <1>3, <1>9, <1>11, <1>12, ToKept DEF Fetch, history
<1>14. UNCHANGED <<provider, database, own, mislaid>>
  BY DEF Fetch, history
<1>15. Types' /\ RowInv'
  BY <1>13, <1>14 DEF IInv, RowInv, provider, database, Types, ProviderTypes, StoreTypes
<1>16. \A m \in Msgs : Found(m)' <=> Found(m)
  BY <1>14 DEF Found, provider, database
<1>17. FolderInv(f)'
  BY <1>3, <1>14, <1>16 DEF FolderInv, provider, database, Window
<1>18. ASSUME NEW g \in Folders \ {f} PROVE Steady(g)
  BY <1>3, <1>14, SteadyElsewhere DEF database
<1>19. Sound(pass[c])'
  <2>1. rest \cup chunk = p.uids
    BY <1>5 DEF rest
  <2>2. \A u : Beyond(p, u) => Beyond(pass[c], u)'
    BY <1>2, <1>4, <1>12, <1>13, <1>14, <2>1 DEF Beyond, database
  <2>3. ASSUME NEW m \in Window, server[m].folder = f
        PROVE  server[m].uid \in rest \/ <<m, server[m].uid>> \in batch \/ Found(m)'
               \/ Beyond(pass[c], server[m].uid)'
    <3>1. m \in Msgs /\ m \in In(f)
      BY <2>3 DEF Window, In
    <3>2. Beyond(p, server[m].uid) => Beyond(pass[c], server[m].uid)'
      <4>1. PICK u : u = server[m].uid
        OBVIOUS
      <4>2. server'[m].uid = u
        BY <1>14, <4>1 DEF provider
      <4>. QED  BY <2>2, <4>1, <4>2
    <3>. QED  BY <1>4, <1>7, <1>16, <2>1, <2>3, <3>1, <3>2
  <2>4. PassFetches(pass[c])'
    BY <1>4, <1>5, <1>6, <1>12, <1>13, <1>14, <2>1, <2>3 DEF PassFetches, FetchPhases, provider, database
  <2>5. PassBegun(pass[c])' /\ PassScans(pass[c])'
    BY <1>2, <1>3, <1>12, <1>13, <1>14
    DEF Sound, PassBegun, PassScans, FetchPhases, ScanPhases, provider, database
  <2>. QED  BY <2>4, <2>5 DEF Sound
<1>. QED  BY <1>1, <1>2, <1>3, <1>13, <1>14, <1>15, <1>17, <1>18, <1>19, PassStep

LEMMA ScanStep == ASSUME IInv, NEW c \in Conns, Scan(c) PROVE IInv'
<1>1. PICK p \in Passes : p = pass[c]
  BY DEF IInv, Types, EngineTypes
<1>2. PICK f \in Folders : f = p.folder
  BY DEF Passes
<1>3. p.phase = "scanning" /\ Types /\ Sound(p) /\ FolderInv(f)
  BY <1>1 DEF IInv, Scan, At
<1>4. PICK live \in SUBSET Nat : live = LiveUids(f)
  BY <1>3, LiveUidsFinite
<1>5. PICK q : q = [p EXCEPT !.phase = "unlinking", !.live = live]
  OBVIOUS
<1>6. To(c, q)
  BY <1>1, <1>2, <1>4, <1>5 DEF Scan, Fol
<1>7. q = [phase |-> "unlinking", folder |-> f, full |-> p.full, validity |-> p.validity, from |-> p.from,
           uids |-> p.uids, batch |-> p.batch, live |-> live, top |-> p.top]
  BY <1>2, <1>5 DEF Passes
<1>8. q \in Passes
  BY <1>7 DEF Passes, Phases, ScanPhases
<1>9. /\ q.phase = "unlinking" /\ q.folder = f /\ q.full = p.full /\ q.validity = p.validity
      /\ q.live = live /\ q.top = p.top
  BY <1>7
<1>10. /\ EngineTypes' /\ Divided' /\ EventInv'
       /\ pass'[c] = q /\ \A d \in Conns \ {c} : pass'[d] = pass[d]
  BY <1>1, <1>2, <1>3, <1>6, <1>8, <1>9, ToKept DEF Scan, history
<1>11. UNCHANGED <<provider, database, own, mislaid>>
  BY DEF Scan, history
<1>12. Types' /\ RowInv'
  BY <1>10, <1>11 DEF IInv, RowInv, provider, database, Types, ProviderTypes, StoreTypes
<1>13. \A m \in Msgs : Found(m)' <=> Found(m)
  BY <1>11 DEF Found, provider, database
<1>14. FolderInv(f)'
  BY <1>3, <1>11, <1>13 DEF FolderInv, provider, database, Window
<1>15. ASSUME NEW g \in Folders \ {f} PROVE Steady(g)
  BY <1>3, <1>11, SteadyElsewhere DEF database
<1>16. Sound(pass[c])'
  <2>1. \A m \in Window : server[m].folder = f => server[m].uid \in live
    BY <1>4 DEF LiveUids, In, Window
  <2>. QED  BY <1>2, <1>3, <1>9, <1>10, <1>11, <1>13, <2>1
       DEF Sound, PassBegun, PassFetches, PassScans, FetchPhases, ScanPhases, provider, database, Window
<1>. QED  BY <1>1, <1>2, <1>3, <1>10, <1>11, <1>12, <1>14, <1>15, <1>16, PassStep

LEMMA UnlinkStep == ASSUME IInv, NEW c \in Conns, Unlink(c) PROVE IInv'
<1>1. PICK p \in Passes : p = pass[c]
  BY DEF IInv, Types, EngineTypes
<1>2. PICK f \in Folders : f = p.folder
  BY DEF Passes
<1>3. p.phase = "unlinking" /\ Types /\ Sound(p) /\ FolderInv(f) /\ Unlinked(f, p.live)
      /\ UNCHANGED <<provider, stored, own, mislaid>>
  BY <1>1, <1>2 DEF IInv, Unlink, At
<1>. DEFINE lost(m) == {x \in Tracked(m) : x.folder = f /\ x.uid # NoUid /\ x.uid \notin p.live}
<1>4. /\ \A m \in Msgs : maps'[m] = maps[m] \ lost(m)
      /\ maps' \in [Msgs -> SUBSET Mappings] /\ tomb' \in [Msgs -> BOOLEAN]
      /\ \A m \in Msgs : tomb'[m] => tomb[m] \/ lost(m) # {}
  BY <1>3 DEF Unlinked, UnlinkTomb, Types, StoreTypes
<1>5. \A m \in Msgs : lost(m) \subseteq maps[m]
  BY DEF Tracked
<1>6. \A m \in Msgs : /\ \A x \in maps[m] : x.folder # f => x \in maps'[m]
                      /\ server[m].uid \in p.live /\ server[m] \in maps[m] => server[m] \in maps'[m]
  BY <1>4
<1>. HIDE DEF lost
<1>7. cursor' = [cursor EXCEPT ![f] = [validity |-> p.validity, lastUid |-> p.top]]
  BY <1>1, <1>2 DEF Unlink, NextCursor
<1>8. /\ p.validity = epoch[f] /\ p.top <= nextUid[f] /\ epoch[f] \in Nat /\ p.top \in Nat
      /\ \A m \in Window : server[m].folder = f /\ server[m].uid < p.top =>
           Found(m) /\ server[m].uid \in p.live
  BY <1>2, <1>3 DEF Sound, PassBegun, PassScans, ScanPhases, Types, ProviderTypes, Passes
<1>9. /\ cursor' \in [Folders -> Cursors]
      /\ cursor'[f].validity = epoch[f] /\ cursor'[f].lastUid = p.top
  BY <1>3, <1>7, <1>8 DEF Types, StoreTypes, Cursors
<1>10. /\ EngineTypes' /\ Divided' /\ EventInv'
       /\ \A d \in Conns : (d # c /\ pass'[d] = pass[d]) \/ Started(pass[d], cursor)'
  BY <1>1, <1>3, <1>9, EndsKept DEF Unlink
<1>11. Types'
  BY <1>3, <1>4, <1>9, <1>10 DEF Types, ProviderTypes, StoreTypes, provider
<1>12. RowInv'
  BY <1>3, <1>4, <1>5 DEF IInv, RowInv
<1>13. FolderInv(f)'
  <2>1. \A m \in Window : server[m].folder = f /\ server[m].uid < p.top => Found(m)'
    BY <1>3, <1>6, <1>8 DEF Found, Window, provider
  <2>. QED  BY <1>3, <1>8, <1>9, <2>1 DEF FolderInv, provider
<1>14. ASSUME NEW g \in Folders \ {f} PROVE Steady(g)
  <2>1. cursor'[g] = cursor[g]
    BY <1>3, <1>7 DEF Types, StoreTypes
  <2>. QED  BY <1>3, <1>6, <2>1, SteadyElsewhere
<1>15. pass[c].phase # "none" /\ f = pass[c].folder
  BY <1>1, <1>2, <1>3
<1>. QED  BY <1>3, <1>10, <1>11, <1>12, <1>13, <1>14, <1>15, StartedPass, PassStep

\* What Store writes: known mail keeps its mappings elsewhere, and mail that is
\* handled under the UID it has is found.
Captured(now, S, uidOf) ==
  /\ S \subseteq Msgs /\ \A x \in now : x[1] \in S
  /\ \A m \in S : \E x \in now : x[1] = m /\ uidOf[m] = x[2]

Written(p, f, now) ==
  /\ stored' \subseteq Msgs /\ stored \subseteq stored'
  /\ maps' \in [Msgs -> SUBSET Mappings] /\ tomb' \in [Msgs -> BOOLEAN]
  /\ \A m \in Msgs : tomb'[m] => tomb[m]
  /\ \A m \in Msgs : maps'[m] # maps[m] => m \in stored'
  /\ \A m \in Msgs : \A x \in maps[m] : x.folder # f => x \in maps'[m]
  /\ \A m \in Msgs : (\A x, y \in maps[m] : x.folder = y.folder => x = y) =>
                     \A x, y \in maps'[m] : x.folder = y.folder => x = y
  /\ \A m \in Window : server[m].folder = f =>
       /\ <<m, server[m].uid>> \in now => Found(m)'
       /\ Found(m) => Found(m)' \/ Beyond(p, server[m].uid)

LEMMA StoreWrites ==
  ASSUME Types, NEW p \in Passes, NEW f \in Folders, f = p.folder, PassFetches(p), p.phase \in FetchPhases,
         NEW now \in SUBSET p.batch, NEW S, NEW uidOf, Captured(now, S, uidOf),
         UNCHANGED <<provider, mislaid>>, Stored(S, f, uidOf)
  PROVE  Written(p, f, now)
<1>1. /\ \A x \in now : x \in Msgs \X Nat
      /\ \A x, y \in now : x[1] = y[1] => x = y
      /\ \A x \in now : server[x[1]].folder = f =>
           server[x[1]].uid = x[2] \/ Beyond(p, server[x[1]].uid)
  BY DEF Passes, PassFetches
<1>2. S \subseteq Msgs /\ \A x \in now : x[1] \in S
  BY DEF Captured
<1>3. ASSUME NEW m \in S PROVE \E x \in now : x[1] = m /\ uidOf[m] = x[2]
  BY DEF Captured
<1>4. stored' = stored \cup S /\ tomb' = TouchTomb(tomb, S \ Frozen, f)
      /\ maps' = [m \in Msgs |-> IF m \in S \ Frozen THEN Linked(m, f, uidOf[m]) ELSE maps[m]]
  BY DEF Stored
<1>5. \A m \in S : uidOf[m] \in Nat
  BY <1>1, <1>3
<1>6. \A m \in S : Linked(m, f, uidOf[m]) \in SUBSET Mappings
  BY <1>2, <1>5 DEF Linked, Mapping, Mappings, Types, StoreTypes
<1>7. maps' \in [Msgs -> SUBSET Mappings]
  BY <1>4, <1>6 DEF Types, StoreTypes
<1>8. tomb' \in [Msgs -> BOOLEAN] /\ \A m \in Msgs : tomb'[m] => tomb[m]
  BY <1>4 DEF TouchTomb
<1>9. \A m \in Msgs : maps'[m] = IF m \in S \ Frozen
                                 THEN {x \in maps[m] : x.folder # f} \cup {Mapping(f, uidOf[m])}
                                 ELSE maps[m]
  BY <1>4 DEF Linked
<1>10. \A u : Mapping(f, u).folder = f
  BY DEF Mapping
<1>11. \A m \in Msgs : (\A x, y \in maps[m] : x.folder = y.folder => x = y) =>
                       \A x, y \in maps'[m] : x.folder = y.folder => x = y
  <2>1. ASSUME NEW m \in Msgs, \A x, y \in maps[m] : x.folder = y.folder => x = y,
               NEW x \in maps'[m], NEW y \in maps'[m], x.folder = y.folder
        PROVE  x = y
    <3>1. CASE m \in S \ Frozen
      <4>1. maps'[m] = {z \in maps[m] : z.folder # f} \cup {Mapping(f, uidOf[m])}
        BY <1>9, <3>1
      <4>. QED  BY <1>10, <2>1, <4>1
    <3>2. CASE m \notin S \ Frozen
      BY <1>9, <2>1, <3>2
    <3>. QED  BY <3>1, <3>2
  <2>. QED  BY <2>1
<1>12. \A m \in Msgs : \A x \in maps[m] : x.folder # f => x \in maps'[m]
  BY <1>9
<1>13. ASSUME NEW m \in Window, server[m].folder = f, m \in S, uidOf[m] = server[m].uid
       PROVE  Found(m)'
  <2>1. m \in Msgs /\ m \notin Frozen /\ server[m] = Mapping(f, uidOf[m])
    BY <1>13 DEF Window, Types, ProviderTypes, Places, Mapping
  <2>. QED  BY <1>4, <1>9, <1>13, <2>1 DEF Found, provider
<1>14. ASSUME NEW m \in Window, server[m].folder = f, <<m, server[m].uid>> \in now PROVE Found(m)'
  <2>1. m \in S
    BY <1>2, <1>14
  <2>2. PICK x \in now : x[1] = m /\ uidOf[m] = x[2]
    BY <1>3, <2>1
  <2>3. x = <<m, server[m].uid>>
    BY <1>1, <1>14, <2>2
  <2>. QED  BY <1>13, <1>14, <2>1, <2>2, <2>3
<1>15. ASSUME NEW m \in Window, server[m].folder = f, Found(m)
       PROVE  Found(m)' \/ Beyond(p, server[m].uid)
  <2>1. CASE m \in S
    <3>1. PICK x \in now : x[1] = m /\ uidOf[m] = x[2]
      BY <1>3, <2>1
    <3>. QED  BY <1>1, <1>13, <1>15, <2>1, <3>1
  <2>2. CASE m \notin S
    BY <1>4, <1>9, <1>15, <2>2 DEF Found, Window, provider
  <2>. QED  BY <2>1, <2>2
<1>. QED  BY <1>2, <1>4, <1>7, <1>8, <1>9, <1>11, <1>12, <1>14, <1>15 DEF Written, Types, StoreTypes

LEMMA StoreStep == ASSUME IInv, NEW c \in Conns, Store(c) PROVE IInv'
<1>1. PICK p \in Passes : p = pass[c]
  BY DEF IInv, Types, EngineTypes
<1>2. PICK f \in Folders : f = p.folder
  BY DEF Passes
<1>3. p.phase \in {"storing", "body"} /\ Types /\ Sound(p) /\ FolderInv(f)
  BY <1>1 DEF IInv, Store
<1>4. UNCHANGED <<provider, own, mislaid>>
  BY DEF Store
<1>5. PICK now \in SUBSET p.batch : now = Handled(p)
  BY DEF Handled
<1>. DEFINE rest == p.batch \ now
            last == IF p.uids = {} THEN p.top ELSE Max(p.live)
            phase == IF rest # {} THEN "body" ELSE IF p.uids # {} THEN "fetching" ELSE "scanning"
            live == IF rest = {} THEN {} ELSE p.live
<1>. DEFINE S == {x[1] : x \in now}
            uidOf == [m \in S |-> (CHOOSE x \in now : x[1] = m)[2]]
<1>6. Stored(S, f, uidOf)
  BY <1>5, <1>1, <1>2 DEF Store
<1>7. cursor' = IF rest = {} /\ p.full THEN [cursor EXCEPT ![f].lastUid = last] ELSE cursor
  BY <1>5, <1>1, <1>2 DEF Store, Advanced
<1>8. /\ PassBegun(p) /\ PassFetches(p) /\ p.phase \in FetchPhases
      /\ p.validity = epoch[f] /\ p.top <= nextUid[f] /\ cursor[f].validity = epoch[f]
      /\ cursor[f].lastUid <= nextUid[f]
  BY <1>2, <1>3 DEF Sound, PassBegun, FetchPhases, FolderInv
<1>9. /\ p.live # {} /\ IsFiniteSet(p.live) /\ IsFiniteSet(p.uids)
      /\ p.live \in SUBSET Nat /\ p.uids \in SUBSET Nat /\ p.top \in Nat
      /\ \A x \in p.uids \cup p.live : x < nextUid[f]
      /\ \A x \in p.live, y \in p.uids : x < y
      /\ \A x, y \in p.batch : x[1] = y[1] => x = y
      /\ \A x \in p.batch : server[x[1]].folder = f => server[x[1]].uid = x[2] \/ Beyond(p, server[x[1]].uid)
      /\ \A m \in Window : server[m].folder = f =>
           \/ server[m].uid \in p.uids \/ <<m, server[m].uid>> \in p.batch
           \/ Found(m) \/ Beyond(p, server[m].uid)
  BY <1>2, <1>3, <1>8 DEF PassFetches, Passes
<1>10. /\ nextUid[f] \in Nat /\ epoch[f] \in Nat /\ cursor \in [Folders -> Cursors] /\ cursor[f] \in Cursors
       /\ cursor[f].lastUid \in Nat
       /\ \A m \in Msgs : server[m].uid \in Nat
  BY <1>3 DEF Types, ProviderTypes, StoreTypes, Cursors, Places
<1>11. Captured(now, S, uidOf)
  <2>1. S \subseteq Msgs /\ \A x \in now : x[1] \in S
    BY DEF Passes
  <2>2. ASSUME NEW m \in S PROVE \E x \in now : x[1] = m /\ uidOf[m] = x[2]
    <3>1. \E x \in now : x[1] = m
      OBVIOUS
    <3>2. PICK x \in now : x = CHOOSE y \in now : y[1] = m
      BY <3>1
    <3>3. x[1] = m
      BY <3>1, <3>2
    <3>. QED  BY <3>2, <3>3
  <2>. QED  BY <2>1, <2>2 DEF Captured
<1>. HIDE DEF S, uidOf
<1>12. /\ stored' \subseteq Msgs /\ stored \subseteq stored'
       /\ maps' \in [Msgs -> SUBSET Mappings] /\ tomb' \in [Msgs -> BOOLEAN]
       /\ \A m \in Msgs : tomb'[m] => tomb[m]
       /\ \A m \in Msgs : maps'[m] # maps[m] => m \in stored'
       /\ \A m \in Msgs : \A x \in maps[m] : x.folder # f => x \in maps'[m]
       /\ \A m \in Msgs : (\A x, y \in maps[m] : x.folder = y.folder => x = y) =>
                          \A x, y \in maps'[m] : x.folder = y.folder => x = y
       /\ \A m \in Window : server[m].folder = f =>
            /\ <<m, server[m].uid>> \in now => Found(m)'
            /\ Found(m) => Found(m)' \/ Beyond(p, server[m].uid)
  <2>1. UNCHANGED <<provider, mislaid>> /\ Types
    BY <1>3, <1>4
  <2>2. Written(p, f, now)
    BY <1>2, <1>6, <1>8, <1>11, <2>1, StoreWrites
  <2>. QED  BY <2>2 DEF Written
<1>13. \A m \in Window : server[m].folder = f =>
         \/ server[m].uid \in p.uids \/ <<m, server[m].uid>> \in rest
         \/ Found(m)' \/ Beyond(p, server[m].uid)
  BY <1>9, <1>12
<1>14. /\ last \in Nat /\ last <= nextUid[f]
       /\ \A y \in p.uids : last < y
       /\ \A u \in Nat : Beyond(p, u) => u >= last
  <2>1. CASE p.uids = {}
    BY <1>8, <1>9, <2>1 DEF Beyond
  <2>2. CASE p.uids # {}
    <3>1. PICK x \in p.live : x = Max(p.live)
      BY <1>9, MaxIsGreatest
    <3>2. last = x /\ x \in Nat
      BY <1>9, <2>2, <3>1
    <3>3. ASSUME NEW u \in Nat, Beyond(p, u) PROVE u >= x
      <4>1. PICK y \in p.uids : TRUE
        BY <2>2
      <4>2. u >= p.top /\ x < u
        BY <3>1, <3>3 DEF Beyond
      <4>. QED  BY <3>2, <4>2
    <3>. QED  BY <1>9, <1>10, <3>1, <3>2, <3>3
  <2>. QED  BY <2>1, <2>2
<1>. HIDE DEF rest, last
<1>15. /\ cursor' \in [Folders -> Cursors]
       /\ cursor'[f].validity = epoch[f]
       /\ cursor'[f].lastUid = IF rest = {} /\ p.full THEN last ELSE cursor[f].lastUid
       /\ \A g \in Folders \ {f} : cursor'[g] = cursor[g]
  BY <1>7, <1>8, <1>10, <1>14 DEF Cursors
<1>16. \A u \in Nat : Beyond(p, u) => u >= cursor'[f].lastUid
  BY <1>2, <1>14, <1>15 DEF Beyond
<1>17. FolderInv(f)'
  <2>1. ASSUME NEW m \in Window, server[m].folder = f, server[m].uid < cursor'[f].lastUid
        PROVE  Found(m)'
    <3>1. server[m].uid \in Nat /\ cursor'[f].lastUid \in Nat
      BY <1>10, <1>14, <1>15 DEF Window
    <3>2. ~ Beyond(p, server[m].uid)
      BY <1>16, <2>1, <3>1
    <3>3. CASE rest = {} /\ p.full
      <4>1. server[m].uid \notin p.uids
        BY <1>9, <1>14, <1>15, <2>1, <3>1, <3>3
      <4>. QED  BY <1>13, <2>1, <3>2, <3>3, <4>1
    <3>4. CASE ~ (rest = {} /\ p.full)
      <4>1. Found(m)
        BY <1>3, <1>8, <1>15, <2>1, <3>4 DEF FolderInv
      <4>. QED  BY <1>12, <2>1, <3>2, <4>1
    <3>. QED  BY <3>3, <3>4
  <2>2. cursor'[f].lastUid <= nextUid[f]
    BY <1>8, <1>14, <1>15
  <2>. QED  BY <1>4, <1>10, <1>15, <2>1, <2>2 DEF FolderInv, provider, Window
<1>18. RowInv'
  BY <1>4, <1>12 DEF IInv, RowInv
<1>19. ASSUME NEW g \in Folders \ {f} PROVE Steady(g)
  BY <1>3, <1>4, <1>12, <1>15, SteadyElsewhere
<1>20. CASE rest = {} /\ p.uids = {} /\ p.full
  <2>1. Ends(c)
    BY <1>5, <1>1, <1>20 DEF Store, rest
  <2>2. /\ EngineTypes' /\ Divided' /\ EventInv'
        /\ \A d \in Conns : (d # c /\ pass'[d] = pass[d]) \/ Started(pass[d], cursor)'
    BY <1>1, <1>3, <1>15, <2>1, EndsKept
  <2>3. Types'
    BY <1>3, <1>4, <1>12, <1>15, <2>2 DEF provider, Types, ProviderTypes, StoreTypes
  <2>. QED  BY <1>1, <1>2, <1>3, <1>4, <1>17, <1>18, <1>19, <2>2, <2>3, StartedPass, PassStep
<1>21. CASE ~ (rest = {} /\ p.uids = {} /\ p.full)
  <2>1. PICK q : q = [p EXCEPT !.batch = rest, !.live = live, !.phase = phase]
    OBVIOUS
  <2>2. To(c, q) /\ UNCHANGED <<link, pending, cron, owed>>
    BY <1>5, <1>1, <1>21, <2>1 DEF Store, rest
  <2>. HIDE DEF phase, live
  <2>3. q = [phase |-> phase, folder |-> f, full |-> p.full, validity |-> p.validity, from |-> p.from,
             uids |-> p.uids, batch |-> rest, live |-> live, top |-> p.top]
    BY <1>2, <2>1 DEF Passes
  <2>4. rest \in SUBSET (Msgs \X Nat) /\ live \in SUBSET Nat
        /\ phase \in {"body", "fetching", "scanning"}
    BY <1>9 DEF Passes, rest, live, phase
  <2>5. q \in Passes
    BY <2>3, <2>4 DEF Passes, Phases, FetchPhases, ScanPhases
  <2>6. /\ q.phase = phase /\ q.folder = f /\ q.full = p.full /\ q.validity = p.validity
        /\ q.uids = p.uids /\ q.batch = rest /\ q.live = live /\ q.top = p.top
    BY <2>3
  <2>7. /\ EngineTypes' /\ Divided' /\ EventInv'
        /\ pass'[c] = q /\ \A d \in Conns \ {c} : pass'[d] = pass[d]
    BY <1>1, <1>2, <1>3, <2>2, <2>4, <2>5, <2>6, ToKept
  <2>8. Types'
    BY <1>3, <1>4, <1>12, <1>15, <2>7 DEF provider, Types, ProviderTypes, StoreTypes
  <2>9. PassBegun(pass[c])'
    BY <1>4, <1>8, <1>15, <2>4, <2>6, <2>7 DEF PassBegun, provider
  <2>10. \A u \in Nat : Beyond(p, u) => Beyond(pass[c], u)'
    <3>1. live \subseteq p.live
      BY DEF live
    <3>. QED  BY <1>2, <1>16, <2>6, <2>7, <3>1 DEF Beyond
  <2>11. ASSUME NEW m \in Msgs, Beyond(p, server[m].uid) PROVE Beyond(pass[c], server[m].uid)'
    <3>1. PICK u \in Nat : u = server[m].uid
      BY <1>10
    <3>2. server'[m].uid = u
      BY <1>4, <3>1 DEF provider
    <3>. QED  BY <2>10, <2>11, <3>1, <3>2
  <2>12. PassFetches(pass[c])'
    <3>. SUFFICES ASSUME phase \in FetchPhases PROVE PassFetches(pass[c])'
      BY <2>6, <2>7 DEF PassFetches
    <3>1. \A m \in Window : server[m].folder = f =>
            \/ server[m].uid \in p.uids \/ <<m, server[m].uid>> \in rest
            \/ Found(m)' \/ Beyond(pass[c], server[m].uid)'
      BY <1>13, <2>11 DEF Window
    <3>2. \A x \in rest : server[x[1]].folder = f =>
            server[x[1]].uid = x[2] \/ Beyond(pass[c], server[x[1]].uid)'
      <4>1. \A x \in rest : x \in p.batch /\ x[1] \in Msgs
        BY DEF rest, Passes
      <4>. QED  BY <1>9, <2>11, <4>1
    <3>3. \A x, y \in rest : x[1] = y[1] => x = y
      BY <1>9 DEF rest
    <3>4. IF phase = "fetching" THEN p.uids # {} /\ live = {} /\ rest = {} ELSE live # {}
      BY <1>9 DEF phase, live, FetchPhases
    <3>5. IsFiniteSet(live) /\ live \subseteq p.live
      BY <1>9, FS_EmptySet DEF live
    <3>. QED  BY <1>4, <1>9, <2>6, <2>7, <3>1, <3>2, <3>3, <3>4, <3>5 DEF PassFetches, provider
  <2>13. PassScans(pass[c])'
    <3>. SUFFICES ASSUME phase \in ScanPhases PROVE PassScans(pass[c])'
      BY <2>6, <2>7 DEF PassScans
    <3>1. phase = "scanning" /\ rest = {} /\ p.uids = {} /\ ~ p.full
      BY <1>21 DEF phase, ScanPhases
    <3>2. \A m \in Window : server[m].folder = f /\ server[m].uid < p.top => Found(m)'
      <4>1. \A m \in Window : Beyond(p, server[m].uid) => ~ (server[m].uid < p.top)
        BY <1>9, <1>10 DEF Beyond, Window
      <4>. QED  BY <1>13, <3>1, <4>1
    <3>. QED  BY <1>4, <2>6, <2>7, <3>1, <3>2 DEF PassScans, provider
  <2>. QED  BY <1>1, <1>2, <1>3, <1>4, <1>15, <1>17, <1>18, <1>19, <2>7, <2>8, <2>9, <2>12, <2>13,
               PassStep DEF Sound
<1>. QED  BY <1>20, <1>21

-----------------------------------------------------------------------------
(* The invariant holds *)

LEMMA InitInv == Init => IInv
<1>. SUFFICES ASSUME Init PROVE IInv
  OBVIOUS
<1>1. ProviderTypes /\ StoreTypes
  <2>1. \A m \in Msgs : Kept(m) \in SUBSET Mappings
    BY SyncAssumption DEF Kept, Mapping, Mappings
  <2>2. StoreTypes
    BY <2>1, SyncAssumption DEF Init, StoreTypes, Cursors
  <2>3. Gone \in Places /\ NotMoving \in [dest : Folders \cup {"nowhere"}, uid : Nat]
    BY DEF Gone, Places, NoUid, Mapping, NotMoving
  <2>. QED  BY <2>2, <2>3, SyncAssumption DEF Init, ProviderTypes
<1>2. EngineTypes
  BY IdlePass, SyncAssumption DEF Init, EngineTypes
<1>3. ServerInv
  BY SyncAssumption DEF Init, ServerInv, Gone, Mapping
<1>4. RowInv
  <2>1. \A m \in Msgs : \A x, y \in Kept(m) : x = y
    BY SyncAssumption DEF Kept
  <2>2. \A m \in Msgs : Kept(m) # {} => m \in Frozen \cup Shells
    BY DEF Kept
  <2>. QED  BY <2>1, <2>2 DEF Init, RowInv
<1>5. \A f \in Folders : FolderInv(f)
  BY SyncAssumption DEF Init, FolderInv
<1>6. \A c \in Conns : pass[c] = Idle
  BY DEF Init
<1>7. \A c \in Conns : Sound(pass[c])
  BY <1>6, IdlePass DEF Sound, PassBegun, PassFetches, PassScans, FetchPhases, ScanPhases
<1>8. Divided /\ EventInv
  BY <1>6, IdlePass, Connections DEF Init, Divided, EventInv
<1>. QED  BY <1>1, <1>2, <1>3, <1>4, <1>5, <1>7, <1>8 DEF IInv, Types

LEMMA StutterStep == ASSUME IInv, UNCHANGED vars PROVE IInv'
<1>1. UNCHANGED <<provider, database, engine, own, owed, mislaid>>
  BY DEF vars, history
<1>2. Types' /\ ServerInv' /\ RowInv' /\ Divided' /\ EventInv'
  BY <1>1 DEF IInv, provider, database, engine, Types, ProviderTypes, StoreTypes, EngineTypes,
              ServerInv, RowInv, Divided, EventInv
<1>3. \A f \in Folders : FolderInv(f)'
  BY <1>1 DEF IInv, provider, database, FolderInv, Found, Window
<1>4. \A c \in Conns : Sound(pass[c])'
  BY <1>1 DEF IInv, provider, database, engine, Sound, PassBegun, PassFetches, PassScans, Found, Window, Beyond
<1>. QED  BY <1>2, <1>3, <1>4 DEF IInv

LEMMA InvStep == IInv /\ [Next]_vars => IInv'
<1>. SUFFICES ASSUME IInv, [Next]_vars PROVE IInv'
  OBVIOUS
<1>1. ASSUME NEW m \in Msgs, NEW f \in Folders, Arrives(m, f) PROVE IInv'
  BY <1>1, ArrivesStep
<1>2. ASSUME NEW m \in Msgs, Leaves(m) PROVE IInv'
  BY <1>2, LeavesStep
<1>3. ASSUME NEW m \in Msgs, OwnRelink(m) PROVE IInv'
  BY <1>3, OwnRelinkStep
<1>4. ASSUME NEW m \in Msgs, NEW f \in OwnDests, OwnMove(m, f) PROVE IInv'
  BY <1>4, OwnMoveStep, SyncAssumption
<1>5. ASSUME NEW f \in Folders, Renumbered(f) PROVE IInv'
  BY <1>5, RenumberedStep
<1>6. CASE Connect
  BY <1>6, ConnectStep
<1>7. CASE OnInboxEvent
  BY <1>7, OnInboxEventStep
<1>8. CASE StartCron
  BY <1>8, StartCronStep
<1>9. CASE Restart
  BY <1>9, RestartStep
<1>10. ASSUME NEW c \in Conns, Drop(c) PROVE IInv'
  BY <1>10, DropStep
<1>11. ASSUME NEW c \in Conns, Step(c) PROVE IInv'
  BY <1>11, OpenStep, ListStep, DropStep, FetchStep, StoreStep, ScanStep, UnlinkStep DEF Step
<1>12. CASE UNCHANGED vars
  BY <1>12, StutterStep
<1>. QED  BY <1>1, <1>2, <1>3, <1>4, <1>5, <1>6, <1>7, <1>8, <1>9, <1>10, <1>11, <1>12 DEF Next

LEMMA Invariance == Spec => []IInv
<1>1. Init => IInv
  BY InitInv
<1>2. IInv /\ [Next]_vars => IInv'
  BY InvStep
<1>. QED  BY <1>1, <1>2, PTL DEF Spec

-----------------------------------------------------------------------------
(* Theorems *)

\* One mapping per folder, no tombstone or mapping on mail without a row, and
\* no cursor beyond UIDNEXT (store.ts's linkFolder and upsertMessage).
THEOREM SyncTypes == Spec => []SyncTypeOK
<1>1. IInv => SyncTypeOK
  BY DEF IInv, Types, StoreTypes, EngineTypes, Passes, RowInv, FolderInv, SyncTypeOK
<1>. QED  BY <1>1, Invariance, PTL

\* Whatever interleaves with a pass, no cursor moves beyond mail that is not
\* stored and mapped, and no event heard during a pass goes without another
\* pass (resync.ts, sync.ts and engine.ts's idlePending).
THEOREM NoMailIsOverlooked == Spec => []NothingIsOverlooked
<1>1. ASSUME IInv PROVE NoMailSkipped
  <2>. SUFFICES ASSUME NEW m \in Msgs \ (Old \cup Frozen), NEW f \in Folders, f = server[m].folder,
                       cursor[f].validity = epoch[f], server[m].uid < cursor[f].lastUid
                PROVE  Found(m)
    BY DEF NoMailSkipped, Found
  <2>. QED  BY <1>1 DEF IInv, FolderInv, Window
<1>2. IInv => EventsAreReplayed
  BY DEF IInv, EventInv, EventsAreReplayed
<1>3. IInv => NothingIsOverlooked
  BY <1>1, <1>2 DEF NothingIsOverlooked
<1>. QED  BY <1>3, Invariance, PTL
=============================================================================
