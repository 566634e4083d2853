------------------------- MODULE ClientCachesProofs -------------------------
(***************************************************************************)
(* For any clients, processes, times to live and methods: how old an       *)
(* answer and how long a hidden outage can get, and which clients share a  *)
(* backend.                                                                *)
(***************************************************************************)
EXTENDS ClientCaches, FiniteSetTheorems, WellFoundedInduction, TLAPS

Times == Nat \cup {Never}

Values == [asOf : Times, hidden : Times]
Rows   == [asOf : Times, hidden : Times, expires : Times]
Legs   == [place : {"todo", "purging", "asking", "done"}, got : Values]

ClientTypes ==
  /\ life \in [Clients -> {"new", "failed", "open", "closing", "closed"}]
  /\ backend \in [Clients -> Nat] /\ born \in [Clients -> Nat]

ManagerTypes ==
  manager \in [Processes -> Nat] /\ made \in Nat /\ shutdowns \in [Processes -> Nat]

EntryTypes == entries \in [1..Cardinality(Clients) -> [Keys -> Rows]]

CallTypes ==
  /\ stage \in [Clients -> {"idle", "purging", "working"}]
  /\ legs \in [Clients -> [Sources -> Legs]]
  /\ since \in [Clients -> Nat] /\ served \in [Clients -> Values]

Types == /\ now \in Nat /\ setup \in Setups
         /\ ClientTypes /\ ManagerTypes /\ EntryTypes /\ CallTypes

Made == {c \in Clients : life[c] # "new"}

\* A client that is made has one of the backends made so far, of which there are no
\* more than clients.
Backed ==
  /\ made <= Cardinality(Made)
  /\ \A s \in Processes : manager[s] <= made
  /\ \A c \in Clients : life[c] # "new" => backend[c] \in 1..made

\* Calls are made by clients that were open, and take no longer than they may.
Timely == \A c \in Clients :
  /\ since[c] <= now
  /\ stage[c] # "idle" => now <= since[c] + MaxFetch /\ life[c] # "new"
  /\ \A k \in Sources : legs[c][k].place # "todo" => stage[c] = "working"

Base == Types /\ Backed /\ Timely

-----------------------------------------------------------------------------
\* Ages and outages

\* A value is of no earlier time than age before t, and so is a failure it hides.
Sound(v, t, age, fault) ==
  /\ v.asOf >= t - age
  /\ v.hidden # Never => v.hidden >= t - fault

\* Whether some source caches its own failures, and for how long.
FaultsStay == \E k \in Sources : "failed" \in SourceMethod(k).keeps
FaultSec   == IF FaultsStay THEN LongestSource ELSE 0

\* How old a value may be when it is put under a key.
AgeAtPut(k)   == IF k = "whole" THEN LongestSource + 2 * MaxFetch ELSE MaxFetch
FaultAtPut(k) == IF k = "whole" THEN FaultSec + MaxFetch ELSE 0

RowIsSound(e, k) ==
  e # NoEntry =>
    /\ Sound(e, e.expires, TTL(k) + AgeAtPut(k), TTL(k) + FaultAtPut(k))
    /\ k # "whole" /\ e.hidden # Never => FaultsStay

RowsAreSound == \A b \in 1..Cardinality(Clients), k \in Keys : RowIsSound(entries[b][k], k)

LegsAreSound == \A c \in Clients, k \in Sources :
  legs[c][k].place = "done" => Sound(legs[c][k].got, since[c], LongestSource + MaxFetch, FaultSec)

AgeServed   == IF Gathers THEN TTL("whole") + LongestSource + 2 * MaxFetch
                          ELSE TTL("self") + MaxFetch
FaultServed == TTL("whole") + MaxFetch + FaultSec

ServedIsSound == \A c \in Clients :
  served[c] # NoValue => Sound(served[c], now, AgeServed, FaultServed)

Ages == RowsAreSound /\ LegsAreSound /\ ServedIsSound

-----------------------------------------------------------------------------
\* Who shares a backend

\* The manager's backend is that of every client made since the last shutdown.
Eras == setup.singleton =>
  \A c \in Clients : life[c] # "new" =>
    /\ born[c] <= shutdowns[Home(c)]
    /\ born[c] = shutdowns[Home(c)] => manager[Home(c)] = backend[c]
    /\ \A d \in Clients :
         life[d] # "new" /\ Home(c) = Home(d) /\ born[c] = born[d] => backend[c] = backend[d]

-----------------------------------------------------------------------------
\* Numbers

LEMMA LeastOfNaturals ==
  ASSUME NEW S, S \subseteq Nat, S # {}
  PROVE  \E t \in S : \A u \in S : t <= u
<1> DEFINE less == OpToRel(<, Nat)
<1>1. PICK t \in S : \A u \in S : ~(<<u, t>> \in less)
  <2>1. IsWellFoundedOn(less, Nat)
    BY NatLessThanWellFounded
  <2> HIDE DEF less
  <2>2. QED
    BY <2>1, WFMin
<1>2. ASSUME NEW u \in S PROVE t <= u
  <2>1. ~(<<u, t>> \in less)
    BY <1>1
  <2>2. ~(u < t)
    BY <2>1 DEF OpToRel
  <2>3. QED
    BY <2>2
<1>3. QED
  BY <1>2

LEMMA GreatestBelow ==
  ASSUME NEW m \in Nat, NEW S, S \subseteq 0..m, S # {}
  PROVE  \E t \in S : \A u \in S : u <= t
<1> DEFINE mirrored == {m - u : u \in S}
<1>1. mirrored \subseteq Nat /\ mirrored # {}
  <2>1. \A u \in S : m - u \in Nat
    OBVIOUS
  <2>2. PICK u \in S : TRUE
    OBVIOUS
  <2>3. m - u \in mirrored
    OBVIOUS
  <2>4. QED
    BY <2>1, <2>3
<1>2. PICK v \in mirrored : \A w \in mirrored : v <= w
  <2> HIDE DEF mirrored
  <2>1. QED
    BY <1>1, LeastOfNaturals
<1>3. PICK t \in S : v = m - t
  OBVIOUS
<1>4. ASSUME NEW u \in S PROVE u <= t
  <2>1. m - t <= m - u
    BY <1>2, <1>3
  <2>2. QED
    BY <2>1
<1>5. QED
  BY <1>4

LEMMA TimesAreNatural == ASSUME setup \in Setups PROVE \A k : TTL(k) \in Nat
BY CacheUnits DEF TTL, FetchTTL, Unset

LEMMA SomeSource == ASSUME setup \in Setups PROVE Sources # {} /\ "whole" \notin Sources
BY MethodsHaveSources DEF Sources, Gathers

LEMMA LongestIsLongest ==
  ASSUME setup \in Setups
  PROVE  LongestSource \in Nat /\ \A k \in Sources : TTL(k) <= LongestSource
<1> DEFINE times == {TTL(k) : k \in Sources}
           most  == NewsSec + ScoreSec + (IF setup.fetch_sec = Unset THEN 0 ELSE setup.fetch_sec)
<1>1. most \in Nat /\ \A k : TTL(k) \in 0..most
  BY CacheUnits DEF TTL, FetchTTL, Unset
<1>2. times \subseteq 0..most /\ times # {}
  <2>1. PICK k \in Sources : TRUE
    BY SomeSource
  <2>2. TTL(k) \in times
    OBVIOUS
  <2> HIDE DEF most
  <2>3. QED
    BY <1>1, <2>2
<1>3. \E t \in times : \A u \in times : u <= t
  <2> HIDE DEF times, most
  <2>1. QED
    BY <1>1, <1>2, GreatestBelow
<1>4. PICK longest \in times : \A u \in times : u <= longest
  BY <1>3
<1>5. LongestSource \in times /\ \A k \in Sources : TTL(k) <= LongestSource
  BY <1>4 DEF LongestSource
<1>6. QED
  BY <1>5, TimesAreNatural DEF LongestSource

\* What is configured does not change.
LEMMA SetupStays ==
  ASSUME UNCHANGED setup
  PROVE  /\ Sources' = Sources /\ Keys' = Keys /\ Gathers' = Gathers
         /\ \A k : TTL(k)' = TTL(k)
         /\ \A c : Home(c)' = Home(c)
         /\ LongestSource' = LongestSource /\ FaultSec' = FaultSec
         /\ FaultsStay' = FaultsStay /\ AgeServed' = AgeServed /\ FaultServed' = FaultServed
BY DEF Sources, Keys, Gathers, TTL, FetchTTL, Home, LongestSource, FaultSec, FaultsStay,
       SourceMethod, AgeServed, FaultServed

-----------------------------------------------------------------------------
\* What the parts of a step keep: answers, places of legs, rows

LEMMA ServeKeepsCalls ==
  ASSUME Base, NEW c \in Clients, NEW v \in Values, Serve(c, v), UNCHANGED <<now, setup, life>>
  PROVE  CallTypes' /\ Timely'
<1>1. Sources' = Sources
  BY SetupStays
<1>2. [k \in Sources |-> Todo] \in [Sources -> Legs]
  BY DEF Todo, Legs, NoValue, Values, Times, Never
<1>3. CallTypes'
  BY <1>1, <1>2 DEF Base, Types, CallTypes, Serve
<1>4. Timely'
  BY <1>1, <1>2 DEF Base, Types, CallTypes, Timely, Serve, Todo
<1>5. QED
  BY <1>3, <1>4

LEMMA PlaceKeepsCalls ==
  ASSUME Base, NEW c \in Clients, NEW k \in Sources, stage[c] = "working",
         NEW p \in {"purging", "asking", "done"}, NEW v \in Values,
         Place(c, k, p, v), UNCHANGED <<now, setup, life>>
  PROVE  CallTypes' /\ Timely'
<1>1. Sources' = Sources
  BY SetupStays
<1>2. [place |-> p, got |-> v] \in Legs
  BY DEF Legs
<1>3. CallTypes'
  BY <1>1, <1>2 DEF Base, Types, CallTypes, Place
<1>4. Timely'
  BY <1>1, <1>2 DEF Base, Types, CallTypes, Timely, Place
<1>5. QED
  BY <1>3, <1>4

LEMMA GotKeepsCalls ==
  ASSUME Base, NEW c \in Clients, NEW k \in Sources, stage[c] = "working", NEW v \in Values,
         Got(c, k, v), UNCHANGED <<now, setup, life>>
  PROVE  CallTypes' /\ Timely'
BY ServeKeepsCalls, PlaceKeepsCalls DEF Got

LEMMA NoEntryIsARow == NoEntry \in Rows
BY DEF NoEntry, Rows, Times, Never

LEMMA StoredSomewhere ==
  ASSUME Base, NEW c \in Clients, life[c] # "new"
  PROVE  Storage(backend[c]) \in 1..Cardinality(Clients)
<1>1. IsFiniteSet(Made) /\ Cardinality(Made) <= Cardinality(Clients) /\ Cardinality(Clients) \in Nat
      /\ Cardinality(Made) \in Nat
  BY CacheUnits, FS_Subset, FS_CardinalityType DEF Made
<1>2. backend[c] \in 1..made /\ made <= Cardinality(Made) /\ made \in Nat
  BY DEF Base, Backed, Types, ManagerTypes
<1>3. QED
  BY <1>1, <1>2 DEF Storage

LEMMA PutKeepsTypes ==
  ASSUME Base, NEW c \in Clients, NEW k \in Keys, NEW v \in Values, Put(c, k, v), UNCHANGED setup
  PROVE  EntryTypes'
<1> DEFINE row == [asOf |-> v.asOf, hidden |-> v.hidden, expires |-> now + TTL(k)]
<1>1. row \in Rows
  BY TimesAreNatural DEF Base, Types, Values, Rows, Times
<1>2. entries' = [entries EXCEPT ![Storage(backend[c])][k] = row]
  BY DEF Put
<1>3. Keys' = Keys
  BY SetupStays
<1> HIDE DEF row
<1>4. QED
  BY <1>1, <1>2, <1>3 DEF Base, Types, EntryTypes

LEMMA ForgetKeepsTypes ==
  ASSUME Base, NEW b, NEW k, entries' = [entries EXCEPT ![b][k] = NoEntry], UNCHANGED setup
  PROVE  EntryTypes'
<1>1. Keys' = Keys
  BY SetupStays
<1>2. QED
  BY <1>1, NoEntryIsARow DEF Base, Types, EntryTypes

-----------------------------------------------------------------------------
\* Types, backends and times

LEMMA BaseInit == Init => Base
<1> SUFFICES ASSUME Init PROVE Base
  OBVIOUS
<1>1. Made = {} /\ Cardinality(Made) = 0
  BY FS_EmptySet DEF Init, Made
<1>2. Types
  <2>1. ClientTypes /\ ManagerTypes
    BY DEF Init, ClientTypes, ManagerTypes, NoBackend
  <2>2. EntryTypes
    BY NoEntryIsARow DEF Init, EntryTypes
  <2>3. CallTypes
    BY DEF Init, CallTypes, Todo, Legs, NoValue, Values, Times, Never
  <2>4. QED
    BY <2>1, <2>2, <2>3 DEF Init, Types
<1>3. Backed
  BY <1>1 DEF Init, Backed, NoBackend
<1>4. Timely
  BY DEF Init, Timely, Todo
<1>5. QED
  BY <1>2, <1>3, <1>4 DEF Base

\* A client that is made gets the manager's backend or the next one.
LEMMA ConstructBacks ==
  ASSUME Base, NEW c \in Clients, Construct(c)
  PROVE  Backed'
<1>1. IsFiniteSet(Made) /\ Cardinality(Made) \in Nat
  BY CacheUnits, FS_Subset, FS_CardinalityType DEF Made
<1>2. Made' = Made \cup {c} /\ c \notin Made
  BY DEF Base, Types, ClientTypes, Construct, Made
<1>3. Cardinality(Made)' = Cardinality(Made) + 1
  BY <1>1, <1>2, FS_AddElement
<1>4. Home(c) \in Processes
  BY CacheUnits DEF Base, Types, Home
<1>5. /\ made' \in {made, made + 1}
      /\ backend' = [backend EXCEPT ![c] = backend'[c]] /\ backend'[c] \in 1..made'
      /\ \A s \in Processes : manager'[s] \in {manager[s], made'}
  <2>1. CASE setup.singleton /\ manager[Home(c)] # NoBackend
    BY <2>1, <1>4 DEF Base, Types, ClientTypes, ManagerTypes, Backed, Construct, GetShared, NoBackend
  <2>2. CASE ~(setup.singleton /\ manager[Home(c)] # NoBackend)
    BY <2>2, <1>4 DEF Base, Types, ClientTypes, ManagerTypes, Backed, Construct, GetShared
  <2>3. QED
    BY <2>1, <2>2
<1>6. \A d \in Clients \ {c} : backend'[d] = backend[d] /\ (life'[d] # "new" <=> life[d] # "new")
  BY <1>5 DEF Base, Types, ClientTypes, Construct
<1>7. QED
  BY <1>1, <1>3, <1>5, <1>6 DEF Base, Types, ManagerTypes, Backed

LEMMA ConstructKeepsBase ==
  ASSUME Base, NEW c \in Clients, Construct(c)
  PROVE  Base'
<1>1. UNCHANGED setup /\ Keys' = Keys /\ Sources' = Sources
  BY SetupStays DEF Construct
<1>2. Home(c) \in Processes
  BY CacheUnits DEF Base, Types, Home
<1>3. ClientTypes' /\ ManagerTypes'
  BY <1>2 DEF Base, Types, ClientTypes, ManagerTypes, Construct, GetShared
<1>4. EntryTypes' /\ CallTypes' /\ now' \in Nat /\ setup' \in Setups
  BY <1>1 DEF Base, Types, EntryTypes, CallTypes, Construct, calls
<1>5. Timely'
  BY <1>1 DEF Base, Types, ClientTypes, Timely, Construct, calls
<1>6. QED
  BY <1>3, <1>4, <1>5, ConstructBacks DEF Base, Types

\* Nothing happens to the backends when no client is made.
LEMMA BackedStays ==
  ASSUME Base, UNCHANGED <<made, backend>>, \A c \in Clients : life'[c] # "new" <=> life[c] # "new",
         \A s \in Processes : manager'[s] \in {manager[s], NoBackend}
  PROVE  Backed'
<1>1. Made' = Made
  BY DEF Made
<1>2. QED
  BY <1>1 DEF Base, Types, ManagerTypes, Backed, NoBackend

LEMMA ShutdownKeepsBase ==
  ASSUME Base, NEW s \in Processes, Shutdown(s)
  PROVE  Base'
<1>1. UNCHANGED setup /\ Keys' = Keys /\ Sources' = Sources
  BY SetupStays DEF Shutdown
<1>2. ManagerTypes'
  BY DEF Base, Types, ManagerTypes, Shutdown, ShutDown, NoBackend
<1>3. EntryTypes' /\ CallTypes' /\ ClientTypes' /\ now' \in Nat /\ setup' \in Setups
  BY <1>1 DEF Base, Types, EntryTypes, CallTypes, ClientTypes, Shutdown, calls, clients
<1>4. Timely'
  BY <1>1 DEF Base, Timely, Shutdown, calls, clients
<1>5. Backed'
  BY BackedStays DEF Base, Types, ManagerTypes, Shutdown, ShutDown, clients
<1>6. QED
  BY <1>2, <1>3, <1>4, <1>5 DEF Base, Types

LEMMA CloseKeepsBase ==
  ASSUME Base, NEW c \in Clients, BeginClose(c) \/ EndClose(c)
  PROVE  Base'
<1>1. UNCHANGED setup /\ Keys' = Keys /\ Sources' = Sources
  BY SetupStays DEF BeginClose, EndClose
<1>2. Home(c) \in Processes
  BY CacheUnits DEF Base, Types, Home
<1>3. ManagerTypes' /\ \A s \in Processes : manager'[s] \in {manager[s], NoBackend}
  BY <1>2 DEF Base, Types, ManagerTypes, BeginClose, EndClose, caches, ShutDown, NoBackend
<1>4. EntryTypes' /\ CallTypes' /\ ClientTypes' /\ now' \in Nat /\ setup' \in Setups
  BY <1>1 DEF Base, Types, EntryTypes, CallTypes, ClientTypes, BeginClose, EndClose, caches, calls
<1>5. Timely'
  BY <1>1 DEF Base, Types, ClientTypes, Timely, BeginClose, EndClose, caches, calls
<1>6. Backed'
  BY <1>3, BackedStays DEF Base, Types, ClientTypes, BeginClose, EndClose, caches
<1>7. QED
  BY <1>3, <1>4, <1>5, <1>6 DEF Base, Types

LEMMA EvictKeepsBase ==
  ASSUME Base, NEW b \in 1..Cardinality(Clients), NEW k \in Keys, Evict(b, k)
  PROVE  Base'
<1>1. UNCHANGED setup /\ Keys' = Keys /\ Sources' = Sources
  BY SetupStays DEF Evict
<1>2. EntryTypes'
  BY ForgetKeepsTypes DEF Evict
<1>3. ManagerTypes' /\ CallTypes' /\ ClientTypes' /\ now' \in Nat /\ setup' \in Setups
  BY <1>1 DEF Base, Types, ManagerTypes, CallTypes, ClientTypes, Evict, calls, clients
<1>4. Timely'
  BY <1>1 DEF Base, Timely, Evict, calls, clients
<1>5. Backed'
  BY BackedStays DEF Evict, clients
<1>6. QED
  BY <1>2, <1>3, <1>4, <1>5 DEF Base, Types

LEMMA TickKeepsBase == ASSUME Base, Tick PROVE Base'
<1>1. UNCHANGED setup /\ Keys' = Keys /\ Sources' = Sources
  BY SetupStays DEF Tick
<1>2. ManagerTypes' /\ EntryTypes' /\ ClientTypes' /\ now' \in Nat /\ setup' \in Setups
  BY <1>1 DEF Base, Types, ManagerTypes, EntryTypes, ClientTypes, Tick, caches, clients
<1>3. CallTypes'
  BY <1>1 DEF Base, Types, CallTypes, Tick, NoValue, Values, Times, Never
<1>4. Timely'
  BY <1>1, CacheUnits DEF Base, Types, CallTypes, Timely, Tick, clients
<1>5. Backed'
  BY BackedStays DEF Tick, clients, caches
<1>6. QED
  BY <1>2, <1>3, <1>4, <1>5 DEF Base, Types

\* A step of a call: besides the call itself only rows may change.
LEMMA CallStepKeepsBase ==
  ASSUME Base, UNCHANGED <<now, setup, manager, made, shutdowns, clients>>,
         EntryTypes', CallTypes', Timely'
  PROVE  Base'
<1>1. ManagerTypes' /\ ClientTypes' /\ now' \in Nat /\ setup' \in Setups
  BY DEF Base, Types, ManagerTypes, ClientTypes, clients
<1>2. Backed'
  BY BackedStays DEF clients
<1>3. QED
  BY <1>1, <1>2 DEF Base, Types

LEMMA RowsStayTyped ==
  ASSUME Base, UNCHANGED <<setup, entries>>
  PROVE  EntryTypes'
BY SetupStays DEF Base, Types, EntryTypes

LEMMA FoundIsARow ==
  ASSUME Base, NEW c \in Clients, life[c] # "new", NEW k \in Keys
  PROVE  Found(c, k) \in Rows /\ ValueOf(Found(c, k)) \in Values
BY StoredSomewhere DEF Base, Types, EntryTypes, Found, ValueOf, Rows, Values

LEMMA BeginKeepsBase ==
  ASSUME Base, NEW c \in Clients, Begin(c)
  PROVE  Base'
<1>1. UNCHANGED <<now, setup, life, manager, made, shutdowns, clients, entries>> /\ life[c] # "new"
  BY DEF Begin, caches, clients
<1>2. CallTypes' /\ Timely'
  <2>1. CASE Serve(c, ValueOf(Found(c, "whole")))
    BY <1>1, <2>1, FoundIsARow, ServeKeepsCalls DEF Keys
  <2>2. CASE ~Serve(c, ValueOf(Found(c, "whole")))
    <3>1. Sources' = Sources
      BY <1>1, SetupStays
    <3>2. /\ since' = [since EXCEPT ![c] = now] /\ stage[c] = "idle"
          /\ \E p \in {"purging", "working"} : stage' = [stage EXCEPT ![c] = p]
          /\ UNCHANGED <<legs, served>>
      BY <2>2 DEF Begin
    <3>3. CallTypes'
      BY <3>1, <3>2 DEF Base, Types, CallTypes
    <3>4. Timely'
      BY <1>1, <3>1, <3>2, CacheUnits DEF Base, Types, CallTypes, Timely
    <3>5. QED
      BY <3>3, <3>4
  <2>3. QED
    BY <2>1, <2>2
<1>3. QED
  BY <1>1, <1>2, RowsStayTyped, CallStepKeepsBase

LEMMA PurgeWholeKeepsBase ==
  ASSUME Base, NEW c \in Clients, PurgeWhole(c)
  PROVE  Base'
<1>1. UNCHANGED <<now, setup, life, manager, made, shutdowns, clients>>
  BY DEF PurgeWhole, clients
<1>2. EntryTypes'
  BY <1>1, ForgetKeepsTypes DEF PurgeWhole, Delete
<1>3. Sources' = Sources
  BY <1>1, SetupStays
<1>4. CallTypes'
  BY <1>3 DEF Base, Types, CallTypes, PurgeWhole
<1>5. Timely'
  BY <1>1, <1>3 DEF Base, Types, CallTypes, Timely, PurgeWhole
<1>6. QED
  BY <1>1, <1>2, <1>4, <1>5, CallStepKeepsBase

LEMMA NoValueIsAValue == NoValue \in Values
BY DEF NoValue, Values, Times, Never

LEMMA LookUpKeepsBase ==
  ASSUME Base, NEW c \in Clients, NEW k \in Sources, LookUp(c, k)
  PROVE  Base'
<1>1. UNCHANGED <<now, setup, life, manager, made, shutdowns, clients, entries>>
  BY DEF LookUp, caches, clients
<1>2. stage[c] = "working" /\ life[c] # "new"
  BY DEF LookUp, Base, Timely
<1>3. CallTypes' /\ Timely'
  <2>1. CASE Hits(c, k)
    <3>1. ValueOf(Found(c, k)) \in Values
      BY <1>2, FoundIsARow DEF Keys
    <3>2. Got(c, k, ValueOf(Found(c, k)))
      BY <2>1 DEF LookUp
    <3>3. QED
      BY <1>1, <1>2, <3>1, <3>2, GotKeepsCalls
  <2>2. CASE ~Hits(c, k)
    <3>1. \E p \in {"purging", "asking", "done"} : Place(c, k, p, NoValue)
      BY <2>2 DEF LookUp
    <3>2. QED
      BY <1>1, <1>2, <3>1, NoValueIsAValue, PlaceKeepsCalls
  <2>3. QED
    BY <2>1, <2>2
<1>4. QED
  BY <1>1, <1>3, RowsStayTyped, CallStepKeepsBase

LEMMA PurgeKeepsBase ==
  ASSUME Base, NEW c \in Clients, NEW k \in Sources, Purge(c, k)
  PROVE  Base'
<1>1. UNCHANGED <<now, setup, life, manager, made, shutdowns, clients>>
  BY DEF Purge, clients
<1>2. stage[c] = "working"
  BY DEF Purge, Base, Timely
<1>3. CallTypes' /\ Timely'
  BY <1>1, <1>2, NoValueIsAValue, PlaceKeepsCalls DEF Purge
<1>4. EntryTypes'
  BY <1>1, ForgetKeepsTypes DEF Purge, Delete
<1>5. QED
  BY <1>1, <1>3, <1>4, CallStepKeepsBase

LEMMA AnsweredKeepsBase ==
  ASSUME Base, NEW c \in Clients, NEW k \in Sources, NEW outcome \in Outcomes,
         Answered(c, k, outcome)
  PROVE  Base'
<1> DEFINE value == [asOf |-> since[c], hidden |-> IF outcome = "failed" THEN now ELSE Never]
<1>1. UNCHANGED <<now, setup, life, manager, made, shutdowns, clients>>
  BY DEF Answered, clients
<1>2. stage[c] = "working"
  BY DEF Answered, Base, Timely
<1>3. value \in Values
  BY DEF Base, Types, CallTypes, Values, Times
<1>4. /\ Put(c, k, value) \/ UNCHANGED entries
      /\ Serve(c, NoValue) \/ Got(c, k, value)
  BY DEF Answered
<1> HIDE DEF value
<1>5. CallTypes' /\ Timely'
  BY <1>1, <1>2, <1>3, <1>4, NoValueIsAValue, ServeKeepsCalls, GotKeepsCalls
<1>6. EntryTypes'
  <2>1. CASE Put(c, k, value)
    BY <1>1, <1>3, <2>1, PutKeepsTypes DEF Keys
  <2>2. CASE UNCHANGED entries
    BY <1>1, <2>2, RowsStayTyped
  <2>3. QED
    BY <1>4, <2>1, <2>2
<1>7. QED
  BY <1>1, <1>5, <1>6, CallStepKeepsBase

LEMMA LeastTime ==
  ASSUME NEW S, S \subseteq Times, S # {}
  PROVE  \E t \in S : \A u \in S : t <= u
<1>1. CASE Never \in S
  <2>1. \A u \in S : Never <= u
    BY DEF Times, Never
  <2>2. QED
    BY <1>1, <2>1
<1>2. CASE Never \notin S
  <2>1. S \subseteq Nat
    BY <1>2 DEF Times
  <2>2. QED
    BY <2>1, LeastOfNaturals
<1>3. QED
  BY <1>1, <1>2

\* A merged value is made of stamps and failures of its parts.
LEMMA MergedOfParts ==
  ASSUME NEW S, S \subseteq Values, S # {}
  PROVE  /\ Merged(S) \in Values
         /\ \E v \in S : Merged(S).asOf = v.asOf
         /\ Merged(S).hidden # Never => \E v \in S : Merged(S).hidden = v.hidden
<1> DEFINE stamps == {v.asOf : v \in S}
           faults == {v.hidden : v \in S} \ {Never}
           first  == CHOOSE t \in stamps : \A u \in stamps : t <= u
           oldest == CHOOSE t \in faults : \A u \in faults : t <= u
<1>1. stamps \subseteq Times /\ faults \subseteq Times
  BY DEF Values
<1>2. stamps # {}
  OBVIOUS
<1>3. first \in stamps
  <2>1. \E t \in stamps : \A u \in stamps : t <= u
    <3> HIDE DEF stamps
    <3>1. QED
      BY <1>1, <1>2, LeastTime
  <2> HIDE DEF stamps
  <2>2. QED
    BY <2>1
<1>4. faults # {} => oldest \in faults
  <2>1. ASSUME faults # {} PROVE \E t \in faults : \A u \in faults : t <= u
    <3> HIDE DEF faults
    <3>1. QED
      BY <1>1, <2>1, LeastTime
  <2> HIDE DEF faults
  <2>2. QED
    BY <2>1
<1>5. Merged(S) = [asOf |-> first, hidden |-> IF faults = {} THEN Never ELSE oldest]
  BY DEF Merged
<1>6. Merged(S) \in Values
  <2> DEFINE fault == IF faults = {} THEN Never ELSE oldest
  <2>1. first \in Times /\ fault \in Times
    <3> HIDE DEF stamps, faults, first, oldest
    <3>1. QED
      BY <1>1, <1>3, <1>4 DEF Times
  <2>2. Merged(S) = [asOf |-> first, hidden |-> fault]
    BY <1>5
  <2> HIDE DEF first, fault
  <2>3. QED
    BY <2>1, <2>2 DEF Values
<1>7. \E v \in S : Merged(S).asOf = v.asOf
  <2>1. Merged(S).asOf = first
    BY <1>5
  <2> HIDE DEF first
  <2>2. QED
    BY <1>3, <2>1
<1>8. ASSUME Merged(S).hidden # Never PROVE \E v \in S : Merged(S).hidden = v.hidden
  <2>1. faults # {} /\ Merged(S).hidden = oldest
    BY <1>5, <1>8
  <2> HIDE DEF oldest
  <2>2. QED
    BY <1>4, <2>1
<1>9. QED
  BY <1>6, <1>7, <1>8

LEMMA CollectKeepsBase ==
  ASSUME Base, NEW c \in Clients, Collect(c)
  PROVE  Base'
<1> DEFINE parts == {legs[c][k].got : k \in Sources}
           value == Merged(parts)
<1>1. UNCHANGED <<now, setup, life, manager, made, shutdowns, clients>>
  BY DEF Collect, clients
<1>2. parts \subseteq Values /\ parts # {}
  BY SomeSource DEF Base, Types, CallTypes, Legs
<1>3. (Put(c, "whole", value) \/ UNCHANGED entries) /\ Serve(c, value)
  BY DEF Collect
<1>4. value \in Values
  <2> HIDE DEF parts
  <2>1. QED
    BY <1>2, MergedOfParts
<1> HIDE DEF value
<1>5. CallTypes' /\ Timely'
  BY <1>1, <1>3, <1>4, ServeKeepsCalls
<1>6. EntryTypes'
  <2>1. CASE Put(c, "whole", value)
    BY <1>1, <1>4, <2>1, PutKeepsTypes DEF Keys
  <2>2. CASE UNCHANGED entries
    BY <1>1, <2>2, RowsStayTyped
  <2>3. QED
    BY <1>3, <2>1, <2>2
<1>7. QED
  BY <1>1, <1>5, <1>6, CallStepKeepsBase

LEMMA StutterKeepsBase == ASSUME Base, UNCHANGED vars PROVE Base'
<1>1. UNCHANGED <<now, setup, manager, made, shutdowns, entries, life, backend, born,
                  stage, legs, since, served>>
  BY DEF vars, caches, clients, calls
<1>2. Sources' = Sources /\ Keys' = Keys
  BY <1>1, SetupStays
<1>3. Types'
  BY <1>1, <1>2 DEF Base, Types, ClientTypes, ManagerTypes, EntryTypes, CallTypes
<1>4. Backed' /\ Timely'
  BY <1>1, <1>2 DEF Base, Backed, Timely, Made
<1>5. QED
  BY <1>3, <1>4 DEF Base

LEMMA BaseStep == Base /\ [Next]_vars => Base'
<1> SUFFICES ASSUME Base, [Next]_vars PROVE Base'
  OBVIOUS
<1>1. CASE Tick
  BY <1>1, TickKeepsBase
<1>2. ASSUME NEW s \in Processes, Shutdown(s) PROVE Base'
  BY <1>2, ShutdownKeepsBase
<1>3. ASSUME NEW b \in 1..Cardinality(Clients), NEW k \in Keys, Evict(b, k) PROVE Base'
  BY <1>3, EvictKeepsBase
<1>4. ASSUME NEW c \in Clients,
             Construct(c) \/ BeginClose(c) \/ EndClose(c) \/ Begin(c) \/ PurgeWhole(c) \/ Collect(c)
      PROVE  Base'
  BY <1>4, ConstructKeepsBase, CloseKeepsBase, BeginKeepsBase, PurgeWholeKeepsBase,
     CollectKeepsBase
<1>5. ASSUME NEW c \in Clients, NEW k \in Sources,
             LookUp(c, k) \/ Purge(c, k) \/ \E outcome \in Outcomes : Answered(c, k, outcome)
      PROVE  Base'
  BY <1>5, LookUpKeepsBase, PurgeKeepsBase, AnsweredKeepsBase
<1>6. CASE UNCHANGED vars
  BY <1>6, StutterKeepsBase
<1>7. QED
  BY <1>1, <1>2, <1>3, <1>4, <1>5, <1>6 DEF Next

-----------------------------------------------------------------------------
\* Ages and outages

LEMMA BoundsAreNatural ==
  ASSUME Base
  PROVE  /\ LongestSource \in Nat /\ FaultSec \in Nat /\ AgeServed \in Nat /\ FaultServed \in Nat
         /\ \A k : TTL(k) \in Nat /\ AgeAtPut(k) \in Nat /\ FaultAtPut(k) \in Nat
         /\ \A k \in Sources : TTL(k) <= LongestSource
<1>1. /\ LongestSource \in Nat /\ \A k : TTL(k) \in Nat
      /\ \A k \in Sources : TTL(k) <= LongestSource
  BY TimesAreNatural, LongestIsLongest DEF Base, Types
<1>2. FaultSec \in Nat
  BY <1>1 DEF FaultSec
<1>3. AgeServed \in Nat /\ FaultServed \in Nat
  BY <1>1, <1>2, CacheUnits DEF AgeServed, FaultServed
<1>4. \A k : AgeAtPut(k) \in Nat /\ FaultAtPut(k) \in Nat
  BY <1>1, <1>2, CacheUnits DEF AgeAtPut, FaultAtPut
<1>5. QED
  BY <1>1, <1>2, <1>3, <1>4

LEMMA RowsStaySound ==
  ASSUME Base, Ages, UNCHANGED setup,
         \A b \in 1..Cardinality(Clients), k \in Keys :
           entries'[b][k] = entries[b][k] \/ RowIsSound(entries'[b][k], k)
  PROVE  RowsAreSound'
<1>1. \A b \in 1..Cardinality(Clients), k \in Keys : RowIsSound(entries'[b][k], k)
  BY DEF Ages, RowsAreSound
<1>2. /\ Keys' = Keys /\ FaultsStay' = FaultsStay
      /\ \A k : TTL(k)' = TTL(k) /\ AgeAtPut(k)' = AgeAtPut(k) /\ FaultAtPut(k)' = FaultAtPut(k)
  BY SetupStays DEF AgeAtPut, FaultAtPut
<1>3. QED
  BY <1>1, <1>2 DEF RowsAreSound, RowIsSound, Sound

LEMMA PutKeepsRows ==
  ASSUME Base, Ages, NEW c \in Clients, NEW k \in Keys, NEW v \in Values,
         Put(c, k, v), UNCHANGED setup, Sound(v, now, AgeAtPut(k), FaultAtPut(k)),
         k # "whole" /\ v.hidden # Never => FaultsStay
  PROVE  RowsAreSound'
<1> DEFINE row == [asOf |-> v.asOf, hidden |-> v.hidden, expires |-> now + TTL(k)]
<1>1. RowIsSound(row, k)
  <2>1. /\ now \in Nat /\ TTL(k) \in Nat /\ AgeAtPut(k) \in Nat /\ FaultAtPut(k) \in Nat
        /\ v.asOf \in Int /\ v.hidden \in Int
    BY BoundsAreNatural DEF Base, Types, Values, Times, Never
  <2>2. /\ row.asOf = v.asOf /\ row.hidden = v.hidden /\ row.expires = now + TTL(k)
    OBVIOUS
  <2> HIDE DEF row
  <2>3. row.asOf >= row.expires - (TTL(k) + AgeAtPut(k))
    BY <2>1, <2>2 DEF Sound
  <2>4. row.hidden # Never => row.hidden >= row.expires - (TTL(k) + FaultAtPut(k))
    BY <2>1, <2>2 DEF Sound
  <2>5. QED
    BY <2>2, <2>3, <2>4 DEF RowIsSound, Sound
<1>2. entries' = [entries EXCEPT ![Storage(backend[c])][k] = row]
  BY DEF Put
<1> HIDE DEF row
<1>3. \A b \in 1..Cardinality(Clients), l \in Keys :
        entries'[b][l] = entries[b][l] \/ (l = k /\ entries'[b][l] = row)
  BY <1>2 DEF Base, Types, EntryTypes
<1>4. QED
  BY <1>1, <1>3, RowsStaySound

LEMMA ForgetKeepsRows ==
  ASSUME Base, Ages, NEW b, NEW k, entries' = [entries EXCEPT ![b][k] = NoEntry],
         UNCHANGED setup
  PROVE  RowsAreSound'
<1>1. \A d \in 1..Cardinality(Clients), l \in Keys :
        entries'[d][l] = entries[d][l] \/ entries'[d][l] = NoEntry
  BY DEF Base, Types, EntryTypes
<1>2. \A l : RowIsSound(NoEntry, l)
  BY DEF RowIsSound
<1>3. QED
  BY <1>1, <1>2, RowsStaySound

\* What is found under a key is as old as it was when it was put there, and a time to
\* live more.
LEMMA HitIsSound ==
  ASSUME Base, Ages, NEW c \in Clients, life[c] # "new", NEW k \in Keys, Hits(c, k)
  PROVE  /\ Sound(ValueOf(Found(c, k)), now, TTL(k) + AgeAtPut(k), TTL(k) + FaultAtPut(k))
         /\ k # "whole" /\ ValueOf(Found(c, k)).hidden # Never => FaultsStay
<1> DEFINE e == Found(c, k)
<1>1. RowIsSound(e, k) /\ e \in Rows
  BY StoredSomewhere, FoundIsARow DEF Ages, RowsAreSound, Found
<1>2. e # NoEntry /\ ~(now > e.expires)
  BY DEF Hits, Expired
<1>3. ValueOf(e).asOf = e.asOf /\ ValueOf(e).hidden = e.hidden
  BY DEF ValueOf
<1> HIDE DEF e
<1>4. e.asOf \in Int /\ e.hidden \in Int /\ e.expires \in Int /\ now \in Nat
  BY <1>1 DEF Rows, Times, Never, Base, Types
<1>5. /\ e.asOf >= e.expires - (TTL(k) + AgeAtPut(k))
      /\ e.hidden # Never => e.hidden >= e.expires - (TTL(k) + FaultAtPut(k))
      /\ k # "whole" /\ e.hidden # Never => FaultsStay
  BY <1>1, <1>2 DEF RowIsSound, Sound
<1>6. TTL(k) + AgeAtPut(k) \in Nat /\ TTL(k) + FaultAtPut(k) \in Nat
  BY BoundsAreNatural
<1>7. /\ e.asOf >= now - (TTL(k) + AgeAtPut(k))
      /\ e.hidden # Never => e.hidden >= now - (TTL(k) + FaultAtPut(k))
  BY <1>2, <1>4, <1>5, <1>6
<1>8. QED
  BY <1>3, <1>5, <1>7 DEF Sound, e

LEMMA ServeKeepsAges ==
  ASSUME Base, Ages, NEW c \in Clients, NEW v \in Values, Serve(c, v), UNCHANGED <<now, setup>>,
         v # NoValue => Sound(v, now, AgeServed, FaultServed)
  PROVE  LegsAreSound' /\ ServedIsSound'
<1>1. /\ Sources' = Sources /\ LongestSource' = LongestSource /\ FaultSec' = FaultSec
      /\ AgeServed' = AgeServed /\ FaultServed' = FaultServed
  BY SetupStays
<1>2. \A d \in Clients : served'[d] = served[d] \/ served'[d] = v
  BY DEF Serve, Base, Types, CallTypes
<1>3. ServedIsSound'
  BY <1>1, <1>2 DEF Ages, ServedIsSound, Sound
<1>4. \A d \in Clients, k \in Sources :
        \/ legs'[d][k] = legs[d][k] /\ since'[d] = since[d]
        \/ legs'[d][k].place = "todo"
  BY DEF Serve, Base, Types, CallTypes, Todo
<1>5. LegsAreSound'
  BY <1>1, <1>4 DEF Ages, LegsAreSound, Sound
<1>6. QED
  BY <1>3, <1>5

LEMMA PlaceKeepsAges ==
  ASSUME Base, Ages, NEW c \in Clients, NEW k \in Sources, NEW p, NEW v \in Values,
         Place(c, k, p, v), UNCHANGED <<now, setup>>,
         p = "done" => Sound(v, since[c], LongestSource + MaxFetch, FaultSec)
  PROVE  LegsAreSound' /\ ServedIsSound'
<1>1. /\ Sources' = Sources /\ LongestSource' = LongestSource /\ FaultSec' = FaultSec
      /\ AgeServed' = AgeServed /\ FaultServed' = FaultServed
  BY SetupStays
<1>2. ServedIsSound'
  BY <1>1 DEF Ages, ServedIsSound, Sound, Place
<1>3. /\ UNCHANGED since
      /\ \A d \in Clients, l \in Sources :
           \/ legs'[d][l] = legs[d][l]
           \/ d = c /\ l = k /\ legs'[d][l] = [place |-> p, got |-> v]
  BY DEF Place, Base, Types, CallTypes
<1>4. LegsAreSound'
  BY <1>1, <1>3 DEF Ages, LegsAreSound, Sound
<1>5. QED
  BY <1>2, <1>4

\* The answer of one source is good as a part of a whole and as the answer of the call.
LEMMA GotKeepsAges ==
  ASSUME Base, Ages, NEW c \in Clients, NEW k \in Sources, NEW v \in Values,
         Got(c, k, v), UNCHANGED <<now, setup>>,
         Sound(v, now, TTL(k) + MaxFetch, FaultSec)
  PROVE  LegsAreSound' /\ ServedIsSound'
<1>1. /\ now \in Nat /\ since[c] \in Nat /\ since[c] <= now /\ MaxFetch \in Nat
      /\ v.asOf \in Int /\ v.hidden \in Int
  BY CacheUnits DEF Base, Types, CallTypes, Timely, Values, Times, Never
<1>2. /\ TTL(k) \in Nat /\ LongestSource \in Nat /\ TTL(k) <= LongestSource /\ FaultSec \in Nat
      /\ TTL("whole") \in Nat
  BY BoundsAreNatural
<1>3. CASE Gathers
  <2>1. Sound(v, since[c], LongestSource + MaxFetch, FaultSec)
    BY <1>1, <1>2 DEF Sound
  <2>2. QED
    BY <1>3, <2>1, PlaceKeepsAges DEF Got
<1>4. CASE ~Gathers
  <2>1. k = "self"
    BY <1>4 DEF Sources
  <2>2. AgeServed = TTL(k) + MaxFetch /\ FaultServed = TTL("whole") + MaxFetch + FaultSec
    BY <1>4, <2>1 DEF AgeServed, FaultServed
  <2>3. Sound(v, now, AgeServed, FaultServed)
    BY <1>1, <1>2, <2>2 DEF Sound
  <2>4. QED
    BY <1>4, <2>3, ServeKeepsAges DEF Got
<1>5. QED
  BY <1>3, <1>4

\* Nothing that is asked for is answered.
LEMMA AgesStay ==
  ASSUME Base, Ages, UNCHANGED <<now, setup, entries, legs, since, served>>
  PROVE  Ages'
<1>1. RowsAreSound'
  BY RowsStaySound
<1>2. /\ Sources' = Sources /\ LongestSource' = LongestSource /\ FaultSec' = FaultSec
      /\ AgeServed' = AgeServed /\ FaultServed' = FaultServed
  BY SetupStays
<1>3. LegsAreSound' /\ ServedIsSound'
  BY <1>2 DEF Ages, LegsAreSound, ServedIsSound, Sound
<1>4. QED
  BY <1>1, <1>3 DEF Ages

LEMMA EvictKeepsAges ==
  ASSUME Base, Ages, NEW b \in 1..Cardinality(Clients), NEW k \in Keys, Evict(b, k)
  PROVE  Ages'
<1>1. UNCHANGED <<now, setup, legs, since, served>>
  BY DEF Evict, calls
<1>2. RowsAreSound'
  BY <1>1, ForgetKeepsRows DEF Evict
<1>3. LegsAreSound' /\ ServedIsSound'
  BY <1>1, SetupStays DEF Ages, LegsAreSound, ServedIsSound, Sound
<1>4. QED
  BY <1>2, <1>3 DEF Ages

LEMMA TickKeepsAges == ASSUME Base, Ages, Tick PROVE Ages'
<1>1. /\ UNCHANGED <<setup, entries, legs, since>>
      /\ served' = [c \in Clients |-> NoValue]
  BY DEF Tick, caches
<1>2. RowsAreSound'
  BY <1>1, RowsStaySound
<1>3. LegsAreSound' /\ ServedIsSound'
  BY <1>1, SetupStays DEF Ages, LegsAreSound, ServedIsSound, Sound, NoValue
<1>4. QED
  BY <1>2, <1>3 DEF Ages

LEMMA BeginKeepsAges ==
  ASSUME Base, Ages, NEW c \in Clients, Begin(c)
  PROVE  Ages'
<1>1. UNCHANGED <<now, setup, entries>> /\ life[c] # "new"
  BY DEF Begin, caches
<1>2. RowsAreSound'
  BY <1>1, RowsStaySound
<1>3. CASE Gathers /\ Hits(c, "whole")
  <2> DEFINE v == ValueOf(Found(c, "whole"))
  <2>1. v \in Values /\ Sound(v, now, TTL("whole") + AgeAtPut("whole"), TTL("whole") + FaultAtPut("whole"))
    BY <1>1, <1>3, FoundIsARow, HitIsSound DEF Keys
  <2>2. Serve(c, v)
    BY <1>3 DEF Begin
  <2>3. TTL("whole") + AgeAtPut("whole") = AgeServed /\ TTL("whole") + FaultAtPut("whole") = FaultServed
    BY <1>3, BoundsAreNatural, CacheUnits DEF AgeServed, FaultServed, AgeAtPut, FaultAtPut
  <2> HIDE DEF v
  <2>4. LegsAreSound' /\ ServedIsSound'
    BY <1>1, <2>1, <2>2, <2>3, ServeKeepsAges
  <2>5. QED
    BY <1>2, <2>4 DEF Ages
<1>4. CASE ~(Gathers /\ Hits(c, "whole"))
  <2>1. UNCHANGED <<legs, served>> /\ since' = [since EXCEPT ![c] = now] /\ stage[c] = "idle"
    BY <1>4 DEF Begin
  <2>2. \A k \in Sources : legs[c][k].place = "todo"
    BY <2>1 DEF Base, Timely
  <2>3. \A d \in Clients, k \in Sources : since'[d] = since[d] \/ legs'[d][k].place = "todo"
    BY <2>1, <2>2 DEF Base, Types, CallTypes
  <2>4. LegsAreSound' /\ ServedIsSound'
    BY <1>1, <2>1, <2>3, SetupStays DEF Ages, LegsAreSound, ServedIsSound, Sound
  <2>5. QED
    BY <1>2, <2>4 DEF Ages
<1>5. QED
  BY <1>3, <1>4

LEMMA PurgeWholeKeepsAges ==
  ASSUME Base, Ages, NEW c \in Clients, PurgeWhole(c)
  PROVE  Ages'
<1>1. UNCHANGED <<now, setup, legs, since, served>>
  BY DEF PurgeWhole
<1>2. RowsAreSound'
  BY <1>1, ForgetKeepsRows DEF PurgeWhole, Delete
<1>3. LegsAreSound' /\ ServedIsSound'
  BY <1>1, SetupStays DEF Ages, LegsAreSound, ServedIsSound, Sound
<1>4. QED
  BY <1>2, <1>3 DEF Ages

LEMMA LookUpKeepsAges ==
  ASSUME Base, Ages, NEW c \in Clients, NEW k \in Sources, LookUp(c, k)
  PROVE  Ages'
<1>1. UNCHANGED <<now, setup, entries>> /\ life[c] # "new"
  BY DEF LookUp, caches, Base, Timely
<1>2. RowsAreSound'
  BY <1>1, RowsStaySound
<1>3. CASE Hits(c, k)
  <2> DEFINE v == ValueOf(Found(c, k))
  <2>1. k \in Keys /\ k # "whole" /\ AgeAtPut(k) = MaxFetch /\ FaultAtPut(k) = 0
    BY SomeSource DEF Keys, AgeAtPut, FaultAtPut, Base, Types
  <2>2. /\ v \in Values /\ Sound(v, now, TTL(k) + MaxFetch, TTL(k) + 0)
        /\ v.hidden # Never => FaultsStay
    BY <1>1, <1>3, <2>1, FoundIsARow, HitIsSound
  <2>3. Got(c, k, v)
    BY <1>3 DEF LookUp
  <2> HIDE DEF v
  <2>4. Sound(v, now, TTL(k) + MaxFetch, FaultSec)
    <3>1. /\ now \in Nat /\ TTL(k) \in Nat /\ LongestSource \in Nat /\ TTL(k) <= LongestSource
          /\ v.hidden \in Int
      BY <2>2, BoundsAreNatural DEF Base, Types, Values, Times, Never
    <3>2. v.hidden # Never => FaultSec = LongestSource /\ v.hidden >= now - TTL(k)
      BY <2>2, <3>1 DEF FaultSec, Sound
    <3>3. QED
      BY <2>2, <3>1, <3>2 DEF Sound
  <2>5. LegsAreSound' /\ ServedIsSound'
    BY <1>1, <2>2, <2>3, <2>4, GotKeepsAges
  <2>6. QED
    BY <1>2, <2>5 DEF Ages
<1>4. CASE ~Hits(c, k)
  <2>1. \E p \in {"asking", "purging"} : Place(c, k, p, NoValue)
    BY <1>4 DEF LookUp
  <2>2. LegsAreSound' /\ ServedIsSound'
    BY <1>1, <2>1, NoValueIsAValue, PlaceKeepsAges
  <2>3. QED
    BY <1>2, <2>2 DEF Ages
<1>5. QED
  BY <1>3, <1>4

LEMMA PurgeKeepsAges ==
  ASSUME Base, Ages, NEW c \in Clients, NEW k \in Sources, Purge(c, k)
  PROVE  Ages'
<1>1. UNCHANGED <<now, setup>>
  BY DEF Purge
<1>2. RowsAreSound'
  BY <1>1, ForgetKeepsRows DEF Purge, Delete
<1>3. LegsAreSound' /\ ServedIsSound'
  BY <1>1, NoValueIsAValue, PlaceKeepsAges DEF Purge
<1>4. QED
  BY <1>2, <1>3 DEF Ages

LEMMA AnsweredKeepsAges ==
  ASSUME Base, Ages, NEW c \in Clients, NEW k \in Sources, NEW outcome \in Outcomes,
         Answered(c, k, outcome)
  PROVE  Ages'
<1> DEFINE value == [asOf |-> since[c], hidden |-> IF outcome = "failed" THEN now ELSE Never]
<1>1. UNCHANGED <<now, setup>>
  BY DEF Answered
<1>2. /\ now \in Nat /\ since[c] \in Nat /\ now <= since[c] + MaxFetch /\ MaxFetch \in Nat
      /\ since[c] <= now
  BY CacheUnits DEF Answered, Base, Types, CallTypes, Timely
<1>3. /\ value \in Values /\ value.asOf = since[c] /\ value.hidden \in {now, Never}
      /\ value.hidden # Never => outcome = "failed" /\ value.hidden = now
  BY <1>2 DEF Values, Times
<1>4. /\ k \in Keys /\ AgeAtPut(k) = MaxFetch /\ FaultAtPut(k) = 0
  BY SomeSource DEF Keys, AgeAtPut, FaultAtPut, Base, Types
<1>5. /\ UNCHANGED entries
         \/ (Put(c, k, value) /\ outcome \in SourceMethod(k).keeps)
      /\ Serve(c, NoValue) \/ Got(c, k, value)
  BY DEF Answered, Stores
<1> HIDE DEF value
<1>6. RowsAreSound'
  <2>1. CASE UNCHANGED entries
    BY <1>1, <2>1, RowsStaySound
  <2>2. CASE Put(c, k, value) /\ outcome \in SourceMethod(k).keeps
    <3>1. Sound(value, now, AgeAtPut(k), FaultAtPut(k))
      BY <1>2, <1>3, <1>4 DEF Sound
    <3>2. value.hidden # Never => FaultsStay
      BY <1>3, <2>2 DEF FaultsStay
    <3>3. QED
      BY <1>1, <1>3, <1>4, <2>2, <3>1, <3>2, PutKeepsRows
  <2>3. QED
    BY <1>5, <2>1, <2>2
<1>7. LegsAreSound' /\ ServedIsSound'
  <2>1. Sound(value, now, TTL(k) + MaxFetch, FaultSec)
    <3>1. TTL(k) \in Nat /\ FaultSec \in Nat
      BY BoundsAreNatural
    <3>2. QED
      BY <1>2, <1>3, <3>1 DEF Sound
  <2>2. CASE Serve(c, NoValue)
    BY <1>1, <2>2, NoValueIsAValue, ServeKeepsAges
  <2>3. CASE Got(c, k, value)
    BY <1>1, <1>3, <2>1, <2>3, GotKeepsAges
  <2>4. QED
    BY <1>5, <2>2, <2>3
<1>8. QED
  BY <1>6, <1>7 DEF Ages

LEMMA CollectKeepsAges ==
  ASSUME Base, Ages, NEW c \in Clients, Collect(c)
  PROVE  Ages'
<1> DEFINE parts == {legs[c][k].got : k \in Sources}
           value == Merged(parts)
<1>1. UNCHANGED <<now, setup>> /\ Gathers
  BY DEF Collect
<1>2. (Put(c, "whole", value) \/ UNCHANGED entries) /\ Serve(c, value)
  BY DEF Collect
<1>3. /\ now \in Nat /\ since[c] \in Nat /\ now <= since[c] + MaxFetch /\ MaxFetch \in Nat
  BY CacheUnits DEF Collect, Base, Types, CallTypes, Timely
<1>4. \A v \in parts : v \in Values /\ Sound(v, since[c], LongestSource + MaxFetch, FaultSec)
  BY DEF Collect, Ages, LegsAreSound, Base, Types, CallTypes, Legs
<1>5. parts # {}
  BY SomeSource DEF Base, Types
<1>6. value \in Values /\ Sound(value, since[c], LongestSource + MaxFetch, FaultSec)
  <2> HIDE DEF parts
  <2>1. /\ value \in Values /\ \E v \in parts : value.asOf = v.asOf
        /\ value.hidden # Never => \E v \in parts : value.hidden = v.hidden
    BY <1>4, <1>5, MergedOfParts
  <2> HIDE DEF value
  <2>2. value.asOf >= since[c] - (LongestSource + MaxFetch)
    BY <1>4, <2>1 DEF Sound
  <2>3. ASSUME value.hidden # Never PROVE value.hidden >= since[c] - FaultSec
    <3>1. PICK v \in parts : value.hidden = v.hidden
      BY <2>1, <2>3
    <3>2. QED
      BY <1>4, <2>3, <3>1 DEF Sound
  <2>4. QED
    BY <2>1, <2>2, <2>3 DEF Sound
<1> HIDE DEF parts, value
<1>7. /\ LongestSource \in Nat /\ FaultSec \in Nat /\ TTL("whole") \in Nat
      /\ value.asOf \in Int /\ value.hidden \in Int
  BY <1>6, BoundsAreNatural DEF Values, Times, Never
<1>8. Sound(value, now, AgeAtPut("whole"), FaultAtPut("whole"))
  BY <1>3, <1>6, <1>7 DEF Sound, AgeAtPut, FaultAtPut
<1>9. Sound(value, now, AgeServed, FaultServed)
  BY <1>1, <1>3, <1>6, <1>7 DEF Sound, AgeServed, FaultServed
<1>10. RowsAreSound'
  <2>1. CASE Put(c, "whole", value)
    BY <1>1, <1>6, <1>8, <2>1, PutKeepsRows DEF Keys
  <2>2. CASE UNCHANGED entries
    BY <1>1, <2>2, RowsStaySound
  <2>3. QED
    BY <1>2, <2>1, <2>2
<1>11. LegsAreSound' /\ ServedIsSound'
  BY <1>1, <1>2, <1>6, <1>9, ServeKeepsAges
<1>12. QED
  BY <1>10, <1>11 DEF Ages

LEMMA AgesInit == Init => Ages
BY DEF Init, Ages, RowsAreSound, RowIsSound, LegsAreSound, ServedIsSound, Todo

LEMMA AgesStep == Base /\ Ages /\ [Next]_vars => Ages'
<1> SUFFICES ASSUME Base, Ages, [Next]_vars PROVE Ages'
  OBVIOUS
<1>1. CASE Tick
  BY <1>1, TickKeepsAges
<1>2. ASSUME NEW s \in Processes, Shutdown(s) PROVE Ages'
  BY <1>2, AgesStay DEF Shutdown, calls
<1>3. ASSUME NEW b \in 1..Cardinality(Clients), NEW k \in Keys, Evict(b, k) PROVE Ages'
  BY <1>3, EvictKeepsAges
<1>4. ASSUME NEW c \in Clients, Construct(c) \/ BeginClose(c) \/ EndClose(c) PROVE Ages'
  BY <1>4, AgesStay DEF Construct, BeginClose, EndClose, caches, calls
<1>5. ASSUME NEW c \in Clients, Begin(c) \/ PurgeWhole(c) \/ Collect(c) PROVE Ages'
  BY <1>5, BeginKeepsAges, PurgeWholeKeepsAges, CollectKeepsAges
<1>6. ASSUME NEW c \in Clients, NEW k \in Sources,
             LookUp(c, k) \/ Purge(c, k) \/ \E outcome \in Outcomes : Answered(c, k, outcome)
      PROVE  Ages'
  BY <1>6, LookUpKeepsAges, PurgeKeepsAges, AnsweredKeepsAges
<1>7. CASE UNCHANGED vars
  BY <1>7, AgesStay DEF vars, caches, calls
<1>8. QED
  BY <1>1, <1>2, <1>3, <1>4, <1>5, <1>6, <1>7 DEF Next

LEMMA AgesAlways == Spec => [](Base /\ Ages)
<1>1. Init => Base /\ Ages
  BY BaseInit, AgesInit
<1>2. (Base /\ Ages) /\ [Next]_vars => (Base /\ Ages)'
  BY BaseStep, AgesStep
<1>3. QED
  BY <1>1, <1>2, PTL DEF Spec

\* Whatever the methods, the times to live and the number of clients and processes, no
\* caller is given an answer older than the lives of the caches it went through and the
\* requests that filled them.  (network/cache.py get and set, providers/sentiment.py.)
THEOREM AgesAreBounded == Spec => []AgeIsBounded
<1>1. Base /\ Ages => AgeIsBounded
  <2> SUFFICES ASSUME Base, Ages, NEW c \in Clients, served[c] # NoValue
      PROVE  now - served[c].asOf <= AgeServed
    BY DEF AgeIsBounded, AgeServed
  <2>1. served[c].asOf >= now - AgeServed
    BY DEF Ages, ServedIsSound, Sound
  <2>2. now \in Nat /\ AgeServed \in Nat /\ served[c].asOf \in Int
    BY BoundsAreNatural DEF Base, Types, CallTypes, Values, Times, Never
  <2>3. QED
    BY <2>1, <2>2
<1>2. QED
  BY <1>1, AgesAlways, PTL

\* However often sources fail, a caller stops being given the empty answer a failure was
\* turned into as soon as the whole, and the source if it keeps its own failures, have
\* run out of their time.  (providers/sentiment.py, what is cached after an exception.)
THEOREM OutagesEnd == Spec => []OutagesAreForgotten
<1>1. Base /\ Ages => OutagesAreForgotten
  <2> SUFFICES ASSUME Base, Ages, NEW c \in Clients, served[c].hidden # Never
      PROVE  now - served[c].hidden <= FaultServed
    BY DEF OutagesAreForgotten, FaultServed, FaultSec, FaultsStay
  <2>1. served[c].hidden >= now - FaultServed
    BY DEF Ages, ServedIsSound, Sound, NoValue
  <2>2. now \in Nat /\ FaultServed \in Nat /\ served[c].hidden \in Int
    BY BoundsAreNatural DEF Base, Types, CallTypes, Values, Times, Never
  <2>3. QED
    BY <2>1, <2>2
<1>2. QED
  BY <1>1, AgesAlways, PTL

-----------------------------------------------------------------------------
\* Who shares a backend

LEMMA ErasStay ==
  ASSUME Eras, UNCHANGED <<setup, manager, shutdowns, backend, born>>,
         \A c \in Clients : life'[c] # "new" <=> life[c] # "new"
  PROVE  Eras'
BY DEF Eras, Home

\* A shutdown begins another era.
LEMMA ShutDownKeepsEras ==
  ASSUME Base, Eras, NEW s \in Processes, ShutDown(s), UNCHANGED <<setup, backend, born>>,
         \A c \in Clients : life'[c] # "new" <=> life[c] # "new"
  PROVE  Eras'
<1> SUFFICES ASSUME setup.singleton PROVE Eras'
  BY DEF Eras
<1>1. \A p \in Processes :
        IF p = s THEN shutdowns'[p] = shutdowns[p] + 1
        ELSE shutdowns'[p] = shutdowns[p] /\ manager'[p] = manager[p]
  BY DEF ShutDown, Base, Types, ManagerTypes
<1>2. \A c \in Clients : Home(c) \in Processes /\ Home(c)' = Home(c)
  BY CacheUnits DEF Home, Base, Types
<1>3. \A c \in Clients : born[c] \in Nat /\ shutdowns[Home(c)] \in Nat
  BY <1>2 DEF Base, Types, ClientTypes, ManagerTypes
<1>4. \A c \in Clients : life'[c] # "new" =>
        /\ born'[c] <= shutdowns'[Home(c)]
        /\ born'[c] = shutdowns'[Home(c)] => manager'[Home(c)] = backend'[c]
  BY <1>1, <1>2, <1>3 DEF Eras
<1>5. QED
  BY <1>2, <1>4 DEF Eras

LEMMA ConstructKeepsEras ==
  ASSUME Base, Eras, NEW c \in Clients, Construct(c)
  PROVE  Eras'
<1> SUFFICES ASSUME setup.singleton PROVE Eras'
  BY DEF Eras, Construct
<1> DEFINE p == Home(c)
<1>1. UNCHANGED <<setup, shutdowns>> /\ \A d \in Clients : Home(d) \in Processes /\ Home(d)' = Home(d)
  BY CacheUnits DEF Construct, Home, Base, Types
<1>2. /\ born'[c] = shutdowns[p] /\ life[c] = "new"
      /\ \A d \in Clients \ {c} :
           born'[d] = born[d] /\ (life'[d] # "new" <=> life[d] # "new") /\ backend'[d] = backend[d]
  BY DEF Construct, GetShared, Base, Types, ClientTypes
<1>3. /\ manager'[p] = backend'[c]
      /\ \A r \in Processes \ {p} : manager'[r] = manager[r]
      /\ manager[p] # NoBackend => manager'[p] = manager[p]
  <2>1. CASE manager[p] # NoBackend
    BY <1>1, <2>1 DEF Construct, GetShared, Base, Types, ClientTypes, ManagerTypes
  <2>2. CASE manager[p] = NoBackend
    BY <1>1, <2>2 DEF Construct, GetShared, Base, Types, ClientTypes, ManagerTypes
  <2>3. QED
    BY <2>1, <2>2
\* Whoever was made in this era has the manager's backend.
<1>4. \A d \in Clients \ {c} :
        life[d] # "new" /\ Home(d) = p /\ born[d] = shutdowns[p]
          => manager[p] # NoBackend /\ backend[d] = manager[p]
  BY DEF Eras, Base, Backed, NoBackend
<1> HIDE DEF p
<1>5. \A d \in Clients : life'[d] # "new" =>
        /\ born'[d] <= shutdowns'[Home(d)]
        /\ born'[d] = shutdowns'[Home(d)] => manager'[Home(d)] = backend'[d]
  <2> SUFFICES ASSUME NEW d \in Clients, life'[d] # "new"
      PROVE  /\ born'[d] <= shutdowns'[Home(d)]
             /\ born'[d] = shutdowns'[Home(d)] => manager'[Home(d)] = backend'[d]
    OBVIOUS
  <2>1. CASE d = c
    <3>1. shutdowns[p] \in Nat
      BY <1>1 DEF p, Base, Types, ManagerTypes
    <3>2. QED
      BY <1>1, <1>2, <1>3, <2>1, <3>1 DEF p
  <2>2. CASE d # c
    BY <1>1, <1>2, <1>3, <1>4, <2>2 DEF Eras
  <2>3. QED
    BY <2>1, <2>2
<1>6. \A d, e \in Clients :
        life'[d] # "new" /\ life'[e] # "new" /\ Home(d) = Home(e) /\ born'[d] = born'[e]
          => backend'[d] = backend'[e]
  <2> SUFFICES ASSUME NEW d \in Clients, NEW e \in Clients, life'[d] # "new", life'[e] # "new",
                      Home(d) = Home(e), born'[d] = born'[e]
      PROVE  backend'[d] = backend'[e]
    OBVIOUS
  <2>1. CASE d = c \/ e = c
    <3>1. born'[d] = shutdowns[p] /\ Home(d) = p
      BY <1>2, <2>1 DEF p
    <3>2. QED
      BY <1>1, <1>5, <3>1
  <2>2. CASE d # c /\ e # c
    BY <1>2, <2>2 DEF Eras
  <2>3. QED
    BY <2>1, <2>2
<1>7. QED
  BY <1>1, <1>5, <1>6 DEF Eras

LEMMA ErasInit == Init => Eras
BY DEF Init, Eras

LEMMA ErasStep == Base /\ Eras /\ [Next]_vars => Eras'
<1> SUFFICES ASSUME Base, Eras, [Next]_vars PROVE Eras'
  OBVIOUS
<1>1. CASE Tick
  BY <1>1, ErasStay DEF Tick, caches, clients
<1>2. ASSUME NEW s \in Processes, Shutdown(s) PROVE Eras'
  BY <1>2, ShutDownKeepsEras DEF Shutdown, clients
<1>3. ASSUME NEW b \in 1..Cardinality(Clients), NEW k \in Keys, Evict(b, k) PROVE Eras'
  BY <1>3, ErasStay DEF Evict, clients
<1>4. ASSUME NEW c \in Clients, Construct(c) PROVE Eras'
  BY <1>4, ConstructKeepsEras
<1>5. ASSUME NEW c \in Clients, BeginClose(c) \/ EndClose(c) PROVE Eras'
  <2>1. UNCHANGED <<setup, backend, born>> /\ \A d \in Clients : life'[d] # "new" <=> life[d] # "new"
    BY <1>5 DEF BeginClose, EndClose, Base, Types, ClientTypes
  <2>2. Home(c) \in Processes
    BY CacheUnits DEF Home, Base, Types
  <2>3. ShutDown(Home(c)) \/ UNCHANGED <<manager, shutdowns>>
    BY <1>5 DEF BeginClose, EndClose, caches
  <2>4. QED
    BY <2>1, <2>2, <2>3, ErasStay, ShutDownKeepsEras
<1>6. ASSUME NEW c \in Clients, Begin(c) \/ PurgeWhole(c) \/ Collect(c) PROVE Eras'
  BY <1>6, ErasStay DEF Begin, PurgeWhole, Collect, caches, clients
<1>7. ASSUME NEW c \in Clients, NEW k \in Sources,
             LookUp(c, k) \/ Purge(c, k) \/ \E outcome \in Outcomes : Answered(c, k, outcome)
      PROVE  Eras'
  BY <1>7, ErasStay DEF LookUp, Purge, Answered, caches, clients
<1>8. CASE UNCHANGED vars
  BY <1>8, ErasStay DEF vars, caches, clients
<1>9. QED
  BY <1>1, <1>2, <1>3, <1>4, <1>5, <1>6, <1>7, <1>8 DEF Next

\* However many clients and processes there are, and whatever their constructions and
\* closes come to, between two shutdowns all clients of a process share one backend.
\* (network/cache_manager.py, get_shared and shutdown.)
THEOREM ErasShareBackends == Spec => []OneEraOneBackend
<1>1. Init => Base /\ Eras
  BY BaseInit, ErasInit
<1>2. (Base /\ Eras) /\ [Next]_vars => (Base /\ Eras)'
  BY BaseStep, ErasStep
<1>3. Base /\ Eras => OneEraOneBackend
  BY DEF Eras, OneEraOneBackend, Built
<1>4. QED
  BY <1>1, <1>2, <1>3, PTL DEF Spec

=============================================================================
