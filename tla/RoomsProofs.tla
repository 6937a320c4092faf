---------------------------- MODULE RoomsProofs ----------------------------
(***************************************************************************)
(* The room registry, for every set of connections, names and rooms and    *)
(* every limit.                                                            *)
(*                                                                         *)
(* The argument: the locals of a handler in flight, of removeClient and of *)
(* evictStale still name what they were read from (Locals), and a room     *)
(* registered under a name was made for that name and lives (Registry).    *)
(* From these two follow the types, and each property of the registry; and *)
(* since the counters are then exact, the refinement of RoomQuota.         *)
(***************************************************************************)
EXTENDS Rooms, FiniteSetTheorems, TLAPS

\* What the locals of each goroutine hold while it is between two steps.
HandlerLocals ==
    \A c \in Clients :
        /\ pc[c] \in {"quota", "make"} => job[c].name \in Names
        /\ pc[c] \in {"lookup", "enter", "leave"} => job[c].name \in AllNames
        /\ pc[c] \in {"enter", "leave"} =>
             job[c].room \in born /\ info[job[c].room].name = job[c].name

HubLocals ==
    hub.client = NoClient => hub.todo = {} /\ hub.room = NoRoom

EvictorLocals ==
    /\ ev.at = "sleep" => ev.todo = {}
    /\ \A n \in ev.todo : rooms[n] \in UserRooms
    /\ ev.at \in {"age", "delete"} =>
         ev.name \in AllNames \ ev.todo /\ rooms[ev.name] \in UserRooms

Locals == HandlerLocals /\ HubLocals /\ EvictorLocals

\* The lobby is always there, and the objects registered are live ones that
\* were made for the name they are registered under.
Registry ==
    /\ LobbyRoom \in born /\ rooms[Lobby] = LobbyRoom
    /\ \A n \in AllNames : rooms[n] # NoRoom =>
         rooms[n] \in born /\ info[rooms[n]].name = n

Base == TypeOK /\ Locals /\ Registry

-----------------------------------------------------------------------------
LEMMA BaseInit ==
    ASSUME ConstantsAssumption, Init
    PROVE  Base
  <1> USE DEF Init, ConstantsAssumption, AllNames
  <1>1. TypeOK
    BY DEF TypeOK, RoomInfo, Steps, Job, Removal, Scan, NoJob, HubIdle, EvIdle
  <1>2. Locals
    BY DEF Locals, HandlerLocals, HubLocals, EvictorLocals, HubIdle, EvIdle
  <1>3. Registry
    BY DEF Registry
  <1> QED
    BY <1>1, <1>2, <1>3 DEF Base

\* A handler that moves on to a step with well-formed locals.
LEMMA GotoTyped ==
    ASSUME TypeOK, NEW c \in Clients, NEW step \in Steps, NEW j \in Job,
           Goto(c, step, j)
    PROVE  pc' \in [Clients -> Steps] /\ job' \in [Clients -> Job]
  BY DEF TypeOK, Goto

\* The locals the handlers start from.
LEMMA JobsTyped ==
    ASSUME ConstantsAssumption
    PROVE  /\ NoJob \in Job
           /\ \A n \in AllNames : [NoJob EXCEPT !.name = n] \in Job
           /\ \A n \in AllNames, e \in BOOLEAN, s \in Sids \cup {NoSid},
                 left \in BOOLEAN :
                [NoJob EXCEPT !.name = n, !.encrypted = e, !.sid = s,
                              !.roomLeft = left] \in Job
           /\ \A n \in AllNames, r \in RoomIds :
                [NoJob EXCEPT !.name = n, !.room = r] \in Job
           /\ \A j \in Job, r \in RoomIds : [j EXCEPT !.room = r] \in Job
           /\ \A j \in Job : [j EXCEPT !.roomLeft = FALSE] \in Job
  BY DEF Job, NoJob, ConstantsAssumption

LEMMA FinishTyped ==
    ASSUME ConstantsAssumption, TypeOK, NEW c \in Clients, Finish(c)
    PROVE  pc' \in [Clients -> Steps] /\ job' \in [Clients -> Job]
  BY JobsTyped, GotoTyped DEF Finish, Steps

\* A table of counters with one entry changed.
LEMMA CountersTyped ==
    ASSUME NEW S, NEW f \in [S -> Nat], NEW x, NEW v, x \in S => v \in Nat
    PROVE  [f EXCEPT ![x] = v] \in [S -> Nat]
  OBVIOUS

-----------------------------------------------------------------------------
(* Types *)

\* Only a creation that starts moves the peaks, and each is at least what is
\* in flight then.
LEMMA PeaksTyped ==
    ASSUME ConstantsAssumption, peak \in Nat, ipPeak \in [IPs -> Nat],
           NEW c \in Clients, NEW n, NEW e, NEW s, CountUserCreated(c, n, e, s)
    PROVE  /\ peak' \in Nat /\ ipPeak' \in [IPs -> Nat]
           /\ peak' >= peak /\ peak' >= Cardinality(InFlight(Clients)')
           /\ \A ip \in IPs : ipPeak'[ip] >= ipPeak[ip]
           /\ ipPeak'[IpOf[c]] >= Cardinality(InFlight(From(IpOf[c]))')
  <1> DEFINE a == Cardinality(InFlight(Clients)')
             b == Cardinality(InFlight(From(IpOf[c]))')
  <1>1. a \in Nat /\ b \in Nat
    <2>1. IsFiniteSet(InFlight(Clients)') /\ IsFiniteSet(InFlight(From(IpOf[c]))')
      BY FS_Subset DEF ConstantsAssumption, InFlight, From
    <2> QED
      BY <2>1, FS_CardinalityType
  <1>2. /\ peak' = AtLeast(peak, a)
        /\ ipPeak' = [ipPeak EXCEPT ![IpOf[c]] = AtLeast(@, b)]
    BY DEF CountUserCreated
  <1>3. IpOf[c] \in IPs
    BY DEF ConstantsAssumption
  <1> HIDE DEF a, b
  <1>4. /\ peak' \in Nat /\ ipPeak' \in [IPs -> Nat]
        /\ peak' >= peak /\ peak' >= a
        /\ \A ip \in IPs : ipPeak'[ip] >= ipPeak[ip]
        /\ ipPeak'[IpOf[c]] >= b
    BY <1>1, <1>2, <1>3 DEF AtLeast
  <1> QED
    BY <1>4 DEF a, b

\* Types after each step of handleCreateRoom.
LEMMA TypeCreate ==
    ASSUME ConstantsAssumption, Base, NEW c \in Clients, CreateSteps(c)
    PROVE  TypeOK'
  <1> TypeOK
    BY DEF Base
  <1>1. ASSUME NEW n \in Names, NEW e \in Kinds, NEW s \in Sids \cup {NoSid},
               CountUserCreated(c, n, e, s)
        PROVE  TypeOK'
    <2> DEFINE left == Cardinality(UserRooms) < MaxTotalRooms
               j == [NoJob EXCEPT !.name = n, !.encrypted = e, !.sid = s,
                                  !.roomLeft = left]
    <2>1. left \in BOOLEAN /\ n \in AllNames /\ e \in BOOLEAN
      BY DEF ConstantsAssumption, AllNames
    <2>2. j \in Job
      <3> HIDE DEF left
      <3> QED
        BY <2>1, JobsTyped
    <2>3. Goto(c, "quota", j)
      BY <1>1 DEF CountUserCreated
    <2>4. pc' \in [Clients -> Steps] /\ job' \in [Clients -> Job]
      <3> HIDE DEF j
      <3> QED
        BY <2>2, <2>3, GotoTyped DEF Steps
    <2>5. peak' \in Nat /\ ipPeak' \in [IPs -> Nat]
      BY <1>1, PeaksTyped DEF TypeOK
    <2> QED
      BY <1>1, <2>4, <2>5
      DEF CountUserCreated, TypeOK, regVars, clockVars, trackVars
  <1>2. CASE CanCreate(c)
    <2>1. pc' \in [Clients -> Steps] /\ job' \in [Clients -> Job]
      <3>1. job[c] \in Job
        BY DEF TypeOK
      <3>2. Finish(c) \/ Goto(c, "make", [job[c] EXCEPT !.roomLeft = FALSE])
        BY <1>2 DEF CanCreate
      <3> QED
        BY <3>1, <3>2, JobsTyped, GotoTyped, FinishTyped DEF Steps
    <2>2. ipCreates' \in [IPs -> Nat] /\ sessCreates' \in [Sids -> Nat]
      <3> DEFINE ip == IpOf[c]
                 s  == job[c].sid
                 a  == RateTake(ipCreates[ip], RoomCreateRateIP)
                 b  == RateTake(sessCreates[s], RoomCreateRateSession)
      <3>1. ip \in IPs => a \in Nat
        BY DEF TypeOK, RateTake
      <3>2. s \in Sids => b \in Nat
        BY DEF TypeOK, RateTake
      <3>3. /\ ipCreates' \in {ipCreates, [ipCreates EXCEPT ![ip] = a]}
            /\ sessCreates' \in {sessCreates, [sessCreates EXCEPT ![s] = b]}
        BY <1>2 DEF CanCreate
      <3>4. ipCreates \in [IPs -> Nat] /\ sessCreates \in [Sids -> Nat]
        BY DEF TypeOK
      <3> HIDE DEF ip, s, a, b
      <3> QED
        BY <3>1, <3>2, <3>3, <3>4, CountersTyped
    <2> QED
      BY <1>2, <2>1, <2>2 DEF CanCreate, TypeOK, regVars, clockVars, peakVars
  <1>3. CASE CreateRefused(c)
    BY <1>3, FinishTyped
    DEF CreateRefused, TypeOK, regVars, clockVars, trackVars, peakVars
  <1>4. CASE CreateExists(c)
    BY <1>4, FinishTyped
    DEF CreateExists, TypeOK, regVars, clockVars, trackVars, peakVars
  <1>5. ASSUME NEW r \in RoomIds, Create(c, r)
        PROVE  TypeOK'
    <2>1. job[c].name \in Names /\ job[c].name \in AllNames
      BY <1>5 DEF Base, Locals, HandlerLocals, Create, AllNames
    <2>2. pc' \in [Clients -> Steps] /\ job' \in [Clients -> Job]
      BY <1>5, <2>1, JobsTyped, GotoTyped DEF Create, Steps
    <2>3. info' \in [RoomIds -> RoomInfo]
      BY <1>5, <2>1 DEF Create, TypeOK, RoomInfo, Job, ConstantsAssumption
    <2>4. ipActive' \in [IPs -> Nat] /\ sessActive' \in [Sids -> Nat]
      <3> DEFINE ip == IpOf[c]
                 s  == job[c].sid
      <3>1. /\ ipActive' = [ipActive EXCEPT ![ip] = ipActive[ip] + 1]
            /\ \/ sessActive' = sessActive
               \/ sessActive' = [sessActive EXCEPT ![s] = sessActive[s] + 1]
        BY <1>5 DEF Create, Register
      <3>2. ipActive \in [IPs -> Nat] /\ sessActive \in [Sids -> Nat]
        BY DEF TypeOK
      <3> HIDE DEF ip, s
      <3>3. ip \in IPs => ipActive[ip] + 1 \in Nat
        BY <3>2
      <3>4. s \in Sids => sessActive[s] + 1 \in Nat
        BY <3>2
      <3> QED
        BY <3>1, <3>2, <3>3, <3>4, CountersTyped
    <2> QED
      BY <1>5, <2>1, <2>2, <2>3, <2>4 DEF Create, Register, TypeOK, clockVars, peakVars
  <1> QED
    BY <1>1, <1>2, <1>3, <1>4, <1>5 DEF CreateSteps

\* Types after each step of a join, a part or a disconnection.
LEMMA TypeJoin ==
    ASSUME ConstantsAssumption, Base, NEW c \in Clients, JoinSteps(c)
    PROVE  TypeOK'
  <1> TypeOK
    BY DEF Base
  <1> Names \subseteq AllNames
    BY DEF AllNames
  <1>1. ASSUME NEW n \in AllNames, handleJoin(c, n)
        PROVE  TypeOK'
    <2>1. pc' \in [Clients -> Steps] /\ job' \in [Clients -> Job]
      BY <1>1, JobsTyped, GotoTyped DEF handleJoin, Steps
    <2> QED
      BY <1>1, <2>1 DEF handleJoin, TypeOK, regVars, clockVars, trackVars, peakVars
  <1>2. ASSUME NEW n \in AllNames, handleHello(c, n)
        PROVE  TypeOK'
    <2>1. pc' \in [Clients -> Steps] /\ job' \in [Clients -> Job]
      BY <1>2, JobsTyped, GotoTyped DEF handleHello, Steps
    <2> QED
      BY <1>2, <2>1 DEF handleHello, TypeOK, regVars, clockVars, trackVars, peakVars
  <1>3. CASE JoinLookup(c)
    <2>1. job[c] \in Job /\ job[c].name \in AllNames
      BY <1>3 DEF JoinLookup, Base, Locals, HandlerLocals, TypeOK
    <2>2. pc' \in [Clients -> Steps] /\ job' \in [Clients -> Job]
      <3>1. CASE Finish(c)
        BY <3>1, FinishTyped
      <3>2. CASE ~Finish(c)
        <4> DEFINE r == rooms[job[c].name]
        <4>1. r \in RoomIds
          BY <1>3, <2>1, <3>2 DEF JoinLookup, TypeOK
        <4>2. Goto(c, "enter", [job[c] EXCEPT !.room = r])
          BY <1>3, <3>2 DEF JoinLookup
        <4> HIDE DEF r
        <4> QED
          BY <2>1, <4>1, <4>2, JobsTyped, GotoTyped DEF Steps
      <3> QED
        BY <3>1, <3>2
    <2>3. joined' \in [Clients -> SUBSET AllNames]
      BY <1>3, <2>1 DEF JoinLookup, Reserve, TypeOK
    <2> QED
      BY <1>3, <2>2, <2>3
      DEF JoinLookup, TypeOK, regVars, clockVars, trackVars, peakVars
  <1>4. CASE JoinEnter(c)
    <2>1. /\ joined' \in [Clients -> SUBSET AllNames]
          /\ members' \in [RoomIds -> SUBSET Clients] /\ quiet' \subseteq RoomIds
      BY <1>4 DEF JoinEnter, Undo, TypeOK
    <2> QED
      BY <1>4, <2>1, FinishTyped DEF JoinEnter, TypeOK, regVars, trackVars, peakVars
  <1>5. ASSUME NEW n \in Names, PartLookup(c, n)
        PROVE  TypeOK'
    <2>1. joined' \in [Clients -> SUBSET AllNames]
      BY <1>5 DEF PartLookup, TypeOK
    <2>2. pc' \in [Clients -> Steps] /\ job' \in [Clients -> Job]
      <3>1. CASE rooms[n] = NoRoom
        BY <1>5, <3>1 DEF PartLookup, TypeOK
      <3>2. CASE rooms[n] # NoRoom
        <4>1. rooms[n] \in RoomIds
          BY <3>2 DEF TypeOK
        <4>2. Goto(c, "leave", [NoJob EXCEPT !.name = n, !.room = rooms[n]])
          BY <1>5, <3>2 DEF PartLookup
        <4> QED
          BY <4>1, <4>2, JobsTyped, GotoTyped DEF Steps
      <3> QED
        BY <3>1, <3>2
    <2> QED
      BY <1>5, <2>1, <2>2
      DEF PartLookup, TypeOK, regVars, clockVars, trackVars, peakVars
  <1>6. CASE PartLeave(c)
    <2>1. members' \in [RoomIds -> SUBSET Clients] /\ quiet' \subseteq RoomIds
      BY <1>6 DEF PartLeave, Part, TypeOK
    <2> QED
      BY <1>6, <2>1, FinishTyped
      DEF PartLeave, Part, TypeOK, regVars, trackVars, peakVars
  <1>7. CASE Disconnect(c)
    <2>1. pc' \in [Clients -> Steps] /\ job' \in [Clients -> Job]
      BY <1>7, JobsTyped, GotoTyped DEF Disconnect, Steps
    <2> QED
      BY <1>7, <2>1 DEF Disconnect, TypeOK, regVars, clockVars, trackVars, peakVars
  <1> QED
    BY <1>1, <1>2, <1>3, <1>4, <1>5, <1>6, <1>7 DEF JoinSteps

\* Types after each step of removeClient.
LEMMA TypeHub ==
    ASSUME ConstantsAssumption, Base, HubSteps
    PROVE  TypeOK'
  <1> TypeOK
    BY DEF Base
  <1>1. ASSUME NEW c \in Clients, HubTake(c)
        PROVE  TypeOK'
    <2>1. pc' \in [Clients -> Steps] /\ job' \in [Clients -> Job]
      BY <1>1, JobsTyped, GotoTyped DEF HubTake, Steps
    <2>2. hub' \in Removal
      BY <1>1 DEF HubTake, HubIdle, NamesToPart, Removal, TypeOK
    <2> QED
      BY <1>1, <2>1, <2>2 DEF HubTake, TypeOK, regVars, clockVars, trackVars, peakVars
  <1>2. ASSUME NEW n \in AllNames, HubLookup(n)
        PROVE  TypeOK'
    <2>1. hub' \in Removal
      BY <1>2 DEF HubLookup, Removal, TypeOK
    <2> QED
      BY <1>2, <2>1 DEF HubLookup, TypeOK, regVars, clockVars, trackVars, peakVars
  <1>3. CASE HubPart
    <2>1. hub' \in Removal
      BY <1>3 DEF HubPart, Removal, TypeOK
    <2>2. members' \in [RoomIds -> SUBSET Clients] /\ quiet' \subseteq RoomIds
      BY <1>3 DEF HubPart, Part, TypeOK
    <2> QED
      BY <1>3, <2>1, <2>2 DEF HubPart, Part, TypeOK, regVars, trackVars, peakVars
  <1>4. CASE HubDone
    <2>1. hub.client \in Clients
      BY <1>4 DEF HubDone, TypeOK, Removal
    <2>2. pc' \in [Clients -> Steps] /\ job' \in [Clients -> Job]
      BY <1>4, <2>1, JobsTyped, GotoTyped DEF HubDone, Steps
    <2>3. hub' \in Removal /\ joined' \in [Clients -> SUBSET AllNames]
      BY <1>4 DEF HubDone, HubIdle, Removal, TypeOK
    <2> QED
      BY <1>4, <2>2, <2>3 DEF HubDone, TypeOK, regVars, clockVars, trackVars, peakVars
  <1> QED
    BY <1>1, <1>2, <1>3, <1>4 DEF HubSteps

\* Types after each step of evictStale.
LEMMA TypeEvict ==
    ASSUME ConstantsAssumption, Base, EvictSteps
    PROVE  TypeOK'
  <1> TypeOK
    BY DEF Base
  <1>1. CASE EvictStart
    <2>1. ev' \in Scan
      BY <1>1 DEF EvictStart, EvIdle, Scan
    <2> QED
      BY <1>1, <2>1 DEF EvictStart, TypeOK, regVars, clockVars, trackVars, peakVars
  <1>2. ASSUME NEW n \in AllNames, EvictCount(n)
        PROVE  TypeOK'
    <2>1. ev' \in Scan
      BY <1>2 DEF EvictCount, Scan, TypeOK
    <2> QED
      BY <1>2, <2>1 DEF EvictCount, TypeOK, regVars, clockVars, trackVars, peakVars
  <1>3. CASE EvictAge
    <2>1. ev' \in Scan
      BY <1>3 DEF EvictAge, Scan, TypeOK
    <2> QED
      BY <1>3, <2>1 DEF EvictAge, TypeOK, regVars, clockVars, trackVars, peakVars
  <1>4. CASE EvictDelete
    <2>1. ev' \in Scan
      BY <1>4 DEF EvictDelete, Scan, TypeOK
    <2>2. ipActive' \in [IPs -> Nat] /\ sessActive' \in [Sids -> Nat]
      <3> DEFINE ip == info[rooms[ev.name]].ip
                 s  == info[rooms[ev.name]].sid
                 a  == Decrement(ipActive[ip])
                 b  == Decrement(sessActive[s])
      <3>1. ip \in IPs => a \in Nat
        BY DEF TypeOK, Decrement
      <3>2. s \in Sids => b \in Nat
        BY DEF TypeOK, Decrement
      <3>3. /\ ipActive' = [ipActive EXCEPT ![ip] = a]
            /\ sessActive' \in {sessActive, [sessActive EXCEPT ![s] = b]}
        BY <1>4 DEF EvictDelete, Unregister
      <3>4. ipActive \in [IPs -> Nat] /\ sessActive \in [Sids -> Nat]
        BY DEF TypeOK
      <3> HIDE DEF ip, s, a, b
      <3> QED
        BY <3>1, <3>2, <3>3, <3>4, CountersTyped
    <2>3. rooms' \in [AllNames -> RoomIds \cup {NoRoom}]
      BY <1>4 DEF EvictDelete, TypeOK
    <2> QED
      BY <1>4, <2>1, <2>2, <2>3 DEF EvictDelete, Unregister, TypeOK, clockVars, peakVars
  <1>5. CASE EvictDone
    <2>1. ev' \in Scan
      BY <1>5 DEF EvictDone, EvIdle, Scan
    <2> QED
      BY <1>5, <2>1 DEF EvictDone, TypeOK, regVars, clockVars, trackVars, peakVars
  <1> QED
    BY <1>1, <1>2, <1>3, <1>4, <1>5 DEF EvictSteps

\* Types as time passes.
LEMMA TypeClock ==
    ASSUME Base, ClockSteps
    PROVE  TypeOK'
  <1> TypeOK
    BY DEF Base
  <1>1. ASSUME NEW r \in RoomIds, RoomTurnsQuiet(r)
        PROVE  TypeOK'
    BY <1>1 DEF RoomTurnsQuiet, TypeOK, regVars, trackVars, peakVars
  <1>2. ASSUME NEW r \in RoomIds, RoomTurnsAged(r)
        PROVE  TypeOK'
    BY <1>2 DEF RoomTurnsAged, TypeOK, regVars, trackVars, peakVars
  <1>3. ASSUME NEW ip \in IPs, IpWindowSlides(ip)
        PROVE  TypeOK'
    BY <1>3 DEF IpWindowSlides, TypeOK, regVars, clockVars, peakVars
  <1>4. ASSUME NEW s \in Sids, SessWindowSlides(s)
        PROVE  TypeOK'
    BY <1>4 DEF SessWindowSlides, TypeOK, regVars, clockVars, peakVars
  <1> QED
    BY <1>1, <1>2, <1>3, <1>4 DEF ClockSteps

LEMMA TypeStep ==
    ASSUME ConstantsAssumption, Base, [Next]_vars
    PROVE  TypeOK'
  <1>1. CASE UNCHANGED vars
    BY <1>1 DEF Base, TypeOK, vars, regVars, clockVars, trackVars, peakVars
  <1> QED
    BY <1>1, TypeCreate, TypeJoin, TypeHub, TypeEvict, TypeClock DEF Next

-----------------------------------------------------------------------------
(* The registry *)

\* Only Create and evictStale change the registry.
LEMMA RegistryChanges ==
    ASSUME Next
    PROVE  \/ UNCHANGED regVars
           \/ \E c \in Clients, r \in RoomIds : Create(c, r)
           \/ EvictDelete
  <1>1. ASSUME NEW c \in Clients, CreateSteps(c)
        PROVE  UNCHANGED regVars \/ \E r \in RoomIds : Create(c, r)
    BY <1>1 DEF CreateSteps, CountUserCreated, CanCreate, CreateRefused,
                CreateExists
  <1>2. ASSUME NEW c \in Clients, JoinSteps(c)
        PROVE  UNCHANGED regVars
    BY <1>2 DEF JoinSteps, handleJoin, handleHello, JoinLookup, JoinEnter,
                PartLookup, PartLeave, Disconnect
  <1>3. ASSUME HubSteps
        PROVE  UNCHANGED regVars
    BY <1>3 DEF HubSteps, HubTake, HubLookup, HubPart, HubDone
  <1>4. ASSUME EvictSteps
        PROVE  UNCHANGED regVars \/ EvictDelete
    BY <1>4 DEF EvictSteps, EvictStart, EvictCount, EvictAge, EvictDone
  <1>5. ASSUME ClockSteps
        PROVE  UNCHANGED regVars
    BY <1>5 DEF ClockSteps, RoomTurnsQuiet, RoomTurnsAged, IpWindowSlides,
                SessWindowSlides
  <1> QED
    BY <1>1, <1>2, <1>3, <1>4, <1>5 DEF Next

\* A created room is a new object, registered under a name that was free; the
\* names, rooms and creators of all other rooms stay as they were.
LEMMA CreateEffect ==
    ASSUME ConstantsAssumption, Base, NEW c \in Clients, NEW r \in RoomIds,
           Create(c, r)
    PROVE  /\ job[c].name \in Names /\ rooms[job[c].name] = NoRoom
           /\ r \notin born /\ r \notin Registered /\ r # LobbyRoom
           /\ born' = born \cup {r}
           /\ rooms' = [rooms EXCEPT ![job[c].name] = r]
           /\ info'[r].name = job[c].name
           /\ info'[r].ip = IpOf[c] /\ info'[r].sid = job[c].sid
           /\ \A q \in RoomIds \ {r} : info'[q] = info[q]
  <1>1. job[c].name \in Names
    BY DEF Base, Locals, HandlerLocals, Create
  <1>2. r \notin Registered /\ r # LobbyRoom
    BY DEF Base, Registry, Registered, Create, ConstantsAssumption
  <1> QED
    BY <1>1, <1>2 DEF Create, Base, TypeOK

LEMMA RegistryStep ==
    ASSUME ConstantsAssumption, Base, [Next]_vars
    PROVE  Registry'
  <1>1. CASE UNCHANGED regVars
    BY <1>1 DEF Base, Registry, regVars
  <1>2. ASSUME NEW c \in Clients, NEW r \in RoomIds, Create(c, r)
        PROVE  Registry'
    <2> DEFINE n == job[c].name
    <2>1. /\ n \in Names /\ r \notin born /\ born' = born \cup {r}
          /\ rooms' = [rooms EXCEPT ![n] = r] /\ info'[r].name = n
          /\ \A q \in RoomIds \ {r} : info'[q] = info[q]
      BY <1>2, CreateEffect
    <2>2. /\ rooms \in [AllNames -> RoomIds \cup {NoRoom}]
          /\ born \subseteq RoomIds
      BY DEF Base, TypeOK
    <2>3. Lobby # n /\ Lobby \in AllNames
      BY <2>1 DEF ConstantsAssumption, AllNames
    <2> HIDE DEF n
    <2> QED
      BY <2>1, <2>2, <2>3 DEF Base, Registry
  <1>3. CASE EvictDelete
    <2>1. ev.name \in AllNames /\ rooms[ev.name] # LobbyRoom
      BY <1>3 DEF Base, Locals, EvictorLocals, EvictDelete, UserRooms,
                  UserCreated
    <2> QED
      BY <1>3, <2>1 DEF Base, Registry, EvictDelete, TypeOK
  <1> QED
    BY <1>1, <1>2, <1>3, RegistryChanges DEF vars

-----------------------------------------------------------------------------
(* The locals *)

LEMMA HandlerLocalsStep ==
    ASSUME ConstantsAssumption, Base, [Next]_vars
    PROVE  HandlerLocals'
  <1> USE DEF Base, Locals, HandlerLocals
  <1> pc \in [Clients -> Steps] /\ job \in [Clients -> Job]
    BY DEF TypeOK
  <1> Names \subseteq AllNames
    BY DEF AllNames
  <1>1. ASSUME NEW c \in Clients, CreateSteps(c)
        PROVE  HandlerLocals'
    <2>1. CASE UNCHANGED regVars
      <3>1. ASSUME NEW n \in Names, NEW e \in Kinds,
                   NEW s \in Sids \cup {NoSid}, CountUserCreated(c, n, e, s)
            PROVE  HandlerLocals'
        BY <2>1, <3>1 DEF CountUserCreated, Goto, NoJob, regVars
      <3>2. CASE CanCreate(c)
        BY <2>1, <3>2 DEF CanCreate, Goto, Finish, NoJob, Job, regVars
      <3>3. CASE CreateRefused(c) \/ CreateExists(c)
        BY <2>1, <3>3 DEF CreateRefused, CreateExists, Goto, Finish, regVars
      <3>4. ASSUME NEW r \in RoomIds, Create(c, r)
            PROVE  FALSE
        BY <2>1, <3>4 DEF Create, regVars
      <3> QED
        BY <1>1, <3>1, <3>2, <3>3, <3>4 DEF CreateSteps
    <2>2. ASSUME NEW r \in RoomIds, Create(c, r)
          PROVE  HandlerLocals'
      BY <2>2, CreateEffect DEF Create, Goto, NoJob, Job, TypeOK
    <2> QED
      BY <1>1, <2>1, <2>2
      DEF CreateSteps, CountUserCreated, CanCreate, CreateRefused,
          CreateExists
  <1>2. ASSUME NEW c \in Clients, JoinSteps(c)
        PROVE  HandlerLocals'
    <2>1. ASSUME NEW n \in AllNames, handleJoin(c, n) \/ handleHello(c, n)
          PROVE  HandlerLocals'
      BY <2>1 DEF handleJoin, handleHello, Goto, NoJob, regVars
    <2>2. CASE JoinLookup(c)
      BY <2>2 DEF JoinLookup, Goto, Finish, NoJob, Job, Registry, regVars
    <2>3. CASE JoinEnter(c) \/ PartLeave(c) \/ Disconnect(c)
      BY <2>3 DEF JoinEnter, PartLeave, Disconnect, Goto, Finish, NoJob,
                  regVars
    <2>4. ASSUME NEW n \in Names, PartLookup(c, n)
          PROVE  HandlerLocals'
      <3>1. CASE rooms[n] = NoRoom
        BY <2>4, <3>1 DEF PartLookup, regVars
      <3>2. CASE rooms[n] # NoRoom
        <4>1. rooms[n] \in born /\ info[rooms[n]].name = n
          BY <3>2 DEF Registry
        <4> DEFINE j == [NoJob EXCEPT !.name = n, !.room = rooms[n]]
        <4>2. /\ pc' = [pc EXCEPT ![c] = "leave"] /\ job' = [job EXCEPT ![c] = j]
              /\ born' = born /\ info' = info
          BY <2>4, <3>2 DEF PartLookup, Goto, regVars
        <4>3. j.name = n /\ j.room = rooms[n]
          BY DEF NoJob
        <4> HIDE DEF j
        <4> QED
          BY <4>1, <4>2, <4>3
      <3> QED
        BY <3>1, <3>2
    <2> QED
      BY <1>2, <2>1, <2>2, <2>3, <2>4 DEF JoinSteps
  <1>3. CASE HubSteps
    <2>1. UNCHANGED regVars
      BY <1>3 DEF HubSteps, HubTake, HubLookup, HubPart, HubDone
    <2>2. ASSUME NEW d \in Clients, NEW step \in {"removing", "gone"}, Goto(d, step, NoJob)
          PROVE  HandlerLocals'
      BY <2>1, <2>2 DEF Goto, regVars
    <2>3. CASE UNCHANGED <<pc, job>>
      BY <2>1, <2>3 DEF regVars
    <2>4. CASE \E c \in Clients : HubTake(c)
      BY <2>2, <2>4 DEF HubTake
    <2>5. CASE (\E n \in AllNames : HubLookup(n)) \/ HubPart
      BY <2>3, <2>5 DEF HubLookup, HubPart
    <2>6. CASE HubDone
      <3>1. hub.client \in Clients
        BY <2>6 DEF HubDone, TypeOK, Removal
      <3> QED
        BY <2>2, <2>6, <3>1 DEF HubDone
    <2> QED
      BY <1>3, <2>4, <2>5, <2>6 DEF HubSteps
  <1>4. CASE EvictSteps
    BY <1>4 DEF EvictSteps, EvictStart, EvictCount, EvictAge, EvictDelete,
                EvictDone, regVars
  <1>5. CASE ClockSteps
    BY <1>5 DEF ClockSteps, RoomTurnsQuiet, RoomTurnsAged, IpWindowSlides,
                SessWindowSlides, regVars
  <1>6. CASE UNCHANGED vars
    BY <1>6 DEF vars, regVars
  <1> QED
    BY <1>1, <1>2, <1>3, <1>4, <1>5, <1>6 DEF Next

LEMMA HubLocalsStep ==
    ASSUME ConstantsAssumption, Base, [Next]_vars
    PROVE  HubLocals'
  <1> USE DEF HubLocals
  <1> HubLocals
    BY DEF Base, Locals
  <1>1. CASE UNCHANGED hub
    BY <1>1
  <1>2. CASE HubSteps
    <2> hub \in Removal
      BY DEF Base, TypeOK
    <2>1. ASSUME NEW c \in Clients, HubTake(c)
          PROVE  HubLocals'
      BY <2>1 DEF HubTake, HubIdle, ConstantsAssumption
    <2>2. ASSUME NEW n \in AllNames, HubLookup(n)
          PROVE  HubLocals'
      BY <2>2 DEF HubLookup, Removal
    <2>3. CASE HubPart
      BY <2>3 DEF HubPart, Removal
    <2>4. CASE HubDone
      BY <2>4 DEF HubDone, HubIdle
    <2> QED
      BY <1>2, <2>1, <2>2, <2>3, <2>4 DEF HubSteps
  <1>3. HubSteps \/ UNCHANGED hub
    <2>1. ASSUME NEW c \in Clients, CreateSteps(c) \/ JoinSteps(c)
          PROVE  UNCHANGED hub
      BY <2>1
      DEF CreateSteps, CountUserCreated, CanCreate, CreateRefused,
          CreateExists, Create, JoinSteps, handleJoin, handleHello,
          JoinLookup, JoinEnter, PartLookup, PartLeave, Disconnect
    <2>2. CASE EvictSteps \/ ClockSteps
      BY <2>2
      DEF EvictSteps, EvictStart, EvictCount, EvictAge, EvictDelete,
          EvictDone, ClockSteps, RoomTurnsQuiet, RoomTurnsAged,
          IpWindowSlides, SessWindowSlides
    <2> QED
      BY <2>1, <2>2 DEF Next, vars
  <1> QED
    BY <1>1, <1>2, <1>3

\* While evictStale runs it holds rm.mu: the names it goes through stay.
LEMMA EvictorLocalsStep ==
    ASSUME ConstantsAssumption, Base, [Next]_vars
    PROVE  EvictorLocals'
  <1> USE DEF EvictorLocals, UserRooms, Registered
  <1> EvictorLocals /\ ev \in Scan /\ rooms \in [AllNames -> RoomIds \cup {NoRoom}]
    BY DEF Base, Locals, TypeOK
  <1>1. CASE UNCHANGED ev /\ UNCHANGED regVars
    BY <1>1 DEF regVars
  <1>2. ASSUME NEW c \in Clients, NEW r \in RoomIds, Create(c, r)
        PROVE  EvictorLocals'
    <2>1. ev' = ev /\ ev.at = "sleep" /\ ev.todo = {}
      BY <1>2 DEF Create, RmFree
    <2>2. ev'.todo = {} /\ ev'.at = "sleep"
      BY <2>1
    <2> QED
      BY <2>2
  <1>3. CASE EvictStart
    BY <1>3 DEF EvictStart, EvIdle, regVars
  <1>4. ASSUME NEW n \in AllNames, EvictCount(n)
        PROVE  EvictorLocals'
    BY <1>4 DEF EvictCount, regVars
  <1>5. CASE EvictAge
    BY <1>5 DEF EvictAge, Scan, regVars
  <1>6. CASE EvictDelete
    BY <1>6 DEF EvictDelete, Scan
  <1>7. CASE EvictDone
    BY <1>7 DEF EvictDone, EvIdle, regVars
  <1>8. EvictSteps \/ UNCHANGED ev
    <2>1. ASSUME NEW c \in Clients, CreateSteps(c) \/ JoinSteps(c)
          PROVE  UNCHANGED ev
      BY <2>1
      DEF CreateSteps, CountUserCreated, CanCreate, CreateRefused,
          CreateExists, Create, JoinSteps, handleJoin, handleHello,
          JoinLookup, JoinEnter, PartLookup, PartLeave, Disconnect
    <2>2. CASE HubSteps \/ ClockSteps
      BY <2>2
      DEF HubSteps, HubTake, HubLookup, HubPart, HubDone,
          ClockSteps, RoomTurnsQuiet, RoomTurnsAged, IpWindowSlides,
          SessWindowSlides
    <2> QED
      BY <2>1, <2>2 DEF Next, vars
  <1> QED
    BY <1>1, <1>2, <1>3, <1>4, <1>5, <1>6, <1>7, <1>8, RegistryChanges
    DEF EvictSteps, vars

LEMMA BaseAlways ==
    ASSUME ConstantsAssumption
    PROVE  Spec => []Base
  <1>1. Init => Base
    BY BaseInit
  <1>2. Base /\ [Next]_vars => Base'
    BY TypeStep, RegistryStep, HandlerLocalsStep, HubLocalsStep,
       EvictorLocalsStep DEF Base, Locals
  <1> QED
    BY <1>1, <1>2, PTL DEF Spec

\* Every variable of the registry, of the handlers and of the evictor keeps
\* its type.
THEOREM TypeCorrect == Spec => []TypeOK
  BY BaseAlways, ConstantsAssumption, PTL DEF Base

-----------------------------------------------------------------------------
(* The quota counters *)

\* A created room joins the users' rooms, and nothing else changes in them.
LEMMA UserRoomsAfterCreate ==
    ASSUME ConstantsAssumption, Base, NEW c \in Clients, NEW r \in RoomIds,
           Create(c, r)
    PROVE  UserRooms' = UserRooms \cup {r} /\ r \notin UserRooms
  <1> DEFINE n == job[c].name
  <1>1. n \in AllNames /\ rooms[n] = NoRoom
    BY CreateEffect DEF AllNames
  <1>2. r \notin Registered /\ r # LobbyRoom /\ rooms' = [rooms EXCEPT ![n] = r]
    BY CreateEffect
  <1>3. rooms \in [AllNames -> RoomIds \cup {NoRoom}]
    BY DEF Base, TypeOK
  <1>4. NoRoom \notin RoomIds
    BY DEF ConstantsAssumption
  <1> HIDE DEF n
  <1>5. Registered' = Registered \cup {r}
    BY <1>1, <1>2, <1>3, <1>4 DEF Registered
  <1> QED
    BY <1>2, <1>5 DEF UserRooms, UserCreated

\* An evicted room, registered under one name only, leaves them.
LEMMA UserRoomsAfterEvict ==
    ASSUME ConstantsAssumption, Base, EvictDelete
    PROVE  /\ rooms[ev.name] \in UserRooms
           /\ UserRooms' = UserRooms \ {rooms[ev.name]}
  <1> DEFINE n == ev.name
             r == rooms[n]
  <1>1. n \in AllNames /\ r \in UserRooms
    BY DEF EvictDelete, Base, Locals, EvictorLocals
  <1>2. rooms' = [rooms EXCEPT ![n] = NoRoom]
    BY DEF EvictDelete
  <1>3. rooms \in [AllNames -> RoomIds \cup {NoRoom}] /\ NoRoom \notin RoomIds
    BY DEF Base, TypeOK, ConstantsAssumption
  <1>4. \A m \in AllNames : rooms[m] = r => m = n
    BY <1>1, <1>3 DEF Base, Registry, UserRooms, Registered
  <1> HIDE DEF n
  <1>5. Registered' = Registered \ {r}
    BY <1>1, <1>2, <1>3, <1>4 DEF Registered
  <1> QED
    BY <1>1, <1>5 DEF UserRooms, UserCreated, n

LEMMA RoomsFinite ==
    ASSUME ConstantsAssumption
    PROVE  /\ IsFiniteSet(UserRooms)
           /\ \A ip \in IPs : IsFiniteSet(CreatedByIp(ip))
           /\ \A s \in Sids : IsFiniteSet(CreatedBySid(s))
  <1>1. UserRooms \subseteq RoomIds
    BY DEF UserRooms, Registered
  <1>2. IsFiniteSet(UserRooms)
    BY <1>1, FS_Subset DEF ConstantsAssumption
  <1> QED
    BY <1>2, FS_Subset DEF CreatedByIp, CreatedBySid

\* One room more, or one room less, is one more or one less in its creator's
\* count.
LEMMA CountAdd ==
    ASSUME NEW S, IsFiniteSet(S), NEW r, r \notin S
    PROVE  Cardinality(S \cup {r}) = Cardinality(S) + 1
  BY FS_AddElement

LEMMA CountRemove ==
    ASSUME NEW S, IsFiniteSet(S), NEW r \in S
    PROVE  /\ Cardinality(S) > 0
           /\ Cardinality(S \ {r}) = Cardinality(S) - 1
  <1>1. Cardinality(S) \in Nat /\ Cardinality(S \ {r}) \in Nat
    BY FS_CardinalityType, FS_RemoveElement
  <1> QED
    BY <1>1, FS_RemoveElement

LEMMA TrackerInit ==
    ASSUME ConstantsAssumption, Init
    PROVE  TrackerExact
  <1>1. UserRooms = {}
    BY DEF Init, UserRooms, UserCreated, Registered, ConstantsAssumption
  <1>2. /\ \A ip \in IPs : CreatedByIp(ip) = {}
        /\ \A s \in Sids : CreatedBySid(s) = {}
    BY <1>1 DEF CreatedByIp, CreatedBySid
  <1> QED
    BY <1>2, FS_EmptySet DEF TrackerExact, Init

\* Register, for the creator of the new room and for everybody else.
LEMMA TrackerCreate ==
    ASSUME ConstantsAssumption, Base, TrackerExact,
           NEW c \in Clients, NEW r \in RoomIds, Create(c, r)
    PROVE  TrackerExact'
  <1> DEFINE myIp == IpOf[c]
             mySid == job[c].sid
  <1>1. UserRooms' = UserRooms \cup {r} /\ r \notin UserRooms
    BY UserRoomsAfterCreate
  <1>2. /\ info'[r].ip = myIp /\ info'[r].sid = mySid
        /\ \A q \in RoomIds \ {r} : info'[q] = info[q]
    BY CreateEffect
  <1>3. UserRooms \subseteq RoomIds
    BY DEF UserRooms, Registered
  <1>4. /\ ipActive' = [ipActive EXCEPT ![myIp] = @ + 1]
        /\ sessActive' = IF mySid = NoSid THEN sessActive
                         ELSE [sessActive EXCEPT ![mySid] = @ + 1]
    BY DEF Create, Register
  <1>5. /\ ipActive \in [IPs -> Nat] /\ sessActive \in [Sids -> Nat]
        /\ NoSid \notin Sids
    BY DEF Base, TypeOK, ConstantsAssumption
  <1> HIDE DEF myIp, mySid
  <1>6. ASSUME NEW ip \in IPs
        PROVE  ipActive'[ip] = Cardinality(CreatedByIp(ip)')
    <2>1. CASE ip = myIp
      <3>1. CreatedByIp(ip)' = CreatedByIp(ip) \cup {r} /\ r \notin CreatedByIp(ip)
        BY <1>1, <1>2, <1>3, <2>1 DEF CreatedByIp
      <3> QED
        BY <1>4, <1>5, <2>1, <3>1, RoomsFinite, CountAdd DEF TrackerExact
    <2>2. CASE ip # myIp
      <3>1. CreatedByIp(ip)' = CreatedByIp(ip)
        BY <1>1, <1>2, <1>3, <2>2 DEF CreatedByIp
      <3> QED
        BY <1>4, <1>5, <2>2, <3>1 DEF TrackerExact
    <2> QED
      BY <2>1, <2>2
  <1>7. ASSUME NEW s \in Sids
        PROVE  sessActive'[s] = Cardinality(CreatedBySid(s)')
    <2>1. CASE s = mySid
      <3>1. CreatedBySid(s)' = CreatedBySid(s) \cup {r} /\ r \notin CreatedBySid(s)
        BY <1>1, <1>2, <1>3, <2>1 DEF CreatedBySid
      <3> QED
        BY <1>4, <1>5, <2>1, <3>1, RoomsFinite, CountAdd DEF TrackerExact
    <2>2. CASE s # mySid
      <3>1. CreatedBySid(s)' = CreatedBySid(s)
        BY <1>1, <1>2, <1>3, <2>2 DEF CreatedBySid
      <3> QED
        BY <1>4, <1>5, <2>2, <3>1 DEF TrackerExact
    <2> QED
      BY <2>1, <2>2
  <1> QED
    BY <1>6, <1>7 DEF TrackerExact

\* Unregister: its guard against negative counters is never needed.
LEMMA TrackerEvict ==
    ASSUME ConstantsAssumption, Base, TrackerExact, EvictDelete
    PROVE  TrackerExact'
  <1> DEFINE r == rooms[ev.name]
             myIp == info[r].ip
             mySid == info[r].sid
  <1>1. r \in UserRooms /\ UserRooms' = UserRooms \ {r}
    BY UserRoomsAfterEvict
  <1>2. info' = info
    BY DEF EvictDelete
  <1>3. /\ ipActive' = [ipActive EXCEPT ![myIp] = Decrement(@)]
        /\ sessActive' = IF mySid = NoSid THEN sessActive
                         ELSE [sessActive EXCEPT ![mySid] = Decrement(@)]
    BY DEF EvictDelete, Unregister
  <1>4. /\ ipActive \in [IPs -> Nat] /\ sessActive \in [Sids -> Nat]
        /\ NoSid \notin Sids
    BY DEF Base, TypeOK, ConstantsAssumption
  <1> HIDE DEF r
  <1>5. ASSUME NEW ip \in IPs
        PROVE  ipActive'[ip] = Cardinality(CreatedByIp(ip)')
    <2>1. CASE ip = myIp
      <3>1. CreatedByIp(ip)' = CreatedByIp(ip) \ {r} /\ r \in CreatedByIp(ip)
        BY <1>1, <1>2, <2>1 DEF CreatedByIp
      <3>2. ipActive'[ip] = Decrement(ipActive[ip])
        BY <1>3, <1>4, <2>1
      <3> QED
        BY <1>4, <3>1, <3>2, RoomsFinite, CountRemove DEF TrackerExact, Decrement
    <2>2. CASE ip # myIp
      <3>1. CreatedByIp(ip)' = CreatedByIp(ip)
        BY <1>1, <1>2, <2>2 DEF CreatedByIp
      <3> QED
        BY <1>3, <1>4, <2>2, <3>1 DEF TrackerExact
    <2> QED
      BY <2>1, <2>2
  <1>6. ASSUME NEW s \in Sids
        PROVE  sessActive'[s] = Cardinality(CreatedBySid(s)')
    <2>1. CASE s = mySid
      <3>1. CreatedBySid(s)' = CreatedBySid(s) \ {r} /\ r \in CreatedBySid(s)
        BY <1>1, <1>2, <2>1 DEF CreatedBySid
      <3>2. sessActive'[s] = Decrement(sessActive[s])
        BY <1>3, <1>4, <2>1
      <3> QED
        BY <1>4, <3>1, <3>2, RoomsFinite, CountRemove DEF TrackerExact, Decrement
    <2>2. CASE s # mySid
      <3>1. CreatedBySid(s)' = CreatedBySid(s)
        BY <1>1, <1>2, <2>2 DEF CreatedBySid
      <3> QED
        BY <1>3, <1>4, <2>2, <3>1 DEF TrackerExact
    <2> QED
      BY <2>1, <2>2
  <1> QED
    BY <1>5, <1>6 DEF TrackerExact

\* Every other step leaves the registry and the live counters alone.
LEMMA TrackerFrame ==
    ASSUME TrackerExact, UNCHANGED <<regVars, ipActive, sessActive>>
    PROVE  TrackerExact'
  BY DEF TrackerExact, CreatedByIp, CreatedBySid, UserRooms, Registered,
         regVars

LEMMA CountersChange ==
    ASSUME Next
    PROVE  \/ UNCHANGED <<regVars, ipActive, sessActive>>
           \/ \E c \in Clients, r \in RoomIds : Create(c, r)
           \/ EvictDelete
  <1>1. ASSUME NEW c \in Clients, CreateSteps(c)
        PROVE  \/ UNCHANGED <<regVars, ipActive, sessActive>>
               \/ \E r \in RoomIds : Create(c, r)
    BY <1>1 DEF CreateSteps, CountUserCreated, CanCreate, CreateRefused,
                CreateExists, trackVars
  <1>2. ASSUME NEW c \in Clients, JoinSteps(c)
        PROVE  UNCHANGED <<regVars, ipActive, sessActive>>
    BY <1>2 DEF JoinSteps, handleJoin, handleHello, JoinLookup, JoinEnter,
                PartLookup, PartLeave, Disconnect, trackVars
  <1>3. ASSUME HubSteps
        PROVE  UNCHANGED <<regVars, ipActive, sessActive>>
    BY <1>3 DEF HubSteps, HubTake, HubLookup, HubPart, HubDone, trackVars
  <1>4. ASSUME EvictSteps
        PROVE  UNCHANGED <<regVars, ipActive, sessActive>> \/ EvictDelete
    BY <1>4 DEF EvictSteps, EvictStart, EvictCount, EvictAge, EvictDone,
                trackVars
  <1>5. ASSUME ClockSteps
        PROVE  UNCHANGED <<regVars, ipActive, sessActive>>
    BY <1>5 DEF ClockSteps, RoomTurnsQuiet, RoomTurnsAged, IpWindowSlides,
                SessWindowSlides, trackVars
  <1> QED
    BY <1>1, <1>2, <1>3, <1>4, <1>5 DEF Next

LEMMA TrackerStep ==
    ASSUME ConstantsAssumption, Base, TrackerExact, [Next]_vars
    PROVE  TrackerExact'
  <1>1. CASE UNCHANGED <<regVars, ipActive, sessActive>>
    BY <1>1, TrackerFrame
  <1>2. ASSUME NEW c \in Clients, NEW r \in RoomIds, Create(c, r)
        PROVE  TrackerExact'
    BY <1>2, TrackerCreate
  <1>3. CASE EvictDelete
    BY <1>3, TrackerEvict
  <1> QED
    BY <1>1, <1>2, <1>3, CountersChange DEF vars, regVars, trackVars

\* The counters that decide who may create a room are exact: after any
\* history of creations, refusals and evictions each equals the number of live
\* rooms of its creator (RoomCreateTracker.Register and Unregister).
THEOREM TrackerIsExact == Spec => []TrackerExact
  <1>1. Init => TrackerExact
    BY TrackerInit, ConstantsAssumption
  <1>2. Base /\ TrackerExact /\ [Next]_vars => TrackerExact'
    BY TrackerStep, ConstantsAssumption
  <1> QED
    BY <1>1, <1>2, BaseAlways, ConstantsAssumption, PTL DEF Spec

-----------------------------------------------------------------------------
(* The caps *)

\* A *Room that does not exist yet has no members: the cap of a new room,
\* which its kind decides, is kept from the start.
UnbornEmpty == \A r \in RoomIds \ born : members[r] = {}

\* Room.Members and Client.rooms change in these steps only.
LEMMA MembershipChanges ==
    ASSUME Next
    PROVE  \/ UNCHANGED <<members, joined>>
           \/ \E c \in Clients : JoinLookup(c)
           \/ \E c \in Clients : JoinEnter(c)
           \/ \E c \in Clients, n \in Names : PartLookup(c, n)
           \/ \E c \in Clients : PartLeave(c)
           \/ HubPart
           \/ HubDone
  <1>1. ASSUME NEW c \in Clients, CreateSteps(c)
        PROVE  UNCHANGED <<members, joined>>
    BY <1>1 DEF CreateSteps, CountUserCreated, CanCreate, CreateRefused,
                CreateExists, Create
  <1>2. ASSUME NEW c \in Clients, JoinSteps(c)
        PROVE  \/ UNCHANGED <<members, joined>>
               \/ JoinLookup(c) \/ JoinEnter(c) \/ PartLeave(c)
               \/ \E n \in Names : PartLookup(c, n)
    BY <1>2 DEF JoinSteps, handleJoin, handleHello, Disconnect
  <1>3. ASSUME HubSteps
        PROVE  UNCHANGED <<members, joined>> \/ HubPart \/ HubDone
    BY <1>3 DEF HubSteps, HubTake, HubLookup
  <1>4. ASSUME EvictSteps \/ ClockSteps
        PROVE  UNCHANGED <<members, joined>>
    BY <1>4 DEF EvictSteps, EvictStart, EvictCount, EvictAge, EvictDelete,
                EvictDone, ClockSteps, RoomTurnsQuiet, RoomTurnsAged,
                IpWindowSlides, SessWindowSlides
  <1> QED
    BY <1>1, <1>2, <1>3, <1>4 DEF Next

\* A step that only takes members out of rooms, or leaves them.
Shrinking == \A r \in RoomIds : members'[r] \subseteq members[r]

LEMMA PartShrinks ==
    ASSUME TypeOK, NEW c, NEW r, Part(c, r)
    PROVE  Shrinking
  BY DEF Part, Shrinking, TypeOK

LEMMA MembersGrowOnEnter ==
    ASSUME Base, Next
    PROVE  Shrinking \/ \E c \in Clients : JoinEnter(c)
  <1> TypeOK
    BY DEF Base
  <1>1. CASE UNCHANGED members
    BY <1>1 DEF Shrinking
  <1>2. ASSUME NEW c \in Clients, PartLeave(c)
        PROVE  Shrinking
    BY <1>2, PartShrinks DEF PartLeave
  <1>3. CASE HubPart
    BY <1>3, PartShrinks DEF HubPart
  <1> QED
    BY <1>1, <1>2, <1>3, MembershipChanges
    DEF JoinLookup, PartLookup, HubDone

LEMMA UnbornEmptyStep ==
    ASSUME Base, UnbornEmpty, [Next]_vars
    PROVE  UnbornEmpty'
  <1>1. born \subseteq born'
    <2>1. CASE UNCHANGED regVars
      BY <2>1 DEF regVars
    <2> QED
      BY <2>1, RegistryChanges DEF Create, EvictDelete, vars
  <1>2. CASE UNCHANGED members
    BY <1>1, <1>2 DEF UnbornEmpty
  <1>3. CASE Shrinking
    BY <1>1, <1>3 DEF Shrinking, UnbornEmpty
  <1>4. ASSUME NEW c \in Clients, JoinEnter(c)
        PROVE  UnbornEmpty'
    <2>1. job[c].room \in born
      BY <1>4 DEF JoinEnter, Base, Locals, HandlerLocals
    <2> QED
      BY <1>1, <1>4, <2>1 DEF JoinEnter, UnbornEmpty, Base, TypeOK
  <1> QED
    BY <1>2, <1>3, <1>4, MembersGrowOnEnter DEF vars

LEMMA CapIsNatural ==
    ASSUME LimitsAssumption, NEW n, NEW e
    PROVE  memberCap(n, e) \in Nat
  BY DEF LimitsAssumption, memberCap

RoomCaps ==
    \A r \in RoomIds :
        Cardinality(members[r]) <= memberCap(info[r].name, info[r].encrypted)

JoinCaps == \A c \in Clients : Cardinality(joined[c]) <= MaxJoinedRooms

LEMMA MembersFinite ==
    ASSUME ConstantsAssumption, TypeOK
    PROVE  /\ \A r \in RoomIds : IsFiniteSet(members[r])
           /\ \A c \in Clients : IsFiniteSet(joined[c])
  <1>1. IsFiniteSet(AllNames)
    BY FS_AddElement DEF ConstantsAssumption, AllNames
  <1>2. /\ \A r \in RoomIds : members[r] \subseteq Clients
        /\ \A c \in Clients : joined[c] \subseteq AllNames
    BY DEF TypeOK
  <1> QED
    BY <1>1, <1>2, FS_Subset DEF ConstantsAssumption

\* Adding one to a set below its cap keeps it within the cap.
LEMMA OneMore ==
    ASSUME NEW S, IsFiniteSet(S), NEW x, NEW L \in Nat, Cardinality(S) < L
    PROVE  Cardinality(S \cup {x}) <= L
  <1>1. Cardinality(S) \in Nat
    BY FS_CardinalityType
  <1>2. Cardinality(S \cup {x}) \in {Cardinality(S), Cardinality(S) + 1}
    BY FS_AddElement
  <1> QED
    BY <1>1, <1>2

LEMMA SmallerIsWithin ==
    ASSUME NEW S, IsFiniteSet(S), NEW T, T \subseteq S, NEW L \in Nat,
           Cardinality(S) <= L
    PROVE  Cardinality(T) <= L
  <1>1. IsFiniteSet(T) /\ Cardinality(T) <= Cardinality(S)
    BY FS_Subset
  <1>2. Cardinality(T) \in Nat /\ Cardinality(S) \in Nat
    BY <1>1, FS_CardinalityType
  <1> QED
    BY <1>1, <1>2

\* Room.Join tests the cap and adds the member under one lock; what a room
\* is, and so its cap, never changes once it lives.
LEMMA RoomCapsStep ==
    ASSUME ConstantsAssumption, LimitsAssumption, Base, UnbornEmpty, RoomCaps,
           [Next]_vars
    PROVE  RoomCaps'
  <1> SUFFICES ASSUME NEW r \in RoomIds
               PROVE  Cardinality(members'[r])
                        <= memberCap(info'[r].name, info'[r].encrypted)
    BY DEF RoomCaps, memberCap
  <1> TypeOK
    BY DEF Base
  <1>1. CASE info'[r] = info[r]
    <2> DEFINE cap == memberCap(info[r].name, info[r].encrypted)
    <2>1. cap \in Nat /\ Cardinality(members[r]) <= cap
      BY CapIsNatural DEF RoomCaps
    <2>2. IsFiniteSet(members[r])
      BY MembersFinite
    <2>3. CASE members'[r] \subseteq members[r]
      <3> HIDE DEF cap
      <3>1. Cardinality(members'[r]) <= cap
        BY <2>1, <2>2, <2>3, SmallerIsWithin
      <3> QED
        BY <1>1, <3>1 DEF cap
    <2>4. ASSUME NEW c \in Clients, JoinEnter(c), ~(members'[r] \subseteq members[r])
          PROVE  Cardinality(members'[r]) <= cap
      <3>1. /\ members'[r] = members[r] \cup {c} /\ job[c].room = r /\ ~Full(r)
        BY <2>4 DEF JoinEnter, TypeOK
      <3>2. Cardinality(members[r]) < cap
        BY <3>1, <2>1, <2>2, FS_CardinalityType DEF Full
      <3> HIDE DEF cap
      <3> QED
        BY <2>1, <2>2, <3>1, <3>2, OneMore
    <2> QED
      BY <1>1, <2>3, <2>4, MembersGrowOnEnter DEF Shrinking, vars
  <1>2. CASE info'[r] # info[r]
    <2>1. PICK c \in Clients : Create(c, r)
      BY <1>2, RegistryChanges, CreateEffect DEF regVars, EvictDelete, vars
    <2>2. members'[r] = {}
      BY <2>1, CreateEffect DEF Create, UnbornEmpty
    <2> QED
      BY <2>2, CapIsNatural, FS_EmptySet
  <1> QED
    BY <1>1, <1>2

\* joinRoom tests the cap of a connection and adds the name under c.mu.
LEMMA JoinCapsStep ==
    ASSUME ConstantsAssumption, LimitsAssumption, Base, JoinCaps, [Next]_vars
    PROVE  JoinCaps'
  <1> SUFFICES ASSUME NEW c \in Clients
               PROVE  Cardinality(joined'[c]) <= MaxJoinedRooms
    BY DEF JoinCaps
  <1>1. /\ MaxJoinedRooms \in Nat /\ IsFiniteSet(joined[c])
        /\ Cardinality(joined[c]) <= MaxJoinedRooms
    BY MembersFinite DEF JoinCaps, LimitsAssumption, Base
  <1>2. joined \in [Clients -> SUBSET AllNames]
    BY DEF Base, TypeOK
  <1>3. CASE joined'[c] \subseteq joined[c]
    BY <1>1, <1>3, SmallerIsWithin
  <1>4. ASSUME NEW d \in Clients, JoinLookup(d), ~(joined'[c] \subseteq joined[c])
        PROVE  Cardinality(joined'[c]) <= MaxJoinedRooms
    <2>1. /\ joined'[c] = joined[c] \cup {job[c].name}
          /\ Cardinality(joined[c]) < MaxJoinedRooms
      BY <1>2, <1>4 DEF JoinLookup, Reserve
    <2> QED
      BY <1>1, <2>1, OneMore
  <1>5. \/ joined'[c] \subseteq joined[c]
        \/ \E d \in Clients : JoinLookup(d)
    <2>1. ASSUME NEW d \in Clients, JoinEnter(d) \/ PartLeave(d)
          PROVE  joined'[c] \subseteq joined[c]
      BY <1>2, <2>1 DEF JoinEnter, Undo, PartLeave
    <2>2. ASSUME NEW d \in Clients, NEW n \in Names, PartLookup(d, n)
          PROVE  joined'[c] \subseteq joined[c]
      BY <1>2, <2>2 DEF PartLookup
    <2>3. CASE HubPart \/ HubDone
      BY <1>2, <2>3 DEF HubPart, HubDone
    <2> QED
      BY <2>1, <2>2, <2>3, MembershipChanges DEF vars
  <1> QED
    BY <1>3, <1>4, <1>5

LEMMA CapsInit ==
    ASSUME ConstantsAssumption, LimitsAssumption, Init
    PROVE  UnbornEmpty /\ RoomCaps /\ JoinCaps
  <1>1. /\ \A r \in RoomIds : members[r] = {}
        /\ \A c \in Clients : joined[c] = {}
    BY DEF Init
  <1>2. MaxJoinedRooms \in Nat
    BY DEF LimitsAssumption
  <1>3. /\ \A r \in RoomIds : Cardinality(members[r]) = 0
        /\ \A c \in Clients : Cardinality(joined[c]) = 0
    BY <1>1, FS_EmptySet
  <1>4. RoomCaps
    <2> SUFFICES ASSUME NEW r \in RoomIds
                 PROVE  0 <= memberCap(info[r].name, info[r].encrypted)
      BY <1>3 DEF RoomCaps
    <2>1. memberCap(info[r].name, info[r].encrypted) \in Nat
      BY CapIsNatural
    <2> QED
      BY <2>1
  <1> QED
    BY <1>1, <1>2, <1>3, <1>4 DEF UnbornEmpty, JoinCaps

\* No interleaving of joins, parts, creations and evictions overfills a room
\* (Room.Join) or puts a connection into too many rooms (joinRoom).
THEOREM CapsAlwaysHold == Spec => []CapsHold
  <1> DEFINE Caps == UnbornEmpty /\ RoomCaps /\ JoinCaps
  <1>1. Init => Caps
    BY CapsInit, ConstantsAssumption, LimitsAssumption
  <1>2. Base /\ Caps /\ [Next]_vars => Caps'
    BY UnbornEmptyStep, RoomCapsStep, JoinCapsStep, ConstantsAssumption,
       LimitsAssumption
  <1>3. Caps => CapsHold
    BY DEF CapsHold, RoomCaps, JoinCaps
  <1> QED
    BY <1>1, <1>2, <1>3, BaseAlways, ConstantsAssumption, PTL DEF Spec

-----------------------------------------------------------------------------
(* The quotas *)

\* Those that CanCreate granted a room, and those it will grant one if their
\* other quotas let it: they were told that a room was left.
Promised == {c \in Clients : pc[c] = "make"
                              \/ (pc[c] = "quota" /\ job[c].roomLeft)}

TotalBounded == OvershootOf(Cardinality(UserRooms) + Cardinality(Promised),
                            MaxTotalRooms + peak)

PerIpBounded ==
    \A ip \in IPs :
        OvershootOf(Cardinality(CreatedByIp(ip)) + Cardinality(Making(From(ip))),
                    MaxRoomsPerIP + ipPeak[ip])

PeaksReach ==
    /\ Cardinality(InFlight(Clients)) <= peak
    /\ \A ip \in IPs : Cardinality(InFlight(From(ip))) <= ipPeak[ip]

\* Whoever is admitted while there is room, is one of those in flight.
LEMMA AdmitOne ==
    ASSUME NEW F, IsFiniteSet(F), NEW P, P \subseteq F,
           NEW n \in Nat, NEW L \in Nat, n < L,
           NEW most \in Nat, Cardinality(F) <= most
    PROVE  OvershootOf(n + Cardinality(P), L + most)
  <1>1. Cardinality(P) \in Nat /\ Cardinality(F) \in Nat /\ Cardinality(P) <= Cardinality(F)
    BY FS_Subset, FS_CardinalityType
  <1> QED
    BY <1>1 DEF OvershootOf

\* The count in flight falls, or a room takes its place.
LEMMA FewerInFlight ==
    ASSUME NEW P, IsFiniteSet(P), NEW Q, Q \subseteq P,
           NEW S, IsFiniteSet(S), NEW T, T \subseteq S,
           NEW B \in Nat, NEW C \in Nat, B <= C,
           OvershootOf(Cardinality(S) + Cardinality(P), B)
    PROVE  OvershootOf(Cardinality(T) + Cardinality(Q), C)
  <1>1. /\ Cardinality(P) \in Nat /\ Cardinality(Q) \in Nat
        /\ Cardinality(S) \in Nat /\ Cardinality(T) \in Nat
        /\ Cardinality(Q) <= Cardinality(P) /\ Cardinality(T) <= Cardinality(S)
    BY FS_Subset, FS_CardinalityType
  <1> QED
    BY <1>1 DEF OvershootOf

LEMMA FlightEnds ==
    ASSUME NEW P, IsFiniteSet(P), NEW c \in P, NEW S, IsFiniteSet(S),
           NEW r, r \notin S, NEW B \in Nat,
           OvershootOf(Cardinality(S) + Cardinality(P), B)
    PROVE  OvershootOf(Cardinality(S \cup {r}) + Cardinality(P \ {c}), B)
  <1>1. Cardinality(P) \in Nat /\ Cardinality(S) \in Nat
    BY FS_CardinalityType
  <1>2. Cardinality(P \ {c}) = Cardinality(P) - 1
    BY CountRemove
  <1>3. Cardinality(S \cup {r}) = Cardinality(S) + 1
    BY CountAdd
  <1>4. Cardinality(S \cup {r}) + Cardinality(P \ {c}) = Cardinality(S) + Cardinality(P)
    BY <1>1, <1>2, <1>3
  <1> QED
    BY <1>4

\* How the steps that matter to a quota move the connections in flight.
LEMMA FlightChanges ==
    ASSUME ConstantsAssumption, Base, [Next]_vars
    PROVE  \/ /\ Promised' \subseteq Promised /\ Making(Clients)' \subseteq Making(Clients)
              /\ InFlight(Clients)' \subseteq InFlight(Clients) /\ UNCHANGED peakVars
              /\ UserRooms' \subseteq UserRooms
              /\ \A ip \in IPs : CreatedByIp(ip)' \subseteq CreatedByIp(ip)
           \/ \E c \in Clients, n \in Names, e \in Kinds, s \in Sids \cup {NoSid} :
                CountUserCreated(c, n, e, s)
           \/ \E c \in Clients : CanCreate(c)
           \/ \E c \in Clients, r \in RoomIds : Create(c, r)
  <1> DEFINE Fewer == /\ Promised' \subseteq Promised
                      /\ Making(Clients)' \subseteq Making(Clients)
                      /\ InFlight(Clients)' \subseteq InFlight(Clients)
             NoMore == /\ UNCHANGED peakVars
                       /\ UserRooms' \subseteq UserRooms
                       /\ \A ip \in IPs : CreatedByIp(ip)' \subseteq CreatedByIp(ip)
  <1> pc \in [Clients -> Steps] /\ job \in [Clients -> Job]
    BY DEF Base, TypeOK
  <1>1. ASSUME UNCHANGED <<regVars, peakVars>>
        PROVE  NoMore
    BY <1>1 DEF regVars, UserRooms, Registered, UserCreated, CreatedByIp
  <1>2. ASSUME NEW c \in Clients, NEW step \in Steps \ {"make", "quota"}, NEW j,
               Goto(c, step, j)
        PROVE  Fewer
    BY <1>2 DEF Goto, Promised, Making, InFlight
  <1>3. ASSUME UNCHANGED <<pc, job>>
        PROVE  Fewer
    BY <1>3 DEF Promised, Making, InFlight
  <1>4. ASSUME NEW c \in Clients, CreateRefused(c) \/ CreateExists(c)
        PROVE  Fewer /\ NoMore
    BY <1>1, <1>2, <1>4 DEF CreateRefused, CreateExists, Finish, Steps
  <1>5. ASSUME NEW c \in Clients, JoinSteps(c)
        PROVE  Fewer /\ NoMore
    <2>1. NoMore
      BY <1>1, <1>5
      DEF JoinSteps, handleJoin, handleHello, JoinLookup, JoinEnter, PartLookup, PartLeave, Disconnect
    <2>2. Fewer
      <3>1. \/ UNCHANGED <<pc, job>>
            \/ \E step \in Steps \ {"make", "quota"} : \E j : Goto(c, step, j)
        BY <1>5
        DEF JoinSteps, handleJoin, handleHello, JoinLookup, JoinEnter, PartLookup, PartLeave,
            Disconnect, Finish, Steps
      <3> QED
        BY <1>2, <1>3, <3>1
    <2> QED
      BY <2>1, <2>2
  <1>6. ASSUME HubSteps
        PROVE  Fewer /\ NoMore
    <2>1. NoMore
      BY <1>1, <1>6 DEF HubSteps, HubTake, HubLookup, HubPart, HubDone
    <2>2. hub \in Removal
      BY DEF Base, TypeOK
    <2>3. \/ UNCHANGED <<pc, job>>
          \/ \E c \in Clients, step \in Steps \ {"make", "quota"} : Goto(c, step, NoJob)
      BY <1>6, <2>2 DEF HubSteps, HubTake, HubLookup, HubPart, HubDone, Steps, Removal
    <2> QED
      BY <1>2, <1>3, <2>1, <2>3
  <1>7. ASSUME EvictSteps \/ ClockSteps \/ UNCHANGED vars
        PROVE  Fewer /\ NoMore
    <2>1. Fewer
      BY <1>3, <1>7
      DEF EvictSteps, EvictStart, EvictCount, EvictAge, EvictDelete, EvictDone, ClockSteps,
          RoomTurnsQuiet, RoomTurnsAged, IpWindowSlides, SessWindowSlides, vars
    <2>2. CASE EvictDelete
      <3>1. UserRooms' \subseteq UserRooms /\ info' = info /\ UNCHANGED peakVars
        BY <2>2, UserRoomsAfterEvict DEF EvictDelete
      <3> QED
        BY <2>1, <3>1 DEF CreatedByIp
    <2>3. CASE UNCHANGED <<regVars, peakVars>>
      BY <1>1, <2>1, <2>3
    <2> QED
      BY <1>7, <2>2, <2>3
      DEF EvictSteps, EvictStart, EvictCount, EvictAge, EvictDone, ClockSteps,
          RoomTurnsQuiet, RoomTurnsAged, IpWindowSlides, SessWindowSlides, vars
  <1> QED
    BY <1>4, <1>5, <1>6, <1>7 DEF Next, CreateSteps

LEMMA FlightFinite ==
    ASSUME ConstantsAssumption, LimitsAssumption, TypeOK
    PROVE  /\ MaxTotalRooms + peak \in Nat /\ MaxTotalRooms \in Nat /\ peak \in Nat
           /\ IsFiniteSet(Promised) /\ IsFiniteSet(UserRooms) /\ Cardinality(UserRooms) \in Nat
           /\ IsFiniteSet(InFlight(Clients))
           /\ \A ip \in IPs :
                /\ MaxRoomsPerIP + ipPeak[ip] \in Nat /\ ipPeak[ip] \in Nat
                /\ IsFiniteSet(InFlight(From(ip))) /\ IsFiniteSet(Making(From(ip)))
                /\ IsFiniteSet(CreatedByIp(ip)) /\ Cardinality(CreatedByIp(ip)) \in Nat
           /\ MaxRoomsPerIP \in Nat
  <1>1. IsFiniteSet(Promised) /\ IsFiniteSet(InFlight(Clients))
    BY FS_Subset DEF ConstantsAssumption, Promised, InFlight
  <1>2. ASSUME NEW ip \in IPs
        PROVE  IsFiniteSet(InFlight(From(ip))) /\ IsFiniteSet(Making(From(ip)))
    BY FS_Subset DEF ConstantsAssumption, From, Making, InFlight
  <1>3. /\ MaxTotalRooms \in Nat /\ peak \in Nat /\ MaxRoomsPerIP \in Nat
        /\ \A ip \in IPs : ipPeak[ip] \in Nat
    BY DEF LimitsAssumption, TypeOK
  <1>4. /\ IsFiniteSet(UserRooms) /\ Cardinality(UserRooms) \in Nat
        /\ \A ip \in IPs :
             IsFiniteSet(CreatedByIp(ip)) /\ Cardinality(CreatedByIp(ip)) \in Nat
    BY RoomsFinite, FS_CardinalityType
  <1>5. /\ MaxTotalRooms + peak \in Nat
        /\ \A ip \in IPs : MaxRoomsPerIP + ipPeak[ip] \in Nat
    BY <1>3
  <1> QED
    BY <1>1, <1>2, <1>3, <1>4, <1>5

\* A creation in flight is counted in the peaks from its start on.
LEMMA PeaksReachStep ==
    ASSUME ConstantsAssumption, LimitsAssumption, Base, PeaksReach, [Next]_vars
    PROVE  PeaksReach'
  <1> TypeOK /\ pc \in [Clients -> Steps]
    BY DEF Base, TypeOK
  <1>1. \A ip \in IPs : IpOf \in [Clients -> IPs] /\ From(ip)' = From(ip)
    BY DEF From, ConstantsAssumption
  <1>2. ASSUME InFlight(Clients)' \subseteq InFlight(Clients), UNCHANGED peakVars
        PROVE  PeaksReach'
    <2>1. Cardinality(InFlight(Clients)') <= Cardinality(InFlight(Clients))
          /\ Cardinality(InFlight(Clients)') \in Nat /\ Cardinality(InFlight(Clients)) \in Nat
      BY <1>2, FlightFinite, FS_Subset, FS_CardinalityType
    <2>2. ASSUME NEW ip \in IPs
          PROVE  Cardinality(InFlight(From(ip))') <= ipPeak'[ip]
      <3>1. InFlight(From(ip))' \subseteq InFlight(From(ip))
        BY <1>2 DEF InFlight, From
      <3>2. Cardinality(InFlight(From(ip))') <= Cardinality(InFlight(From(ip)))
            /\ Cardinality(InFlight(From(ip))') \in Nat
            /\ Cardinality(InFlight(From(ip))) \in Nat
        BY <3>1, FlightFinite, FS_Subset, FS_CardinalityType
      <3>3. Cardinality(InFlight(From(ip))) <= ipPeak[ip] /\ ipPeak[ip] \in Nat
            /\ ipPeak' = ipPeak
        BY <1>2, FlightFinite DEF PeaksReach, peakVars
      <3> QED
        BY <3>2, <3>3
    <2>3. Cardinality(InFlight(Clients)) <= peak /\ peak \in Nat /\ peak' = peak
      BY <1>2, FlightFinite DEF PeaksReach, peakVars
    <2>4. Cardinality(InFlight(Clients)') <= peak'
      BY <2>1, <2>3
    <2> QED
      BY <2>2, <2>4 DEF PeaksReach
  <1>3. ASSUME NEW c \in Clients, NEW n \in Names, NEW e \in Kinds,
               NEW s \in Sids \cup {NoSid}, CountUserCreated(c, n, e, s)
        PROVE  PeaksReach'
    <2>1. /\ peak' \in Nat /\ ipPeak' \in [IPs -> Nat]
          /\ peak' >= Cardinality(InFlight(Clients)')
          /\ \A ip \in IPs : ipPeak'[ip] >= ipPeak[ip]
          /\ ipPeak'[IpOf[c]] >= Cardinality(InFlight(From(IpOf[c]))')
      BY <1>3, PeaksTyped DEF TypeOK
    <2>2. IsFiniteSet(InFlight(Clients)')
      BY FS_Subset DEF ConstantsAssumption, InFlight
    <2>3. Cardinality(InFlight(Clients)') <= peak'
      BY <2>1, <2>2, FS_CardinalityType
    <2>4. ASSUME NEW ip \in IPs
          PROVE  Cardinality(InFlight(From(ip))') <= ipPeak'[ip]
      <3>1. IsFiniteSet(InFlight(From(ip))')
        BY FS_Subset DEF ConstantsAssumption, InFlight, From
      <3>2. Cardinality(InFlight(From(ip))') \in Nat
        BY <3>1, FS_CardinalityType
      <3>3. CASE ip = IpOf[c]
        BY <2>1, <3>2, <3>3
      <3>4. CASE ip # IpOf[c]
        <4>1. InFlight(From(ip))' = InFlight(From(ip))
          BY <1>3, <3>4 DEF CountUserCreated, Goto, InFlight, From
        <4>2. Cardinality(InFlight(From(ip))) <= ipPeak[ip] /\ ipPeak[ip] \in Nat
          BY FlightFinite DEF PeaksReach
        <4> QED
          BY <2>1, <3>2, <4>1, <4>2
      <3> QED
        BY <3>3, <3>4
    <2> QED
      BY <2>3, <2>4 DEF PeaksReach
  <1>4. ASSUME NEW c \in Clients, CanCreate(c)
        PROVE  PeaksReach'
    <2>1. InFlight(Clients)' \subseteq InFlight(Clients) /\ UNCHANGED peakVars
      BY <1>4 DEF CanCreate, Goto, Finish, InFlight
    <2> QED
      BY <1>2, <2>1
  <1>5. ASSUME NEW c \in Clients, NEW r \in RoomIds, Create(c, r)
        PROVE  PeaksReach'
    <2>1. InFlight(Clients)' \subseteq InFlight(Clients) /\ UNCHANGED peakVars
      BY <1>5 DEF Create, Goto, InFlight
    <2> QED
      BY <1>2, <2>1
  <1> QED
    BY <1>2, <1>3, <1>4, <1>5, FlightChanges

LEMMA MoreAllowed ==
    ASSUME NEW L \in Nat, NEW m \in Nat, NEW n \in Nat, n >= m
    PROVE  L + m <= L + n
  OBVIOUS

\* CanCreate trusts a count of the rooms taken before: each connection that was
\* told there is room is counted against the limit until it gives up.
LEMMA TotalBoundedStep ==
    ASSUME ConstantsAssumption, LimitsAssumption, Base, PeaksReach', TypeOK',
           TotalBounded, [Next]_vars
    PROVE  TotalBounded'
  <1> DEFINE B == MaxTotalRooms + peak
             Goal == OvershootOf(Cardinality(UserRooms') + Cardinality(Promised'), B')
  <1> SUFFICES Goal
    BY DEF TotalBounded, OvershootOf
  <1>1. /\ IsFiniteSet(Promised) /\ IsFiniteSet(UserRooms)
        /\ B \in Nat /\ MaxTotalRooms \in Nat /\ Cardinality(UserRooms) \in Nat
        /\ peak \in Nat /\ peak' \in Nat /\ B' \in Nat
        /\ OvershootOf(Cardinality(UserRooms) + Cardinality(Promised), B)
    BY FlightFinite DEF Base, TypeOK, TotalBounded
  <1> pc \in [Clients -> Steps] /\ job \in [Clients -> Job]
    BY DEF Base, TypeOK
  <1>2. CASE Promised' \subseteq Promised /\ UserRooms' \subseteq UserRooms /\ B <= B'
    <2> HIDE DEF B
    <2> QED
      BY <1>1, <1>2, FewerInFlight
  <1>3. ASSUME NEW c \in Clients, NEW n \in Names, NEW e \in Kinds,
               NEW s \in Sids \cup {NoSid}, CountUserCreated(c, n, e, s)
        PROVE  Goal
    <2>1. UserRooms' = UserRooms
      BY <1>3 DEF CountUserCreated, regVars, UserRooms, Registered, UserCreated
    <2>2. CASE Cardinality(UserRooms) < MaxTotalRooms
      <3>1. Promised' \subseteq InFlight(Clients)'
        BY DEF Promised, InFlight
      <3>2. IsFiniteSet(InFlight(Clients)')
        BY FS_Subset DEF ConstantsAssumption, InFlight
      <3>3. Cardinality(InFlight(Clients)') <= peak'
        BY DEF PeaksReach
      <3>4. OvershootOf(Cardinality(UserRooms) + Cardinality(Promised'), MaxTotalRooms + peak')
        BY <1>1, <2>2, <3>1, <3>2, <3>3, AdmitOne
      <3> QED
        BY <2>1, <3>4
    <2>3. CASE ~(Cardinality(UserRooms) < MaxTotalRooms)
      <3>1. Promised' \subseteq Promised
        BY <1>3, <2>3 DEF CountUserCreated, Goto, NoJob, Promised
      <3>2. peak' >= peak
        BY <1>3, PeaksTyped DEF Base, TypeOK
      <3>3. UserRooms' \subseteq UserRooms
        BY <2>1
      <3>4. MaxTotalRooms \in Nat /\ peak \in Nat /\ peak' \in Nat
        BY <1>1
      <3>5. MaxTotalRooms + peak <= MaxTotalRooms + peak'
        BY <3>2, <3>4, MoreAllowed
      <3> QED
        BY <1>2, <3>1, <3>3, <3>5
    <2> QED
      BY <2>2, <2>3
  <1>4. ASSUME NEW c \in Clients, CanCreate(c)
        PROVE  Goal
    <2>1. UserRooms' = UserRooms
      BY <1>4 DEF CanCreate, regVars, UserRooms, Registered, UserCreated
    <2>2. Promised' \subseteq Promised
      BY <1>4 DEF CanCreate, QuotaOpen, Goto, Finish, NoJob, Promised
    <2>3. peak' = peak
      BY <1>4 DEF CanCreate, peakVars
    <2> QED
      BY <1>1, <1>2, <2>1, <2>2, <2>3
  <1>5. ASSUME NEW c \in Clients, NEW r \in RoomIds, Create(c, r)
        PROVE  Goal
    <2>1. UserRooms' = UserRooms \cup {r} /\ r \notin UserRooms
      BY <1>5, UserRoomsAfterCreate
    <2>2. Promised' = Promised \ {c} /\ c \in Promised
      BY <1>5 DEF Create, Goto, Promised
    <2>3. peak' = peak
      BY <1>5 DEF Create, peakVars
    <2>4. B' = B
      BY <2>3
    <2> HIDE DEF B
    <2> QED
      BY <1>1, <2>1, <2>2, <2>4, FlightEnds
  <1>6. CASE Promised' \subseteq Promised /\ UserRooms' \subseteq UserRooms /\ UNCHANGED peakVars
    BY <1>1, <1>2, <1>6 DEF peakVars
  <1> QED
    BY <1>3, <1>4, <1>5, <1>6, FlightChanges

\* The same of the quota of one address, which CanCreate reads in the counters.
LEMMA PerIpBoundedStep ==
    ASSUME ConstantsAssumption, LimitsAssumption, Base, PeaksReach, PeaksReach', TypeOK',
           TrackerExact, PerIpBounded, [Next]_vars
    PROVE  PerIpBounded'
  <1> SUFFICES ASSUME NEW ip \in IPs
               PROVE  OvershootOf(Cardinality(CreatedByIp(ip)') + Cardinality(Making(From(ip))'),
                                  MaxRoomsPerIP + ipPeak'[ip])
    BY DEF PerIpBounded, From, Making, OvershootOf
  <1> DEFINE F == From(ip)
             S == CreatedByIp(ip)
             B == MaxRoomsPerIP + ipPeak[ip]
             Goal == OvershootOf(Cardinality(S') + Cardinality(Making(F)'), B')
  <1>1. /\ IsFiniteSet(Making(F)) /\ IsFiniteSet(S) /\ F \subseteq Clients
        /\ B \in Nat /\ MaxRoomsPerIP \in Nat /\ Cardinality(S) \in Nat
        /\ ipPeak[ip] \in Nat /\ ipPeak'[ip] \in Nat /\ B' \in Nat
        /\ OvershootOf(Cardinality(S) + Cardinality(Making(F)), B)
    <2>1. /\ IsFiniteSet(Making(F)) /\ IsFiniteSet(S) /\ Cardinality(S) \in Nat
          /\ B \in Nat /\ MaxRoomsPerIP \in Nat /\ ipPeak[ip] \in Nat
      BY FlightFinite DEF Base
    <2>2. ipPeak'[ip] \in Nat /\ MaxRoomsPerIP + ipPeak'[ip] \in Nat
      BY <2>1 DEF TypeOK
    <2> QED
      BY <2>1, <2>2 DEF PerIpBounded, From
  <1> pc \in [Clients -> Steps] /\ job \in [Clients -> Job]
    BY DEF Base, TypeOK
  <1>2. CASE Making(F)' \subseteq Making(F) /\ S' \subseteq S /\ B <= B'
    <2>1. Goal
      <3> HIDE DEF B, S, F
      <3> QED
        BY <1>1, <1>2, FewerInFlight
    <2> QED
      BY <2>1
  <1>3. CASE /\ Making(Clients)' \subseteq Making(Clients) /\ S' \subseteq S
             /\ UNCHANGED peakVars
    <2>1. Making(F)' \subseteq Making(F) /\ B <= B'
      BY <1>1, <1>3 DEF Making, From, peakVars
    <2> QED
      BY <1>2, <1>3, <2>1
  <1>4. ASSUME NEW c \in Clients, NEW n \in Names, NEW e \in Kinds,
               NEW s \in Sids \cup {NoSid}, CountUserCreated(c, n, e, s)
        PROVE  Goal
    <2>1. S' = S
      BY <1>4 DEF CountUserCreated, regVars, CreatedByIp, UserRooms, Registered, UserCreated
    <2>2. Making(F)' \subseteq Making(F)
      BY <1>4 DEF CountUserCreated, Goto, Making, From
    <2>3. ipPeak'[ip] >= ipPeak[ip]
      BY <1>4, PeaksTyped DEF Base, TypeOK
    <2> QED
      BY <1>1, <1>2, <2>1, <2>2, <2>3
  <1>5. ASSUME NEW c \in Clients, CanCreate(c)
        PROVE  Goal
    <2>1. S' = S /\ ipPeak' = ipPeak
      BY <1>5 DEF CanCreate, regVars, peakVars, CreatedByIp, UserRooms, Registered, UserCreated
    <2>2. CASE c \in F /\ QuotaOpen(c)
      <3>1. IpOf[c] = ip
        BY <2>2 DEF From
      <3>2. Cardinality(S) < MaxRoomsPerIP
        BY <2>2, <3>1 DEF QuotaOpen, TrackerExact
      <3> DEFINE Now == InFlight(F)'
      <3>3. Making(F)' \subseteq Now
        BY DEF Making, InFlight, From
      <3>4. IsFiniteSet(Now) /\ Cardinality(Now) <= ipPeak'[ip]
        <4>1. IsFiniteSet(Now)
          BY FS_Subset DEF ConstantsAssumption, InFlight, From
        <4> QED
          BY <4>1 DEF PeaksReach, From
      <3>5. OvershootOf(Cardinality(S) + Cardinality(Making(F)'), MaxRoomsPerIP + ipPeak'[ip])
        <4> HIDE DEF S, F, Now
        <4> QED
          BY <1>1, <3>2, <3>3, <3>4, AdmitOne
      <3> QED
        BY <2>1, <3>5
    <2>3. CASE ~(c \in F /\ QuotaOpen(c))
      <3>1. Making(F)' \subseteq Making(F)
        BY <1>5, <2>3 DEF CanCreate, Goto, Finish, Making, From
      <3> QED
        BY <1>1, <1>2, <2>1, <3>1
    <2> QED
      BY <2>2, <2>3
  <1>6. ASSUME NEW c \in Clients, NEW r \in RoomIds, Create(c, r)
        PROVE  Goal
    <2>1. /\ UserRooms' = UserRooms \cup {r} /\ r \notin UserRooms
          /\ info'[r].ip = IpOf[c] /\ \A q \in RoomIds \ {r} : info'[q] = info[q]
          /\ UserRooms \subseteq RoomIds
      BY <1>6, UserRoomsAfterCreate, CreateEffect DEF UserRooms, Registered
    <2>2. pc' = [pc EXCEPT ![c] = "lookup"] /\ pc[c] = "make" /\ B' = B
      BY <1>6 DEF Create, Goto, peakVars
    <2>3. CASE c \in F
      <3>1. S' = S \cup {r} /\ r \notin S
        BY <2>1, <2>3 DEF CreatedByIp, From
      <3>2. Making(F)' = Making(F) \ {c} /\ c \in Making(F)
        BY <2>2, <2>3 DEF Making, From
      <3> HIDE DEF S, F, B
      <3> QED
        BY <1>1, <2>2, <3>1, <3>2, FlightEnds
    <2>4. CASE c \notin F
      <3>1. S' \subseteq S
        BY <2>1, <2>4 DEF CreatedByIp, From
      <3>2. Making(F)' \subseteq Making(F)
        BY <2>2 DEF Making, From
      <3> QED
        BY <1>1, <1>2, <2>2, <3>1, <3>2
    <2> QED
      BY <2>3, <2>4
  <1>7. Goal
    BY <1>3, <1>4, <1>5, <1>6, FlightChanges
  <1> QED
    BY <1>7

\* The quotas on live rooms, of the server and of one address, are passed by
\* less than the most creations that were ever in flight at once, although
\* bcrypt stands between the test and the insertion (CanCreate, Create).
THEOREM QuotaIsBounded == Spec => []QuotaOvershootBounded
  <1> DEFINE Quotas == PeaksReach /\ TotalBounded /\ TrackerExact /\ PerIpBounded
  <1>1. Init => Quotas
    <2> SUFFICES ASSUME Init
                 PROVE  PeaksReach /\ TotalBounded /\ PerIpBounded
      BY TrackerInit, ConstantsAssumption
    <2>1. UserRooms = {} /\ Promised = {} /\ InFlight(Clients) = {}
      BY ConstantsAssumption
      DEF Init, UserRooms, UserCreated, Registered, Promised, InFlight, ConstantsAssumption
    <2>2. \A ip \in IPs : CreatedByIp(ip) = {} /\ Making(From(ip)) = {} /\ InFlight(From(ip)) = {}
      BY <2>1 DEF Init, CreatedByIp, Making, InFlight, From
    <2>3. Cardinality({}) = 0
      BY FS_EmptySet
    <2>4. peak = 0 /\ \A ip \in IPs : ipPeak[ip] = 0
      BY DEF Init
    <2>5. PeaksReach
      BY <2>1, <2>2, <2>3, <2>4 DEF PeaksReach
    <2>6. TotalBounded
      BY <2>1, <2>3 DEF TotalBounded, OvershootOf
    <2>7. PerIpBounded
      <3>1. \A ip \in IPs : Cardinality(CreatedByIp(ip)) + Cardinality(Making(From(ip))) = 0
        BY <2>2, <2>3
      <3> QED
        BY <3>1 DEF PerIpBounded, OvershootOf
    <2> QED
      BY <2>5, <2>6, <2>7
  <1>2. Base /\ Base' /\ Quotas /\ [Next]_vars => Quotas'
    <2> SUFFICES ASSUME Base, Base', Quotas, [Next]_vars
                 PROVE  Quotas'
      OBVIOUS
    <2>1. PeaksReach' /\ TypeOK'
      BY PeaksReachStep, ConstantsAssumption, LimitsAssumption DEF Base
    <2> QED
      BY <2>1, TotalBoundedStep, PerIpBoundedStep, TrackerStep, ConstantsAssumption,
         LimitsAssumption
  <1>3. Base /\ Quotas => QuotaOvershootBounded
    <2> SUFFICES ASSUME Base, Quotas
                 PROVE  OvershootOf(Cardinality(UserRooms) + Cardinality(Making(Clients)),
                                    MaxTotalRooms + peak)
      BY DEF QuotaOvershootBounded, PerIpBounded
    <2> DEFINE B == MaxTotalRooms + peak
    <2>1. Making(Clients) \subseteq Promised
      BY DEF Making, Promised
    <2>2. /\ IsFiniteSet(Promised) /\ IsFiniteSet(UserRooms) /\ B \in Nat /\ B <= B
          /\ OvershootOf(Cardinality(UserRooms) + Cardinality(Promised), B)
      BY FlightFinite, ConstantsAssumption, LimitsAssumption DEF TotalBounded, Base
    <2> HIDE DEF B
    <2>3. OvershootOf(Cardinality(UserRooms) + Cardinality(Making(Clients)), B)
      BY <2>1, <2>2, FewerInFlight
    <2> QED
      BY <2>3 DEF B
  <1> QED
    BY <1>1, <1>2, <1>3, BaseAlways, ConstantsAssumption, PTL DEF Spec

-----------------------------------------------------------------------------
(* Seats *)

Seated(c, n)  == rooms[n] # NoRoom /\ c \in members[rooms[n]]
HasSeat(c, n) == \E r \in born : info[r].name = n /\ c \in members[r]

\* The steps of a connection that its reader still serves.
Serving == {"idle", "quota", "make", "lookup", "enter", "leave"}

\* The names removeClient has still to look up, or has just looked up, are all
\* that keep a connection under removal in a registered room.
StillToPart(n) == n \in hub.todo \/ hub.room = rooms[n]

\* The two sides of the membership of one connection, at each of its steps.
SeatsOf(c) ==
    /\ pc[c] = "removing" <=> hub.client = c
    /\ pc[c] = "enter" => job[c].name \in joined[c] /\ ~Seated(c, job[c].name)
    /\ pc[c] = "leave" => job[c].name \notin joined[c]
    /\ \A n \in AllNames : Seated(c, n) =>
         /\ pc[c] # "gone"
         /\ n \in joined[c] \/ (pc[c] = "leave" /\ job[c].room = rooms[n])
         /\ pc[c] = "removing" => StillToPart(n)
    /\ pc[c] \in Serving =>
         \A n \in joined[c] : HasSeat(c, n) \/ (pc[c] = "enter" /\ n = job[c].name)

Seats == \A c \in Clients : SeatsOf(c)

\* A room that appears in the registry is new and empty; a room that lives
\* keeps what it is.
LEMMA RegistryGrows ==
    ASSUME ConstantsAssumption, Base, UnbornEmpty, [Next]_vars
    PROVE  /\ born \subseteq born' /\ \A r \in born : info'[r] = info[r]
           /\ \A n \in AllNames : rooms'[n] # NoRoom =>
                rooms'[n] = rooms[n] \/ members'[rooms'[n]] = {}
  <1> rooms \in [AllNames -> RoomIds \cup {NoRoom}] /\ born \subseteq RoomIds
    BY DEF Base, TypeOK
  <1>1. CASE UNCHANGED regVars
    BY <1>1 DEF regVars
  <1>2. ASSUME NEW c \in Clients, NEW r \in RoomIds, Create(c, r)
        PROVE  /\ born \subseteq born' /\ \A q \in born : info'[q] = info[q]
               /\ \A n \in AllNames : rooms'[n] # NoRoom =>
                    rooms'[n] = rooms[n] \/ members'[rooms'[n]] = {}
    <2>1. /\ r \notin born /\ born' = born \cup {r}
          /\ \A q \in RoomIds \ {r} : info'[q] = info[q]
          /\ rooms' = [rooms EXCEPT ![job[c].name] = r]
      BY <1>2, CreateEffect
    <2>2. members' = members /\ members[r] = {}
      BY <1>2, <2>1 DEF Create, UnbornEmpty
    <2> QED
      BY <2>1, <2>2
  <1>3. CASE EvictDelete
    BY <1>3 DEF EvictDelete
  <1> QED
    BY <1>1, <1>2, <1>3, RegistryChanges DEF vars

\* A step that leaves the handler, the names and the seats of a connection as
\* they are keeps its two sides agreeing, whatever happens to the registry.
LEMMA SeatsFrame ==
    ASSUME ConstantsAssumption, Base, UnbornEmpty, [Next]_vars,
           NEW c \in Clients, SeatsOf(c),
           pc'[c] = pc[c], job'[c] = job[c], joined'[c] = joined[c],
           \A r \in RoomIds : c \in members'[r] <=> c \in members[r],
           hub'.client = c <=> hub.client = c,
           hub.client = c => hub' = hub
    PROVE  SeatsOf(c)'
  <1>1. /\ rooms \in [AllNames -> RoomIds \cup {NoRoom}] /\ born \subseteq RoomIds
        /\ rooms' \in [AllNames -> RoomIds \cup {NoRoom}]
        /\ joined[c] \subseteq AllNames
    BY TypeStep DEF Base, TypeOK
  <1>2. pc[c] \in {"enter", "leave"} => job[c].name \in AllNames
    BY DEF Base, Locals, HandlerLocals
  <1>3. \A n \in AllNames : Seated(c, n)' => Seated(c, n) /\ rooms'[n] = rooms[n]
    BY <1>1, RegistryGrows DEF Seated
  <1>4. \A n \in AllNames : HasSeat(c, n) => HasSeat(c, n)'
    BY <1>1, RegistryGrows DEF HasSeat
  <1>5. \A n \in AllNames : Seated(c, n)' =>
          /\ pc'[c] # "gone"
          /\ n \in joined'[c] \/ (pc'[c] = "leave" /\ job'[c].room = rooms'[n])
          /\ pc'[c] = "removing" => StillToPart(n)'
    BY <1>3 DEF SeatsOf, StillToPart
  <1>6. pc'[c] \in Serving =>
          \A n \in joined'[c] : HasSeat(c, n)' \/ (pc'[c] = "enter" /\ n = job'[c].name)
    BY <1>1, <1>4 DEF SeatsOf
  <1>7. pc'[c] = "enter" => job'[c].name \in joined'[c] /\ ~Seated(c, job[c].name)'
    BY <1>2, <1>3 DEF SeatsOf
  <1>8. Serving' = Serving
    BY DEF Serving
  <1>9. (pc[c] = "removing" <=> hub.client = c)
           /\ (pc[c] = "leave" => job[c].name \notin joined[c])
    BY DEF SeatsOf
  <1> QED
    BY <1>5, <1>6, <1>7, <1>8, <1>9 DEF SeatsOf

\* The handler of a connection moves on without touching a name or a seat.
LEMMA SeatsMove ==
    ASSUME ConstantsAssumption, Base, UnbornEmpty, [Next]_vars,
           NEW c \in Clients, SeatsOf(c),
           pc[c] \in {"idle", "quota", "make", "lookup"},
           NEW step \in {"idle", "quota", "make", "lookup", "closing"}, NEW j,
           Goto(c, step, j), UNCHANGED <<joined, members, hub>>
    PROVE  SeatsOf(c)'
  <1>1. /\ rooms \in [AllNames -> RoomIds \cup {NoRoom}] /\ born \subseteq RoomIds
        /\ rooms' \in [AllNames -> RoomIds \cup {NoRoom}]
        /\ joined[c] \subseteq AllNames /\ pc \in [Clients -> Steps]
    BY TypeStep DEF Base, TypeOK
  <1>2. pc'[c] = step
    BY <1>1 DEF Goto
  <1>3. \A n \in AllNames : Seated(c, n)' => n \in joined[c]
    BY <1>1, RegistryGrows DEF Seated, SeatsOf
  <1>4. \A n \in joined[c] : HasSeat(c, n)'
    BY <1>1, RegistryGrows DEF HasSeat, SeatsOf, Serving
  <1> QED
    BY <1>2, <1>3, <1>4 DEF SeatsOf

\* The steps of joinRoom and partRoom.
LEMMA SeatsJoinLookup ==
    ASSUME ConstantsAssumption, Base, NEW c \in Clients, SeatsOf(c), JoinLookup(c),
           pc'[c] = "enter"
    PROVE  SeatsOf(c)'
  <1> DEFINE n == job[c].name
             r == rooms[n]
  <1>1. /\ rooms \in [AllNames -> RoomIds \cup {NoRoom}] /\ joined \in [Clients -> SUBSET AllNames]
        /\ pc \in [Clients -> Steps] /\ job \in [Clients -> Job] /\ n \in AllNames
    BY DEF Base, TypeOK, Locals, HandlerLocals, JoinLookup
  <1>2. /\ joined'[c] = joined[c] \cup {n} /\ n \notin joined[c]
        /\ job'[c].name = n /\ pc[c] = "lookup"
        /\ UNCHANGED <<rooms, born, info, members, hub>>
    BY <1>1 DEF JoinLookup, Finish, Goto, Reserve, regVars, Job
  <1>3. ~Seated(c, n)
    BY <1>1, <1>2 DEF SeatsOf
  <1>4. ~Seated(c, job[c].name)'
    BY <1>2, <1>3 DEF Seated
  <1> QED
    BY <1>2, <1>4 DEF SeatsOf, Seated, HasSeat, Serving

LEMMA SeatsJoinEnter ==
    ASSUME ConstantsAssumption, Base, NEW c \in Clients, SeatsOf(c), JoinEnter(c)
    PROVE  SeatsOf(c)'
  <1> DEFINE n == job[c].name
             r == job[c].room
  <1>1. /\ rooms \in [AllNames -> RoomIds \cup {NoRoom}] /\ joined \in [Clients -> SUBSET AllNames]
        /\ pc \in [Clients -> Steps] /\ members \in [RoomIds -> SUBSET Clients]
        /\ n \in AllNames /\ r \in born /\ info[r].name = n /\ born \subseteq RoomIds
        /\ NoRoom \notin RoomIds
    BY DEF Base, TypeOK, Locals, HandlerLocals, JoinEnter, ConstantsAssumption
  <1>2. /\ pc[c] = "enter" /\ pc'[c] = "idle" /\ UNCHANGED <<rooms, born, info, hub>>
    BY <1>1 DEF JoinEnter, Finish, Goto, regVars
  <1>3. n \in joined[c] /\ ~Seated(c, n)
    BY <1>2 DEF SeatsOf
  <1>4. \A m \in AllNames : rooms[m] = r => m = n
    BY <1>1 DEF Base, Registry
  <1>5. CASE Full(r)
    <2>1. joined'[c] = joined[c] \ {n} /\ members' = members
      BY <1>1, <1>5 DEF JoinEnter, Undo
    <2> QED
      BY <1>1, <1>2, <1>3, <2>1 DEF SeatsOf, Seated, HasSeat, Serving
  <1>6. CASE ~Full(r)
    <2>1. joined' = joined /\ members' = [members EXCEPT ![r] = @ \cup {c}]
      BY <1>6 DEF JoinEnter
    <2> HIDE DEF n, r
    <2>2. \A m \in AllNames : Seated(c, m)' => Seated(c, m) \/ m = n
      BY <1>1, <1>2, <1>4, <2>1 DEF Seated
    <2>3. \A m \in AllNames : HasSeat(c, m) \/ m = n => HasSeat(c, m)'
      BY <1>1, <1>2, <2>1 DEF HasSeat
    <2>4. \A m \in joined[c] : HasSeat(c, m) \/ m = n
      BY <1>2 DEF SeatsOf, Serving, n
    <2>5. \A m \in AllNames : Seated(c, m) => m \in joined[c]
      BY <1>2 DEF SeatsOf
    <2>6. \A m \in AllNames : Seated(c, m)' => m \in joined'[c]
      BY <1>3, <2>1, <2>2, <2>5
    <2>7. \A m \in joined'[c] : HasSeat(c, m)'
      BY <1>1, <2>1, <2>3, <2>4
    <2> QED
      BY <1>2, <2>6, <2>7 DEF SeatsOf
  <1> QED
    BY <1>5, <1>6

LEMMA SeatsPart ==
    ASSUME ConstantsAssumption, Base, NEW c \in Clients, SeatsOf(c),
           PartLeave(c) \/ \E n \in Names : PartLookup(c, n)
    PROVE  SeatsOf(c)'
  <1>1. /\ rooms \in [AllNames -> RoomIds \cup {NoRoom}] /\ joined \in [Clients -> SUBSET AllNames]
        /\ pc \in [Clients -> Steps] /\ job \in [Clients -> Job]
        /\ members \in [RoomIds -> SUBSET Clients] /\ born \subseteq RoomIds
        /\ NoRoom \notin RoomIds
    BY DEF Base, TypeOK, ConstantsAssumption
  <1>2. ASSUME NEW n \in Names, PartLookup(c, n)
        PROVE  SeatsOf(c)'
    <2>1. /\ pc[c] = "idle" /\ joined'[c] = joined[c] \ {n}
          /\ UNCHANGED <<rooms, born, info, members, hub>>
          /\ \/ rooms[n] = NoRoom /\ pc'[c] = "idle"
             \/ pc'[c] = "leave" /\ job'[c].name = n /\ job'[c].room = rooms[n]
      <3>1. CASE rooms[n] = NoRoom
        BY <1>1, <1>2, <3>1 DEF PartLookup, regVars
      <3>2. CASE rooms[n] # NoRoom
        <4> DEFINE j == [NoJob EXCEPT !.name = n, !.room = rooms[n]]
        <4>1. pc' = [pc EXCEPT ![c] = "leave"] /\ job' = [job EXCEPT ![c] = j]
          BY <1>2, <3>2 DEF PartLookup, Goto
        <4>2. j.name = n /\ j.room = rooms[n]
          BY DEF NoJob
        <4> HIDE DEF j
        <4> QED
          BY <1>1, <1>2, <4>1, <4>2 DEF PartLookup, regVars
      <3> QED
        BY <3>1, <3>2
    <2>2. hub.client # c
      BY <2>1 DEF SeatsOf
    <2>3. \A m \in AllNames : Seated(c, m)' <=> Seated(c, m)
      BY <2>1 DEF Seated
    <2>4. \A m : HasSeat(c, m)' <=> HasSeat(c, m)
      BY <2>1 DEF HasSeat
    <2>5. \A m \in AllNames : Seated(c, m) => rooms[m] # NoRoom /\ m \in joined[c]
      BY <2>1 DEF Seated, SeatsOf
    <2>6. \A m \in joined[c] : HasSeat(c, m)
      BY <2>1 DEF SeatsOf, Serving
    <2>7. pc'[c] \notin {"enter", "removing", "gone"}
          /\ (pc'[c] = "leave" => job'[c].name \notin joined'[c])
      BY <2>1
    <2>8. \A m \in AllNames : Seated(c, m)' =>
            m \in joined'[c] \/ (pc'[c] = "leave" /\ job'[c].room = rooms'[m])
      BY <2>1, <2>3, <2>5
    <2>9. \A m \in joined'[c] : HasSeat(c, m)'
      BY <2>1, <2>4, <2>6
    <2> QED
      BY <2>1, <2>2, <2>7, <2>8, <2>9 DEF SeatsOf
  <1>3. CASE PartLeave(c)
    <2> DEFINE n == job[c].name
               r == job[c].room
    <2>1. /\ pc[c] = "leave" /\ pc'[c] = "idle" /\ joined' = joined
          /\ members' = [members EXCEPT ![r] = @ \ {c}]
          /\ UNCHANGED <<rooms, born, info, hub>>
      BY <1>1, <1>3 DEF PartLeave, Part, Finish, Goto, regVars
    <2>2. r \in born /\ info[r].name = n
      BY <2>1 DEF Base, Locals, HandlerLocals
    <2>3. hub.client # c /\ n \notin joined[c] /\ \A m \in joined[c] : HasSeat(c, m)
      BY <2>1 DEF SeatsOf, Serving
    <2>4. \A m \in AllNames : Seated(c, m) => m \in joined[c] \/ r = rooms[m]
      BY <2>1 DEF SeatsOf
    <2> HIDE DEF n, r
    <2>5. \A m \in AllNames : Seated(c, m)' => Seated(c, m) /\ r # rooms[m]
      BY <1>1, <2>1, <2>2 DEF Seated
    <2>6. \A m \in joined[c] : HasSeat(c, m)'
      BY <1>1, <2>1, <2>2, <2>3 DEF HasSeat
    <2>7. \A m \in AllNames : Seated(c, m)' => m \in joined'[c]
      BY <2>1, <2>4, <2>5
    <2>8. \A m \in joined'[c] : HasSeat(c, m)'
      BY <2>1, <2>6
    <2> QED
      BY <2>1, <2>3, <2>7, <2>8 DEF SeatsOf
  <1> QED
    BY <1>2, <1>3

\* The steps of removeClient on the connection it removes.
LEMMA SeatsRemove ==
    ASSUME ConstantsAssumption, Base, NEW c \in Clients, SeatsOf(c),
           HubTake(c) \/ (hub.client = c /\ HubSteps /\ hub'.client \in {c, NoClient})
    PROVE  SeatsOf(c)'
  <1>1. /\ rooms \in [AllNames -> RoomIds \cup {NoRoom}] /\ joined \in [Clients -> SUBSET AllNames]
        /\ pc \in [Clients -> Steps] /\ hub \in Removal
        /\ members \in [RoomIds -> SUBSET Clients]
        /\ NoRoom \notin RoomIds /\ NoClient \notin Clients
    BY DEF Base, TypeOK, ConstantsAssumption
  <1>2. CASE HubTake(c)
    <2>1. /\ pc[c] = "closing" /\ pc'[c] = "removing" /\ hub'.client = c
          /\ hub'.todo = joined[c] /\ UNCHANGED <<rooms, members, joined>>
      BY <1>1, <1>2 DEF HubTake, HubIdle, NamesToPart, Goto, regVars
    <2> QED
      BY <2>1 DEF SeatsOf, Seated, StillToPart, Serving
  <1>3. CASE hub.client = c
    <2>1. pc[c] = "removing"
      BY <1>3 DEF SeatsOf
    <2>2. ASSUME NEW n \in AllNames, HubLookup(n)
          PROVE  SeatsOf(c)'
      <3>1. /\ hub'.client = c /\ hub'.todo = hub.todo \ {n} /\ hub'.room = rooms[n]
            /\ hub.room = NoRoom /\ UNCHANGED <<rooms, members, joined, pc>>
        BY <1>1, <1>3, <2>2 DEF HubLookup, Removal, regVars
      <3> QED
        BY <2>1, <3>1 DEF SeatsOf, Seated, StillToPart, Serving
    <2>3. ASSUME HubPart
          PROVE  SeatsOf(c)'
      <3>1. /\ hub'.client = c /\ hub'.todo = hub.todo /\ hub.room \in RoomIds
            /\ members' = [members EXCEPT ![hub.room] = @ \ {c}]
            /\ UNCHANGED <<rooms, joined, pc>>
        BY <1>1, <1>3, <2>3 DEF HubPart, Part, Removal, regVars
      <3>2. \A m \in AllNames : Seated(c, m)' => Seated(c, m) /\ hub.room # rooms[m]
        BY <1>1, <3>1 DEF Seated
      <3>3. \A m \in AllNames : Seated(c, m) => m \in joined[c] /\ StillToPart(m)
        BY <2>1 DEF SeatsOf
      <3>4. \A m \in AllNames : Seated(c, m)' => m \in joined'[c] /\ StillToPart(m)'
        BY <3>1, <3>2, <3>3 DEF StillToPart
      <3> QED
        BY <2>1, <3>1, <3>4 DEF SeatsOf, Serving
    <2>4. ASSUME HubDone
          PROVE  SeatsOf(c)'
      <3>1. /\ pc'[c] = "gone" /\ hub'.client = NoClient /\ joined'[c] = {}
            /\ hub.todo = {} /\ hub.room = NoRoom /\ UNCHANGED <<rooms, members>>
        BY <1>1, <1>3, <2>4 DEF HubDone, HubIdle, Goto, regVars
      <3>2. \A m \in AllNames : ~Seated(c, m)
        BY <2>1, <3>1 DEF SeatsOf, Seated, StillToPart
      <3> QED
        BY <1>1, <3>1, <3>2 DEF SeatsOf, Seated, Serving
    <2> QED
      BY <1>2, <1>3, <1>1, <2>2, <2>3, <2>4 DEF HubSteps, HubTake
  <1> QED
    BY <1>2, <1>3

LEMMA SeatsStep ==
    ASSUME ConstantsAssumption, Base, UnbornEmpty, Seats, [Next]_vars
    PROVE  Seats'
  <1> SUFFICES ASSUME NEW c \in Clients
               PROVE  SeatsOf(c)'
    BY DEF Seats
  <1>1. /\ SeatsOf(c) /\ pc \in [Clients -> Steps] /\ job \in [Clients -> Job]
        /\ joined \in [Clients -> SUBSET AllNames] /\ hub \in Removal
        /\ members \in [RoomIds -> SUBSET Clients] /\ NoClient \notin Clients
    BY DEF Seats, Base, TypeOK, ConstantsAssumption
  <1> DEFINE Frame == /\ pc'[c] = pc[c] /\ job'[c] = job[c] /\ joined'[c] = joined[c]
                      /\ \A r \in RoomIds : c \in members'[r] <=> c \in members[r]
                      /\ hub'.client = c <=> hub.client = c
                      /\ hub.client = c => hub' = hub
             Move == /\ pc[c] \in {"idle", "quota", "make", "lookup"}
                     /\ \E step \in {"idle", "quota", "make", "lookup", "closing"} :
                          \E j : Goto(c, step, j)
                     /\ UNCHANGED <<joined, members, hub>>
  <1>2. CASE Frame
    BY <1>1, <1>2, SeatsFrame
  <1>3. CASE Move
    BY <1>1, <1>3, SeatsMove
  <1>4. ASSUME NEW d \in Clients, CreateSteps(d)
        PROVE  Frame \/ Move
    <2>1. /\ \E step \in {"idle", "quota", "make", "lookup", "closing"} :
                \E j : Goto(d, step, j)
          /\ pc[d] \in {"idle", "quota", "make", "lookup"}
          /\ UNCHANGED <<joined, members, hub>>
      BY <1>4 DEF CreateSteps, CountUserCreated, CanCreate, CreateRefused, CreateExists, Create,
                  Finish
    <2>2. CASE d # c
      BY <1>1, <2>1, <2>2 DEF Goto
    <2> QED
      BY <2>1, <2>2
  <1>5. ASSUME NEW d \in Clients, JoinSteps(d), d # c
        PROVE  Frame
    <2>1. /\ UNCHANGED hub
          /\ UNCHANGED <<pc, job>> \/ \E step, j : Goto(d, step, j)
      BY <1>5
      DEF JoinSteps, handleJoin, handleHello, JoinLookup, JoinEnter, PartLookup, PartLeave,
          Disconnect, Finish
    <2>2. UNCHANGED joined \/ \E S : joined' = [joined EXCEPT ![d] = S]
      BY <1>5
      DEF JoinSteps, handleJoin, handleHello, JoinLookup, JoinEnter, PartLookup, PartLeave,
          Disconnect
    <2>3. \A r \in RoomIds : c \in members'[r] <=> c \in members[r]
      <3>1. \/ UNCHANGED members
            \/ \E r : members' = [members EXCEPT ![r] = @ \cup {d}]
            \/ \E r : members' = [members EXCEPT ![r] = @ \ {d}]
        BY <1>5
        DEF JoinSteps, handleJoin, handleHello, JoinLookup, JoinEnter, PartLookup, PartLeave, Part,
            Disconnect
      <3> QED
        BY <1>1, <1>5, <3>1
    <2> QED
      BY <1>1, <1>5, <2>1, <2>2, <2>3 DEF Goto
  <1>6. ASSUME JoinSteps(c)
        PROVE  SeatsOf(c)'
    <2>1. ASSUME NEW n \in AllNames, handleJoin(c, n) \/ handleHello(c, n)
          PROVE  Move
      BY <2>1 DEF handleJoin, handleHello
    <2>2. ASSUME JoinLookup(c), pc'[c] # "enter"
          PROVE  Move
      BY <1>1, <2>2 DEF JoinLookup, Finish, Goto
    <2>3. ASSUME Disconnect(c)
          PROVE  Move
      BY <2>3 DEF Disconnect
    <2> QED
      BY <1>1, <1>3, <1>6, <2>1, <2>2, <2>3, SeatsJoinLookup, SeatsJoinEnter, SeatsPart
      DEF JoinSteps
  <1>7. ASSUME HubSteps
        PROVE  SeatsOf(c)'
    <2>1. ASSUME NEW d \in Clients, HubTake(d), d # c
          PROVE  Frame
      BY <1>1, <2>1 DEF HubTake, HubIdle, Goto
    <2>2. ASSUME NEW n \in AllNames, HubLookup(n)
          PROVE  hub'.client = hub.client /\ (hub.client # c => Frame)
      BY <1>1, <2>2 DEF HubLookup, Removal
    <2>3. ASSUME HubPart
          PROVE  hub'.client = hub.client /\ (hub.client # c => Frame)
      BY <1>1, <2>3 DEF HubPart, Part, Removal
    <2>4. ASSUME HubDone
          PROVE  hub'.client = NoClient /\ (hub.client # c => Frame)
      <3>1. /\ hub' = HubIdle /\ Goto(hub.client, "gone", NoJob)
            /\ joined' = [joined EXCEPT ![hub.client] = {}] /\ members' = members
        BY <2>4 DEF HubDone
      <3>2. hub'.client = NoClient
        BY <3>1 DEF HubIdle
      <3> QED
        BY <1>1, <3>1, <3>2 DEF Goto
    <2> QED
      BY <1>1, <1>2, <1>7, <2>1, <2>2, <2>3, <2>4, SeatsRemove DEF HubSteps
  <1>8. ASSUME EvictSteps \/ ClockSteps \/ UNCHANGED vars
        PROVE  Frame
    BY <1>8
    DEF EvictSteps, EvictStart, EvictCount, EvictAge, EvictDelete, EvictDone, ClockSteps,
        RoomTurnsQuiet, RoomTurnsAged, IpWindowSlides, SessWindowSlides, vars
  <1> QED
    BY <1>2, <1>3, <1>4, <1>5, <1>6, <1>7, <1>8 DEF Next

LEMMA SeatsAlways ==
    ASSUME ConstantsAssumption, LimitsAssumption
    PROVE  Spec => [](Base /\ Seats)
  <1>1. Init => UnbornEmpty /\ Seats
    <2> SUFFICES ASSUME Init, NEW c \in Clients
                 PROVE  UnbornEmpty /\ SeatsOf(c)
      BY CapsInit DEF Seats
    <2>1. /\ UnbornEmpty /\ pc[c] = "idle" /\ joined[c] = {} /\ hub.client # c
          /\ \A r \in RoomIds : members[r] = {}
          /\ \A n \in AllNames : rooms[n] \in RoomIds \cup {NoRoom}
      BY CapsInit DEF Init, HubIdle, ConstantsAssumption, AllNames
    <2> QED
      BY <2>1 DEF SeatsOf, Seated
  <1>2. Base /\ UnbornEmpty /\ Seats /\ [Next]_vars => UnbornEmpty' /\ Seats'
    BY UnbornEmptyStep, SeatsStep
  <1> QED
    BY <1>1, <1>2, BaseAlways, PTL DEF Spec

\* A seat in a registered room and the name in Client.rooms go together, but
\* for the reader that is just leaving it, and each name stands for a seat
\* (joinRoom, partRoom, Room.Join, Room.Part, with evictStale in between).
THEOREM SeatsAlwaysAgree == Spec => []SeatsAgree
  <1>1. Seats => SeatsAgree
    BY DEF Seats, SeatsOf, SeatsAgree, SeatIsKnown, SeatForEveryName, Seated, HasSeat, Serving
  <1> QED
    BY <1>1, SeatsAlways, ConstantsAssumption, LimitsAssumption, PTL

\* Once removeClient is through with a connection, no registered room has it.
THEOREM NoGhostsRemain == Spec => []NoGhosts
  <1>1. Seats => NoGhosts
    BY DEF Seats, SeatsOf, NoGhosts, Seated
  <1> QED
    BY <1>1, SeatsAlways, ConstantsAssumption, LimitsAssumption, PTL

-----------------------------------------------------------------------------
(* The quota as it is promised: Rooms implements RoomQuota *)

\* The two instances of FiniteSets count alike.
LEMMA SameCount ==
    ASSUME NEW S
    PROVE  Quota!Cardinality(S) = Cardinality(S)
  BY DEF Quota!Cardinality, Cardinality, Quota!IsFiniteSet, IsFiniteSet

\* The rooms under a user's name are the rooms that users made.
LEMMA NamedAreUserRooms ==
    ASSUME ConstantsAssumption, Base
    PROVE  NamedRooms = UserRooms
  <1>1. /\ rooms \in [AllNames -> RoomIds \cup {NoRoom}] /\ Names \subseteq AllNames
        /\ Lobby \in AllNames \ Names /\ AllNames = Names \cup {Lobby}
    BY DEF Base, TypeOK, ConstantsAssumption, AllNames
  <1>2. /\ rooms[Lobby] = LobbyRoom /\ LobbyRoom # NoRoom /\ NoRoom \notin RoomIds
        /\ \A n \in AllNames : rooms[n] # NoRoom => info[rooms[n]].name = n
    BY DEF Base, Registry, ConstantsAssumption
  <1>3. ASSUME NEW n \in Names, rooms[n] # NoRoom
        PROVE  rooms[n] \in UserRooms
    <2>1. rooms[n] # LobbyRoom
      BY <1>1, <1>2, <1>3
    <2> QED
      BY <1>1, <1>3, <2>1 DEF UserRooms, Registered, UserCreated
  <1>4. ASSUME NEW r \in UserRooms
        PROVE  \E n \in Names : rooms[n] = r /\ r # NoRoom
    BY <1>1, <1>2 DEF UserRooms, Registered, UserCreated
  <1> QED
    BY <1>3, <1>4 DEF NamedRooms

\* Only the claim of a connection that moves can change, to what its new step
\* and its new locals say.
LEMMA ClaimMoves ==
    ASSUME TypeOK, NEW c \in Clients, NEW step, NEW j, Goto(c, step, j)
    PROVE  /\ Claims' = [Claims EXCEPT ![c] = Claim(c)']
           /\ pc'[c] = step /\ job'[c] = j
  <1>1. pc \in [Clients -> Steps] /\ job \in [Clients -> Job]
    BY DEF TypeOK
  <1>2. pc'[c] = step /\ job'[c] = j
    BY <1>1 DEF Goto
  <1>3. ASSUME NEW d \in Clients, d # c
        PROVE  Claim(d)' = Claim(d)
    <2>1. pc'[d] = pc[d] /\ job'[d] = job[d]
      BY <1>1, <1>3 DEF Goto
    <2> QED
      BY <2>1 DEF Claim
  <1>4. Claims' = [d \in Clients |-> Claim(d)'] /\ Claims = [d \in Clients |-> Claim(d)]
    BY DEF Claims
  <1> HIDE DEF Claim
  <1>5. [d \in Clients |-> Claim(d)'] = [[d \in Clients |-> Claim(d)] EXCEPT ![c] = Claim(c)']
    BY <1>3
  <1> QED
    BY <1>2, <1>4, <1>5

\* What a claim is, at each step.
LEMMA ClaimIs ==
    ASSUME NEW c
    PROVE  /\ pc[c] = "quota" =>
                Claim(c) = [at |-> IF job[c].roomLeft THEN "counted" ELSE "full",
                            sid |-> job[c].sid]
           /\ pc[c] = "make" => Claim(c) = [at |-> "granted", sid |-> job[c].sid]
           /\ pc[c] \notin {"quota", "make"} => Claim(c) = Quota!NoClaim
  BY DEF Claim, Quota!NoClaim

\* A connection that has no claim and gets none.
LEMMA NoClaimStays ==
    ASSUME TypeOK, NEW c \in Clients, NEW step, NEW j, Goto(c, step, j),
           pc[c] \notin {"quota", "make"}, step \notin {"quota", "make"}
    PROVE  Claims' = Claims
  <1>1. Claims' = [Claims EXCEPT ![c] = Claim(c)'] /\ pc'[c] = step
    BY ClaimMoves
  <1>2. Claim(c)' = Quota!NoClaim /\ Claim(c) = Quota!NoClaim
    BY <1>1, ClaimIs DEF Claim, Quota!NoClaim
  <1>3. Claims = [d \in Clients |-> Claim(d)]
    BY DEF Claims
  <1> HIDE DEF Claim
  <1>4. [[d \in Clients |-> Claim(d)] EXCEPT ![c] = Claim(c)'] = [d \in Clients |-> Claim(d)]
    BY <1>2
  <1> QED
    BY <1>1, <1>3, <1>4

\* A step that leaves the registry and the creations alone, is a stutter.
LEMMA QuotaStutter ==
    ASSUME UNCHANGED regVars, Claims' = Claims
    PROVE  UNCHANGED Quota!quotaVars
  BY DEF regVars, Quota!quotaVars, NamedRooms, Makers

LEMMA OthersStutter ==
    ASSUME ConstantsAssumption, Base, Seats,
           \/ \E c \in Clients : JoinSteps(c)
           \/ HubSteps
           \/ EvictSteps /\ ~EvictDelete
           \/ ClockSteps
           \/ UNCHANGED vars
    PROVE  UNCHANGED Quota!quotaVars
  <1> TypeOK /\ pc \in [Clients -> Steps]
    BY DEF Base, TypeOK
  <1>1. ASSUME UNCHANGED <<pc, job>>
        PROVE  Claims' = Claims
    BY <1>1 DEF Claims, Claim
  <1>2. ASSUME NEW c \in Clients, JoinSteps(c)
        PROVE  UNCHANGED regVars /\ Claims' = Claims
    <2>1. UNCHANGED regVars
      BY <1>2 DEF JoinSteps, handleJoin, handleHello, JoinLookup, JoinEnter,
                  PartLookup, PartLeave, Disconnect
    <2>2. \/ UNCHANGED <<pc, job>>
          \/ pc[c] \notin {"quota", "make"}
             /\ \E step \in Steps \ {"quota", "make"} : \E j : Goto(c, step, j)
      BY <1>2 DEF JoinSteps, handleJoin, handleHello, JoinLookup, JoinEnter,
                  PartLookup, PartLeave, Disconnect, Finish, Steps
    <2> QED
      BY <1>1, <2>1, <2>2, NoClaimStays
  <1>3. ASSUME HubSteps
        PROVE  UNCHANGED regVars /\ Claims' = Claims
    <2>1. UNCHANGED regVars
      BY <1>3 DEF HubSteps, HubTake, HubLookup, HubPart, HubDone
    <2>2. ASSUME NEW c \in Clients, HubTake(c)
          PROVE  Claims' = Claims
      BY <2>2, NoClaimStays DEF HubTake
    <2>3. CASE HubDone
      <3>1. hub.client \in Clients /\ pc[hub.client] = "removing"
        BY <2>3 DEF HubDone, TypeOK, Removal, Seats, SeatsOf
      <3> QED
        BY <2>3, <3>1, NoClaimStays DEF HubDone
    <2> QED
      BY <1>1, <1>3, <2>1, <2>2, <2>3 DEF HubSteps, HubLookup, HubPart
  <1>4. ASSUME (EvictSteps /\ ~EvictDelete) \/ ClockSteps \/ UNCHANGED vars
        PROVE  UNCHANGED regVars /\ UNCHANGED <<pc, job>>
    BY <1>4 DEF EvictSteps, EvictStart, EvictCount, EvictAge, EvictDone, ClockSteps,
                RoomTurnsQuiet, RoomTurnsAged, IpWindowSlides, SessWindowSlides, vars
  <1> QED
    BY <1>1, <1>2, <1>3, <1>4, QuotaStutter

\* The address and the session, as CanCreate asks its counters of them.
LEMMA FitsByCounters ==
    ASSUME ConstantsAssumption, Base, TrackerExact, NEW c \in Clients
    PROVE  Quota!Fits(c, job[c].sid) <=>
             /\ ipActive[IpOf[c]] < MaxRoomsPerIP
             /\ job[c].sid # NoSid => sessActive[job[c].sid] < MaxRoomsPerSession
  <1> DEFINE s == job[c].sid
  <1>1. IpOf[c] \in IPs /\ s \in Sids \cup {NoSid}
    BY DEF ConstantsAssumption, Base, TypeOK, Job
  <1>2. NamedRooms = UserRooms /\ UserRooms \subseteq RoomIds
    BY NamedAreUserRooms DEF UserRooms, Registered
  <1>3. /\ {r \in NamedRooms : Makers[r].ip = IpOf[c]} = CreatedByIp(IpOf[c])
        /\ {r \in NamedRooms : Makers[r].sid = s} = CreatedBySid(s)
    BY <1>2 DEF Makers, CreatedByIp, CreatedBySid
  <1>4. /\ ipActive[IpOf[c]] = Cardinality(CreatedByIp(IpOf[c]))
        /\ s # NoSid => sessActive[s] = Cardinality(CreatedBySid(s))
    BY <1>1 DEF TrackerExact
  <1> HIDE DEF s
  <1>5. Quota!Fits(c, s) <=>
             /\ Cardinality(CreatedByIp(IpOf[c])) < MaxRoomsPerIP
             /\ s # NoSid => Cardinality(CreatedBySid(s)) < MaxRoomsPerSession
    BY <1>3, SameCount DEF Quota!Fits
  <1> QED
    BY <1>4, <1>5 DEF s

LEMMA CountRefines ==
    ASSUME ConstantsAssumption, Base, NEW c \in Clients, NEW n \in Names, NEW e \in Kinds,
           NEW s \in Sids \cup {NoSid}, CountUserCreated(c, n, e, s)
    PROVE  Quota!Next
  <1> DEFINE left == Cardinality(UserRooms) < MaxTotalRooms
             j == [NoJob EXCEPT !.name = n, !.encrypted = e, !.sid = s, !.roomLeft = left]
             to == [at |-> IF left THEN "counted" ELSE "full", sid |-> s]
  <1>1. Goto(c, "quota", j) /\ pc[c] = "idle" /\ UNCHANGED regVars
    BY DEF CountUserCreated
  <1>2. j.roomLeft = left /\ j.sid = s
    <2> HIDE DEF left
    <2> QED
      BY DEF NoJob
  <1>3. /\ Claims' = [Claims EXCEPT ![c] = Claim(c)']
        /\ pc'[c] = "quota" /\ job'[c] = j
    BY <1>1, ClaimMoves DEF Base
  <1> HIDE DEF j
  <1>4. Claim(c)' = to /\ Claims[c] = Quota!NoClaim /\ Claims'[c] = to
    <2>1. Claim(c)' = to
      BY <1>2, <1>3 DEF Claim
    <2>2. Claims[c] = Quota!NoClaim
      BY <1>1, ClaimIs DEF Claims
    <2>3. Claims'[c] = Claim(c)'
      BY DEF Claims
    <2> QED
      BY <2>1, <2>2, <2>3
  <1>5. UNCHANGED <<NamedRooms, Makers>>
    BY <1>1 DEF regVars, NamedRooms, Makers
  <1>6. left <=> Quota!Cardinality(NamedRooms) < MaxTotalRooms
    BY NamedAreUserRooms, SameCount
  <1>7. Quota!CountRooms(c, s)
    BY <1>3, <1>4, <1>5, <1>6 DEF Quota!CountRooms, Quota!Moves
  <1>8. Claims'[c] # Claims[c]
    BY <1>4 DEF Quota!NoClaim
  <1> QED
    BY <1>7, <1>8 DEF Quota!Next

\* A claim that goes, by CanCreate's refusal, by Create's, or with a room made.
LEMMA ClaimGoes ==
    ASSUME TypeOK, NEW c \in Clients, NEW step, NEW j, step \notin {"quota", "make"},
           Goto(c, step, j), pc[c] \in {"quota", "make"}
    PROVE  Quota!Moves(c, Quota!NoClaim) /\ Claims'[c] # Claims[c]
  <1>1. /\ Claims' = [Claims EXCEPT ![c] = Claim(c)'] /\ pc'[c] = step
    BY ClaimMoves
  <1>2. Claim(c)' = Quota!NoClaim
    BY <1>1 DEF Claim, Quota!NoClaim
  <1>3. Claim(c).at # "none" /\ Claims[c] = Claim(c) /\ Claims'[c] = Claim(c)'
    BY DEF Claims, Claim
  <1> QED
    BY <1>1, <1>2, <1>3 DEF Quota!Moves, Quota!NoClaim

LEMMA CanCreateRefines ==
    ASSUME ConstantsAssumption, LimitsAssumption, Base, TrackerExact,
           NEW c \in Clients, CanCreate(c)
    PROVE  Quota!Next
  <1> DEFINE s == job[c].sid
             ipOk == QuotaOpen(c) /\ RateOpen(ipCreates[IpOf[c]], RoomCreateRateIP)
             sOk  == s # NoSid => RateOpen(sessCreates[s], RoomCreateRateSession)
             fits == Quota!Fits(c, s)
  <1>1. pc[c] = "quota" /\ UNCHANGED regVars
    BY DEF CanCreate
  <1>2. UNCHANGED <<NamedRooms, Makers>>
    BY <1>1 DEF regVars, NamedRooms, Makers
  <1>3. /\ Claims[c].at = IF job[c].roomLeft THEN "counted" ELSE "full"
        /\ Claims[c].sid = s
    BY <1>1, ClaimIs DEF Claims
  <1>4. QuotaOpen(c) <=> job[c].roomLeft /\ fits
    BY FitsByCounters DEF QuotaOpen
  <1>5. CASE ipOk /\ sOk
    <2> DEFINE j == [job[c] EXCEPT !.roomLeft = FALSE]
               to == [at |-> "granted", sid |-> s]
    <2>1. Goto(c, "make", j)
      BY <1>5 DEF CanCreate
    <2>2. j.sid = s
      BY DEF Base, TypeOK, Job
    <2>3. /\ Claims' = [Claims EXCEPT ![c] = Claim(c)']
          /\ pc'[c] = "make" /\ job'[c] = j
      BY <2>1, ClaimMoves DEF Base
    <2> HIDE DEF j
    <2>4. Claim(c)' = to
      BY <2>2, <2>3 DEF Claim
    <2>5. Claims'[c] = to
      BY <2>4 DEF Claims
    <2>6. Claims[c].at = "counted" /\ fits
      BY <1>3, <1>4, <1>5
    <2>7. Quota!Grant(c) /\ Claims'[c] # Claims[c]
      BY <1>2, <1>3, <2>3, <2>4, <2>5, <2>6 DEF Quota!Grant, Quota!Moves
    <2> QED
      BY <2>7 DEF Quota!Next
  <1>6. CASE ~(ipOk /\ sOk)
    <2>1. Goto(c, "idle", NoJob)
      BY <1>6 DEF CanCreate, Finish
    <2>2. Quota!Moves(c, Quota!NoClaim) /\ Claims'[c] # Claims[c]
      BY <1>1, <2>1, ClaimGoes DEF Base
    <2>3. ~QuotaOpen(c) \/ RatesLimited
      <3>1. RoomCreateRateIP \in Nat /\ RoomCreateRateSession \in Nat
        BY DEF LimitsAssumption
      <3> QED
        BY <1>6, <3>1 DEF RateOpen, RatesLimited
    <2>4. Quota!Refuse(c)
      BY <1>2, <1>3, <1>4, <2>2, <2>3 DEF Quota!Refuse
    <2> QED
      BY <2>2, <2>4 DEF Quota!Next
  <1> QED
    BY <1>5, <1>6

LEMMA NoRoomRefines ==
    ASSUME ConstantsAssumption, Base, NEW c \in Clients, CreateRefused(c) \/ CreateExists(c)
    PROVE  Quota!Next
  <1>1. pc[c] = "make" /\ Goto(c, "idle", NoJob) /\ UNCHANGED regVars
    BY DEF CreateRefused, CreateExists, Finish
  <1>2. Quota!Moves(c, Quota!NoClaim) /\ Claims'[c] # Claims[c]
    BY <1>1, ClaimGoes DEF Base
  <1>3. Claims[c].at = "granted"
    BY <1>1, ClaimIs DEF Claims
  <1>4. Quota!GiveUp(c)
    BY <1>1, <1>2, <1>3 DEF Quota!GiveUp, regVars, NamedRooms, Makers
  <1> QED
    BY <1>2, <1>4 DEF Quota!Next

LEMMA CreateRefines ==
    ASSUME ConstantsAssumption, Base, NEW c \in Clients, NEW r \in RoomIds, Create(c, r)
    PROVE  Quota!Next
  <1>1. pc[c] = "make" /\ Goto(c, "lookup", [NoJob EXCEPT !.name = job[c].name])
    BY DEF Create
  <1>2. Quota!Moves(c, Quota!NoClaim) /\ Claims'[c] # Claims[c]
    BY <1>1, ClaimGoes DEF Base
  <1>3. Claims[c].at = "granted" /\ Claims[c].sid = job[c].sid
    BY <1>1, ClaimIs DEF Claims
  <1>4. NamedRooms' = NamedRooms \cup {r} /\ r \notin NamedRooms
    <2> DEFINE n == job[c].name
    <2>1. /\ n \in Names /\ rooms[n] = NoRoom /\ r \notin Registered /\ r # LobbyRoom
          /\ rooms' = [rooms EXCEPT ![n] = r]
      BY CreateEffect
    <2>2. /\ rooms \in [AllNames -> RoomIds \cup {NoRoom}] /\ Names \subseteq AllNames
          /\ r # NoRoom
      BY DEF Base, TypeOK, AllNames, ConstantsAssumption
    <2> HIDE DEF n
    <2>3. NamedRooms' = NamedRooms \cup {r}
      BY <2>1, <2>2 DEF NamedRooms
    <2>4. r \notin NamedRooms
      BY <2>1, NamedAreUserRooms DEF UserRooms
    <2> QED
      BY <2>3, <2>4
  <1>5. Makers' = [Makers EXCEPT ![r] = [ip |-> IpOf[c], sid |-> job[c].sid]]
    <2>1. /\ info'[r].ip = IpOf[c] /\ info'[r].sid = job[c].sid
          /\ \A q \in RoomIds \ {r} : info'[q] = info[q]
      BY CreateEffect
    <2> QED
      BY <2>1 DEF Makers
  <1>6. Quota!Build(c, r)
    BY <1>2, <1>3, <1>4, <1>5 DEF Quota!Build
  <1> QED
    BY <1>2, <1>6 DEF Quota!Next

LEMMA EvictRefines ==
    ASSUME ConstantsAssumption, Base, EvictDelete
    PROVE  Quota!Next
  <1> DEFINE r == rooms[ev.name]
  <1>1. r \in NamedRooms /\ NamedRooms' = NamedRooms \ {r}
    <2> DEFINE n == ev.name
    <2>1. r \in NamedRooms /\ rooms' = [rooms EXCEPT ![n] = NoRoom]
      BY NamedAreUserRooms, UserRoomsAfterEvict DEF EvictDelete
    <2>2. /\ rooms \in [AllNames -> RoomIds \cup {NoRoom}] /\ Names \subseteq AllNames
          /\ r # NoRoom /\ n \in AllNames
          /\ \A m \in AllNames : rooms[m] # NoRoom => info[rooms[m]].name = m
      BY <2>1 DEF Base, TypeOK, AllNames, Registry, NamedRooms, EvictDelete, Locals, EvictorLocals
    <2>3. \A m \in AllNames : rooms[m] = r => m = n
      BY <2>2
    <2> HIDE DEF n, r
    <2>4. \A m \in AllNames : rooms'[m] = IF m = n THEN NoRoom ELSE rooms[m]
      BY <2>1, <2>2
    <2>5. rooms[n] = r
      BY DEF n, r
    <2> QED
      BY <2>1, <2>2, <2>3, <2>4, <2>5 DEF NamedRooms
  <1>2. UNCHANGED <<Makers, Claims>>
    BY DEF EvictDelete, Makers, Claims, Claim
  <1> HIDE DEF r
  <1>3. Quota!Evict(r) /\ r \in NamedRooms \ NamedRooms'
    BY <1>1, <1>2 DEF Quota!Evict
  <1> QED
    BY <1>3 DEF Quota!Next

LEMMA QuotaStep ==
    ASSUME ConstantsAssumption, LimitsAssumption, Base, Seats, TrackerExact, [Next]_vars
    PROVE  [Quota!Next]_(Quota!quotaVars)
  <1>1. ASSUME NEW c \in Clients, CreateSteps(c)
        PROVE  Quota!Next
    BY <1>1, CountRefines, CanCreateRefines, NoRoomRefines, CreateRefines DEF CreateSteps
  <1>2. CASE EvictDelete
    BY <1>2, EvictRefines
  <1> QED
    BY <1>1, <1>2, OthersStutter DEF Next

\* The counters, kept under a lock of their own, decide as the registry itself
\* would: who is granted a room has an address and a session with fewer rooms
\* than their quotas, who is refused has not, unless creations are limited in
\* rate (CanCreate, Register, Unregister, with evictStale in between).
THEOREM CountersDecideRightly == Spec => KeepsQuota
  <1>1. Init => Quota!Init
    <2> SUFFICES ASSUME Init PROVE Quota!Init
      OBVIOUS
    <2>1. NamedRooms = {}
      <3>1. \A n \in Names : n \in AllNames /\ n # Lobby
        BY ConstantsAssumption DEF ConstantsAssumption, AllNames
      <3>2. \A n \in Names : rooms[n] = NoRoom
        BY <3>1 DEF Init
      <3> QED
        BY <3>2 DEF NamedRooms
    <2>2. Claims = [c \in Clients |-> Quota!NoClaim]
      <3>1. \A c \in Clients : Claim(c) = Quota!NoClaim
        BY ClaimIs DEF Init
      <3> QED
        BY <3>1 DEF Claims
    <2>3. \E ip \in IPs : Makers = [r \in RoomIds |-> [ip |-> ip, sid |-> NoSid]]
      BY DEF Init, Makers
    <2> QED
      BY <2>1, <2>2, <2>3 DEF Quota!Init
  <1>2. Base /\ Seats /\ TrackerExact /\ [Next]_vars => [Quota!Next]_(Quota!quotaVars)
    BY QuotaStep, ConstantsAssumption, LimitsAssumption
  <1> QED
    BY <1>1, <1>2, SeatsAlways, TrackerIsExact, ConstantsAssumption, LimitsAssumption,
       PTL DEF Spec, KeepsQuota, Quota!Spec
=============================================================================
