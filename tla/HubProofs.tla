------------------------------ MODULE HubProofs ------------------------------
(***************************************************************************)
(* Connections, from admission to removal, for every number of them, every *)
(* limit and every size of the send buffer.                                *)
(*                                                                         *)
(* Two arguments, each with its own invariant over the types.  Counting:   *)
(* whoever stands between the check and the registration adds to connCount *)
(* what the check did not see (Room).  Closing: a channel is closed only   *)
(* for a connection that is done, the only such member is the one being    *)
(* removed, and broadcasts serve members (Channels).                       *)
(*                                                                         *)
(* And the limiter that admits connections by address (allowConnection),   *)
(* with the two of limits.go that are written like it: the pruned list     *)
(* loses nothing that counts, no window of time ever holds more grants     *)
(* than the limit, and each request gets the answer that the full history  *)
(* would have given it.  The invariant is LimiterInv: the limit over every *)
(* window needs ListComplete, since it is the list, and not the history,   *)
(* that Allow counts.                                                      *)
(***************************************************************************)
EXTENDS Hub, SlidingWindow, FiniteSetTheorems, TLAPS

\* Nobody was let in by a check that the connections, those under way included,
\* had already passed by more than the peak.
Room ==
    /\ Cardinality(Admitted) <= peak
    /\ connCount + Cardinality(Admitted) > 0 =>
         connCount + Cardinality(Admitted) < MaxConnections + peak

Counting == TypeOK /\ ConnAccounting /\ Room

\* What close(c.send) has to do with the steps of a connection and of the hub.
Channels ==
    /\ \A c \in Conns : closed[c] <=> pc[c] = "done"
    /\ \A c \in members : closed[c] => Parting /\ hub.conn = c
    /\ hub.todo \subseteq members
    /\ hub.at # "cast" => hub.todo = {}
    /\ \A c \in Conns : todo[c] \subseteq members
    /\ \A c \in Conns : pc[c] # "casting" => todo[c] = {}
    /\ crashed => Parting

-----------------------------------------------------------------------------
LEMMA InitCounting ==
    ASSUME HubAssumption, Init
    PROVE  Counting
  <1>1. TypeOK
    <2>1. hub \in [at : {"idle", "remove", "part", "cast"}, conn : Conns \cup {NoConn},
                 todo : SUBSET Conns]
      BY DEF Init, HubIdle
    <2>2. /\ pc \in [Conns -> ConnSteps]
          /\ writer \in [Conns -> {"none", "running", "ended"}]
          /\ queue \in [Conns -> 0 .. SendBuffer]
          /\ closed \in [Conns -> BOOLEAN]
          /\ todo \in [Conns -> SUBSET Conns]
      BY DEF Init, ConnSteps, HubAssumption
    <2> QED
      BY <2>1, <2>2 DEF Init, TypeOK
  <1>2. Admitted = {} /\ {c \in Conns : pc[c] \in Working \cup {"leaving"}} = {}
    BY DEF Init, Admitted, Working
  <1>3. Cardinality({}) = 0
    BY FS_EmptySet
  <1> QED
    BY <1>1, <1>2, <1>3 DEF Init, Counting, ConnAccounting, Room

LEMMA InitChannels ==
    ASSUME Init
    PROVE  Channels
  BY DEF Init, Channels, HubIdle, Parting

-----------------------------------------------------------------------------
(* Types *)

\* A push of one message, to a connection.
LEMMA PushTyped ==
    ASSUME HubAssumption, TypeOK, NEW c \in Conns, Push(c)
    PROVE  queue' \in [Conns -> 0 .. SendBuffer] /\ crashed' \in BOOLEAN
  BY DEF HubAssumption, TypeOK, Push

\* The connections that count are finitely many.
LEMMA CountsAreFinite ==
    ASSUME HubAssumption, NEW S \in SUBSET Conns
    PROVE  IsFiniteSet(S) /\ Cardinality(S) \in Nat
  BY FS_Subset, FS_CardinalityType DEF HubAssumption

LEMMA TypeNext ==
    ASSUME HubAssumption, TypeOK, ConnAccounting, [Next]_vars
    PROVE  TypeOK'
  <1> USE DEF TypeOK, regVars, sendVars
  <1>1. CASE UNCHANGED vars
    BY <1>1 DEF vars
  <1>2. ASSUME NEW c \in Conns, ServeCheck(c)
        PROVE  TypeOK'
    <2>1. Cardinality(Admitted) \in Nat
      BY CountsAreFinite DEF Admitted
    <2> QED
      BY <1>2, <2>1 DEF ServeCheck, Goto, ConnSteps
  <1>3. ASSUME NEW c \in Conns, ServeUpgrade(c) \/ Register(c)
        PROVE  TypeOK'
    BY <1>3 DEF ServeUpgrade, Register, Goto, ConnSteps
  <1>4. ASSUME NEW c \in Conns, Reply(c)
        PROVE  TypeOK'
    BY <1>4, PushTyped DEF Reply, Push
  <1>5. ASSUME NEW c \in Conns, Join(c) \/ StartCast(c) \/ CastDone(c) \/ ReadFails(c)
        PROVE  TypeOK'
    BY <1>5 DEF Join, StartCast, CastDone, ReadFails, Goto, ConnSteps
  <1>6. ASSUME NEW c \in Conns, NEW m \in Conns, CastOne(c, m)
        PROVE  TypeOK'
    <2>1. queue' \in [Conns -> 0 .. SendBuffer] /\ crashed' \in BOOLEAN
      BY <1>6, PushTyped DEF CastOne
    <2> QED
      BY <1>6, <2>1 DEF CastOne, Push
  <1>7. ASSUME NEW c \in Conns, Unregister(c)
        PROVE  TypeOK'
    <2>1. connCount' \in Nat
      <3>1. CASE c \in clients
        <4>1. Cardinality(clients) # 0
          BY <3>1, CountsAreFinite, FS_EmptySet
        <4> QED
          BY <1>7, <3>1, <4>1, CountsAreFinite DEF Unregister, Forget, ConnAccounting
      <3> QED
        BY <1>7, <3>1 DEF Unregister, Forget
    <2>2. clients' \subseteq Conns /\ closed' \in [Conns -> BOOLEAN]
      BY <1>7 DEF Unregister, Forget
    <2>3. hub' \in [at : {"idle", "remove", "part", "cast"}, conn : Conns \cup {NoConn},
                    todo : SUBSET Conns]
      BY <1>7 DEF Unregister, HubIdle
    <2> QED
      BY <1>7, <2>1, <2>2, <2>3 DEF Unregister, Goto, ConnSteps
  <1>8. CASE HubAsks \/ HubPart \/ HubCastDone
    <2>1. hub' \in [at : {"idle", "remove", "part", "cast"}, conn : Conns \cup {NoConn},
                  todo : SUBSET Conns]
      <3>1. CASE HubPart
        BY <3>1 DEF HubPart
      <3>2. CASE HubAsks \/ HubCastDone
        BY <3>2 DEF HubAsks, HubCastDone, HubIdle
      <3> QED
        BY <1>8, <3>1, <3>2
    <2> QED
      BY <1>8, <2>1 DEF HubAsks, HubPart, HubCastDone
  <1>9. ASSUME NEW m \in Conns, HubCastOne(m)
        PROVE  TypeOK'
    <2>1. queue' \in [Conns -> 0 .. SendBuffer] /\ crashed' \in BOOLEAN
      BY <1>9, PushTyped DEF HubCastOne
    <2> QED
      BY <1>9, <2>1 DEF HubCastOne, Push
  <1>10. ASSUME NEW c \in Conns, Write(c) \/ WriterEnds(c) \/ PeerFails(c)
         PROVE  TypeOK'
    BY <1>10 DEF HubAssumption, Write, WriterEnds, PeerFails
  <1> QED
    BY <1>1, <1>2, <1>3, <1>4, <1>5, <1>6, <1>7, <1>8, <1>9, <1>10
    DEF Next, CastSteps, HubSteps

-----------------------------------------------------------------------------
(* Counting *)

\* Steps that let nobody in and nobody out, whatever else they do.
LEMMA NobodyCounted ==
    ASSUME HubAssumption, Counting, UNCHANGED <<clients, connCount, peak>>,
           NEW c \in Conns, NEW step \in Working \cup {"leaving"},
           pc[c] \in Working \cup {"leaving"},
           UNCHANGED pc \/ Goto(c, step)
    PROVE  (ConnAccounting /\ Room)'
  <1>1. \A d \in Conns :
          /\ pc'[d] \in {"checked", "registering"} <=> pc[d] \in {"checked", "registering"}
          /\ pc'[d] \in Working \cup {"leaving"} <=> pc[d] \in Working \cup {"leaving"}
    BY DEF Goto, Counting, TypeOK, Working
  <1>2. Admitted' = Admitted
    BY <1>1 DEF Admitted
  <1>3. {d \in Conns : pc'[d] \in Working \cup {"leaving"}}
          = {d \in Conns : pc[d] \in Working \cup {"leaving"}}
    BY <1>1
  <1>4. Working' = Working
    BY DEF Working
  <1> QED
    BY <1>2, <1>3, <1>4 DEF Counting, ConnAccounting, Room

LEMMA CountingNext ==
    ASSUME HubAssumption, Counting, [Next]_vars
    PROVE  Counting'
  <1> USE DEF regVars, sendVars
  <1> TypeOK /\ ConnAccounting /\ Room
    BY DEF Counting
  <1>1. TypeOK'
    BY TypeNext
  <1>2. Working' = Working
    BY DEF Working
  <1>3. /\ connCount \in Nat /\ peak \in Nat /\ MaxConnections \in Nat
        /\ IsFiniteSet(Admitted) /\ Cardinality(Admitted) \in Nat
        /\ IsFiniteSet(clients) /\ Cardinality(clients) \in Nat
    BY CountsAreFinite DEF TypeOK, HubAssumption, Admitted
  <1>4. ASSUME UNCHANGED <<pc, clients, connCount, peak>>
        PROVE  (ConnAccounting /\ Room)'
    BY <1>2, <1>4 DEF ConnAccounting, Room, Admitted
  <1>5. ASSUME NEW c \in Conns, ServeCheck(c), HasRoom
        PROVE  (ConnAccounting /\ Room)'
    <2>1. Admitted' = Admitted \cup {c} /\ c \notin Admitted
      BY <1>5 DEF ServeCheck, Goto, Admitted, TypeOK
    <2>2. Cardinality(Admitted') = Cardinality(Admitted) + 1
      BY <1>3, <2>1, FS_AddElement
    <2>3. {d \in Conns : pc'[d] \in Working \cup {"leaving"}}
            = {d \in Conns : pc[d] \in Working \cup {"leaving"}}
      BY <1>5 DEF ServeCheck, Goto, Working, TypeOK
    <2>4. ConnAccounting'
      BY <1>2, <1>5, <2>3 DEF ServeCheck, ConnAccounting
    <2>5. connCount' = connCount /\ connCount < MaxConnections
      BY <1>5 DEF ServeCheck, HasRoom
    <2>6. peak' \in Nat /\ Cardinality(Admitted) + 1 <= peak'
      BY <1>1, <1>3, <1>5 DEF ServeCheck, TypeOK
    <2> QED
      BY <1>3, <2>2, <2>4, <2>5, <2>6 DEF Room
  <1>6. ASSUME NEW c \in Conns, pc[c] \in {"off", "checked"},
               Goto(c, "refused") \/ (pc[c] = "checked" /\ Goto(c, "registering")),
               UNCHANGED <<clients, connCount, peak>>
        PROVE  (ConnAccounting /\ Room)'
    <2>1. Admitted' = Admitted \/ Admitted' = Admitted \ {c}
      BY <1>6 DEF Goto, Admitted, TypeOK
    <2>2. Cardinality(Admitted') \in Nat /\ Cardinality(Admitted') <= Cardinality(Admitted)
      <3>1. CASE Admitted' = Admitted
        BY <1>3, <3>1
      <3>2. CASE Admitted' = Admitted \ {c}
        <4>1. Cardinality(Admitted \ {c})
                = IF c \in Admitted THEN Cardinality(Admitted) - 1 ELSE Cardinality(Admitted)
          BY <1>3, FS_RemoveElement
        <4>2. c \in Admitted => Cardinality(Admitted) # 0
          BY <1>3, FS_EmptySet
        <4> QED
          BY <1>3, <3>2, <4>1, <4>2
      <3> QED
        BY <2>1, <3>1, <3>2
    <2>3. {d \in Conns : pc'[d] \in Working \cup {"leaving"}}
            = {d \in Conns : pc[d] \in Working \cup {"leaving"}}
      BY <1>6 DEF Goto, Working, TypeOK
    <2> QED
      BY <1>2, <1>3, <1>6, <2>2, <2>3 DEF ConnAccounting, Room
  <1>7. ASSUME NEW c \in Conns, Register(c)
        PROVE  (ConnAccounting /\ Room)'
    <2>1. Admitted' = Admitted \ {c} /\ c \in Admitted
      BY <1>7 DEF Register, Goto, Admitted, TypeOK
    <2>2. Cardinality(Admitted') = Cardinality(Admitted) - 1
      BY <1>3, <2>1, FS_RemoveElement
    <2>3. {d \in Conns : pc'[d] \in Working \cup {"leaving"}}
            = {d \in Conns : pc[d] \in Working \cup {"leaving"}} \cup {c}
      BY <1>7 DEF Register, Goto, Working, TypeOK
    <2>4. c \notin clients
      BY <1>7 DEF Register, ConnAccounting, Working
    <2>5. Cardinality(clients') = Cardinality(clients) + 1
      BY <1>3, <1>7, <2>4, FS_AddElement DEF Register
    <2>6. ConnAccounting'
      BY <1>2, <1>7, <2>3, <2>5 DEF Register, ConnAccounting
    <2>7. Cardinality(Admitted) > 0
      BY <1>3, <2>1, FS_EmptySet
    <2> QED
      BY <1>3, <1>7, <2>2, <2>6, <2>7 DEF Register, Room
  <1>8. ASSUME NEW c \in Conns, Unregister(c)
        PROVE  (ConnAccounting /\ Room)'
    <2>1. c \in clients
      BY <1>8 DEF Unregister, ConnAccounting
    <2>2. Cardinality(clients') = Cardinality(clients) - 1 /\ clients' = clients \ {c}
      BY <1>3, <1>8, <2>1, FS_RemoveElement DEF Unregister, Forget
    <2>3. {d \in Conns : pc'[d] \in Working \cup {"leaving"}}
            = {d \in Conns : pc[d] \in Working \cup {"leaving"}} \ {c}
      BY <1>8 DEF Unregister, Goto, Working, TypeOK
    <2>4. ConnAccounting'
      BY <1>2, <1>8, <2>1, <2>2, <2>3 DEF Unregister, Forget, ConnAccounting
    <2>5. Admitted' = Admitted
      BY <1>8 DEF Unregister, Goto, Admitted, TypeOK
    <2>6. connCount' = connCount - 1 /\ peak' = peak
      BY <1>8, <2>1 DEF Unregister, Forget
    <2> QED
      BY <1>3, <2>4, <2>5, <2>6 DEF Room
  <1>9. ASSUME NEW c \in Conns,
               ServeCheck(c) \/ ServeUpgrade(c) \/ ReadFails(c) \/ Join(c)
                 \/ StartCast(c) \/ CastDone(c)
        PROVE  (ConnAccounting /\ Room)'
    <2>1. CASE ServeCheck(c) \/ ServeUpgrade(c)
      BY <1>5, <1>6, <2>1 DEF ServeCheck, ServeUpgrade
    <2>2. CASE ReadFails(c) \/ Join(c) \/ StartCast(c) \/ CastDone(c)
      <3>1. \E step \in Working \cup {"leaving"} : Goto(c, step)
        BY <2>2 DEF ReadFails, Join, StartCast, CastDone, Working
      <3>2. pc[c] \in Working \cup {"leaving"} /\ UNCHANGED <<clients, connCount, peak>>
        BY <2>2 DEF ReadFails, Join, StartCast, CastDone, Working
      <3> QED
        BY <3>1, <3>2, NobodyCounted
    <2> QED
      BY <1>9, <2>1, <2>2
  <1>10. ASSUME NEW c \in Conns, NEW m \in Conns,
                Reply(c) \/ CastOne(c, m) \/ HubCastOne(m) \/ Write(c) \/ WriterEnds(c)
                  \/ PeerFails(c)
         PROVE  (ConnAccounting /\ Room)'
    BY <1>4, <1>10 DEF Reply, CastOne, HubCastOne, Write, WriterEnds, PeerFails
  <1>11. ASSUME HubAsks \/ HubPart \/ HubCastDone
         PROVE  (ConnAccounting /\ Room)'
    BY <1>4, <1>11 DEF HubAsks, HubPart, HubCastDone
  <1>12. (ConnAccounting /\ Room)'
    BY <1>4, <1>7, <1>8, <1>9, <1>10, <1>11 DEF Next, CastSteps, HubSteps, vars
  <1> QED
    BY <1>1, <1>12 DEF Counting

-----------------------------------------------------------------------------
(* Closing *)

\* A push to a member, by somebody who is not being removed, panics at most
\* while the hub has not parted it.
LEMMA PushToMember ==
    ASSUME TypeOK, Channels, NEW m \in members, Push(m), ~crashed
    PROVE  crashed' => Parting
  BY DEF Push, Channels, TypeOK, Parting

LEMMA ChannelsNext ==
    ASSUME HubAssumption, Counting, Channels, [Next]_vars
    PROVE  Channels'
  <1> USE DEF regVars, sendVars, Parting
  <1> TypeOK /\ ConnAccounting
    BY DEF Counting
  <1>1. CASE UNCHANGED vars
    BY <1>1 DEF vars, Channels
  <1>2. CASE ~crashed
    <2>1. ASSUME NEW c \in Conns, ServeCheck(c) \/ ServeUpgrade(c) \/ Register(c)
          PROVE  Channels'
      BY <2>1 DEF ServeCheck, ServeUpgrade, Register, Goto, Channels, TypeOK
    <2>2. ASSUME NEW c \in Conns, Reply(c)
          PROVE  Channels'
      BY <2>2 DEF Reply, Push, Channels, TypeOK
    <2>3. ASSUME NEW c \in Conns, Join(c)
          PROVE  Channels'
      BY <2>3 DEF Join, Goto, Channels, TypeOK
    <2>4. ASSUME NEW c \in Conns, StartCast(c)
          PROVE  Channels'
      BY <2>4 DEF StartCast, Goto, Channels, TypeOK
    <2>5. ASSUME NEW c \in Conns, NEW m \in Conns, CastOne(c, m)
          PROVE  Channels'
      <3>1. m \in members /\ Push(m)
        BY <2>5 DEF CastOne, Channels
      <3>2. crashed' => Parting
        BY <1>2, <3>1, PushToMember
      <3> QED
        BY <2>5, <3>1, <3>2 DEF CastOne, Push, Channels, TypeOK
    <2>6. ASSUME NEW c \in Conns, CastDone(c) \/ ReadFails(c)
          PROVE  Channels'
      BY <2>6 DEF CastDone, ReadFails, Goto, Channels, TypeOK
    <2>7. ASSUME NEW c \in Conns, Unregister(c)
          PROVE  Channels'
      <3>1. c \in clients
        BY <2>7 DEF Unregister, ConnAccounting
      <3>2. closed' = [closed EXCEPT ![c] = TRUE] /\ pc' = [pc EXCEPT ![c] = "done"]
        BY <2>7, <3>1 DEF Unregister, Forget, Goto
      <3>3. \A d \in members : ~closed[d]
        BY <2>7 DEF Unregister, Channels, HubIdle
      <3>4. c \in members => Parting' /\ hub'.conn = c
        BY <2>7 DEF Unregister, AfterUnregister, HubIdle, Parting
      <3>5. hub'.at # "cast"
        BY <2>7 DEF Unregister, HubIdle
      <3> QED
        BY <1>2, <2>7, <3>2, <3>3, <3>4, <3>5 DEF Unregister, Channels, TypeOK, HubIdle
    <2>8. CASE HubPart
      <3>1. \A c \in Conns : todo[c] = {}
        BY <2>8 DEF HubPart, Casting, Channels
      <3> QED
        BY <1>2, <2>8, <3>1 DEF HubPart, Channels, TypeOK
    <2>9. ASSUME NEW m \in Conns, HubCastOne(m)
          PROVE  Channels'
      <3>1. m \in members /\ Push(m)
        BY <2>9 DEF HubCastOne, Channels
      <3>2. crashed' => Parting
        BY <1>2, <3>1, PushToMember
      <3> QED
        BY <2>9, <3>1, <3>2 DEF HubCastOne, Push, Channels, TypeOK
    <2>10. CASE HubAsks \/ HubCastDone
      BY <1>2, <2>10 DEF HubAsks, HubCastDone, HubIdle, Channels, TypeOK
    <2>11. ASSUME NEW c \in Conns, Write(c) \/ WriterEnds(c) \/ PeerFails(c)
           PROVE  Channels'
      BY <2>11 DEF Write, WriterEnds, PeerFails, Channels
    <2> QED
      BY <1>1, <2>1, <2>2, <2>3, <2>4, <2>5, <2>6, <2>7, <2>8, <2>9, <2>10, <2>11
      DEF Next, CastSteps, HubSteps
  <1> QED
    BY <1>1, <1>2 DEF Next

-----------------------------------------------------------------------------
(* Theorems *)

LEMMA CountingAlways == HubAssumption => (Spec => []Counting)
  <1>1. HubAssumption /\ Init => Counting
    BY InitCounting
  <1>2. HubAssumption /\ Counting /\ [Next]_vars => Counting'
    BY CountingNext
  <1> QED
    BY <1>1, <1>2, HubAssumption, PTL DEF Spec

\* Every variable of the hub and of its connections keeps its type; no send
\* buffer is ever over its capacity.
THEOREM TypeCorrect == Spec => []TypeOK
  <1>1. Counting => TypeOK
    BY DEF Counting
  <1> QED
    BY <1>1, CountingAlways, HubAssumption, PTL

\* connCount is the number of connections registered and not yet removed, and
\* MaxConnections is exceeded by less than the most connections that were ever
\* between its check and their registration at once.
THEOREM AdmissionIsCounted == Spec => []AdmissionCounts
  <1>1. HubAssumption /\ Counting => AdmissionCounts
    <2> SUFFICES ASSUME HubAssumption, Counting
                 PROVE  AdmissionCounts
      OBVIOUS
    <2>1. connCount \in Nat /\ peak \in Nat /\ MaxConnections \in Nat
          /\ Cardinality(Admitted) \in Nat
      BY CountsAreFinite DEF Counting, TypeOK, HubAssumption, Admitted
    <2> QED
      BY <2>1 DEF Counting, Room, AdmissionCounts, OvershootBounded
  <1> QED
    BY <1>1, CountingAlways, HubAssumption, PTL

\* A broadcast can meet a closed channel only between removeClient's close and
\* its Room.Part, and then only that of the connection being removed: no other
\* member and no other target has one, and no send panics at any other time.
THEOREM OnlyWhileRemoving == Spec => []ClosedOnlyWhileRemoving
  <1>1. Init => Channels
    BY InitChannels
  <1>2. HubAssumption /\ Counting /\ Channels /\ [Next]_vars => Channels'
    BY ChannelsNext
  <1>3. Channels => ClosedOnlyWhileRemoving
    <2> SUFFICES ASSUME Channels PROVE ClosedOnlyWhileRemoving
      OBVIOUS
    <2>1. /\ hub.todo \subseteq members /\ \A c \in Conns : todo[c] \subseteq members
          /\ \A m \in members : closed[m] => Parting /\ hub.conn = m
          /\ crashed => Parting
      BY DEF Channels
    <2> QED
      BY <2>1 DEF ClosedOnlyWhileRemoving
  <1> QED
    BY <1>1, <1>2, <1>3, CountingAlways, HubAssumption, PTL DEF Spec

-----------------------------------------------------------------------------
(* The limiters: SlidingWindow *)

LimiterInv == LimiterTypeOK /\ ListComplete /\ NoWindowOverLimit

\* Outside the unlimited case, what the pruning loop keeps of the list is
\* what a look at the full history would keep of it.
LEMMA SameRecent ==
    ASSUME LimiterTypeOK, ListComplete, ~Unlimited
    PROVE  Recent(times) = Promise!Recent(granted)
  BY DEF LimiterTypeOK, ListComplete, Recent, Promise!Recent

\* Adding one grant to a set that is within a smaller one than the limit.
LEMMA OneMoreFits ==
    ASSUME NEW S, NEW T, IsFiniteSet(T), S \subseteq T, NEW g,
           NEW L \in Nat, Cardinality(T) < L
    PROVE  Cardinality(S \cup {g}) <= L
  <1>1. IsFiniteSet(S) /\ Cardinality(S) <= Cardinality(T)
    BY FS_Subset
  <1>2. Cardinality(S) \in Nat /\ Cardinality(T) \in Nat
    BY <1>1, FS_CardinalityType
  <1>3. Cardinality(S \cup {g}) \in {Cardinality(S), Cardinality(S) + 1}
    BY <1>1, FS_AddElement
  <1> QED
    BY <1>1, <1>2, <1>3

LEMMA LimiterTypeStep ==
    ASSUME LimiterTypeOK, [LimiterNext]_limiterVars
    PROVE  LimiterTypeOK'
  <1> USE DEF LimiterTypeOK, Answers, Granted, Refused
  <1>1. CASE Tick
    BY <1>1 DEF Tick
  <1>2. ASSUME NEW g \in Grants, Allow(g)
        PROVE  LimiterTypeOK'
    BY <1>2 DEF Allow, Note, Recent
  <1>3. CASE Deny
    BY <1>3 DEF Deny
  <1>4. CASE UNCHANGED limiterVars
    BY <1>4 DEF limiterVars
  <1> QED
    BY <1>1, <1>2, <1>3, <1>4 DEF LimiterNext

LEMMA ListStep ==
    ASSUME LimiterTypeOK, ListComplete, WindowAssumption, [LimiterNext]_limiterVars
    PROVE  ListComplete'
  <1> USE DEF LimiterTypeOK, ListComplete, Unlimited, Promise!Recent
  <1>1. CASE Tick
    BY <1>1 DEF Tick, WindowAssumption
  <1>2. ASSUME NEW g \in Grants, Allow(g)
        PROVE  ListComplete'
    BY <1>2 DEF Allow, Note, Recent
  <1>3. CASE Deny
    BY <1>3 DEF Deny
  <1>4. CASE UNCHANGED limiterVars
    BY <1>4 DEF limiterVars
  <1> QED
    BY <1>1, <1>2, <1>3, <1>4 DEF LimiterNext

\* The grant of Allow falls in the windows that end at t or later but began
\* before it; what those held already is recent, so it was counted.
LEMMA WindowStep ==
    ASSUME LimiterInv, WindowAssumption, [LimiterNext]_limiterVars
    PROVE  NoWindowOverLimit'
  <1> USE DEF LimiterInv
  <1>1. CASE Tick
    BY <1>1 DEF Tick, NoWindowOverLimit, InWindow, Unlimited
  <1>2. ASSUME NEW g \in Grants, Allow(g)
        PROVE  NoWindowOverLimit'
    <2> SUFFICES ASSUME ~Unlimited, NEW t \in 0 .. MaxTime
                 PROVE  Cardinality(InWindow(t)') <= Limit
      BY DEF NoWindowOverLimit, Unlimited
    <2>1. now \in Int /\ at \in [Grants -> Nat] /\ granted \subseteq Grants
      BY DEF LimiterTypeOK
    <2>2. /\ g \notin granted /\ granted' = granted \cup {g}
          /\ at' = [at EXCEPT ![g] = now]
          /\ Cardinality(Recent(times)) < Limit
      BY <1>2 DEF Allow, Note
    <2>3. CASE t - Window < now /\ now <= t
      <3>1. InWindow(t)' = InWindow(t) \cup {g}
        BY <2>1, <2>2, <2>3 DEF InWindow, WindowAssumption
      <3>2. InWindow(t) \subseteq Recent(times)
        <4>1. InWindow(t) \subseteq Promise!Recent(granted)
          BY <2>1, <2>3 DEF InWindow, Promise!Recent, WindowAssumption
        <4> QED
          BY <4>1, SameRecent
      <3>3. IsFiniteSet(Recent(times))
        <4>1. Recent(times) \subseteq Grants
          BY DEF Recent, LimiterTypeOK
        <4> QED
          BY <4>1, FS_Subset DEF WindowAssumption
      <3>4. Limit \in Nat
        BY DEF WindowAssumption
      <3> QED
        BY <2>2, <3>1, <3>2, <3>3, <3>4, OneMoreFits
    <2>4. CASE ~(t - Window < now /\ now <= t)
      <3>1. InWindow(t)' = InWindow(t)
        BY <2>1, <2>2, <2>4 DEF InWindow, WindowAssumption
      <3> QED
        BY <3>1 DEF NoWindowOverLimit
    <2> QED
      BY <2>3, <2>4
  <1>3. CASE Deny
    BY <1>3 DEF Deny, NoWindowOverLimit, InWindow, Unlimited
  <1>4. CASE UNCHANGED limiterVars
    BY <1>4 DEF limiterVars, NoWindowOverLimit, InWindow, Unlimited
  <1> QED
    BY <1>1, <1>2, <1>3, <1>4 DEF LimiterNext

LEMMA LimiterInvInit ==
    ASSUME WindowAssumption, LimiterInit
    PROVE  LimiterInv
  <1> USE DEF LimiterInit, Promise!Init
  <1>1. LimiterTypeOK
    BY DEF LimiterTypeOK, Answers, Granted
  <1>2. ListComplete
    BY DEF ListComplete, Promise!Recent
  <1>3. NoWindowOverLimit
    <2> SUFFICES ASSUME NEW t \in 0 .. MaxTime
                 PROVE  Cardinality(InWindow(t)) <= Limit
      BY DEF NoWindowOverLimit
    <2>1. InWindow(t) = {}
      BY DEF InWindow
    <2> QED
      BY <2>1, FS_EmptySet DEF WindowAssumption
  <1> QED
    BY <1>1, <1>2, <1>3 DEF LimiterInv

LEMMA LimiterInvAlways == LimiterSpec => []LimiterInv
  <1>1. LimiterInit => LimiterInv
    BY LimiterInvInit, WindowAssumption
  <1>2. LimiterInv /\ [LimiterNext]_limiterVars => LimiterInv'
    BY LimiterTypeStep, ListStep, WindowStep, WindowAssumption DEF LimiterInv
  <1> QED
    BY <1>1, <1>2, PTL DEF LimiterSpec

\* The limiters' state keeps its types, and no grant lies in the future.
THEOREM LimiterTypeCorrect == LimiterSpec => []LimiterTypeOK
  BY LimiterInvAlways, PTL DEF LimiterInv

\* Pruning (limits.go, hub.go) never drops a grant that still counts.
THEOREM ListIsComplete == LimiterSpec => []ListComplete
  BY LimiterInvAlways, PTL DEF LimiterInv

\* No Window-long interval of time holds more than Limit grants, whichever
\* moment it ends at.
THEOREM WindowNeverOverLimit == LimiterSpec => []NoWindowOverLimit
  BY LimiterInvAlways, PTL DEF LimiterInv

\* The two instances of FiniteSets count alike.
LEMMA SameCount ==
    ASSUME NEW S
    PROVE  Promise!Cardinality(S) = Cardinality(S)
  BY DEF Promise!Cardinality, Cardinality, Promise!IsFiniteSet, IsFiniteSet

\* One step of the limiter is one step of the promise, or a stutter.
LEMMA StepRefines ==
    ASSUME LimiterInv, [LimiterNext]_limiterVars
    PROVE  [Promise!Next]_(Promise!absVars)
  <1> USE DEF Promise!Next
  <1>1. CASE Tick
    BY <1>1 DEF Tick, Promise!Tick
  <1>2. ASSUME NEW g \in Grants, Allow(g)
        PROVE  Promise!Next
    <2>1. Promise!Unlimited \/ Cardinality(Promise!Recent(granted)) < Limit
      BY <1>2, SameRecent DEF Allow, LimiterInv, Unlimited, Promise!Unlimited
    <2>2. Promise!Grant(g)
      BY <1>2, <2>1, SameCount DEF Allow, Note, Promise!Grant, Granted
    <2> QED
      BY <2>2
  <1>3. CASE Deny
    <2>1. ~Promise!Unlimited /\ Cardinality(Promise!Recent(granted)) >= Limit
      BY <1>3, SameRecent DEF Deny, LimiterInv, Unlimited, Promise!Unlimited
    <2>2. Promise!Refuse
      BY <1>3, <2>1, SameCount DEF Deny, Promise!Refuse, Refused
    <2> QED
      BY <2>2
  <1>4. CASE UNCHANGED limiterVars
    BY <1>4 DEF limiterVars, Promise!absVars
  <1> QED
    BY <1>1, <1>2, <1>3, <1>4 DEF LimiterNext

\* The code's limiter, which forgets what it has pruned, answers each request
\* as the one that remembers everything.
THEOREM ImplementsPromise == LimiterSpec => KeepsPromise
  <1>1. LimiterInit => Promise!Init
    BY DEF LimiterInit
  <1>2. LimiterInv /\ [LimiterNext]_limiterVars => [Promise!Next]_(Promise!absVars)
    BY StepRefines
  <1> QED
    BY <1>1, <1>2, LimiterInvAlways, PTL DEF LimiterSpec, KeepsPromise, Promise!Spec
=============================================================================
