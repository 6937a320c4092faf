--------------------------- MODULE ChatLogProofs ---------------------------
(***************************************************************************)
(* Proofs about ChatLog: announcements, what is kept, the order of live    *)
(* lines, and that a joiner misses nothing.                                *)
(***************************************************************************)
EXTENDS ChatLog, SequenceTheorems, TLAPS

-----------------------------------------------------------------------------
(* Announcements: an argument about the start-up sequence alone.           *)

\* A release that was announced is the one recorded, so only a process that
\* failed to read the record comes to announce it again.
Ledger ==
    /\ {told, misreads} \subseteq Nat
    /\ told # 0 => meta = version
    /\ boot = "announce" => meta = version
    /\ (told # 0 /\ boot \in {"record", "announce"}) => misreads > 0

\* The steps that are not part of the start-up.
LEMMA LedgerFrame ==
    ASSUME Next
    PROVE  \/ Boot
           \/ \E v \in Versions : Restart(v)
           \/ UNCHANGED <<meta, bootVars>>
  <1>1. CASE Talk
    BY <1>1 DEF Talk, Say, StoreLine, Broadcast, BroadcastReturns, SendRaw, dbVars
  <1>2. CASE Membership
    BY <1>2 DEF Membership, StartJoin, Join, ReadHistory, SendHistory, Part, dbVars
  <1>3. CASE (\E l \in store : Expire(l)) \/ Purge
    BY <1>3 DEF Expire, Purge
  <1> QED BY <1>1, <1>2, <1>3 DEF Next

LEMMA LedgerStep ==
    ASSUME Ledger, [Next]_vars
    PROVE  Ledger'
  <1>1. CASE NoRelease
    BY <1>1 DEF Ledger, NoRelease, bootFrame
  <1>2. CASE Compare
    BY <1>2 DEF Ledger, Compare, BootNext, BootOrder, bootFrame
  <1>3. CASE SetMeta
    BY <1>3 DEF Ledger, SetMeta, BootNext, BootOrder, bootFrame
  <1>4. CASE announceReleaseInLobby
    BY <1>4 DEF Ledger, announceReleaseInLobby, BootNext, BootOrder, bootFrame
  <1>5. ASSUME NEW v \in Versions, Restart(v) PROVE Ledger'
    BY <1>5 DEF Ledger, Restart, BootOrder, dbVars
  <1>6. CASE UNCHANGED <<meta, bootVars>>
    BY <1>6 DEF Ledger, bootVars
  <1>7. CASE UNCHANGED vars
    BY <1>7, <1>6 DEF vars, dbVars
  <1> QED BY <1>1, <1>2, <1>3, <1>4, <1>5, <1>6, <1>7, LedgerFrame DEF Boot

\* While a release stays in place it is announced at most once, however often
\* the server is killed and restarted (LoadRelease records it before it
\* announces it), but for processes that failed to read the record.
THEOREM AnnouncedAtMostOnce == Spec => AnnouncedOnce
  <1>1. Init => Ledger
    BY ChatLogAssumption DEF Init, Ledger, BootOrder, ChatLogAssumption
  <1>2. Ledger /\ [Next]_vars => Ledger'
    BY LedgerStep
  <1>3. Ledger /\ [Next]_vars => [announced' # announced => told = 0 \/ misreads > 0]_vars
    <2> SUFFICES ASSUME Ledger, Next, announced' # announced
                 PROVE  told = 0 \/ misreads > 0
      OBVIOUS
    <2>1. announceReleaseInLobby
      BY LedgerFrame
      DEF Boot, NoRelease, Compare, SetMeta, Restart, bootFrame, bootVars
    <2> QED
      BY <2>1 DEF Ledger, announceReleaseInLobby
  <1> QED
    BY <1>1, <1>2, <1>3, PTL DEF Spec, AnnouncedOnce

-----------------------------------------------------------------------------
(* Types, and what the program counters say.                               *)

\* Who is a member; what is under way while the server starts; which
\* broadcasts have deliveries left, and of which line.
Phases ==
    /\ \A c \in Conns : c \in members <=> pc[c] \notin {"off", "enter"}
    /\ \A c \in Conns : pc[c] # "send" => snap[c] = {}
    /\ ~Up => members = {} /\ \A s \in Speakers : pc[s] \in {"in", "off"}
    /\ \A s \in Speakers : pc[s] # "casting" => pending[s] = {}
    /\ \A s \in Speakers : pending[s] \subseteq {LineOf(s)} \X members

Base == TypeOK /\ Phases

LEMMA LinesTyped ==
    ASSUME TypeOK
    PROVE  /\ \A s \in Speakers : LineOf(s) \in Line
           /\ Announcement \in Line
  BY DEF TypeOK, LineOf, Announcement, Line

LEMMA BaseInit ==
    ASSUME ChatLogAssumption, Init
    PROVE  Base
  <1>1. TypeOK
    BY DEF Init, TypeOK, AtRest, Steps, BootOrder, ChatLogAssumption
  <1>2. Phases
    BY DEF Init, Phases, AtRest, BootOrder, Up, ChatLogAssumption, Speakers
  <1> QED BY <1>1, <1>2 DEF Base

LEMMA BaseTalk ==
    ASSUME Base, Talk
    PROVE  Base'
  <1> USE LinesTyped DEF Base
  <1>1. ASSUME NEW s \in Speakers, Say(s) PROVE Base'
    <2>1. TypeOK'
      BY <1>1 DEF TypeOK, Say, SayOrder, Steps, SaySteps, dbVars, bootVars, recvVars
    <2>2. Phases'
      BY <1>1 DEF Phases, TypeOK, Say, Free, SayOrder, Up, LineOf, Speakers,
                  dbVars, bootVars, recvVars
    <2> QED BY <2>1, <2>2
  <1>2. ASSUME NEW s \in Speakers, StoreLine(s) PROVE Base'
    <2>1. TypeOK'
      BY <1>2 DEF TypeOK, StoreLine, Add, SayNext, SayOrder, Steps, SaySteps,
                  bootVars, recvVars
    <2>2. Phases'
      BY <1>2 DEF Phases, TypeOK, StoreLine, Add, SayNext, SayOrder, Up, LineOf,
                  Speakers, bootVars, recvVars
    <2> QED BY <2>1, <2>2
  <1>3. ASSUME NEW s \in Speakers, Broadcast(s) PROVE Base'
    <2>1. TypeOK'
      BY <1>3 DEF TypeOK, Broadcast, SayNext, SayOrder, Steps, SaySteps,
                  dbVars, bootVars, recvVars
    <2>2. Phases'
      BY <1>3 DEF Phases, TypeOK, Broadcast, SayNext, SayOrder, Up, LineOf,
                  Speakers, dbVars, bootVars, recvVars
    <2> QED BY <2>1, <2>2
  <1>4. ASSUME NEW s \in Speakers, BroadcastReturns(s) PROVE Base'
    <2>1. TypeOK'
      BY <1>4 DEF TypeOK, BroadcastReturns, SayNext, SayOrder, Steps, SaySteps,
                  dbVars, bootVars, recvVars, sayVars
    <2>2. Phases'
      BY SMTT(30), <1>4 DEF Phases, TypeOK, BroadcastReturns, SayNext, SayOrder, Up, LineOf,
                  Speakers, dbVars, bootVars, recvVars, sayVars
    <2> QED BY <2>1, <2>2
  <1>5. ASSUME NEW s \in Speakers, NEW l, NEW m, <<l, m>> \in pending[s],
               SendRaw(s, l, m)
        PROVE  Base'
    <2>1. l \in Line /\ m \in Conns
      BY <1>5 DEF TypeOK
    <2>2. live' \in [Conns -> Seq(Line)]
      <3>1. live[m] \in Seq(Line)
        BY <2>1 DEF TypeOK
      <3>2. Append(live[m], l) \in Seq(Line)
        BY <2>1, <3>1, AppendProperties
      <3>3. live' = [live EXCEPT ![m] = Append(live[m], l)] \/ live' = live
        BY <1>5 DEF SendRaw
      <3> HIDE DEF Line
      <3> QED BY <2>1, <3>2, <3>3 DEF TypeOK
    <2>3. TypeOK'
      BY <1>5, <2>1, <2>2 DEF TypeOK, SendRaw, dbVars, bootVars
    <2>4. Phases'
      BY <1>5 DEF Phases, TypeOK, SendRaw, Up, LineOf, dbVars, bootVars
    <2> QED BY <2>3, <2>4
  <1> QED BY <1>1, <1>2, <1>3, <1>4, <1>5 DEF Talk, TypeOK

LEMMA BaseMembership ==
    ASSUME Base, Membership
    PROVE  Base'
  <1> USE LinesTyped DEF Base
  <1>1. ASSUME NEW c \in Conns, StartJoin(c) PROVE Base'
    <2>1. TypeOK'
      BY <1>1 DEF TypeOK, StartJoin, JoinOrder, Steps, Speakers,
                  dbVars, bootVars, recvVars, sayVars
    <2>2. Phases'
      BY <1>1 DEF Phases, TypeOK, StartJoin, JoinOrder, Up, LineOf, Speakers,
                  dbVars, bootVars, recvVars, sayVars
    <2> QED BY <2>1, <2>2
  <1>2. ASSUME NEW c \in Conns, Join(c) PROVE Base'
    <2>1. TypeOK'
      BY <1>2 DEF TypeOK, Join, JoinNext, JoinOrder, Steps, Speakers,
                  dbVars, bootVars, recvVars, sayVars, NoBroadcast
    <2>2. Phases'
      BY <1>2 DEF Phases, TypeOK, Join, JoinNext, JoinOrder, Up, LineOf, Speakers,
                  dbVars, bootVars, recvVars, sayVars, NoBroadcast
    <2> QED BY <2>1, <2>2
  <1>3. ASSUME NEW c \in Conns, ReadHistory(c) PROVE Base'
    <2>0. /\ snap' \in [Conns -> SUBSET Line] /\ gap' \subseteq Conns
          /\ pc' \in [Speakers -> Steps]
      <3>1. GetRoomHistory \in SUBSET Line
        BY DEF TypeOK, GetRoomHistory
      <3>2. snap' \in [Conns -> SUBSET Line] /\ gap' \subseteq Conns
        BY <1>3, <3>1 DEF TypeOK, ReadHistory
      <3>3. pc' \in [Speakers -> Steps]
        BY <1>3 DEF TypeOK, ReadHistory, JoinNext, JoinOrder, Steps, Speakers
      <3> QED BY <3>2, <3>3
    <2>1. TypeOK'
      BY <1>3, <2>0 DEF TypeOK, ReadHistory, dbVars, bootVars, sayVars
    <2>2. Phases'
      BY SMTT(30), <1>3 DEF Phases, TypeOK, ReadHistory, JoinNext, JoinOrder, Up, LineOf,
                  Speakers, dbVars, bootVars, sayVars
    <2> QED BY <2>1, <2>2
  <1>4. ASSUME NEW c \in Conns, SendHistory(c) PROVE Base'
    <2>0. /\ snap' \in [Conns -> SUBSET Line] /\ shown' \in [Conns -> SUBSET Line]
          /\ gap' \subseteq Conns /\ pc' \in [Speakers -> Steps]
      <3>1. shown' \in [Conns -> SUBSET Line] /\ gap' \subseteq Conns
        BY <1>4 DEF TypeOK, SendHistory
      <3>2. snap' \in [Conns -> SUBSET Line]
        BY <1>4 DEF TypeOK, SendHistory
      <3>3. pc' \in [Speakers -> Steps]
        BY <1>4 DEF TypeOK, SendHistory, JoinNext, JoinOrder, Steps, Speakers
      <3> QED BY <3>1, <3>2, <3>3
    <2>1. TypeOK'
      BY <1>4, <2>0 DEF TypeOK, SendHistory, dbVars, bootVars, sayVars
    <2>2. Phases'
      BY <1>4 DEF Phases, TypeOK, SendHistory, JoinNext, JoinOrder, Up, LineOf,
                  Speakers, dbVars, bootVars, sayVars
    <2> QED BY <2>1, <2>2
  <1>5. ASSUME NEW c \in Conns, Part(c) PROVE Base'
    <2>1. TypeOK'
      BY <1>5 DEF TypeOK, Part, NoBroadcast, Steps, Speakers,
                  dbVars, bootVars, sayVars
    <2>2. Phases'
      BY <1>5 DEF Phases, TypeOK, Part, NoBroadcast, Free, Up, LineOf, Speakers,
                  dbVars, bootVars, sayVars
    <2> QED BY <2>1, <2>2
  <1> QED BY <1>1, <1>2, <1>3, <1>4, <1>5 DEF Membership

LEMMA BaseStep ==
    ASSUME ChatLogAssumption, Base, [Next]_vars
    PROVE  Base'
  <1> USE LinesTyped DEF Base
  <1>1. CASE \E l \in store : Expire(l)
    BY <1>1 DEF TypeOK, Phases, Expire, Up, LineOf, bootVars, recvVars, sayVars
  <1>2. CASE Purge
    BY <1>2 DEF TypeOK, Phases, Purge, Up, LineOf, bootVars, recvVars, sayVars
  <1>3. CASE Boot
    <2> USE DEF TypeOK, Phases, Up, LineOf, bootFrame, recvVars
    <2>1. CASE NoRelease
      BY <2>1 DEF NoRelease
    <2>2. CASE Compare
      BY <2>2 DEF Compare, BootNext, BootOrder
    <2>3. CASE SetMeta
      BY <2>3 DEF SetMeta, BootNext, BootOrder
    <2>4. CASE announceReleaseInLobby
      BY <2>4 DEF announceReleaseInLobby, Add, BootNext, BootOrder
    <2> QED BY <1>3, <2>1, <2>2, <2>3, <2>4 DEF Boot
  <1>4. ASSUME NEW v \in Versions, Restart(v) PROVE Base'
    <2>1. TypeOK'
      BY <1>4 DEF TypeOK, Restart, AtRest, Steps, BootOrder, dbVars
    <2>2. Phases'
      BY <1>4 DEF Phases, Restart, AtRest, BootOrder, Up, ChatLogAssumption, Speakers
    <2> QED BY <2>1, <2>2
  <1>5. CASE UNCHANGED vars
    BY <1>5 DEF TypeOK, Phases, Up, LineOf, vars, dbVars, bootVars, recvVars, sayVars
  <1> QED BY <1>1, <1>2, <1>3, <1>4, <1>5, BaseTalk, BaseMembership DEF Next

LEMMA BaseAlways == Spec => []Base
  <1>1. Init => Base
    BY BaseInit, ChatLogAssumption
  <1>2. Base /\ [Next]_vars => Base'
    BY BaseStep, ChatLogAssumption
  <1> QED BY <1>1, <1>2, PTL DEF Spec

\* The types, among them that deliveries left are deliveries to members: Join
\* and Part wait for the broadcasts under way (r.mu).
THEOREM TypeCorrect == Spec => []TypeOK
  BY BaseAlways, PTL DEF Base

-----------------------------------------------------------------------------
(* What was shown is kept.                                                 *)

Kept == store \cup old \cup unsaved

\* A line reaches Broadcast only after Add was tried with it.
KeptFirst ==
    /\ \A s \in Speakers : pc[s] \in {"cast", "casting"} => LineOf(s) \in Kept
    /\ seen \subseteq Kept

LEMMA KeptTalk ==
    ASSUME Base, KeptFirst, Talk
    PROVE  KeptFirst'
  <1> USE DEF KeptFirst, Kept, LineOf
  <1>1. ASSUME NEW s \in Speakers, Say(s) PROVE KeptFirst'
    BY <1>1 DEF Base, TypeOK, Say, SayOrder, dbVars, recvVars
  <1>2. ASSUME NEW s \in Speakers, StoreLine(s) PROVE KeptFirst'
    BY <1>2 DEF Base, TypeOK, StoreLine, Add, SayNext, SayOrder, recvVars
  <1>3. ASSUME NEW s \in Speakers, Broadcast(s) PROVE KeptFirst'
    BY <1>3 DEF Base, TypeOK, Broadcast, SayNext, SayOrder, dbVars, recvVars
  <1>4. ASSUME NEW s \in Speakers, BroadcastReturns(s) PROVE KeptFirst'
    BY <1>4 DEF Base, TypeOK, BroadcastReturns, SayNext, SayOrder, dbVars,
                recvVars, sayVars
  <1>5. ASSUME NEW s \in Speakers, NEW l, NEW m, <<l, m>> \in pending[s],
               SendRaw(s, l, m)
        PROVE  KeptFirst'
    <2>1. pc[s] = "casting" /\ l = LineOf(s)
      BY <1>5 DEF Base, Phases
    <2> QED BY <1>5, <2>1 DEF SendRaw, dbVars
  <1> QED BY <1>1, <1>2, <1>3, <1>4, <1>5 DEF Talk, Base, TypeOK

LEMMA KeptStep ==
    ASSUME Base, KeptFirst, [Next]_vars
    PROVE  KeptFirst'
  <1> USE DEF KeptFirst, Kept, LineOf
  <1>1. CASE Membership
    <2> USE DEF Base, TypeOK, JoinNext, JoinOrder, dbVars, recvVars, sayVars
    <2>1. PICK c \in Conns : StartJoin(c) \/ Join(c) \/ ReadHistory(c)
                             \/ SendHistory(c) \/ Part(c)
      BY <1>1 DEF Membership
    <2>2. UNCHANGED <<store, old, unsaved, seen, said>>
      BY <2>1 DEF StartJoin, Join, ReadHistory, SendHistory, Part
    <2>3. \A s \in Speakers : pc'[s] \in {"cast", "casting"} => pc'[s] = pc[s]
      BY <2>1 DEF StartJoin, Join, ReadHistory, SendHistory, Part
    <2> QED BY <2>2, <2>3
  <1>2. CASE (\E l \in store : Expire(l)) \/ Purge
    BY <1>2 DEF Expire, Purge, recvVars, sayVars
  <1>3. CASE Boot
    BY <1>3 DEF Boot, NoRelease, Compare, SetMeta, announceReleaseInLobby, Add,
                bootFrame, recvVars
  <1>4. ASSUME NEW v \in Versions, Restart(v) PROVE KeptFirst'
    BY <1>4 DEF Restart, AtRest, dbVars
  <1>5. CASE UNCHANGED vars
    BY <1>5 DEF vars, dbVars, recvVars, sayVars
  <1> QED BY <1>1, <1>2, <1>3, <1>4, <1>5, KeptTalk DEF Next

\* What anybody received is in the history for a day, across any number of
\* restarts, unless its insert failed: the handlers store first.
THEOREM ShownIsKept == Spec => []SeenIsKept
  <1>1. Init => KeptFirst
    BY DEF Init, KeptFirst, AtRest
  <1>2. Base /\ KeptFirst /\ [Next]_vars => KeptFirst'
    BY KeptStep
  <1>3. KeptFirst => SeenIsKept
    BY DEF KeptFirst, Kept, SeenIsKept
  <1> QED BY <1>1, <1>2, <1>3, BaseAlways, PTL DEF Spec

-----------------------------------------------------------------------------
(* A joiner misses nothing.                                                *)

\* The broadcast of a line has not come to c yet.
OnItsWay(l, c) == \E s \in Speakers :
    /\ l = LineOf(s)
    /\ pc[s] = "cast" \/ <<l, c>> \in pending[s]

\* From its read of the history on, each line kept is in the entries read, was
\* received, or is on its way.
Covered ==
    /\ \A c \in members : (c \notin gap /\ pc[c] # "read") =>
          \A l \in store \ old :
              l \in snap[c] \cup Received(c) \/ OnItsWay(l, c)
    /\ \A c \in Conns : pc[c] \notin {"in"} \cup SaySteps => shown[c] = {}

\* What a step of a speaker has to respect for Covered to last.
LEMMA CoveredLasts ==
    ASSUME Base, Covered,
           UNCHANGED <<old, members, snap, shown>>,
           gap \subseteq gap',
           \A c \in Conns : /\ Received(c) \subseteq Received(c)'
                            /\ pc'[c] = pc[c] \/ {pc[c], pc'[c]} \subseteq {"in"} \cup SaySteps,
           \A l \in store' \ store : \A c \in members : OnItsWay(l, c)',
           \A c \in members : \A l \in store : OnItsWay(l, c) =>
               c \in gap' \/ l \in Received(c)' \/ OnItsWay(l, c)'
    PROVE  Covered'
  <1>1. ASSUME NEW c \in members', c \notin gap', pc'[c] # "read",
               NEW l \in store' \ old'
        PROVE  l \in snap'[c] \cup Received(c)' \/ OnItsWay(l, c)'
    <2>1. c \in members /\ c \in Conns /\ c \notin gap /\ pc[c] # "read"
      BY <1>1 DEF Base, TypeOK, SaySteps
    <2>2. CASE l \notin store
      BY <1>1, <2>1, <2>2
    <2>3. CASE l \in store
      <3>1. l \in snap[c] \cup Received(c) \/ OnItsWay(l, c)
        BY <1>1, <2>1, <2>3 DEF Covered
      <3> QED BY <1>1, <2>1, <2>3, <3>1
    <2> QED BY <2>2, <2>3
  <1>2. \A c \in Conns : pc'[c] \notin {"in"} \cup SaySteps => shown'[c] = {}
    BY DEF Covered
  <1> QED BY <1>1, <1>2 DEF Covered

LEMMA CoveredTalk ==
    ASSUME Base, Covered, Talk
    PROVE  Covered'
  <1>1. ASSUME NEW s \in Speakers, Say(s) PROVE Covered'
    <2>1. /\ UNCHANGED <<store, old, members, gap, snap, live, shown, pending>>
          /\ \A x \in Speakers : x # s => pc'[x] = pc[x] /\ LineOf(x)' = LineOf(x)
          /\ pc[s] = "in" /\ pc'[s] = "store" /\ pending[s] = {}
      BY <1>1 DEF Base, TypeOK, Phases, Say, Free, SayOrder, LineOf, dbVars, recvVars
    <2>2. \A c \in Conns : Received(c)' = Received(c)
      BY <2>1 DEF Received
    <2>3. \A l, c : OnItsWay(l, c) => OnItsWay(l, c)'
      BY <2>1 DEF OnItsWay
    <2>4. \A c \in Conns : pc'[c] = pc[c] \/ {pc[c], pc'[c]} \subseteq {"in"} \cup SaySteps
      BY <2>1 DEF SaySteps, Speakers
    <2> QED BY <2>1, <2>2, <2>3, <2>4, CoveredLasts
  <1>2. ASSUME NEW s \in Speakers, StoreLine(s) PROVE Covered'
    <2>1. /\ UNCHANGED <<old, members, gap, snap, live, shown, pending>>
          /\ \A x \in Speakers : LineOf(x)' = LineOf(x)
          /\ \A x \in Speakers : x # s => pc'[x] = pc[x]
          /\ pc[s] = "store" /\ pc'[s] = "cast"
          /\ store' \subseteq store \cup {LineOf(s)}
      BY <1>2 DEF Base, TypeOK, StoreLine, Add, SayNext, SayOrder, LineOf, recvVars
    <2>2. \A c \in Conns : Received(c)' = Received(c)
      BY <2>1 DEF Received
    <2>3. \A l, c : OnItsWay(l, c) => OnItsWay(l, c)'
      BY <2>1 DEF OnItsWay
    <2>4. \A l \in store' \ store : \A c : OnItsWay(l, c)'
      BY <2>1 DEF OnItsWay
    <2>5. \A c \in Conns : pc'[c] = pc[c] \/ {pc[c], pc'[c]} \subseteq {"in"} \cup SaySteps
      BY <2>1 DEF SaySteps, Speakers
    <2> QED BY <2>1, <2>2, <2>3, <2>4, <2>5, CoveredLasts
  <1>3. ASSUME NEW s \in Speakers, Broadcast(s) PROVE Covered'
    <2>1. /\ UNCHANGED <<store, old, members, gap, snap, live, shown>>
          /\ \A x \in Speakers : LineOf(x)' = LineOf(x)
          /\ \A x \in Speakers : x # s => pc'[x] = pc[x] /\ pending'[x] = pending[x]
          /\ pc[s] = "cast" /\ pc'[s] = "casting"
          /\ pending'[s] = pending[s] \cup ({LineOf(s)} \X members)
      BY <1>3 DEF Base, TypeOK, Broadcast, SayNext, SayOrder, LineOf, dbVars, recvVars
    <2>2. \A c \in Conns : Received(c)' = Received(c)
      BY <2>1 DEF Received
    <2>3. \A c \in members : \A l : OnItsWay(l, c) => OnItsWay(l, c)'
      BY <2>1 DEF OnItsWay
    <2>4. \A c \in Conns : pc'[c] = pc[c] \/ {pc[c], pc'[c]} \subseteq {"in"} \cup SaySteps
      BY <2>1 DEF SaySteps, Speakers
    <2> QED BY <2>1, <2>2, <2>3, <2>4, CoveredLasts
  <1>4. ASSUME NEW s \in Speakers, BroadcastReturns(s) PROVE Covered'
    <2>1. /\ UNCHANGED <<store, old, members, gap, snap, live, shown, pending>>
          /\ \A x \in Speakers : LineOf(x)' = LineOf(x)
          /\ \A x \in Speakers : x # s => pc'[x] = pc[x]
          /\ pc[s] = "casting" /\ pc'[s] = "in"
      BY <1>4 DEF Base, TypeOK, BroadcastReturns, SayNext, SayOrder, LineOf, dbVars,
                  recvVars, sayVars
    <2>2. \A c \in Conns : Received(c)' = Received(c)
      BY <2>1 DEF Received
    <2>3. \A l, c : OnItsWay(l, c) => OnItsWay(l, c)'
      BY <2>1 DEF OnItsWay
    <2>4. \A c \in Conns : pc'[c] = pc[c] \/ {pc[c], pc'[c]} \subseteq {"in"} \cup SaySteps
      BY <2>1 DEF SaySteps, Speakers
    <2> QED BY <2>1, <2>2, <2>3, <2>4, CoveredLasts
  <1>5. ASSUME NEW s \in Speakers, NEW k, NEW m, <<k, m>> \in pending[s],
               SendRaw(s, k, m)
        PROVE  Covered'
    <2>1. /\ UNCHANGED <<store, old, members, snap, shown, pc>>
          /\ \A x \in Speakers : LineOf(x)' = LineOf(x)
          /\ gap \subseteq gap'
          /\ \A x \in Speakers : \A l, c : <<l, c>> \in pending[x] =>
                <<l, c>> = <<k, m>> \/ <<l, c>> \in pending'[x]
      BY <1>5 DEF Base, TypeOK, SendRaw, LineOf, dbVars
    <2>2. k \in Line /\ m \in Conns /\ live[m] \in Seq(Line)
      BY <1>5 DEF Base, TypeOK
    <2>3. (\A c \in Conns : Received(c) \subseteq Received(c)')
          /\ (m \in gap' \/ k \in Received(m)')
      <3>1. CASE live' = [live EXCEPT ![m] = Append(@, k)]
        <4>1. /\ DOMAIN live[m] \subseteq DOMAIN Append(live[m], k)
              /\ \A i \in DOMAIN live[m] : Append(live[m], k)[i] = live[m][i]
              /\ Len(live[m]) + 1 \in DOMAIN Append(live[m], k)
              /\ Append(live[m], k)[Len(live[m]) + 1] = k
          BY <2>2
        <4>2. /\ live'[m] = Append(live[m], k)
              /\ \A c \in Conns : c # m => live'[c] = live[c]
          BY <2>2, <3>1 DEF Base, TypeOK
        <4> QED BY <2>1, <4>1, <4>2 DEF Received
      <3>2. CASE live' = live /\ m \in gap'
        BY <2>1, <3>2 DEF Received
      <3> QED BY <1>5, <3>1, <3>2 DEF SendRaw
    <2>4. \A c, l : OnItsWay(l, c) => <<l, c>> = <<k, m>> \/ OnItsWay(l, c)'
      BY <2>1 DEF OnItsWay
    <2>5. \A c, l : OnItsWay(l, c) => c \in gap' \/ l \in Received(c)' \/ OnItsWay(l, c)'
      BY <2>3, <2>4
    <2> QED BY <2>1, <2>3, <2>5, CoveredLasts
  <1>6. PICK s \in Speakers :
            \/ Say(s) \/ StoreLine(s) \/ Broadcast(s) \/ BroadcastReturns(s)
            \/ \E d \in pending[s] : SendRaw(s, d[1], d[2])
    BY DEF Talk
  <1>7. ASSUME NEW d \in pending[s], SendRaw(s, d[1], d[2]) PROVE Covered'
    <2>1. d = <<d[1], d[2]>>
      BY DEF Base, TypeOK
    <2> QED BY <1>5, <1>7, <2>1
  <1> QED BY <1>1, <1>2, <1>3, <1>4, <1>6, <1>7

LEMMA CoveredMembership ==
    ASSUME Base, Covered, Membership
    PROVE  Covered'
  <1>1. PICK c \in Conns : StartJoin(c) \/ Join(c) \/ ReadHistory(c)
                           \/ SendHistory(c) \/ Part(c)
    BY DEF Membership
  <1>2. UNCHANGED <<store, old, pending, said>>
    BY <1>1 DEF StartJoin, Join, ReadHistory, SendHistory, Part, dbVars, sayVars
  <1>3. \A x \in Conns : x # c =>
            /\ pc'[x] = pc[x] /\ snap'[x] = snap[x] /\ shown'[x] = shown[x]
            /\ live'[x] = live[x]
            /\ x \in members' <=> x \in members
            /\ x \in gap' <=> x \in gap
    <2> USE DEF Base, TypeOK, JoinNext, recvVars
    <2>1. CASE StartJoin(c)
      BY <2>1 DEF StartJoin
    <2>2. CASE Join(c)
      BY <2>2 DEF Join
    <2>3. CASE ReadHistory(c)
      BY <2>3 DEF ReadHistory
    <2>4. CASE SendHistory(c)
      BY <2>4 DEF SendHistory
    <2>5. CASE Part(c)
      BY <2>5 DEF Part
    <2> QED BY <1>1, <2>1, <2>2, <2>3, <2>4, <2>5
  <1>4. \A s \in Speakers : pc[s] = "cast" => pc'[s] = "cast"
    BY <1>1 DEF StartJoin, Join, ReadHistory, SendHistory, Part, JoinNext, Free,
                Base, TypeOK, Speakers
  <1>5. \A l, x : OnItsWay(l, x) => OnItsWay(l, x)'
    BY <1>2, <1>4 DEF OnItsWay, LineOf
  <1>6. \A x \in Conns : x # c => Received(x)' = Received(x)
    BY <1>3 DEF Received
  \* What happens to c itself.
  <1>7. /\ (c \in members' /\ c \notin gap' /\ pc'[c] # "read") =>
              \A l \in store' \ old' :
                  l \in snap'[c] \cup Received(c)' \/ OnItsWay(l, c)'
        /\ pc'[c] \notin {"in"} \cup SaySteps => shown'[c] = {}
    <2> USE DEF Base, TypeOK, Phases, Speakers, SaySteps, JoinNext, JoinOrder
    <2>1. CASE StartJoin(c)
      BY <2>1 DEF StartJoin, Covered, recvVars
    <2>2. CASE Join(c)
      <3>1. pc[c] = "enter" /\ pc'[c] = "read" /\ shown' = shown
        BY <2>2 DEF Join, recvVars
      <3> QED BY <3>1 DEF Covered
    <2>3. CASE ReadHistory(c)
      <3>1. c \in gap' \/ snap'[c] = store \ old
        BY <2>3 DEF ReadHistory, GetRoomHistory
      <3>2. pc[c] = "read" /\ shown' = shown
        BY <2>3 DEF ReadHistory
      <3> QED BY <1>2, <3>1, <3>2 DEF Covered
    <2>4. CASE SendHistory(c)
      <3>1. /\ pc[c] = "send" /\ pc'[c] = "in" /\ members' = members
            /\ gap \subseteq gap' /\ UNCHANGED live
            /\ c \in gap' \/ shown'[c] = snap[c]
        BY <2>4 DEF SendHistory
      <3>2. shown[c] = {}
        BY <3>1 DEF Covered
      <3>3. ASSUME c \in members', c \notin gap', NEW l \in store' \ old'
            PROVE  l \in Received(c)' \/ OnItsWay(l, c)'
        <4>1. l \in snap[c] \cup Received(c) \/ OnItsWay(l, c)
          BY <1>2, <3>1, <3>3 DEF Covered
        <4>2. snap[c] \subseteq Received(c)' /\ Received(c) \subseteq Received(c)'
          BY <3>1, <3>2, <3>3 DEF Received
        <4> QED BY <1>5, <4>1, <4>2
      <3> QED BY <3>1, <3>3
    <2>5. CASE Part(c)
      BY <2>5 DEF Part
    <2> QED BY <1>1, <2>1, <2>2, <2>3, <2>4, <2>5
  <1>8. ASSUME NEW x \in members', x # c, x \notin gap', pc'[x] # "read",
               NEW l \in store' \ old'
        PROVE  l \in snap'[x] \cup Received(x)' \/ OnItsWay(l, x)'
    <2>1. x \in Conns
      BY <1>1, <1>8 DEF StartJoin, Join, ReadHistory, SendHistory, Part, Base, TypeOK
    <2>2. l \in snap[x] \cup Received(x) \/ OnItsWay(l, x)
      BY <1>2, <1>3, <1>8, <2>1 DEF Covered
    <2> QED BY <1>3, <1>5, <1>6, <1>8, <2>1, <2>2
  <1>9. \A x \in Conns : pc'[x] \notin {"in"} \cup SaySteps => shown'[x] = {}
    BY <1>3, <1>7 DEF Covered
  <1> QED BY <1>7, <1>8, <1>9 DEF Covered

LEMMA CoveredStep ==
    ASSUME ChatLogAssumption, Base, Covered, [Next]_vars
    PROVE  Covered'
  <1> USE DEF Covered
  <1>1. CASE (\E l \in store : Expire(l)) \/ Purge
    <2>1. /\ store' \ old' \subseteq store \ old
          /\ UNCHANGED <<pc, said, pending, members, snap, gap, live, shown>>
      BY <1>1 DEF Expire, Purge, recvVars, sayVars
    <2> QED BY <2>1 DEF OnItsWay, LineOf, Received
  <1>2. CASE Boot
    <2>1. members = {} /\ UNCHANGED <<members, pc, shown>>
      BY <1>2 DEF Boot, NoRelease, Compare, SetMeta, announceReleaseInLobby,
                  bootFrame, recvVars, Base, Phases, Up
    <2> QED BY <2>1
  <1>3. ASSUME NEW v \in Versions, Restart(v) PROVE Covered'
    BY <1>3 DEF Restart
  <1>4. CASE UNCHANGED vars
    BY <1>4 DEF vars, dbVars, recvVars, sayVars, OnItsWay, LineOf, Received
  <1> QED BY <1>1, <1>2, <1>3, <1>4, CoveredTalk, CoveredMembership DEF Next

\* joinRoom joins before it reads, and handlers store before they broadcast:
\* between the history and the live lines there is no gap.
THEOREM NoGapForJoiners == Spec => []NothingMissed
  <1>1. Init => Covered
    BY DEF Init, Covered
  <1>2. Base /\ Covered /\ [Next]_vars => Covered'
    BY CoveredStep, ChatLogAssumption
  <1>3. Base /\ Covered => NothingMissed
    <2> SUFFICES ASSUME Base, Covered,
                        NEW c \in members, c \notin gap, pc[c] \in {"in"} \cup SaySteps,
                        NEW l \in store \ (old \cup InHand)
                 PROVE  l \in Received(c)
      BY DEF NothingMissed
    <2>1. c \in Conns /\ pc[c] # "read" /\ snap[c] = {}
      BY DEF Base, TypeOK, Phases, SaySteps
    <2>2. l \in Received(c) \/ OnItsWay(l, c)
      BY <2>1 DEF Covered
    <2>3. ~OnItsWay(l, c)
      BY DEF OnItsWay, InHand, SaySteps, Base, Phases
    <2> QED BY <2>2, <2>3
  <1> QED BY <1>1, <1>2, <1>3, BaseAlways, PTL DEF Spec

-----------------------------------------------------------------------------
(* The order of live lines.                                                *)

\* The line a speaker is at has not come to c.
Ahead(s, c) == pc[s] \in {"store", "cast"} \/ <<LineOf(s), c>> \in pending[s]

InOrder ==
    \A c \in Conns : \A i \in DOMAIN live[c] : \E s \in Speakers :
        /\ live[c][i].by = s /\ live[c][i].n <= said[s]
        /\ Ahead(s, c) => live[c][i].n < said[s]

OrderInv == InOrder /\ LiveInOrder

\* A step that hands out no line, and puts no line that was said ahead again.
LEMMA OrderLasts ==
    ASSUME Base, OrderInv, TypeOK',
           \A c \in Conns : live'[c] \in {live[c], <<>>},
           \A s \in Speakers : /\ said'[s] >= said[s]
                               /\ \A c \in Conns : Ahead(s, c)' =>
                                      Ahead(s, c) \/ said'[s] > said[s]
    PROVE  OrderInv'
  <1>1. ASSUME NEW c \in Conns, NEW i \in DOMAIN live'[c]
        PROVE  \E s \in Speakers :
                   /\ live'[c][i].by = s /\ live'[c][i].n <= said'[s]
                   /\ Ahead(s, c)' => live'[c][i].n < said'[s]
    <2>1. live'[c] = live[c]
      BY <1>1
    <2>2. live[c] \in Seq(Line)
      BY DEF Base, TypeOK
    <2>3. live[c][i] \in Line
      BY <1>1, <2>1, <2>2, ElementOfSeq
    <2>4. live[c][i].n \in Nat
      BY <2>3 DEF Line
    <2>5. PICK s \in Speakers :
              /\ live[c][i].by = s /\ live[c][i].n <= said[s]
              /\ Ahead(s, c) => live[c][i].n < said[s]
      BY <1>1, <2>1 DEF OrderInv, InOrder
    <2>6. said[s] \in Nat /\ said'[s] \in Nat
      BY DEF Base, TypeOK
    <2>7. said'[s] >= said[s] /\ (Ahead(s, c)' => Ahead(s, c) \/ said'[s] > said[s])
      OBVIOUS
    <2>8. live[c][i].n <= said'[s] /\ (Ahead(s, c)' => live[c][i].n < said'[s])
      BY <2>4, <2>5, <2>6, <2>7
    <2> QED BY <2>1, <2>5, <2>8
  <1>2. InOrder'
    BY <1>1 DEF InOrder
  <1>3. LiveInOrder'
    BY DEF OrderInv, LiveInOrder
  <1> QED BY <1>2, <1>3 DEF OrderInv

LEMMA OrderSendRaw ==
    ASSUME Base, OrderInv, TypeOK',
           NEW s \in Speakers, NEW k, NEW m, <<k, m>> \in pending[s],
           SendRaw(s, k, m)
    PROVE  OrderInv'
  <1>1. k = LineOf(s) /\ k.by = s /\ k.n = said[s] /\ k \in Line /\ m \in Conns
    BY LinesTyped DEF Base, TypeOK, Phases, LineOf
  <1>2. UNCHANGED <<said, pc>> /\ \A x \in Speakers : LineOf(x)' = LineOf(x)
    BY DEF SendRaw, LineOf
  <1>3. \A x \in Speakers : \A c : Ahead(x, c)' => Ahead(x, c)
    BY <1>2 DEF Ahead, SendRaw, Base, TypeOK
  <1>4. CASE live' = live
    BY SMTT(30), <1>2, <1>3, <1>4, OrderLasts DEF Base, TypeOK
  <1>5. CASE live' = [live EXCEPT ![m] = Append(@, k)]
    <2>1. live[m] \in Seq(Line)
      BY <1>1 DEF Base, TypeOK
    <2> DEFINE n == Len(live[m]) + 1
    <2>2. /\ live'[m] = Append(live[m], k)
          /\ DOMAIN live'[m] = DOMAIN live[m] \cup {n}
          /\ \A i \in DOMAIN live[m] : live'[m][i] = live[m][i] /\ i \in Nat /\ i < n
          /\ live'[m][n] = k
          /\ \A c \in Conns : c # m => live'[c] = live[c]
      BY SMTT(30), <1>1, <1>5, <2>1 DEF Base, TypeOK
    <2>3. ~Ahead(s, m)' /\ Ahead(s, m)
      <3>1. pc[s] = "casting"
        BY DEF Base, Phases
      <3>2. <<LineOf(s), m>> \notin pending'[s]
        BY <1>1 DEF SendRaw, Base, TypeOK
      <3> QED BY <1>1, <1>2, <3>1, <3>2 DEF Ahead
    <2>4. \A i \in DOMAIN live[m] : live[m][i].by = s => live[m][i].n < k.n
      BY <1>1, <2>3 DEF OrderInv, InOrder
    <2>5. said[s] \in Nat
      BY DEF Base, TypeOK
    <2> HIDE DEF n
    <2>6. InOrder'
      <3> SUFFICES ASSUME NEW c \in Conns, NEW i \in DOMAIN live'[c]
                   PROVE  \E x \in Speakers :
                              /\ live'[c][i].by = x /\ live'[c][i].n <= said'[x]
                              /\ Ahead(x, c)' => live'[c][i].n < said'[x]
        BY DEF InOrder
      <3>1. CASE c = m /\ i = n
        BY <1>1, <1>2, <2>2, <2>3, <2>5, <3>1
      <3>2. CASE ~(c = m /\ i = n)
        <4>1. i \in DOMAIN live[c] /\ live'[c][i] = live[c][i]
          BY <2>2, <3>2
        <4> QED BY <1>2, <1>3, <4>1 DEF OrderInv, InOrder
      <3> QED BY <3>1, <3>2
    <2>7. LiveInOrder'
      <3> SUFFICES ASSUME NEW c \in Conns, NEW i \in DOMAIN live'[c],
                          NEW j \in DOMAIN live'[c],
                          i < j, live'[c][i].by = live'[c][j].by
                   PROVE  live'[c][i].n < live'[c][j].n
        BY DEF LiveInOrder
      <3>1. CASE c # m
        BY <2>2, <3>1 DEF OrderInv, LiveInOrder
      <3>2. CASE c = m /\ j = n
        <4>1. i \in DOMAIN live[m]
          BY <2>2, <3>2, <2>1 DEF n
        <4> QED BY <1>1, <2>2, <2>4, <3>2, <4>1
      <3>3. CASE c = m /\ j # n
        <4>1. j \in DOMAIN live[m] /\ j < n
          BY <2>2, <3>3
        <4>2. i \in DOMAIN live[m]
          BY <2>1, <2>2, <3>3, <4>1 DEF n
        <4> QED BY <1>1, <2>2, <3>3, <4>1, <4>2 DEF OrderInv, LiveInOrder
      <3> QED BY <3>1, <3>2, <3>3
    <2> QED BY <2>6, <2>7 DEF OrderInv
  <1> QED BY <1>4, <1>5 DEF SendRaw

LEMMA OrderStep ==
    ASSUME Base, OrderInv, TypeOK', [Next]_vars
    PROVE  OrderInv'
  <1> USE DEF Base, TypeOK
  <1>1. ASSUME NEW s \in Speakers, Say(s) PROVE OrderInv'
    <2>1. /\ live' = live /\ said'[s] = said[s] + 1
          /\ \A x \in Speakers : x # s => said'[x] = said[x] /\ pc'[x] = pc[x]
          /\ pending' = pending
      BY <1>1 DEF Say, recvVars
    <2>2. \A x \in Speakers : x # s => \A c : Ahead(x, c)' = Ahead(x, c)
      BY <2>1 DEF Ahead, LineOf
    <2>3. \A x \in Speakers : said[x] \in Nat
      OBVIOUS
    <2>4. \A x \in Speakers : said'[x] >= said[x] /\ (x = s => said'[x] > said[x])
      BY <2>1, <2>3
    <2> QED BY <2>1, <2>2, <2>4, OrderLasts
  <1>2. ASSUME NEW s \in Speakers,
               StoreLine(s) \/ Broadcast(s) \/ BroadcastReturns(s)
        PROVE  OrderInv'
    <2>1. live' = live /\ said' = said
      BY <1>2 DEF StoreLine, Broadcast, BroadcastReturns, recvVars, sayVars
    <2>2. \A x \in Speakers : x # s => pc'[x] = pc[x] /\ pending'[x] = pending[x]
      BY <1>2 DEF StoreLine, Broadcast, BroadcastReturns, SayNext, sayVars
    <2>3. \A c \in Conns : Ahead(s, c)' => Ahead(s, c)
      <3>1. CASE StoreLine(s)
        BY <3>1 DEF StoreLine, Ahead
      <3>2. CASE Broadcast(s)
        BY <3>2 DEF Broadcast, Ahead
      <3>3. CASE BroadcastReturns(s)
        BY <3>3 DEF BroadcastReturns, SayNext, SayOrder, Ahead, LineOf, sayVars
      <3> QED BY <1>2, <3>1, <3>2, <3>3
    <2>4. \A x \in Speakers : \A c \in Conns : Ahead(x, c)' => Ahead(x, c)
      BY <2>1, <2>2, <2>3 DEF Ahead, LineOf
    <2> QED BY SMTT(30), <2>1, <2>4, OrderLasts
  <1>3. CASE Membership
    <2>1. PICK c \in Conns : StartJoin(c) \/ Join(c) \/ ReadHistory(c)
                             \/ SendHistory(c) \/ Part(c)
      BY <1>3 DEF Membership
    <2>2. said' = said /\ pending' = pending
      BY <2>1 DEF StartJoin, Join, ReadHistory, SendHistory, Part, sayVars
    <2>3. \A x \in Conns : live'[x] \in {live[x], <<>>}
      BY <2>1 DEF StartJoin, Join, ReadHistory, SendHistory, Part, recvVars
    <2>4. \A s \in Speakers : pc'[s] \in {"store", "cast"} => pc'[s] = pc[s]
      BY <2>1 DEF StartJoin, Join, ReadHistory, SendHistory, Part, JoinNext,
                  JoinOrder
    <2>5. \A s \in Speakers : \A m \in Conns : Ahead(s, m)' => Ahead(s, m)
      BY <2>2, <2>4 DEF Ahead, LineOf
    <2>6. \A s \in Speakers : said'[s] >= said[s]
      BY <2>2
    <2> QED BY <2>3, <2>5, <2>6, OrderLasts
  <1>4. CASE (\E l \in store : Expire(l)) \/ Purge
    <2>1. UNCHANGED <<live, said, pending, pc>>
      BY <1>4 DEF Expire, Purge, recvVars, sayVars
    <2> QED BY <2>1, OrderLasts DEF Ahead, LineOf
  <1>5. CASE Boot
    <2>1. UNCHANGED <<live, said, pending, pc>>
      BY <1>5 DEF Boot, NoRelease, Compare, SetMeta, announceReleaseInLobby,
                  bootFrame, recvVars
    <2> QED BY <2>1, OrderLasts DEF Ahead, LineOf
  <1>6. ASSUME NEW v \in Versions, Restart(v) PROVE OrderInv'
    <2>1. /\ said' = said /\ \A c \in Conns : live'[c] = <<>>
          /\ \A s \in Speakers : pc'[s] \in {"in", "off"} /\ pending'[s] = {}
      BY <1>6 DEF Restart, AtRest
    <2>2. \A s \in Speakers : \A c \in Conns : ~Ahead(s, c)'
      BY <2>1 DEF Ahead
    <2>3. \A s \in Speakers : said'[s] >= said[s]
      BY <2>1
    <2> QED BY <2>1, <2>2, <2>3, OrderLasts
  <1>7. CASE UNCHANGED vars
    <2>1. UNCHANGED <<live, said, pending, pc>>
      BY <1>7 DEF vars, recvVars, sayVars
    <2> QED BY <2>1, OrderLasts DEF Ahead, LineOf
  <1>8. CASE Talk
    <2>1. PICK s \in Speakers :
              \/ Say(s) \/ StoreLine(s) \/ Broadcast(s) \/ BroadcastReturns(s)
              \/ \E d \in pending[s] : SendRaw(s, d[1], d[2])
      BY <1>8 DEF Talk
    <2>2. ASSUME NEW d \in pending[s], SendRaw(s, d[1], d[2]) PROVE OrderInv'
      <3>1. d = <<d[1], d[2]>>
        OBVIOUS
      <3> QED BY <2>2, <3>1, OrderSendRaw
    <2> QED BY <1>1, <1>2, <2>1, <2>2
  <1> QED BY <1>3, <1>4, <1>5, <1>6, <1>7, <1>8 DEF Next

\* A member sees the lines of one speaker in the order they were said: a
\* reader, and a game's goroutine, finish one line before the next.
THEOREM SpokenOrder == Spec => []LiveInOrder
  <1>1. Init => OrderInv
    BY DEF Init, OrderInv, InOrder, LiveInOrder
  <1>2. Base /\ Base' /\ OrderInv /\ [Next]_vars => OrderInv'
    BY OrderStep DEF Base
  <1>3. OrderInv => LiveInOrder
    BY DEF OrderInv
  <1> QED BY <1>1, <1>2, <1>3, BaseAlways, PTL DEF Spec
=============================================================================
