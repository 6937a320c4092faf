--------------------------- MODULE SessionsProofs ---------------------------
(***************************************************************************)
(* Session records, for every number of connections and ids, and every set *)
(* of nicks and rooms.                                                     *)
(*                                                                         *)
(* A record is reached through the id that its connection uses, or used    *)
(* until it was gone (Registered), and the steps that write it go through  *)
(* that id.  As long as no two connections use an id at once (Single), a   *)
(* record is therefore written by its own connection only, in steps that   *)
(* keep it the image of nick and rooms (Mirrored), or by nobody            *)
(* (LeftBehind).  The same keeps the record that CanRestore found as it    *)
(* was left, after its lock is gone (Found).                               *)
(***************************************************************************)
EXTENDS Sessions, TLAPS

Restoring == {"restore", "reading", "storing"}
Arriving  == {"hello", "fresh"} \cup Restoring
Settled  == {"named", "joining", "live", "closing"}
Removed  == {"cleared", "stored"}

\* What a connection's own variables hold at each of its steps.
Placed(c) ==
    /\ pc[c] \in {"off", "gone"} => sid[c] = NoSid
    /\ pc[c] \in Arriving \cup {"named", "joining", "cleared"} => sid[c] # NoSid
    /\ pc[c] \in Arriving \cup {"off"} => rooms[c] = {}
    /\ pc[c] \in {"off", "hello", "restore", "fresh"} => nick[c] = NoNick
    /\ pc[c] \in Restoring => found[c] # NoConn

Base == TypeOK /\ \A c \in Conns : Placed(c)

\* Whoever is the only user of an id, is the only connection that has it.
Single == \A c, d \in Conns : Alone(c) /\ sid[d] = sid[c] => c = d

\* A registered record is that of a connection which has the id, or which is
\* gone; it is registered once; and removeClient has let go of it.
Registered(s) ==
    sessions[s] # NoConn =>
        /\ \/ pc[sessions[s]] = "gone"
           \/ sid[sessions[s]] = s /\ pc[sessions[s]] \in Settled \cup Removed
        /\ pc[sessions[s]] \in Removed \cup {"gone"} => ~rec[sessions[s]].live
        /\ \A q \in Sids : sessions[q] = sessions[s] => q = s

\* The record of a connection that has its id to itself, from its Upsert to the
\* end of removeClient; and what a fresh session will replace is too old.
Mirrored(c) ==
    Alone(c) =>
        /\ pc[c] \in Settled => sessions[sid[c]] = c /\ rec[c].live
        /\ pc[c] \in Removed => sessions[sid[c]] \in {c, NoConn}
        /\ sessions[sid[c]] = c =>
             /\ rec[c].nick = nick[c]
             /\ rooms[c] \in {{}, rec[c].rooms}
             /\ pc[c] = "stored" => rooms[c] = rec[c].rooms
        /\ pc[c] = "fresh" /\ sessions[sid[c]] # NoConn => rec[sessions[sid[c]]].age > 0

\* What removeClient left.
LeftBehind(s) ==
    sessions[s] # NoConn /\ pc[sessions[s]] = "gone" /\ s \notin shared =>
        /\ rec[sessions[s]].nick = left[s].nick
        /\ rec[sessions[s]].rooms = left[s].rooms

Records ==
    /\ Single
    /\ \A s \in Sids : Registered(s) /\ LeftBehind(s)
    /\ \A c \in Conns : Mirrored(c)

-----------------------------------------------------------------------------
(* What the operations of SessionManager write *)

Record == [nick : Nicks \cup {NoNick}, rooms : SUBSET AllNames,
           live : BOOLEAN, age : 0 .. 2]

Fresh(n, rs, l) == [nick |-> n, rooms |-> rs, live |-> l, age |-> 0]

\* The record registered under s, if any, becomes active now, with this nick,
\* these rooms and this mark; every other record stays as it is.
Wrote(s, n, rs, l) ==
    rec' = IF Present(s) THEN [rec EXCEPT ![sessions[s]] = Fresh(n, rs, l)] ELSE rec

Now(s) == rec[sessions[s]]

\* Each update writes its own field, and the activity.
LEMMA UpdatesWrite ==
    ASSUME TypeOK, SessionsAssumption, NEW s \in Sids \cup {NoSid}
    PROVE  /\ rec' = Touched(s) => Wrote(s, Now(s).nick, Now(s).rooms, Now(s).live)
           /\ \A n \in Nicks \cup {NoNick} :
                UpdateNick(s, n) => Wrote(s, n, Now(s).rooms, Now(s).live)
           /\ \A rs \in SUBSET AllNames :
                UpdateRooms(s, rs) => Wrote(s, Now(s).nick, rs, Now(s).live)
           /\ ClearLive(s) => Wrote(s, Now(s).nick, Now(s).rooms, FALSE)
<1>1. CASE ~Present(s)
  BY <1>1 DEF Touched, UpdateNick, UpdateRooms, ClearLive, Wrote
<1>2. CASE Present(s)
  <2> DEFINE o == sessions[s]
             R == rec[o]
             T == [rec EXCEPT ![o].age = 0]
  <2>1. o \in Conns /\ rec \in [Conns -> Record]
    BY <1>2 DEF Present, TypeOK, SessionsAssumption, Record
  <2>2. T = [rec EXCEPT ![o] = Fresh(R.nick, R.rooms, R.live)]
    <3>1. R \in Record
      BY <2>1
    <3>2. [R EXCEPT !.age = 0] = Fresh(R.nick, R.rooms, R.live)
      <4> HIDE DEF R
      <4> QED BY <3>1 DEF Record, Fresh
    <3>3. T = [rec EXCEPT ![o] = [R EXCEPT !.age = 0]]
      BY <2>1
    <3> QED BY <3>2, <3>3
  <2>3. T \in [Conns -> Record] /\ T[o] = Fresh(R.nick, R.rooms, R.live)
    <3> Fresh(R.nick, R.rooms, R.live) \in Record
      BY <2>1 DEF Record, Fresh
    <3> QED BY <2>1, <2>2
  <2>4. \A r : [T EXCEPT ![o] = r] = [rec EXCEPT ![o] = r]
    <3> Fresh(R.nick, R.rooms, R.live) \in Record
      BY <2>1 DEF Record, Fresh
    <3> HIDE DEF T, o, R, Record, Fresh
    <3> QED BY <2>1, <2>2
  <2>5. /\ \A n : [T EXCEPT ![o].nick = n] = [rec EXCEPT ![o] = Fresh(n, R.rooms, R.live)]
        /\ \A rs : [T EXCEPT ![o].rooms = rs] = [rec EXCEPT ![o] = Fresh(R.nick, rs, R.live)]
        /\ [T EXCEPT ![o].live = FALSE] = [rec EXCEPT ![o] = Fresh(R.nick, R.rooms, FALSE)]
    <3>1. /\ \A n : [T[o] EXCEPT !.nick = n] = Fresh(n, R.rooms, R.live)
          /\ \A rs : [T[o] EXCEPT !.rooms = rs] = Fresh(R.nick, rs, R.live)
          /\ [T[o] EXCEPT !.live = FALSE] = Fresh(R.nick, R.rooms, FALSE)
      <4> DEFINE F == Fresh(R.nick, R.rooms, R.live)
      <4>1. /\ \A n : [F EXCEPT !.nick = n] = Fresh(n, R.rooms, R.live)
            /\ \A rs : [F EXCEPT !.rooms = rs] = Fresh(R.nick, rs, R.live)
            /\ [F EXCEPT !.live = FALSE] = Fresh(R.nick, R.rooms, FALSE)
        <5> HIDE DEF R
        <5>1. ASSUME NEW n PROVE [F EXCEPT !.nick = n] = Fresh(n, R.rooms, R.live)
          BY DEF Fresh
        <5>2. ASSUME NEW rs PROVE [F EXCEPT !.rooms = rs] = Fresh(R.nick, rs, R.live)
          BY DEF Fresh
        <5>3. [F EXCEPT !.live = FALSE] = Fresh(R.nick, R.rooms, FALSE)
          <6>1. ASSUME NEW l PROVE [F EXCEPT !.live = l] = Fresh(R.nick, R.rooms, l)
            BY DEF Fresh
          <6> QED BY <6>1
        <5> QED BY <5>1, <5>2, <5>3
      <4> HIDE DEF T, F
      <4> QED BY <2>3, <4>1 DEF F
    <3>2. /\ \A n : [T EXCEPT ![o].nick = n] = [T EXCEPT ![o] = [T[o] EXCEPT !.nick = n]]
          /\ \A rs : [T EXCEPT ![o].rooms = rs] = [T EXCEPT ![o] = [T[o] EXCEPT !.rooms = rs]]
          /\ [T EXCEPT ![o].live = FALSE] = [T EXCEPT ![o] = [T[o] EXCEPT !.live = FALSE]]
      <4> HIDE DEF T, R, o
      <4> QED BY <2>1, <2>3
    <3> HIDE DEF T, o, R
    <3> QED BY <2>4, <3>1, <3>2
  <2>6. Touched(s) = T
    BY <1>2 DEF Touched
  <2> QED BY <1>2, <2>2, <2>5, <2>6
          DEF UpdateNick, UpdateRooms, ClearLive, Wrote, Now
<1> QED BY <1>1, <1>2

\* What a write leaves: one record, still well typed.
LEMMA WriteIsLocal ==
    ASSUME TypeOK, SessionsAssumption, NEW s \in Sids \cup {NoSid},
           NEW n \in Nicks \cup {NoNick}, NEW rs \in SUBSET AllNames,
           NEW l \in BOOLEAN, Wrote(s, n, rs, l)
    PROVE  /\ rec' \in [Conns -> Record]
           /\ Present(s) => rec'[sessions[s]] = Fresh(n, rs, l)
           /\ \A o \in Conns : ~Present(s) \/ o # sessions[s] => rec'[o] = rec[o]
<1>1. rec \in [Conns -> Record]
  BY DEF TypeOK, Record
<1>2. Fresh(n, rs, l) \in Record
  BY DEF Fresh, Record
<1>3. Present(s) => sessions[s] \in Conns
  BY DEF Present, TypeOK, SessionsAssumption
<1> QED BY <1>1, <1>2, <1>3 DEF Wrote

LEMMA NowIsTyped ==
    ASSUME TypeOK, SessionsAssumption, NEW s, Present(s), s \in Sids \cup {NoSid}
    PROVE  sessions[s] \in Conns /\ Now(s) \in Record
<1>1. sessions[s] \in Conns
  BY DEF Present, TypeOK, SessionsAssumption
<1> QED BY <1>1 DEF TypeOK, Now, Record

\* The four updates, in the form in which the proofs below use them.
Updates(s) ==
    \/ rec' = Touched(s)
    \/ \E n \in Nicks \cup {NoNick} : UpdateNick(s, n)
    \/ \E rs \in SUBSET AllNames : UpdateRooms(s, rs)
    \/ ClearLive(s)

LEMMA UpdateIsLocal ==
    ASSUME TypeOK, SessionsAssumption, NEW s \in Sids \cup {NoSid}, Updates(s)
    PROVE  /\ rec' \in [Conns -> Record]
           /\ \A o \in Conns : ~Present(s) \/ o # sessions[s] => rec'[o] = rec[o]
           /\ Present(s) => Now(s).live \/ ~rec'[sessions[s]].live
<1>1. CASE ~Present(s)
  <2>1. rec' = rec
    BY <1>1 DEF Updates, Touched, UpdateNick, UpdateRooms, ClearLive
  <2> QED BY <1>1, <2>1 DEF TypeOK, Record
<1>2. CASE Present(s)
  <2> DEFINE R == Now(s)
  <2>1. R \in Record
    BY <1>2, NowIsTyped
  <2>2. R.nick \in Nicks \cup {NoNick} /\ R.rooms \in SUBSET AllNames /\ R.live \in BOOLEAN
    BY <2>1 DEF Record
  <2>3. PICK n \in Nicks \cup {NoNick}, rs \in SUBSET AllNames, l \in {R.live, FALSE} :
          Wrote(s, n, rs, l)
    BY <2>2, UpdatesWrite DEF Updates
  <2>4. l \in BOOLEAN
    BY <2>2
  <2>5. Fresh(n, rs, l).live = l
    BY DEF Fresh
  <2>6. /\ rec' \in [Conns -> Record]
        /\ rec'[sessions[s]] = Fresh(n, rs, l)
        /\ \A o \in Conns : ~Present(s) \/ o # sessions[s] => rec'[o] = rec[o]
    BY <1>2, <2>3, <2>4, WriteIsLocal
  <2>7. Now(s).live \/ ~rec'[sessions[s]].live
    BY <2>5, <2>6, <2>2
  <2> QED BY <2>6, <2>7
<1> QED BY <1>1, <1>2

-----------------------------------------------------------------------------
(* Types, and where a connection's variables stand at each of its steps *)

LEMMA InitBase ==
    ASSUME Init, SessionsAssumption
    PROVE  Base
<1>1. TypeOK
  BY DEF Init, SessionsAssumption, TypeOK, NoRecord, NothingLeft, Profile, ConnSteps
<1>2. ASSUME NEW c \in Conns PROVE Placed(c)
  BY DEF Init, Placed, Arriving, Restoring
<1> QED BY <1>1, <1>2 DEF Base

LEMMA KeptIsTyped ==
    ASSUME NEW records \in [Conns -> Record], NEW ss, NEW ff
    PROVE  Kept(records, ss, ff) \in [Conns -> Record]
<1>1. NoRecord \in Record
  BY DEF NoRecord, Record
<1> QED BY <1>1 DEF Kept

\* The steps that go through Updates, with the id they use.
UpdateStep(c) ==
    \/ HelloNick(c)
    \/ \E n \in AllNames : HelloJoin(c, n) \/ JoinRoom(c, n) \/ PartRoom(c, n)
    \/ Touch(c)
    \/ \E n \in Nicks : SetNick(c, n)
    \/ HubClear(c)
    \/ c = hub /\ (HubRooms \/ HubNick)

LEMMA UpdateStepUpdates ==
    ASSUME Base, SessionsAssumption, NEW c \in Conns, UpdateStep(c)
    PROVE  (rec' = rec \/ Updates(sid[c])) /\ sessions' = sessions
<1> USE DEF Base, TypeOK
<1>1. CASE HelloNick(c)
  BY <1>1 DEF HelloNick, Updates
<1>2. ASSUME NEW n \in AllNames, HelloJoin(c, n) PROVE rec' = rec \/ Updates(sid[c])
  <2>1. rooms[c] \cup {n} \in SUBSET AllNames
    OBVIOUS
  <2> QED BY <1>2, <2>1 DEF HelloJoin, Updates
<1>3. ASSUME NEW n \in AllNames, JoinRoom(c, n) PROVE Updates(sid[c])
  <2>1. rooms[c] \cup {n} \in SUBSET AllNames
    OBVIOUS
  <2> QED BY <1>3, <2>1 DEF JoinRoom, Updates
<1>4. ASSUME NEW n \in AllNames, PartRoom(c, n) PROVE Updates(sid[c])
  <2>1. rooms[c] \ {n} \in SUBSET AllNames
    OBVIOUS
  <2> QED BY <1>4, <2>1 DEF PartRoom, Updates
<1>5. CASE Touch(c)
  BY <1>5 DEF Touch, Updates
<1>6. ASSUME NEW n \in Nicks, SetNick(c, n) PROVE Updates(sid[c])
  BY <1>6 DEF SetNick, Updates
<1>7. CASE HubClear(c)
  BY <1>7 DEF HubClear, Updates
<1>8. ASSUME c = hub, HubRooms PROVE Updates(sid[c])
  BY <1>8 DEF HubRooms, Updates
<1>9. ASSUME c = hub, HubNick PROVE rec' = rec \/ Updates(sid[c])
  BY <1>9 DEF HubNick, Updates
<1>10. sessions' = sessions
  BY DEF UpdateStep, HelloNick, HelloJoin, JoinRoom, PartRoom, Touch, SetNick,
         HubClear, HubRooms, HubNick
<1> QED BY <1>1, <1>2, <1>3, <1>4, <1>5, <1>6, <1>7, <1>8, <1>9, <1>10 DEF UpdateStep

LEMMA UpdateStepIsLocal ==
    ASSUME Base, SessionsAssumption, NEW c \in Conns, UpdateStep(c)
    PROVE  /\ rec' \in [Conns -> Record]
           /\ \A o \in Conns : ~Present(sid[c]) \/ o # sessions[sid[c]] => rec'[o] = rec[o]
           /\ Present(sid[c]) => Now(sid[c]).live \/ ~rec'[sessions[sid[c]]].live
<1>1. rec' = rec \/ Updates(sid[c])
  BY UpdateStepUpdates
<1>2. sid[c] \in Sids \cup {NoSid} /\ rec \in [Conns -> Record] /\ TypeOK
  BY DEF Base, TypeOK, Record
<1>3. CASE Updates(sid[c])
  BY <1>2, <1>3, UpdateIsLocal
<1>4. CASE rec' = rec
  BY <1>2, <1>4 DEF Now
<1> QED BY <1>1, <1>3, <1>4

LEMMA UpdateStepBase ==
    ASSUME Base, SessionsAssumption, NEW c \in Conns, UpdateStep(c)
    PROVE  Base'
<1>1. rec' \in [Conns -> Record] /\ sessions' = sessions
  BY UpdateStepIsLocal, UpdateStepUpdates
<1> USE DEF Base, Goto, DropLocals, CommandFrame, histVars
<1>2. CASE HelloNick(c)
  <2>1. TypeOK'
    BY <1>1, <1>2 DEF HelloNick, TypeOK, Record, ConnSteps
  <2>2. ASSUME NEW d \in Conns PROVE Placed(d)'
    BY <1>2 DEF HelloNick, TypeOK, Placed, Arriving, Restoring
  <2> QED BY <2>1, <2>2
<1>3. ASSUME NEW n \in AllNames, HelloJoin(c, n) PROVE Base'
  <2>0. rooms' \in [Conns -> SUBSET AllNames] /\ todo' \in [Conns -> SUBSET AllNames]
    BY <1>3 DEF HelloJoin, TypeOK
  <2>1. TypeOK'
    BY <1>1, <1>3, <2>0 DEF HelloJoin, TypeOK, Record
  <2>2. ASSUME NEW d \in Conns PROVE Placed(d)'
    BY <1>3 DEF HelloJoin, TypeOK, Placed, Arriving, Restoring
  <2> QED BY <2>1, <2>2
<1>4. ASSUME NEW n \in AllNames, JoinRoom(c, n) \/ PartRoom(c, n) PROVE Base'
  <2>1. TypeOK'
    BY <1>1, <1>4 DEF JoinRoom, PartRoom, TypeOK, Record
  <2>2. ASSUME NEW d \in Conns PROVE Placed(d)'
    BY <1>4 DEF JoinRoom, PartRoom, TypeOK, Placed, Arriving, Restoring
  <2> QED BY <2>1, <2>2
<1>5. CASE Touch(c)
  <2>1. TypeOK'
    BY <1>1, <1>5 DEF Touch, TypeOK, Record, selfVars
  <2>2. ASSUME NEW d \in Conns PROVE Placed(d)'
    BY <1>5 DEF Touch, TypeOK, Placed, Arriving, Restoring, selfVars
  <2> QED BY <2>1, <2>2
<1>6. ASSUME NEW n \in Nicks, SetNick(c, n) PROVE Base'
  <2>1. TypeOK'
    BY <1>1, <1>6 DEF SetNick, TypeOK, Record
  <2>2. ASSUME NEW d \in Conns PROVE Placed(d)'
    BY <1>6 DEF SetNick, TypeOK, Placed, Arriving, Restoring
  <2> QED BY <2>1, <2>2
<1>7. CASE HubClear(c)
  <2>1. TypeOK'
    BY <1>1, <1>7 DEF HubClear, TypeOK, Record, selfVars, ConnSteps, SessionsAssumption
  <2>2. ASSUME NEW d \in Conns PROVE Placed(d)'
    BY <1>7 DEF HubClear, TypeOK, Placed, Arriving, Restoring, selfVars
  <2> QED BY <2>1, <2>2
<1>8. ASSUME c = hub, HubRooms PROVE Base'
  <2>1. TypeOK'
    BY <1>1, <1>8 DEF HubRooms, TypeOK, Record, selfVars, ConnSteps
  <2>2. ASSUME NEW d \in Conns PROVE Placed(d)'
    BY <1>8 DEF HubRooms, TypeOK, Placed, Arriving, Restoring, selfVars
  <2> QED BY <2>1, <2>2
<1>9. ASSUME c = hub, HubNick PROVE Base'
  <2>1. left' \in [Sids -> Profile]
    BY <1>9 DEF HubNick, TypeOK, Profile
  <2>2. TypeOK'
    BY <1>1, <1>9, <2>1 DEF HubNick, TypeOK, Record, ConnSteps
  <2>3. ASSUME NEW d \in Conns PROVE Placed(d)'
    BY <1>9 DEF HubNick, TypeOK, Placed, Arriving, Restoring
  <2> QED BY <2>2, <2>3
<1> QED BY <1>2, <1>3, <1>4, <1>5, <1>6, <1>7, <1>8, <1>9 DEF UpdateStep

\* The steps that leave the records alone.
QuietStep(c) ==
    \/ \E s \in Sids, n \in Nicks \cup {NoNick} : Connect(c, s, n)
    \/ HelloCheck(c) \/ HelloRead(c) \/ HelloRooms(c) \/ HelloDone(c)
    \/ Lose(c) \/ Disconnect(c)

LEMMA QuietStepBase ==
    ASSUME Base, SessionsAssumption, NEW c \in Conns, QuietStep(c)
    PROVE  Base'
<1> USE DEF Base, Goto, CommandFrame, histVars, selfVars
<1>1. ASSUME NEW s \in Sids, NEW n \in Nicks \cup {NoNick}, Connect(c, s, n)
      PROVE  Base'
  <2>1. TypeOK'
    BY <1>1 DEF Connect, TypeOK, ConnSteps
  <2>2. ASSUME NEW d \in Conns PROVE Placed(d)'
    BY <1>1 DEF Connect, TypeOK, Placed, Arriving, Restoring, SessionsAssumption
  <2> QED BY <2>1, <2>2
<1>2. CASE HelloCheck(c)
  <2>1. CanRestore(sid[c]) => sessions[sid[c]] \in Conns
    BY DEF CanRestore, Present, TypeOK, SessionsAssumption
  <2>2. TypeOK'
    BY <1>2, <2>1 DEF HelloCheck, TypeOK, ConnSteps
  <2>3. ASSUME NEW d \in Conns PROVE Placed(d)'
    BY <1>2, <2>1 DEF HelloCheck, TypeOK, Placed, Arriving, Restoring, SessionsAssumption
  <2> QED BY <2>2, <2>3
<1>3. CASE HelloDone(c)
  <2>1. TypeOK'
    BY <1>3 DEF HelloDone, TypeOK, ConnSteps
  <2>2. ASSUME NEW d \in Conns PROVE Placed(d)'
    BY <1>3 DEF HelloDone, TypeOK, Placed, Arriving, Restoring
  <2> QED BY <2>1, <2>2
<1>4. CASE Lose(c)
  <2>1. TypeOK'
    BY <1>4 DEF Lose, TypeOK
  <2>2. ASSUME NEW d \in Conns PROVE Placed(d)'
    BY <1>4 DEF Lose, Placed
  <2> QED BY <2>1, <2>2
<1>5. CASE Disconnect(c)
  <2>1. TypeOK'
    BY <1>5 DEF Disconnect, TypeOK, ConnSteps
  <2>2. ASSUME NEW d \in Conns PROVE Placed(d)'
    BY <1>5 DEF Disconnect, TypeOK, Placed, Arriving, Restoring
  <2> QED BY <2>1, <2>2
<1>6. CASE HelloRead(c)
  <2>1. found[c] \in Conns /\ RestoredNick(c) \in Nicks \cup {NoNick}
    BY <1>6 DEF HelloRead, Placed, Restoring, TypeOK, RestoredNick
  <2>2. TypeOK'
    BY <1>6, <2>1 DEF HelloRead, TypeOK, ConnSteps
  <2>3. ASSUME NEW d \in Conns PROVE Placed(d)'
    BY <1>6 DEF HelloRead, TypeOK, Placed, Arriving, Restoring
  <2> QED BY <2>2, <2>3
<1>7. CASE HelloRooms(c)
  <2>1. found[c] \in Conns /\ rec[found[c]].rooms \in SUBSET AllNames
    BY <1>7 DEF HelloRooms, Placed, Restoring, TypeOK
  <2>2. TypeOK'
    BY <1>7, <2>1 DEF HelloRooms, TypeOK, ConnSteps
  <2>3. ASSUME NEW d \in Conns PROVE Placed(d)'
    BY <1>7 DEF HelloRooms, TypeOK, Placed, Arriving, Restoring
  <2> QED BY <2>2, <2>3
<1> QED BY <1>1, <1>2, <1>3, <1>4, <1>5, <1>6, <1>7 DEF QuietStep

\* What Upsert leaves: the new record under the id, the others under theirs.
LEMMA UpsertRegisters ==
    ASSUME TypeOK, SessionsAssumption, NEW c \in Conns, NEW s \in Sids,
           NEW n \in Nicks \cup {NoNick}, NEW rs \in SUBSET AllNames, Upsert(s, c, n, rs)
    PROVE  /\ sessions' \in [Sids -> Conns \cup {NoConn}]
           /\ rec' \in [Conns -> Record]
           /\ sessions'[s] = c /\ rec'[c] = Fresh(n, rs, TRUE)
           /\ \A q \in Sids \ {s} :
                /\ sessions'[q] = sessions[q]
                /\ sessions[q] \in Conns \ {c} => rec'[sessions[q]] = rec[sessions[q]]
<1> DEFINE R == [rec EXCEPT ![c] = Fresh(n, rs, TRUE)]
<1>1. sessions' = [sessions EXCEPT ![s] = c] /\ rec' = Kept(R, sessions', found')
  BY DEF Upsert, Fresh
<1>2. R \in [Conns -> Record] /\ R[c] = Fresh(n, rs, TRUE)
      /\ \A o \in Conns \ {c} : R[o] = rec[o]
  <2>1. rec \in [Conns -> Record] /\ Fresh(n, rs, TRUE) \in Record
    BY DEF TypeOK, Record, Fresh
  <2> HIDE DEF Record
  <2> QED BY <2>1
<1>3. sessions' \in [Sids -> Conns \cup {NoConn}] /\ sessions'[s] = c
      /\ \A q \in Sids \ {s} : sessions'[q] = sessions[q]
  BY <1>1 DEF TypeOK
<1> HIDE DEF R
<1>4. rec' \in [Conns -> Record]
  BY <1>1, <1>2, KeptIsTyped
<1>5. ASSUME NEW q \in Sids, sessions'[q] \in Conns
      PROVE  rec'[sessions'[q]] = R[sessions'[q]]
  BY <1>1, <1>5 DEF Kept
<1> QED BY <1>2, <1>3, <1>4, <1>5

UpsertStep(c) == HelloRestore(c) \/ HelloFresh(c)

\* What the two upserts of handleHello write.
LEMMA UpsertStepRegisters ==
    ASSUME Base, SessionsAssumption, NEW c \in Conns, UpsertStep(c)
    PROVE  /\ sid[c] \in Sids
           /\ sessions' \in [Sids -> Conns \cup {NoConn}]
           /\ rec' \in [Conns -> Record]
           /\ sessions'[sid[c]] = c /\ rec'[c].live /\ rec'[c].nick = nick'[c]
           /\ HelloRestore(c) => rec'[c].rooms = todo[c]
           /\ \A q \in Sids \ {sid[c]} :
                /\ sessions'[q] = sessions[q]
                /\ sessions[q] \in Conns \ {c} => rec'[sessions[q]] = rec[sessions[q]]
<1> USE DEF Base
<1>1. sid[c] \in Sids
  BY DEF UpsertStep, HelloRestore, HelloFresh, Placed, Arriving, Restoring, TypeOK
<1>2. CASE HelloRestore(c)
  <2> DEFINE n == nick[c]
             rs == todo[c]
  <2>2. n \in Nicks \cup {NoNick} /\ rs \in SUBSET AllNames
    BY DEF TypeOK
  <2>3. Upsert(sid[c], c, n, rs) /\ nick'[c] = n
    BY <1>2 DEF HelloRestore, selfVars
  <2> HIDE DEF n, rs
  <2>4. LET r == Fresh(n, rs, TRUE) IN r.live /\ r.nick = n /\ r.rooms = rs
    BY DEF Fresh
  <2>5. /\ sessions' \in [Sids -> Conns \cup {NoConn}]
        /\ rec' \in [Conns -> Record]
        /\ sessions'[sid[c]] = c /\ rec'[c] = Fresh(n, rs, TRUE)
        /\ \A q \in Sids \ {sid[c]} :
             /\ sessions'[q] = sessions[q]
             /\ sessions[q] \in Conns \ {c} => rec'[sessions[q]] = rec[sessions[q]]
    BY <1>1, <2>2, <2>3, UpsertRegisters
  <2> QED BY <1>1, <2>3, <2>4, <2>5 DEF rs
<1>3. CASE HelloFresh(c)
  <2> DEFINE n == NoNick
             rs == {}
  <2>1. n \in Nicks \cup {NoNick} /\ rs \in SUBSET AllNames
    OBVIOUS
  <2>2. Upsert(sid[c], c, n, rs) /\ nick'[c] = n
    BY <1>3 DEF HelloFresh, Placed, Arriving, Restoring, selfVars
  <2> HIDE DEF n, rs
  <2>3. Fresh(n, rs, TRUE).live /\ Fresh(n, rs, TRUE).nick = n
    BY DEF Fresh
  <2>4. /\ sessions' \in [Sids -> Conns \cup {NoConn}]
        /\ rec' \in [Conns -> Record]
        /\ sessions'[sid[c]] = c /\ rec'[c] = Fresh(n, rs, TRUE)
        /\ \A q \in Sids \ {sid[c]} :
             /\ sessions'[q] = sessions[q]
             /\ sessions[q] \in Conns \ {c} => rec'[sessions[q]] = rec[sessions[q]]
    BY <1>1, <2>1, <2>2, UpsertRegisters
  <2>5. ~HelloRestore(c)
    BY <1>3 DEF HelloFresh, HelloRestore
  <2> QED BY <1>1, <2>2, <2>3, <2>4, <2>5
<1> QED BY <1>2, <1>3 DEF UpsertStep

LEMMA UpsertStepBase ==
    ASSUME Base, SessionsAssumption, NEW c \in Conns, UpsertStep(c)
    PROVE  Base'
<1>1. rec' \in [Conns -> Record] /\ sessions' \in [Sids -> Conns \cup {NoConn}]
  BY UpsertStepRegisters
<1> USE DEF Base, Goto, DropLocals, histVars, selfVars
<1>2. CASE HelloRestore(c)
  <2>1. LobbyWhenEmpty(rec[found[c]].rooms) \in SUBSET AllNames
    <3>1. found[c] \in Conns
      BY <1>2 DEF HelloRestore, Placed, Restoring, TypeOK
    <3> QED BY <3>1 DEF TypeOK, LobbyWhenEmpty, AllNames
  <2>2. TypeOK'
    BY <1>1, <1>2, <2>1 DEF HelloRestore, TypeOK, Record, ConnSteps
  <2>3. ASSUME NEW d \in Conns PROVE Placed(d)'
    BY <1>2 DEF HelloRestore, TypeOK, Placed, Arriving, Restoring
  <2> QED BY <2>2, <2>3
<1>3. CASE HelloFresh(c)
  <2>1. TypeOK'
    BY <1>1, <1>3 DEF HelloFresh, TypeOK, Record, ConnSteps, AllNames
  <2>2. ASSUME NEW d \in Conns PROVE Placed(d)'
    BY <1>3 DEF HelloFresh, TypeOK, Placed, Arriving, Restoring
  <2> QED BY <2>1, <2>2
<1> QED BY <1>2, <1>3 DEF UpsertStep

LEMMA LogoutBase ==
    ASSUME Base, SessionsAssumption, NEW c \in Conns, Logout(c)
    PROVE  Base'
<1> USE DEF Base, CommandFrame, histVars
<1>1. rec' \in [Conns -> Record]
  <2>1. rec \in [Conns -> Record] /\ rec' = Kept(rec, sessions', found)
    BY DEF TypeOK, Record, Logout
  <2> QED BY <2>1, KeptIsTyped
<1>2. TypeOK'
  BY <1>1 DEF Logout, TypeOK, Record
<1>3. ASSUME NEW d \in Conns PROVE Placed(d)'
  BY DEF Logout, TypeOK, Placed, Arriving, Restoring
<1> QED BY <1>2, <1>3

LEMMA CleanupBase ==
    ASSUME Base, SessionsAssumption, Cleanup
    PROVE  Base'
<1> USE DEF Base, connVars, selfVars, histVars
<1>1. rec' \in [Conns -> Record]
  <2>1. rec \in [Conns -> Record] /\ rec' = Kept(rec, sessions', found)
    BY DEF TypeOK, Record, Cleanup
  <2> QED BY <2>1, KeptIsTyped
<1>2. TypeOK'
  BY <1>1 DEF Cleanup, TypeOK, Record
<1>3. ASSUME NEW d \in Conns PROVE Placed(d)'
  BY DEF Cleanup, Placed
<1> QED BY <1>2, <1>3

\* Time passes for one record, and touches nothing but its age.
LEMMA AgesIsLocal ==
    ASSUME TypeOK, SessionsAssumption, NEW s \in Sids, RecordAges(s)
    PROVE  /\ rec' \in [Conns -> Record]
           /\ \A o \in Conns : /\ rec'[o].nick = rec[o].nick /\ rec'[o].rooms = rec[o].rooms
                               /\ rec'[o].live = rec[o].live /\ rec'[o].age >= rec[o].age
<1> DEFINE o == sessions[s]
           R == rec[o]
           A == [R EXCEPT !.age = R.age + 1]
<1>1. o \in Conns /\ R \in Record /\ R.age < 2
  BY DEF RecordAges, Present, TypeOK, Record, SessionsAssumption
<1>2. rec' = [rec EXCEPT ![o] = A]
  BY DEF RecordAges
<1>3. /\ A \in Record /\ A.age >= R.age
      /\ A.nick = R.nick /\ A.rooms = R.rooms /\ A.live = R.live
  <2>1. R.age + 1 \in 0 .. 2 /\ R.age + 1 >= R.age
    BY <1>1 DEF Record
  <2> DEFINE a == R.age + 1
  <2> HIDE DEF R, a
  <2>2. A.age = a
    BY <1>1 DEF Record, a
  <2> QED BY <1>1, <2>1, <2>2 DEF Record, a
<1>4. rec \in [Conns -> Record]
  BY DEF TypeOK, Record
<1> HIDE DEF A
<1>5. rec' \in [Conns -> Record]
  <2> HIDE DEF Record, o
  <2> QED BY <1>1, <1>2, <1>3, <1>4
<1>6. ASSUME NEW p \in Conns PROVE rec[p].age >= rec[p].age
  BY <1>4 DEF Record
<1> QED BY <1>1, <1>2, <1>3, <1>4, <1>5, <1>6

LEMMA AgesBase ==
    ASSUME Base, SessionsAssumption, NEW s \in Sids, RecordAges(s)
    PROVE  Base'
<1> USE DEF Base, connVars, selfVars, histVars
<1>1. rec' \in [Conns -> Record]
  BY AgesIsLocal
<1>2. TypeOK'
  BY <1>1 DEF RecordAges, TypeOK, Record
<1>3. ASSUME NEW d \in Conns PROVE Placed(d)'
  BY DEF RecordAges, Placed
<1> QED BY <1>2, <1>3

LEMMA StutterBase ==
    ASSUME Base, UNCHANGED vars
    PROVE  Base'
<1> USE DEF vars, connVars, selfVars, histVars
<1>1. TypeOK'
  BY DEF Base, TypeOK
<1>2. ASSUME NEW d \in Conns PROVE Placed(d)'
  BY DEF Base, Placed
<1> QED BY <1>1, <1>2 DEF Base

\* The disjuncts of Next, by what they do to the records.
LEMMA NextCases ==
    ASSUME Next, Base, SessionsAssumption
    PROVE  \/ \E c \in Conns : QuietStep(c) \/ UpdateStep(c) \/ UpsertStep(c) \/ Logout(c)
           \/ \E s \in Sids : RecordAges(s)
           \/ Cleanup
<1>1. ASSUME NEW c \in Conns, HelloSteps(c)
      PROVE  QuietStep(c) \/ UpdateStep(c) \/ UpsertStep(c)
  BY <1>1 DEF HelloSteps, QuietStep, UpdateStep, UpsertStep
<1>2. ASSUME HubSteps PROVE \E c \in Conns : UpdateStep(c)
  <2>1. ASSUME HubRooms \/ HubNick PROVE hub \in Conns
    BY <2>1 DEF HubRooms, HubNick, Base, TypeOK
  <2> QED BY <1>2, <2>1 DEF HubSteps, UpdateStep
<1> QED BY <1>1, <1>2 DEF Next, QuietStep, UpdateStep

LEMMA BaseStep ==
    ASSUME Base, SessionsAssumption, [Next]_vars
    PROVE  Base'
<1>1. CASE UNCHANGED vars
  BY <1>1, StutterBase
<1>2. CASE Next
  BY <1>2, NextCases, QuietStepBase, UpdateStepBase, UpsertStepBase, LogoutBase,
     AgesBase, CleanupBase
<1> QED BY <1>1, <1>2

LEMMA BaseAlways == Spec => []Base
<1>1. Init => Base
  BY InitBase, SessionsAssumption
<1>2. Base /\ [Next]_vars => Base'
  BY BaseStep, SessionsAssumption
<1> QED BY <1>1, <1>2, PTL DEF Spec

\* Types: session records, and the variables of every connection, keep the
\* shapes that client.go and session.go declare for them, and removeClient
\* works on one connection at a time.
THEOREM TypeCorrect == Spec => []TypeOK
<1>1. Base => TypeOK
  BY DEF Base
<1> QED BY <1>1, BaseAlways, PTL

-----------------------------------------------------------------------------
(* A record is written by its own connection only *)

\* A step of connection c writes its own variables, what is registered under
\* its own id, and no record that is registered under another.
Acts(c) ==
    /\ pc[c] # "gone"
    /\ \A d \in Conns \ {c} : /\ pc'[d] = pc[d] /\ sid'[d] = sid[d]
                              /\ nick'[d] = nick[d] /\ rooms'[d] = rooms[d]
    /\ \A q \in Sids \ {sid[c]} :
         /\ sessions'[q] = sessions[q] /\ left'[q] = left[q]
         /\ sessions[q] # NoConn => rec'[sessions[q]] = rec[sessions[q]]
    /\ sid[c] # NoSid => sessions'[sid[c]] \in {c, NoConn, sessions[sid[c]]}
    /\ shared \subseteq shared'

LEMMA OthersAreKept ==
    ASSUME Base, Base', Records, SessionsAssumption, NEW c \in Conns, Acts(c)
    PROVE  /\ \A q \in Sids : q # sid[c] => Registered(q)' /\ LeftBehind(q)'
           /\ \A d \in Conns : d # c => Mirrored(d)'
<1>1. /\ sid \in [Conns -> Sids \cup {NoSid}]
      /\ sessions \in [Sids -> Conns \cup {NoConn}]
  BY DEF Base, TypeOK
<1>2. ASSUME NEW q \in Sids, q # sid[c] PROVE sessions[q] # c
  BY <1>2, SessionsAssumption DEF Acts, Records, Registered
<1>3. ASSUME NEW q \in Sids, q # sid[c] PROVE Registered(q)'
  <2>1. sessions'[q] = sessions[q]
    BY <1>3 DEF Acts
  <2> SUFFICES ASSUME sessions[q] # NoConn PROVE Registered(q)'
    BY <2>1 DEF Registered
  <2>2. sessions[q] \in Conns \ {c} /\ rec'[sessions[q]] = rec[sessions[q]]
    BY <1>1, <1>2, <1>3 DEF Acts
  <2>3. pc'[sessions[q]] = pc[sessions[q]] /\ sid'[sessions[q]] = sid[sessions[q]]
    BY <2>2 DEF Acts
  <2>4. Registered(q)
    BY DEF Records
  <2>5. ASSUME NEW p \in Sids, sessions'[p] = sessions[q] PROVE p = q
    <3>1. sessions[p] = sessions[q]
      BY <2>2, <2>5, <1>1 DEF Acts
    <3> QED BY <2>4, <3>1 DEF Registered
  <2> QED BY <2>1, <2>2, <2>3, <2>4, <2>5 DEF Registered
<1>4. ASSUME NEW q \in Sids, q # sid[c] PROVE LeftBehind(q)'
  <2>1. sessions'[q] = sessions[q] /\ left'[q] = left[q]
    BY <1>4 DEF Acts
  <2> SUFFICES ASSUME sessions[q] # NoConn PROVE LeftBehind(q)'
    BY <2>1 DEF LeftBehind
  <2>2. sessions[q] \in Conns \ {c} /\ rec'[sessions[q]] = rec[sessions[q]]
    BY <1>1, <1>2, <1>4 DEF Acts
  <2>3. pc'[sessions[q]] = pc[sessions[q]] /\ (q \notin shared' => q \notin shared)
    BY <2>2 DEF Acts
  <2>4. LeftBehind(q)
    BY DEF Records
  <2> QED BY <2>1, <2>2, <2>3, <2>4 DEF LeftBehind
<1>5. ASSUME NEW d \in Conns, d # c PROVE Mirrored(d)'
  <2>1. pc'[d] = pc[d] /\ sid'[d] = sid[d] /\ nick'[d] = nick[d] /\ rooms'[d] = rooms[d]
    BY <1>5 DEF Acts
  <2> SUFFICES ASSUME Alone(d)' PROVE Mirrored(d)'
    BY DEF Mirrored
  <2>2. Alone(d)
    BY <2>1 DEF Alone, Acts
  <2> DEFINE q == sid[d]
  <2>3. q \in Sids /\ q # sid[c]
    BY <1>1, <1>5, <2>2 DEF Alone, Records, Single
  <2>4. /\ sessions'[q] = sessions[q]
        /\ sessions[q] # NoConn => rec'[sessions[q]] = rec[sessions[q]]
    BY <2>3 DEF Acts
  <2>5. Mirrored(d)
    BY DEF Records
  <2>6. d # NoConn
    BY SessionsAssumption
  <2> QED BY <2>1, <2>2, <2>4, <2>5, <2>6 DEF Mirrored
<1> QED BY <1>3, <1>4, <1>5

\* So it is enough to look at the connection that acts, and at its own id.
LEMMA OwnIsEnough ==
    ASSUME Base, Base', Records, SessionsAssumption, NEW c \in Conns, Acts(c),
           Single', Mirrored(c)',
           NEW s, s = sid[c], s \in Sids => Registered(s)' /\ LeftBehind(s)'
    PROVE  Records'
<1>1. ASSUME NEW q \in Sids PROVE Registered(q)' /\ LeftBehind(q)'
  BY OthersAreKept
<1>2. ASSUME NEW d \in Conns PROVE Mirrored(d)'
  BY OthersAreKept
<1> QED BY <1>1, <1>2 DEF Records

\* Two connections share an id only when a hello arrives with an id in use.
LEMMA SingleIsKept ==
    ASSUME Base, Records, SessionsAssumption, NEW c \in Conns,
           QuietStep(c) \/ UpdateStep(c) \/ UpsertStep(c) \/ Logout(c)
    PROVE  Single'
<1>1. /\ sid \in [Conns -> Sids \cup {NoSid}] /\ Single
  BY DEF Base, TypeOK, Records
<1>2. ASSUME NEW s \in Sids, NEW n, Connect(c, s, n) PROVE Single'
  <2>1. sid' = [sid EXCEPT ![c] = s] /\ s # NoSid
    BY <1>2, SessionsAssumption DEF Connect
  <2>2. ASSUME NEW d \in Conns \ {c}, sid[d] = s PROVE s \in shared'
    <3>1. pc[d] \notin {"off", "gone"}
      BY <2>1, <2>2 DEF Base, Placed
    <3> QED BY <1>2, <2>2, <3>1 DEF Connect, Online
  <2>3. shared \subseteq shared'
    BY <1>2 DEF Connect
  <2>4. ASSUME NEW a \in Conns, NEW d \in Conns, Alone(a)', sid'[d] = sid'[a]
        PROVE  a = d
    <3>1. CASE a = c
      BY <1>1, <2>1, <2>2, <2>4, <3>1 DEF Alone
    <3>2. CASE a # c /\ d = c
      BY <1>1, <2>1, <2>2, <2>4, <3>2 DEF Alone
    <3>3. CASE a # c /\ d # c
      BY <1>1, <2>1, <2>3, <2>4, <3>3 DEF Alone, Single
    <3> QED BY <3>1, <3>2, <3>3
  <2> QED BY <2>4 DEF Single
<1>3. ASSUME shared' = shared, \A d \in Conns : sid'[d] \in {sid[d], NoSid}
      PROVE  Single'
  <2>1. ASSUME NEW a \in Conns, NEW d \in Conns, Alone(a)', sid'[d] = sid'[a]
        PROVE  a = d
    BY <1>1, <1>3, <2>1 DEF Alone, Single
  <2> QED BY <2>1 DEF Single
<1>4. ASSUME \/ HelloCheck(c) \/ HelloRead(c) \/ HelloRooms(c) \/ HelloDone(c)
             \/ Lose(c) \/ Disconnect(c)
      PROVE  shared' = shared /\ sid' = sid
  BY <1>4 DEF HelloCheck, HelloRead, HelloRooms, HelloDone, Lose, Disconnect,
     CommandFrame, selfVars, histVars
<1>5. ASSUME UpsertStep(c) PROVE shared' = shared /\ sid' = sid
  BY <1>5 DEF UpsertStep, HelloRestore, HelloFresh, selfVars, histVars
<1>6. ASSUME Logout(c)
      PROVE  shared' = shared /\ \A d \in Conns : sid'[d] \in {sid[d], NoSid}
  BY <1>1, <1>6 DEF Logout, CommandFrame, histVars
<1>7. ASSUME UpdateStep(c)
      PROVE  shared' = shared /\ \A d \in Conns : sid'[d] \in {sid[d], NoSid}
  BY <1>1, <1>7 DEF UpdateStep, HelloNick, HelloJoin, JoinRoom, PartRoom, Touch, SetNick,
     HubClear, HubRooms, HubNick, CommandFrame, selfVars, histVars
<1> QED BY <1>2, <1>3, <1>4, <1>5, <1>6, <1>7 DEF QuietStep

LEMMA QuietStepActs ==
    ASSUME Base, Records, SessionsAssumption, NEW c \in Conns, QuietStep(c)
    PROVE  Acts(c) /\ sessions' = sessions /\ rec' = rec /\ left' = left
<1> USE DEF Base, TypeOK, Goto, CommandFrame, histVars, selfVars
<1>1. ASSUME NEW s \in Sids, NEW n \in Nicks \cup {NoNick}, Connect(c, s, n)
      PROVE  Acts(c) /\ sessions' = sessions /\ rec' = rec /\ left' = left
  BY <1>1 DEF Connect, Acts
<1>2. CASE HelloCheck(c)
  BY <1>2 DEF HelloCheck, Acts
<1>3. CASE HelloDone(c)
  BY <1>3 DEF HelloDone, Acts
<1>4. CASE Lose(c)
  BY <1>4 DEF Lose, Acts
<1>5. CASE Disconnect(c)
  BY <1>5 DEF Disconnect, Acts
<1>6. CASE HelloRead(c)
  BY <1>6 DEF HelloRead, Acts
<1>7. CASE HelloRooms(c)
  BY <1>7 DEF HelloRooms, Acts
<1> QED BY <1>1, <1>2, <1>3, <1>4, <1>5, <1>6, <1>7 DEF QuietStep

\* A connection that is not settled, nor on its way out, has no record.
LEMMA NoRecordYet ==
    ASSUME Base, Records, SessionsAssumption, NEW c \in Conns,
           pc[c] \in Arriving \cup {"off"}, NEW q \in Sids
    PROVE  sessions[q] # c
BY DEF Records, Registered, Arriving, Restoring, Settled, Removed

LEMMA QuietStepRecords ==
    ASSUME Base, Base', Records, SessionsAssumption, NEW c \in Conns, QuietStep(c)
    PROVE  Records'
<1>1. Acts(c) /\ sessions' = sessions /\ rec' = rec /\ left' = left
  BY QuietStepActs
<1>2. Single'
  BY SingleIsKept
<1>3. /\ pc \in [Conns -> ConnSteps] /\ sid \in [Conns -> Sids \cup {NoSid}]
      /\ sessions \in [Sids -> Conns \cup {NoConn}]
  BY DEF Base, TypeOK
<1>4. sid[c] # NoSid => Registered(sid[c])
  BY <1>3 DEF Records
<1>5. Mirrored(c)
  BY DEF Records
<1> DEFINE Own == Mirrored(c)' /\ \A s \in Sids : s = sid[c] => Registered(s)' /\ LeftBehind(s)'
<1>6. ASSUME NEW s \in Sids, NEW n \in Nicks \cup {NoNick}, Connect(c, s, n) PROVE Own
  <2>1. sid[c] = NoSid
    BY <1>6 DEF Connect, Base, Placed
  <2>2. pc'[c] = "hello" /\ sid'[c] = s
    BY <1>3, <1>6 DEF Connect, Goto
  <2>3. sessions[s] # c
    BY <1>6, NoRecordYet DEF Connect
  <2> QED BY <1>1, <2>1, <2>2, <2>3, SessionsAssumption DEF Mirrored, Settled, Removed
<1>7. ASSUME pc'[c] \in Settled => pc[c] \in Settled,
             pc'[c] \in Removed \cup {"gone"} => pc[c] = pc'[c],
             pc[c] \in Settled \cup Removed => pc'[c] \in Settled \cup Removed,
             pc'[c] = "fresh" => pc[c] = "fresh" \/ HelloCheck(c),
             sid' = sid, rooms' = rooms, shared' = shared,
             nick' = nick \/ pc[c] \in Arriving
      PROVE  Own
  <2>1. ASSUME pc'[c] = "fresh", HelloCheck(c), Alone(c), sessions[sid[c]] # NoConn
        PROVE  rec[sessions[sid[c]]].age > 0
    <3> DEFINE s == sid[c]
               o == sessions[s]
    <3>1. s \in Sids /\ o \in Conns /\ Registered(s)
      BY <1>3, <1>4, <2>1 DEF Alone
    <3>2. ~CanRestore(s)
      BY <1>3, <2>1 DEF HelloCheck, Goto
    <3>3. pc[o] = "gone"
      <4>1. o # c
        BY <2>1, <3>1, NoRecordYet DEF HelloCheck, Arriving, Restoring
      <4>2. sid[o] # s
        BY <2>1, <3>1, <4>1 DEF Records, Single
      <4> QED BY <3>1, <4>2, SessionsAssumption DEF Registered
    <3>4. ~rec[o].live
      BY <3>1, <3>3, SessionsAssumption DEF Registered
    <3>5. rec[o].age \in 0 .. 2
      BY <3>1 DEF Base, TypeOK
    <3> QED BY <2>1, <3>1, <3>2, <3>4, <3>5, SessionsAssumption DEF CanRestore, Present, Alone
  <2>2. Mirrored(c)'
    <3>1. pc'[c] = "stored" => pc[c] = "stored"
      BY <1>7 DEF Removed
    <3>2. Alone(c)' = Alone(c)
      BY <1>7 DEF Alone
    <3>3. CASE nick' = nick
      BY <1>1, <1>5, <1>7, <2>1, <3>1, <3>2, <3>3 DEF Mirrored
    <3>4. CASE pc[c] \in Arriving
      <4>1. Alone(c) => sessions[sid[c]] # c
        BY <1>3, <3>4, NoRecordYet DEF Alone
      <4>2. pc'[c] \notin Settled \cup Removed
        BY <1>7, <3>4 DEF Arriving, Restoring, Settled, Removed
      <4> QED BY <1>1, <1>5, <1>7, <2>1, <3>2, <4>1, <4>2 DEF Mirrored, Removed
    <3> QED BY <1>7, <3>3, <3>4
  <2>3. ASSUME NEW s \in Sids, s = sid[c] PROVE Registered(s)'
    <3>1. ASSUME NEW d \in Conns, d # c PROVE pc'[d] = pc[d]
      BY <1>1, <3>1 DEF Acts
    <3>2. Registered(s)
      BY DEF Records
    <3>3. CASE sessions[s] = c
      <4>1. pc[c] # "gone" /\ sid[c] = s
        BY <1>1, <2>3 DEF Acts
      <4> QED BY <1>1, <1>7, <3>2, <3>3, <4>1, SessionsAssumption DEF Registered
    <3>4. CASE sessions[s] # c
      <4>1. sessions[s] # NoConn => pc'[sessions[s]] = pc[sessions[s]]
        BY <1>3, <3>1, <3>4
      <4> QED BY <1>1, <1>7, <3>2, <3>4, <4>1 DEF Registered
    <3> QED BY <3>3, <3>4
  <2>4. ASSUME NEW s \in Sids, s = sid[c] PROVE LeftBehind(s)'
    <3>1. ASSUME NEW d \in Conns, pc'[d] = "gone" PROVE pc[d] = "gone"
      BY <1>1, <1>7, <3>1 DEF Acts
    <3>2. LeftBehind(s)
      BY DEF Records
    <3> QED BY <1>1, <1>3, <1>7, <3>1, <3>2 DEF LeftBehind
  <2> QED BY <2>2, <2>3, <2>4
<1> HIDE DEF Own
<1> USE DEF Goto, CommandFrame, histVars, selfVars, Settled, Removed
<1>8. ASSUME HelloCheck(c) PROVE Own
  <2>1. pc[c] = "hello" /\ pc'[c] \in {"restore", "fresh"}
    BY <1>3, <1>8 DEF HelloCheck
  <2>2. sid' = sid /\ nick' = nick /\ rooms' = rooms /\ shared' = shared
    BY <1>8 DEF HelloCheck
  <2> QED BY <1>7, <1>8, <2>1, <2>2
<1>9. ASSUME HelloDone(c) PROVE Own
  <2>1. pc[c] = "joining" /\ pc'[c] = "live"
    BY <1>3, <1>9 DEF HelloDone
  <2>2. sid' = sid /\ nick' = nick /\ rooms' = rooms /\ shared' = shared
    BY <1>9 DEF HelloDone
  <2> QED BY <1>7, <2>1, <2>2
<1>10. ASSUME Lose(c) PROVE Own
  <2>1. pc' = pc
    BY <1>3, <1>10 DEF Lose
  <2>2. sid' = sid /\ nick' = nick /\ rooms' = rooms /\ shared' = shared
    BY <1>10 DEF Lose
  <2> QED BY <1>7, <2>1, <2>2
<1>11. ASSUME Disconnect(c) PROVE Own
  <2>1. pc[c] = "live" /\ pc'[c] = "closing"
    BY <1>3, <1>11 DEF Disconnect
  <2>2. sid' = sid /\ nick' = nick /\ rooms' = rooms /\ shared' = shared
    BY <1>11 DEF Disconnect
  <2> QED BY <1>7, <2>1, <2>2
<1>12. ASSUME HelloRead(c) \/ HelloRooms(c) PROVE Own
  <2>1. pc[c] \in {"restore", "reading"} /\ pc'[c] \in {"reading", "storing"}
    BY <1>3, <1>12 DEF HelloRead, HelloRooms
  <2>2. sid' = sid /\ rooms' = rooms /\ shared' = shared
    BY <1>12 DEF HelloRead, HelloRooms
  <2>3. pc[c] \in Arriving
    BY <2>1 DEF Arriving, Restoring
  <2> QED BY <1>7, <2>1, <2>2, <2>3
<1>13. Own
  BY <1>6, <1>8, <1>9, <1>10, <1>11, <1>12 DEF QuietStep
<1> QED BY <1>1, <1>2, <1>13, OwnIsEnough DEF Own

LEMMA UpsertStepRecords ==
    ASSUME Base, Base', Records, SessionsAssumption, NEW c \in Conns, UpsertStep(c)
    PROVE  Records'
<1> DEFINE s == sid[c]
<1>1. /\ s \in Sids
      /\ sessions'[s] = c /\ rec'[c].live /\ rec'[c].nick = nick'[c]
      /\ \A q \in Sids \ {s} :
           /\ sessions'[q] = sessions[q]
           /\ sessions[q] \in Conns \ {c} => rec'[sessions[q]] = rec[sessions[q]]
  BY UpsertStepRegisters
<1>2. /\ pc[c] \in Arriving /\ pc'[c] \in {"named", "joining"}
      /\ \A d \in Conns \ {c} : pc'[d] = pc[d] /\ nick'[d] = nick[d]
      /\ sid' = sid /\ rooms' = rooms /\ shared' = shared /\ left' = left
  BY DEF UpsertStep, HelloRestore, HelloFresh, Arriving, Restoring, Goto, selfVars, histVars,
         Base, TypeOK
<1>3. \A q \in Sids : sessions[q] # c
  BY <1>2, NoRecordYet
<1>4. sessions \in [Sids -> Conns \cup {NoConn}]
  BY DEF Base, TypeOK
<1>5. Acts(c)
  BY <1>1, <1>2, <1>3, <1>4 DEF Acts, Arriving, Restoring
<1>6. Single'
  BY SingleIsKept
<1>7. rooms'[c] = {}
  BY <1>2 DEF Base, Placed
<1>8. Mirrored(c)'
  BY <1>1, <1>2, <1>7 DEF Mirrored, Settled, Removed
<1>9. Registered(s)'
  <2>1. ASSUME NEW q \in Sids, sessions'[q] = c PROVE q = s
    BY <1>1, <1>3, <2>1
  <2> QED BY <1>1, <1>2, <2>1 DEF Registered, Settled, Removed
<1>10. LeftBehind(s)'
  BY <1>1, <1>2 DEF LeftBehind
<1>11. ASSUME NEW q, q = sid[c], q \in Sids PROVE Registered(q)' /\ LeftBehind(q)'
  <2>1. sid'[c] = sid[c]
    BY <1>2
  <2> QED BY <1>9, <1>10, <1>11, <2>1
<1> QED BY <1>5, <1>6, <1>8, <1>11, OwnIsEnough

LEMMA LogoutRecords ==
    ASSUME Base, Base', Records, SessionsAssumption, NEW c \in Conns, Logout(c)
    PROVE  Records'
<1>1. /\ sid \in [Conns -> Sids \cup {NoSid}] /\ sid[c] \in Sids /\ pc[c] = "live"
      /\ sessions \in [Sids -> Conns \cup {NoConn}]
  BY DEF Logout, Base, TypeOK
<1>2. sessions' = [sessions EXCEPT ![sid[c]] = NoConn] /\ rec' = Kept(rec, sessions', found)
      /\ sid' = [sid EXCEPT ![c] = NoSid] /\ nick' = [nick EXCEPT ![c] = NoNick]
      /\ UNCHANGED <<pc, rooms, shared, left>>
  BY DEF Logout, CommandFrame, histVars
<1>3. ASSUME NEW q \in Sids, sessions'[q] \in Conns
      PROVE  rec'[sessions'[q]] = rec[sessions'[q]]
  BY <1>2, <1>3 DEF Kept
<1>4. Acts(c)
  <2>1. ASSUME NEW d \in Conns \ {c}
        PROVE  /\ pc'[d] = pc[d] /\ sid'[d] = sid[d]
               /\ nick'[d] = nick[d] /\ rooms'[d] = rooms[d]
    BY <1>1, <1>2 DEF Base, TypeOK
  <2>2. ASSUME NEW q \in Sids \ {sid[c]}
        PROVE  /\ sessions'[q] = sessions[q] /\ left'[q] = left[q]
               /\ sessions[q] # NoConn => rec'[sessions[q]] = rec[sessions[q]]
    BY <1>1, <1>2, <1>3
  <2> QED BY <1>1, <1>2, <2>1, <2>2 DEF Acts
<1>5. Single'
  BY SingleIsKept
<1>6. Mirrored(c)'
  BY <1>1, <1>2 DEF Mirrored, Alone
<1>7. ASSUME NEW q, q = sid[c], q \in Sids PROVE Registered(q)' /\ LeftBehind(q)'
  BY <1>1, <1>2, <1>7 DEF Registered, LeftBehind
<1> QED BY <1>4, <1>5, <1>6, <1>7, OwnIsEnough

LEMMA CleanupRecords ==
    ASSUME Base, Records, SessionsAssumption, Cleanup
    PROVE  Records'
<1>1. /\ \A q \in Sids : sessions'[q] = IF Present(q) /\ Purgeable(sessions[q])
                                        THEN NoConn ELSE sessions[q]
      /\ rec' = Kept(rec, sessions', found)
      /\ UNCHANGED <<pc, sid, nick, rooms, shared, left>>
  BY DEF Cleanup, connVars, selfVars, histVars
<1>2. /\ sid \in [Conns -> Sids \cup {NoSid}]
      /\ sessions \in [Sids -> Conns \cup {NoConn}]
  BY DEF Base, TypeOK
<1>3. ASSUME NEW q \in Sids, sessions'[q] # NoConn
      PROVE  sessions'[q] = sessions[q] /\ rec'[sessions[q]] = rec[sessions[q]]
  <2>1. sessions'[q] = sessions[q] /\ sessions[q] \in Conns
    BY <1>1, <1>2, <1>3
  <2> QED BY <1>1, <2>1 DEF Kept
<1>4. Single'
  BY <1>1 DEF Records, Single, Alone
<1>5. ASSUME NEW q \in Sids PROVE Registered(q)' /\ LeftBehind(q)'
  <2> SUFFICES ASSUME sessions'[q] # NoConn PROVE Registered(q)' /\ LeftBehind(q)'
    BY DEF Registered, LeftBehind
  <2>1. sessions'[q] = sessions[q] /\ rec'[sessions[q]] = rec[sessions[q]]
    BY <1>3
  <2>2. Registered(q) /\ LeftBehind(q)
    BY DEF Records
  <2>3. ASSUME NEW p \in Sids, sessions'[p] = sessions'[q] PROVE p = q
    BY <1>3, <2>1, <2>2, <2>3 DEF Registered
  <2> QED BY <1>1, <2>1, <2>2, <2>3 DEF Registered, LeftBehind
<1>6. ASSUME NEW d \in Conns PROVE Mirrored(d)'
  <2> SUFFICES ASSUME Alone(d)' PROVE Mirrored(d)'
    BY DEF Mirrored
  <2>1. Alone(d) /\ sid[d] \in Sids /\ Mirrored(d) /\ d # NoConn
    BY <1>1, <1>2, SessionsAssumption DEF Alone, Records
  <2>2. pc[d] \in Settled => sessions'[sid[d]] = sessions[sid[d]]
    BY <1>1, <2>1 DEF Mirrored, Purgeable
  <2>3. sessions'[sid[d]] \in {NoConn, sessions[sid[d]]}
    BY <1>1, <2>1
  <2>4. sessions'[sid[d]] # NoConn => rec'[sessions[sid[d]]] = rec[sessions[sid[d]]]
    BY <1>3, <2>1
  <2> QED BY <1>1, <2>1, <2>2, <2>3, <2>4 DEF Mirrored
<1> QED BY <1>4, <1>5, <1>6 DEF Records

LEMMA AgesRecords ==
    ASSUME Base, Base', Records, SessionsAssumption, NEW t \in Sids, RecordAges(t)
    PROVE  Records'
<1>1. UNCHANGED <<sessions, pc, sid, nick, rooms, shared, left>>
  BY DEF RecordAges, connVars, selfVars, histVars
<1>2. \A o \in Conns : /\ rec'[o].nick = rec[o].nick /\ rec'[o].rooms = rec[o].rooms
                       /\ rec'[o].live = rec[o].live /\ rec'[o].age >= rec[o].age
                       /\ rec[o].age \in 0 .. 2 /\ rec'[o].age \in 0 .. 2
  <2>1. \A o \in Conns : rec[o].age \in 0 .. 2 /\ rec'[o].age \in 0 .. 2
    BY DEF Base, TypeOK
  <2> QED BY <2>1, AgesIsLocal DEF Base
<1>3. /\ sid \in [Conns -> Sids \cup {NoSid}]
      /\ sessions \in [Sids -> Conns \cup {NoConn}]
  BY DEF Base, TypeOK
<1>4. Single'
  BY <1>1 DEF Records, Single, Alone
<1>5. ASSUME NEW q \in Sids PROVE Registered(q)' /\ LeftBehind(q)'
  BY <1>1, <1>2, <1>3 DEF Records, Registered, LeftBehind
<1>6. ASSUME NEW d \in Conns PROVE Mirrored(d)'
  <2> SUFFICES ASSUME Alone(d) PROVE Mirrored(d)'
    BY <1>1 DEF Mirrored, Alone
  <2>1. sid[d] \in Sids /\ Mirrored(d)
    BY <1>3 DEF Alone, Records
  <2>2. ASSUME sessions[sid[d]] # NoConn, rec[sessions[sid[d]]].age > 0
        PROVE  rec'[sessions[sid[d]]].age > 0
    <3>1. sessions[sid[d]] \in Conns
      BY <1>3, <2>1, <2>2
    <3> QED BY <1>2, <2>2, <3>1
  <2> QED BY <1>1, <1>2, <2>1, <2>2 DEF Mirrored
<1> QED BY <1>4, <1>5, <1>6 DEF Records

\* What each update leaves in the record of the connection that makes it.
LEMMA OwnIsWritten ==
    ASSUME TypeOK, SessionsAssumption, NEW c \in Conns, sid[c] \in Sids, sessions[sid[c]] = c
    PROVE  /\ rec' = Touched(sid[c]) => rec'[c].nick = rec[c].nick
                 /\ rec'[c].rooms = rec[c].rooms /\ rec'[c].live = rec[c].live
           /\ \A n \in Nicks \cup {NoNick} : UpdateNick(sid[c], n) =>
                 rec'[c].nick = n /\ rec'[c].rooms = rec[c].rooms
                 /\ rec'[c].live = rec[c].live
           /\ \A rs \in SUBSET AllNames : UpdateRooms(sid[c], rs) =>
                 rec'[c].nick = rec[c].nick /\ rec'[c].rooms = rs
                 /\ rec'[c].live = rec[c].live
           /\ ClearLive(sid[c]) => rec'[c].nick = rec[c].nick
                 /\ rec'[c].rooms = rec[c].rooms /\ ~rec'[c].live
<1> DEFINE R == rec[c]
<1>1. Present(sid[c]) /\ Now(sid[c]) = R
  BY SessionsAssumption DEF Present, Now
<1>2. R \in Record /\ R.nick \in Nicks \cup {NoNick} /\ R.rooms \in SUBSET AllNames
      /\ R.live \in BOOLEAN
  BY DEF TypeOK, Record
<1>3. ASSUME NEW n \in Nicks \cup {NoNick}, NEW rs \in SUBSET AllNames, NEW l \in BOOLEAN,
             Wrote(sid[c], n, rs, l)
      PROVE  rec'[c].nick = n /\ rec'[c].rooms = rs /\ rec'[c].live = l
  <2>1. rec'[c] = Fresh(n, rs, l)
    BY <1>1, <1>3, WriteIsLocal
  <2> QED BY <2>1 DEF Fresh
<1> HIDE DEF R
<1>4. /\ rec' = Touched(sid[c]) => Wrote(sid[c], R.nick, R.rooms, R.live)
      /\ \A n \in Nicks \cup {NoNick} :
           UpdateNick(sid[c], n) => Wrote(sid[c], n, R.rooms, R.live)
      /\ \A rs \in SUBSET AllNames :
           UpdateRooms(sid[c], rs) => Wrote(sid[c], R.nick, rs, R.live)
      /\ ClearLive(sid[c]) => Wrote(sid[c], R.nick, R.rooms, FALSE)
  BY <1>1, UpdatesWrite
<1>5. rec' = Touched(sid[c]) => rec'[c].nick = R.nick
        /\ rec'[c].rooms = R.rooms /\ rec'[c].live = R.live
  BY <1>2, <1>3, <1>4
<1>6. ASSUME NEW n \in Nicks \cup {NoNick}, UpdateNick(sid[c], n)
      PROVE  rec'[c].nick = n /\ rec'[c].rooms = R.rooms /\ rec'[c].live = R.live
  BY <1>2, <1>3, <1>4, <1>6
<1>7. ASSUME NEW rs \in SUBSET AllNames, UpdateRooms(sid[c], rs)
      PROVE  rec'[c].nick = R.nick /\ rec'[c].rooms = rs /\ rec'[c].live = R.live
  BY <1>2, <1>3, <1>4, <1>7
<1>8. ClearLive(sid[c]) => rec'[c].nick = R.nick
        /\ rec'[c].rooms = R.rooms /\ ~rec'[c].live
  BY <1>2, <1>3, <1>4
<1> QED BY <1>5, <1>6, <1>7, <1>8 DEF R

\* The record of a connection after its own step: the image of its nick and
\* rooms until it is gone, and then of what it had.
LEMMA OwnAfterUpdate ==
    ASSUME Base, SessionsAssumption, NEW c \in Conns, UpdateStep(c),
           sid[c] \in Sids, sessions[sid[c]] = c
    PROVE  /\ pc'[c] \in Settled /\ rec[c].live => rec'[c].live
           /\ (pc[c] \in Removed => ~rec[c].live)
                /\ pc'[c] \in Removed \cup {"gone"} => ~rec'[c].live
           /\ (/\ rec[c].nick = nick[c] /\ rooms[c] \in {{}, rec[c].rooms}
               /\ pc[c] = "stored" => rooms[c] = rec[c].rooms)
                 => /\ pc'[c] # "gone" =>
                         /\ rec'[c].nick = nick'[c]
                         /\ rooms'[c] \in {{}, rec'[c].rooms}
                         /\ pc'[c] = "stored" => rooms'[c] = rec'[c].rooms
                    /\ pc'[c] = "gone" /\ sid[c] \notin shared' =>
                         /\ rec'[c].nick = left'[sid[c]].nick
                         /\ rec'[c].rooms = left'[sid[c]].rooms
<1>1. /\ pc \in [Conns -> ConnSteps] /\ nick \in [Conns -> Nicks \cup {NoNick}]
      /\ rooms \in [Conns -> SUBSET AllNames] /\ wanted[c] \in Nicks \cup {NoNick}
      /\ rooms[c] \in SUBSET AllNames /\ nick[c] \in Nicks \cup {NoNick} /\ TypeOK
      /\ sid[c] # NoSid
  BY SessionsAssumption DEF Base, TypeOK
<1> USE DEF Goto, CommandFrame, histVars, selfVars, Settled, Removed
<1>2. ASSUME HelloNick(c)
      PROVE  /\ pc[c] = "named" /\ pc'[c] = "joining" /\ rooms' = rooms
             /\ rec'[c].nick = nick'[c] /\ rec'[c].rooms = rec[c].rooms
             /\ rec'[c].live = rec[c].live
  BY <1>1, <1>2, OwnIsWritten DEF HelloNick
<1>3. ASSUME NEW n \in AllNames, HelloJoin(c, n)
      PROVE  /\ pc[c] = "joining" /\ pc' = pc /\ nick' = nick
             /\ rec'[c].nick = rec[c].nick /\ rec'[c].live = rec[c].live
             /\ \/ rooms' = rooms /\ rec' = rec
                \/ rooms'[c] = rec'[c].rooms
  <2>1. rooms[c] \cup {n} \in SUBSET AllNames
    BY <1>1
  <2>2. ASSUME NEW rs \in SUBSET AllNames, UpdateRooms(sid[c], rs)
        PROVE  /\ rec'[c].nick = rec[c].nick /\ rec'[c].live = rec[c].live
               /\ rec'[c].rooms = rs
    BY <1>1, <2>2, OwnIsWritten
  <2>3. \/ rooms'[c] = rooms[c] \cup {n} /\ UpdateRooms(sid[c], rooms[c] \cup {n})
        \/ rooms' = rooms /\ rec' = rec
    BY <1>1, <1>3 DEF HelloJoin
  <2>4. pc[c] = "joining" /\ pc' = pc /\ nick' = nick
    BY <1>3 DEF HelloJoin
  <2> QED BY <2>1, <2>2, <2>3, <2>4
<1>4. ASSUME NEW n \in AllNames, JoinRoom(c, n) \/ PartRoom(c, n)
      PROVE  /\ pc[c] = "live" /\ pc' = pc /\ nick' = nick
             /\ rec'[c].nick = rec[c].nick /\ rec'[c].live = rec[c].live
             /\ rooms'[c] = rec'[c].rooms
  <2>1. rooms[c] \cup {n} \in SUBSET AllNames /\ rooms[c] \ {n} \in SUBSET AllNames
    BY <1>1
  <2>2. ASSUME NEW rs \in SUBSET AllNames, UpdateRooms(sid[c], rs)
        PROVE  /\ rec'[c].nick = rec[c].nick /\ rec'[c].live = rec[c].live
               /\ rec'[c].rooms = rs
    BY <1>1, <2>2, OwnIsWritten
  <2>3. \/ rooms'[c] = rooms[c] \cup {n} /\ UpdateRooms(sid[c], rooms[c] \cup {n})
        \/ rooms'[c] = rooms[c] \ {n} /\ UpdateRooms(sid[c], rooms[c] \ {n})
    BY <1>1, <1>4 DEF JoinRoom, PartRoom
  <2>4. pc[c] = "live" /\ pc' = pc /\ nick' = nick
    BY <1>4 DEF JoinRoom, PartRoom
  <2> QED BY <2>1, <2>2, <2>3, <2>4
<1>5. ASSUME Touch(c)
      PROVE  /\ pc[c] = "live" /\ pc' = pc /\ nick' = nick /\ rooms' = rooms
             /\ rec'[c].nick = rec[c].nick /\ rec'[c].live = rec[c].live
             /\ rec'[c].rooms = rec[c].rooms
  BY <1>1, <1>5, OwnIsWritten DEF Touch
<1>6. ASSUME NEW n \in Nicks, SetNick(c, n)
      PROVE  /\ pc[c] = "live" /\ pc' = pc /\ rooms' = rooms
             /\ rec'[c].nick = nick'[c] /\ rec'[c].live = rec[c].live
             /\ rec'[c].rooms = rec[c].rooms
  BY <1>1, <1>6, OwnIsWritten DEF SetNick
<1>7. ASSUME HubClear(c)
      PROVE  /\ pc[c] = "closing" /\ pc'[c] = "cleared" /\ nick' = nick /\ rooms' = rooms
             /\ rec'[c].nick = rec[c].nick /\ ~rec'[c].live
             /\ rec'[c].rooms = rec[c].rooms
  BY <1>1, <1>7, OwnIsWritten DEF HubClear
<1>8. ASSUME c = hub, HubRooms
      PROVE  /\ pc[c] = "cleared" /\ pc'[c] = "stored" /\ nick' = nick /\ rooms' = rooms
             /\ rec'[c].nick = rec[c].nick /\ rec'[c].live = rec[c].live
             /\ rec'[c].rooms = rooms'[c]
  BY <1>1, <1>8, OwnIsWritten DEF HubRooms
<1>9. ASSUME c = hub, HubNick, rec[c].nick = nick[c], rooms[c] = rec[c].rooms,
             sid[c] \notin shared'
      PROVE  rec'[c].nick = left'[sid[c]].nick /\ rec'[c].rooms = left'[sid[c]].rooms
  <2>1. left'[sid[c]] = [nick |-> nick[c], rooms |-> rooms[c]]
    BY <1>9 DEF HubNick
  <2>2. rec'[c].nick = nick[c] /\ rec'[c].rooms = rooms[c]
    BY <1>1, <1>9, OwnIsWritten DEF HubNick
  <2> QED BY <2>1, <2>2
<1>10. ASSUME c = hub, HubNick
       PROVE  pc[c] = "stored" /\ pc'[c] = "gone" /\ rec'[c].live = rec[c].live
  BY <1>1, <1>10, OwnIsWritten DEF HubNick
<1>11. CASE HelloNick(c)
  BY <1>2, <1>11
<1>12. CASE \E n \in AllNames : HelloJoin(c, n)
  BY <1>3, <1>12
<1>13. CASE \E n \in AllNames : JoinRoom(c, n) \/ PartRoom(c, n)
  BY <1>4, <1>13
<1>14. CASE Touch(c)
  BY <1>5, <1>14
<1>15. CASE \E n \in Nicks : SetNick(c, n)
  BY <1>6, <1>15
<1>16. CASE HubClear(c)
  BY <1>7, <1>16
<1>17. CASE c = hub /\ HubRooms
  BY <1>8, <1>17
<1>18. CASE c = hub /\ HubNick
  BY <1>9, <1>10, <1>18
<1> QED BY <1>11, <1>12, <1>13, <1>14, <1>15, <1>16, <1>17, <1>18 DEF UpdateStep

\* Where an update takes its connection, and what it leaves alone.
LEMMA UpdateStepFrame ==
    ASSUME Base, SessionsAssumption, NEW c \in Conns, UpdateStep(c)
    PROVE  /\ pc[c] \in Settled \cup Removed
           /\ pc'[c] \in Settled \cup Removed \cup {"gone"}
           /\ pc'[c] \in Settled => pc[c] \in Settled
           /\ pc'[c] # "gone" => sid'[c] = sid[c]
           /\ pc'[c] = "gone" => sid'[c] = NoSid
           /\ \A d \in Conns \ {c} : pc'[d] = pc[d] /\ sid'[d] = sid[d]
                                     /\ nick'[d] = nick[d] /\ rooms'[d] = rooms[d]
           /\ \A q \in Sids \ {sid[c]} : left'[q] = left[q]
           /\ shared' = shared
<1> USE DEF Base, TypeOK, Goto, CommandFrame, histVars, selfVars, Settled, Removed
<1>1. CASE HelloNick(c)
  BY <1>1 DEF HelloNick
<1>2. CASE \E n \in AllNames : HelloJoin(c, n)
  BY <1>2 DEF HelloJoin
<1>3. CASE \E n \in AllNames : JoinRoom(c, n) \/ PartRoom(c, n)
  BY <1>3 DEF JoinRoom, PartRoom
<1>4. CASE Touch(c)
  BY <1>4 DEF Touch
<1>5. CASE \E n \in Nicks : SetNick(c, n)
  BY <1>5 DEF SetNick
<1>6. CASE HubClear(c)
  BY <1>6 DEF HubClear
<1>7. CASE c = hub /\ HubRooms
  BY <1>7 DEF HubRooms
<1>8. CASE c = hub /\ HubNick
  BY <1>8 DEF HubNick
<1> QED BY <1>1, <1>2, <1>3, <1>4, <1>5, <1>6, <1>7, <1>8 DEF UpdateStep

LEMMA UpdateStepRecords ==
    ASSUME Base, Base', Records, SessionsAssumption, NEW c \in Conns, UpdateStep(c)
    PROVE  Records'
<1>1. /\ sid \in [Conns -> Sids \cup {NoSid}]
      /\ sessions \in [Sids -> Conns \cup {NoConn}]
  BY DEF Base, TypeOK
<1>2. /\ sessions' = sessions
      /\ \A o \in Conns : ~Present(sid[c]) \/ o # sessions[sid[c]] => rec'[o] = rec[o]
      /\ Present(sid[c]) => Now(sid[c]).live \/ ~rec'[sessions[sid[c]]].live
  BY UpdateStepUpdates, UpdateStepIsLocal
<1>3. \A q \in Sids : sessions[q] # NoConn => sessions[q] \in Conns
  BY <1>1
<1>4. Acts(c)
  <2>1. ASSUME NEW q \in Sids \ {sid[c]}, sessions[q] # NoConn
        PROVE  rec'[sessions[q]] = rec[sessions[q]]
    <3>1. Present(sid[c]) => sessions[q] # sessions[sid[c]]
      BY <1>1, <2>1 DEF Present, Records, Registered
    <3> QED BY <1>2, <1>3, <2>1, <3>1
  <2>2. pc[c] # "gone"
    BY UpdateStepFrame DEF Settled, Removed
  <2> QED BY <1>2, <2>1, <2>2, UpdateStepFrame DEF Acts
<1>5. Single'
  BY SingleIsKept
<1>6. /\ pc[c] \in Settled \cup Removed
      /\ pc'[c] \in Settled \cup Removed \cup {"gone"}
      /\ pc'[c] \in Settled => pc[c] \in Settled
      /\ pc'[c] # "gone" => sid'[c] = sid[c]
      /\ pc'[c] = "gone" => sid'[c] = NoSid
      /\ \A d \in Conns \ {c} : pc'[d] = pc[d] /\ sid'[d] = sid[d]
      /\ shared' = shared
  BY UpdateStepFrame
<1>7. ASSUME NEW s \in Sids, s = sid[c] PROVE Registered(s)'
  <2> SUFFICES ASSUME sessions[s] # NoConn PROVE Registered(s)'
    BY <1>2 DEF Registered
  <2>1. Registered(s) /\ sessions[s] \in Conns
    BY <1>3 DEF Records
  <2>2. CASE sessions[s] = c
    <3>1. pc'[c] \in Removed \cup {"gone"} => ~rec'[c].live
      BY <1>7, <2>1, <2>2, OwnAfterUpdate DEF Registered
    <3> QED BY <1>2, <1>6, <1>7, <2>1, <2>2, <3>1 DEF Registered
  <2>3. CASE sessions[s] # c
    <3>1. pc'[sessions[s]] = pc[sessions[s]] /\ sid'[sessions[s]] = sid[sessions[s]]
      BY <1>6, <2>1, <2>3
    <3>2. Present(s)
      BY <1>7, SessionsAssumption DEF Present
    <3>3. ~rec[sessions[s]].live => ~rec'[sessions[s]].live
      BY <1>2, <1>7, <3>2 DEF Now
    <3> QED BY <1>2, <2>1, <3>1, <3>3 DEF Registered
  <2> QED BY <2>2, <2>3
<1>8. ASSUME NEW s \in Sids, s = sid[c], s \notin shared, sessions[s] # NoConn
      PROVE  (pc[c] \in Settled \/ pc[sessions[s]] = "gone" \/ pc[c] \in Removed)
                => sessions[s] = c
  <2>1. Alone(c) /\ Mirrored(c)
    BY <1>8, SessionsAssumption DEF Alone, Records
  <2> QED BY <1>6, <1>8, <2>1 DEF Mirrored
<1>9. ASSUME NEW s \in Sids, s = sid[c] PROVE LeftBehind(s)'
  <2> SUFFICES ASSUME sessions[s] # NoConn, pc'[sessions[s]] = "gone", s \notin shared
               PROVE  LeftBehind(s)'
    BY <1>2, <1>6 DEF LeftBehind
  <2>1. sessions[s] = c /\ Mirrored(c) /\ Alone(c)
    BY <1>6, <1>8, <1>9, SessionsAssumption DEF Alone, Records
  <2>2. /\ rec[c].nick = nick[c] /\ rooms[c] \in {{}, rec[c].rooms}
        /\ pc[c] = "stored" => rooms[c] = rec[c].rooms
    BY <1>9, <2>1 DEF Mirrored
  <2>3. rec'[c].nick = left'[s].nick /\ rec'[c].rooms = left'[s].rooms
    BY <1>6, <1>9, <2>1, <2>2, OwnAfterUpdate
  <2> QED BY <1>2, <2>1, <2>3 DEF LeftBehind
<1>10. Mirrored(c)'
  <2> SUFFICES ASSUME Alone(c)' PROVE Mirrored(c)'
    BY DEF Mirrored
  <2>1. pc'[c] # "gone" /\ sid'[c] = sid[c] /\ Alone(c) /\ Mirrored(c) /\ sid[c] \in Sids
    BY <1>1, <1>6 DEF Alone, Records
  <2>2. pc'[c] # "fresh" /\ (pc'[c] \in Removed => sessions[sid[c]] \in {c, NoConn})
    BY <1>6, <2>1 DEF Mirrored, Settled, Removed
  <2>3. CASE sessions[sid[c]] = c
    <3>1. pc'[c] \in Settled => rec'[c].live
      BY <1>6, <2>1, <2>3, OwnAfterUpdate DEF Mirrored
    <3>2. /\ rec[c].nick = nick[c] /\ rooms[c] \in {{}, rec[c].rooms}
          /\ pc[c] = "stored" => rooms[c] = rec[c].rooms
      BY <2>1, <2>3 DEF Mirrored
    <3>3. /\ rec'[c].nick = nick'[c]
          /\ rooms'[c] \in {{}, rec'[c].rooms}
          /\ pc'[c] = "stored" => rooms'[c] = rec'[c].rooms
      BY <2>1, <2>3, <3>2, OwnAfterUpdate
    <3> QED BY <1>2, <2>1, <2>2, <2>3, <3>1, <3>3 DEF Mirrored
  <2>4. CASE sessions[sid[c]] # c
    <3>1. pc'[c] \notin Settled
      BY <1>6, <2>1, <2>4 DEF Mirrored
    <3> QED BY <1>2, <2>1, <2>2, <2>4, <3>1 DEF Mirrored
  <2> QED BY <2>3, <2>4
<1>11. ASSUME NEW s, s = sid[c], s \in Sids PROVE Registered(s)' /\ LeftBehind(s)'
  BY <1>7, <1>9, <1>11
<1> QED BY <1>4, <1>5, <1>10, <1>11, OwnIsEnough

LEMMA StutterRecords ==
    ASSUME Records, UNCHANGED vars
    PROVE  Records'
<1> USE DEF vars, connVars, selfVars, histVars
<1>1. Single'
  BY DEF Records, Single, Alone
<1>2. ASSUME NEW q \in Sids PROVE Registered(q)' /\ LeftBehind(q)'
  BY DEF Records, Registered, LeftBehind
<1>3. ASSUME NEW d \in Conns PROVE Mirrored(d)'
  BY DEF Records, Mirrored, Alone
<1> QED BY <1>1, <1>2, <1>3 DEF Records

LEMMA InitRecords ==
    ASSUME Init, SessionsAssumption
    PROVE  Records
BY DEF Init, Records, Single, Registered, Mirrored, LeftBehind, Alone

LEMMA RecordsStep ==
    ASSUME Base, Records, SessionsAssumption, [Next]_vars
    PROVE  Records'
<1>1. Base'
  BY BaseStep
<1>2. CASE UNCHANGED vars
  BY <1>2, StutterRecords
<1>3. CASE Next
  BY <1>1, <1>3, NextCases, QuietStepRecords, UpdateStepRecords, UpsertStepRecords,
     LogoutRecords, AgesRecords, CleanupRecords
<1> QED BY <1>2, <1>3

LEMMA RecordsAlways == Spec => [](Base /\ Records)
<1>1. Init => Records
  BY InitRecords, SessionsAssumption
<1>2. Base /\ Records /\ [Next]_vars => Records'
  BY RecordsStep, SessionsAssumption
<1> QED BY <1>1, <1>2, BaseAlways, PTL DEF Spec

-----------------------------------------------------------------------------
(* The properties *)

\* While a connection has its session id to itself, its record in the
\* SessionManager is registered, marked live and the image of c.nick and
\* c.rooms, whatever other connections, removals and purges run meanwhile.
THEOREM LiveRecordIsMirror == Spec => []RecordMirrors
<1>1. Base /\ Records => RecordMirrors
  <2> SUFFICES ASSUME Base, Records, NEW c \in Conns, pc[c] = "live", Alone(c)
               PROVE  /\ sessions[sid[c]] = c /\ rec[c].live
                      /\ rec[c].nick = nick[c] /\ rooms[c] \in {{}, rec[c].rooms}
    BY DEF RecordMirrors
  <2> QED BY DEF Records, Mirrored, Settled
<1> QED BY <1>1, RecordsAlways, PTL

\* What removeClient leaves in three critical sections is the last nick and
\* the last rooms of the connection, and the record is no longer held by it.
THEOREM RemovalIsComplete == Spec => []RecordKeepsLast
<1>1. Base /\ Records => RecordKeepsLast
  BY DEF Records, Registered, LeftBehind, RecordKeepsLast, Present
<1> QED BY <1>1, RecordsAlways, PTL

\* A hello that has its id to itself gets a fresh session only when the record
\* is past the 30 seconds of CanRestore.
THEOREM LoneHelloIsRestored == Spec => []LoneReconnectRestores
<1>1. Base /\ Records => LoneReconnectRestores
  BY DEF Records, Mirrored, LoneReconnectRestores, Present
<1> QED BY <1>1, RecordsAlways, PTL

-----------------------------------------------------------------------------
(* The record that CanRestore found *)

\* It is what the last connection of the id left, though it may be out of the
\* map by now; and nobody who could still write it reaches it by another id.
FoundAsLeft(d) ==
    pc[d] \in Restoring /\ Alone(d) =>
        /\ pc[found[d]] = "gone"
        /\ rec[found[d]].nick = left[sid[d]].nick
        /\ rec[found[d]].rooms = left[sid[d]].rooms
        /\ \A q \in Sids : sessions[q] = found[d] => q = sid[d]
        /\ pc[d] # "restore" =>
             nick[d] = IF wanted[d] = NoNick THEN left[sid[d]].nick ELSE wanted[d]
        /\ pc[d] = "storing" => todo[d] = left[sid[d]].rooms

Found == \A d \in Conns : FoundAsLeft(d)

\* A record that a hello holds is not lost when it goes out of the map.
LEMMA KeptWhileFound ==
    ASSUME NEW records, NEW ss, NEW ff, NEW o \in Conns, NEW d \in Conns, ff[d] = o
    PROVE  Kept(records, ss, ff)[o] = records[o]
BY DEF Kept

\* HelloCheck finds it.
LEMMA CheckFinds ==
    ASSUME Base, Records, SessionsAssumption, NEW c \in Conns, HelloCheck(c)
    PROVE  FoundAsLeft(c)'
<1> SUFFICES ASSUME pc'[c] = "restore", Alone(c)'
             PROVE  FoundAsLeft(c)'
  <2>1. pc'[c] \in {"restore", "fresh"}
    BY DEF HelloCheck, Goto, Base, TypeOK
  <2> QED BY <2>1 DEF FoundAsLeft, Restoring
<1> DEFINE s == sid[c]
           o == sessions[s]
<1>1. /\ pc \in [Conns -> ConnSteps] /\ found \in [Conns -> Conns \cup {NoConn}]
      /\ sid \in [Conns -> Sids \cup {NoSid}]
      /\ sessions \in [Sids -> Conns \cup {NoConn}]
  BY DEF Base, TypeOK
<1>2. /\ UNCHANGED <<sessions, rec, sid, shared, left>>
      /\ pc[c] = "hello" /\ pc' = [pc EXCEPT ![c] = pc'[c]]
      /\ CanRestore(s) /\ found' = [found EXCEPT ![c] = o]
  BY <1>1 DEF HelloCheck, Goto, selfVars, histVars
<1>3. s \in Sids /\ s \notin shared /\ Alone(c)
  BY <1>1, <1>2 DEF Alone
<1>4. o \in Conns /\ sessions[s] # NoConn
  BY <1>1, <1>2, <1>3, SessionsAssumption DEF CanRestore, Present
<1>5. Registered(s) /\ LeftBehind(s) /\ Single
  BY <1>3 DEF Records
<1>6. pc[o] = "gone"
  <2> SUFFICES ASSUME sid[o] = s, pc[o] \in Settled \cup Removed PROVE FALSE
    BY <1>4, <1>5 DEF Registered
  <2>1. o = c
    BY <1>3, <1>4, <1>5 DEF Single
  <2> QED BY <1>2, <2>1 DEF Settled, Removed
<1>7. pc'[o] = "gone" /\ found'[c] = o
  BY <1>1, <1>2, <1>4, <1>6
<1>8. rec[o].nick = left[s].nick /\ rec[o].rooms = left[s].rooms
  BY <1>3, <1>4, <1>5, <1>6 DEF LeftBehind
<1>9. \A q \in Sids : sessions[q] = o => q = s
  BY <1>4, <1>5 DEF Registered
<1> QED BY <1>2, <1>7, <1>8, <1>9 DEF FoundAsLeft

\* A step of a connection writes no record that another one has found.
LEMMA FoundByOthers ==
    ASSUME Base, Records, SessionsAssumption, NEW c \in Conns, Acts(c),
           NEW d \in Conns \ {c}, FoundAsLeft(d),
           found'[d] = found[d], wanted'[d] = wanted[d], todo'[d] = todo[d],
           \A o \in Conns \ {c} : /\ sid[c] \in Sids => o # sessions[sid[c]]
                                  /\ found'[d] = o
                                  => rec'[o] = rec[o]
    PROVE  FoundAsLeft(d)'
<1>1. /\ found \in [Conns -> Conns \cup {NoConn}]
      /\ sid \in [Conns -> Sids \cup {NoSid}]
      /\ sessions \in [Sids -> Conns \cup {NoConn}]
  BY DEF Base, TypeOK
<1>2. /\ pc'[d] = pc[d] /\ sid'[d] = sid[d] /\ nick'[d] = nick[d]
      /\ Alone(d)' => Alone(d)
  BY DEF Acts, Alone
<1> SUFFICES ASSUME pc[d] \in Restoring, Alone(d)
             PROVE  FoundAsLeft(d)'
  BY <1>2 DEF FoundAsLeft
<1> DEFINE s == sid[d]
           o == found[d]
<1>3. s \in Sids /\ s # sid[c]
  BY <1>1 DEF Alone, Records, Single
<1>4. o \in Conns \ {c} /\ pc[o] = "gone" /\ o # NoConn
  BY <1>1, SessionsAssumption DEF Base, Placed, FoundAsLeft, Acts
<1>5. pc'[o] = "gone" /\ left'[s] = left[s]
  BY <1>3, <1>4 DEF Acts
<1>6. sid[c] \in Sids => o # sessions[sid[c]]
  BY <1>3 DEF FoundAsLeft
<1>7. rec'[o] = rec[o]
  BY <1>4, <1>6
<1>8. ASSUME NEW q \in Sids, sessions'[q] = o PROVE q = s
  <2>1. sessions[q] = o
    BY <1>3, <1>4, <1>8, SessionsAssumption DEF Acts
  <2> QED BY <2>1 DEF FoundAsLeft
<1> QED BY <1>2, <1>5, <1>7, <1>8 DEF FoundAsLeft

LEMMA QuietStepFound ==
    ASSUME Base, Records, Found, SessionsAssumption, NEW c \in Conns, QuietStep(c)
    PROVE  Found'
<1>1. Acts(c) /\ sessions' = sessions /\ rec' = rec /\ left' = left
  BY QuietStepActs
<1>2. pc \in [Conns -> ConnSteps] /\ found \in [Conns -> Conns \cup {NoConn}]
  BY DEF Base, TypeOK
<1>3. ASSUME NEW d \in Conns \ {c}
      PROVE  found'[d] = found[d] /\ wanted'[d] = wanted[d] /\ todo'[d] = todo[d]
  BY <1>2 DEF QuietStep, Connect, HelloCheck, HelloRead, HelloRooms, HelloDone, Lose, Disconnect,
              CommandFrame, Base, TypeOK
<1>4. ASSUME NEW d \in Conns \ {c} PROVE FoundAsLeft(d)'
  BY <1>1, <1>3, FoundByOthers DEF Found
<1>5. FoundAsLeft(c)'
  <2>1. ASSUME NEW s \in Sids, NEW n, Connect(c, s, n) \/ HelloDone(c) \/ Disconnect(c)
        PROVE  pc'[c] \notin Restoring
    BY <1>2, <2>1 DEF Connect, HelloDone, Disconnect, Goto, Restoring
  <2>2. CASE Lose(c)
    BY <1>1, <2>2 DEF Lose, Found, FoundAsLeft, Alone, selfVars, histVars
  <2>3. ASSUME HelloDone(c) \/ Disconnect(c) PROVE pc'[c] \notin Restoring
    BY <1>2, <2>3 DEF HelloDone, Disconnect, Goto, Restoring
  <2>4. CASE HelloRead(c) \/ HelloRooms(c)
    <3> SUFFICES ASSUME Alone(c) PROVE FoundAsLeft(c)'
      BY <2>4 DEF HelloRead, HelloRooms, FoundAsLeft, Alone, selfVars, histVars
    <3>1. FoundAsLeft(c) /\ pc[c] \in {"restore", "reading"} /\ found[c] \in Conns
      BY <1>2, <2>4 DEF HelloRead, HelloRooms, Found, Base, Placed, Restoring
    <3>2. pc'[found[c]] = "gone"
      BY <1>1, <1>2, <3>1 DEF FoundAsLeft, Restoring, Acts
    <3>3. /\ pc'[c] \in {"reading", "storing"}
          /\ UNCHANGED <<found, sid, shared, wanted>>
      BY <1>2, <2>4 DEF HelloRead, HelloRooms, Goto, selfVars, histVars
    <3>4. nick'[c] = IF wanted[c] = NoNick THEN left[sid[c]].nick ELSE wanted[c]
      BY <2>4, <3>1 DEF HelloRead, HelloRooms, FoundAsLeft, Restoring, RestoredNick, selfVars,
                        Base, TypeOK
    <3>5. pc'[c] = "storing" => todo'[c] = left[sid[c]].rooms
      BY <1>2, <2>4, <3>1 DEF HelloRead, HelloRooms, Goto, FoundAsLeft, Restoring, Base, TypeOK
    <3> QED BY <1>1, <3>1, <3>2, <3>3, <3>4, <3>5 DEF FoundAsLeft, Restoring
  <2> QED BY <2>1, <2>2, <2>3, <2>4, CheckFinds DEF QuietStep, FoundAsLeft
<1> QED BY <1>4, <1>5 DEF Found

LEMMA UpdateStepFound ==
    ASSUME Base, Records, Found, SessionsAssumption, NEW c \in Conns, UpdateStep(c)
    PROVE  Found'
<1>1. /\ found \in [Conns -> Conns \cup {NoConn}] /\ sid \in [Conns -> Sids \cup {NoSid}]
      /\ sessions \in [Sids -> Conns \cup {NoConn}]
  BY DEF Base, TypeOK
<1>2. /\ pc[c] \in Settled \cup Removed
      /\ pc'[c] \in Settled \cup Removed \cup {"gone"}
      /\ \A d \in Conns \ {c} : pc'[d] = pc[d] /\ sid'[d] = sid[d]
                                /\ nick'[d] = nick[d] /\ rooms'[d] = rooms[d]
      /\ \A q \in Sids \ {sid[c]} : left'[q] = left[q]
      /\ shared' = shared
  BY UpdateStepFrame
<1>3. /\ sessions' = sessions
      /\ \A o \in Conns : ~Present(sid[c]) \/ o # sessions[sid[c]] => rec'[o] = rec[o]
  BY UpdateStepUpdates, UpdateStepIsLocal
<1>4. \A o \in Conns : (sid[c] \in Sids => o # sessions[sid[c]]) => rec'[o] = rec[o]
  BY <1>1, <1>3 DEF Present
<1>5. ASSUME NEW q \in Sids \ {sid[c]}, sessions[q] # NoConn
      PROVE  rec'[sessions[q]] = rec[sessions[q]]
  <2>1. sessions[q] \in Conns /\ Registered(q)
    BY <1>1, <1>5 DEF Records
  <2> QED BY <1>4, <2>1 DEF Registered
<1>6. Acts(c)
  BY <1>1, <1>2, <1>3, <1>5 DEF Acts, Settled, Removed
<1>7. \A d \in Conns \ {c} :
        found'[d] = found[d] /\ wanted'[d] = wanted[d] /\ todo'[d] = todo[d]
  BY <1>1 DEF UpdateStep, HelloNick, HelloJoin, JoinRoom, PartRoom, Touch, SetNick, HubClear,
     HubRooms, HubNick, DropLocals, CommandFrame, Base, TypeOK
<1>8. ASSUME NEW d \in Conns \ {c} PROVE FoundAsLeft(d)'
  BY <1>4, <1>6, <1>7, FoundByOthers DEF Found
<1>9. FoundAsLeft(c)'
  BY <1>2 DEF FoundAsLeft, Restoring, Settled, Removed
<1> QED BY <1>8, <1>9 DEF Found

LEMMA UpsertStepFound ==
    ASSUME Base, Records, Found, SessionsAssumption, NEW c \in Conns, UpsertStep(c)
    PROVE  Found'
<1>1. /\ found \in [Conns -> Conns \cup {NoConn}] /\ sid \in [Conns -> Sids \cup {NoSid}]
      /\ sessions \in [Sids -> Conns \cup {NoConn}] /\ rec \in [Conns -> Record]
      /\ pc \in [Conns -> ConnSteps]
  BY DEF Base, TypeOK, Record
<1>2. /\ pc[c] \in Arriving /\ pc'[c] \in {"named", "joining"}
      /\ \A d \in Conns \ {c} : /\ pc'[d] = pc[d] /\ nick'[d] = nick[d] /\ found'[d] = found[d]
                                /\ wanted'[d] = wanted[d] /\ todo'[d] = todo[d]
      /\ sid' = sid /\ rooms' = rooms /\ shared' = shared /\ left' = left
  BY DEF UpsertStep, HelloRestore, HelloFresh, DropLocals, Arriving, Restoring, Goto, selfVars,
         histVars, Base, TypeOK
<1>3. /\ sid[c] \in Sids /\ sessions'[sid[c]] = c
      /\ \A q \in Sids \ {sid[c]} :
           /\ sessions'[q] = sessions[q]
           /\ sessions[q] \in Conns \ {c} => rec'[sessions[q]] = rec[sessions[q]]
  BY UpsertStepRegisters
<1>4. \A q \in Sids : sessions[q] # c
  BY <1>2, NoRecordYet
<1>5. Acts(c)
  BY <1>1, <1>2, <1>3, <1>4 DEF Acts, Arriving, Restoring
<1>6. PICK R : /\ rec' = Kept(R, sessions', found')
               /\ \A o \in Conns \ {c} : R[o] = rec[o]
  <2>1. ASSUME NEW n, NEW rs, Upsert(sid[c], c, n, rs)
        PROVE  \E R : /\ rec' = Kept(R, sessions', found')
                      /\ \A o \in Conns \ {c} : R[o] = rec[o]
    <3> DEFINE r == [nick |-> n, rooms |-> rs, live |-> TRUE, age |-> 0]
    <3>1. rec' = Kept([rec EXCEPT ![c] = r], sessions', found')
      BY <2>1 DEF Upsert
    <3> HIDE DEF r
    <3>2. \A o \in Conns \ {c} : [rec EXCEPT ![c] = r][o] = rec[o]
      BY <1>1
    <3> QED BY <3>1, <3>2
  <2> QED BY <2>1 DEF UpsertStep, HelloRestore, HelloFresh
<1>7. ASSUME NEW d \in Conns \ {c}, NEW o \in Conns \ {c}, found'[d] = o
      PROVE  rec'[o] = rec[o]
  BY <1>6, <1>7, KeptWhileFound
<1>8. ASSUME NEW d \in Conns \ {c} PROVE FoundAsLeft(d)'
  BY <1>2, <1>5, <1>7, FoundByOthers DEF Found
<1>9. FoundAsLeft(c)'
  BY <1>2 DEF FoundAsLeft, Restoring
<1> QED BY <1>8, <1>9 DEF Found

LEMMA LogoutFound ==
    ASSUME Base, Records, Found, SessionsAssumption, NEW c \in Conns, Logout(c)
    PROVE  Found'
<1>1. /\ sid \in [Conns -> Sids \cup {NoSid}] /\ sid[c] \in Sids /\ pc[c] = "live"
      /\ sessions \in [Sids -> Conns \cup {NoConn}]
  BY DEF Logout, Base, TypeOK
<1>2. sessions' = [sessions EXCEPT ![sid[c]] = NoConn] /\ rec' = Kept(rec, sessions', found')
      /\ sid' = [sid EXCEPT ![c] = NoSid] /\ nick' = [nick EXCEPT ![c] = NoNick]
      /\ UNCHANGED <<pc, rooms, shared, left, found, wanted, todo>>
  BY DEF Logout, CommandFrame, histVars
<1>3. ASSUME NEW q \in Sids, sessions'[q] \in Conns
      PROVE  rec'[sessions'[q]] = rec[sessions'[q]]
  BY <1>2, <1>3 DEF Kept
<1>4. Acts(c)
  <2>1. ASSUME NEW d \in Conns \ {c}
        PROVE  /\ pc'[d] = pc[d] /\ sid'[d] = sid[d]
               /\ nick'[d] = nick[d] /\ rooms'[d] = rooms[d]
    BY <1>1, <1>2 DEF Base, TypeOK
  <2>2. ASSUME NEW q \in Sids \ {sid[c]}
        PROVE  /\ sessions'[q] = sessions[q] /\ left'[q] = left[q]
               /\ sessions[q] # NoConn => rec'[sessions[q]] = rec[sessions[q]]
    BY <1>1, <1>2, <1>3
  <2> QED BY <1>1, <1>2, <2>1, <2>2 DEF Acts
<1>5. ASSUME NEW d \in Conns \ {c}, NEW o \in Conns, found'[d] = o
      PROVE  rec'[o] = rec[o]
  BY <1>2, <1>5, KeptWhileFound
<1>6. ASSUME NEW d \in Conns \ {c} PROVE FoundAsLeft(d)'
  BY <1>2, <1>4, <1>5, FoundByOthers DEF Found
<1>7. FoundAsLeft(c)'
  BY <1>1, <1>2 DEF FoundAsLeft, Restoring
<1> QED BY <1>6, <1>7 DEF Found

\* A purge takes a record out of the map, and an age makes it older: neither
\* changes what a hello that has found it will read.
LEMMA TimeFound ==
    ASSUME Base, Found, SessionsAssumption, Cleanup \/ \E s \in Sids : RecordAges(s)
    PROVE  Found'
<1>1. /\ found \in [Conns -> Conns \cup {NoConn}]
      /\ sessions \in [Sids -> Conns \cup {NoConn}]
  BY DEF Base, TypeOK
<1>2. UNCHANGED <<pc, sid, nick, found, wanted, todo, shared, left>>
  BY DEF Cleanup, RecordAges, connVars, selfVars, histVars
<1>3. \A q \in Sids : sessions'[q] \in {NoConn, sessions[q]}
  BY <1>1 DEF Cleanup, RecordAges
<1>4. ASSUME NEW d \in Conns, found[d] \in Conns
      PROVE  /\ rec'[found[d]].nick = rec[found[d]].nick
             /\ rec'[found[d]].rooms = rec[found[d]].rooms
  <2>1. CASE Cleanup
    BY <1>4, <2>1, KeptWhileFound DEF Cleanup
  <2>2. ASSUME NEW s \in Sids, RecordAges(s)
        PROVE  /\ rec'[found[d]].nick = rec[found[d]].nick
               /\ rec'[found[d]].rooms = rec[found[d]].rooms
    BY <1>4, <2>2, AgesIsLocal DEF Base
  <2> QED BY <2>1, <2>2
<1>5. ASSUME NEW d \in Conns, pc[d] \in Restoring, Alone(d)
      PROVE  FoundAsLeft(d)'
  <2>1. FoundAsLeft(d) /\ found[d] \in Conns
    BY <1>1, <1>5 DEF Found, Base, Placed
  <2> QED BY <1>2, <1>3, <1>4, <1>5, <2>1, SessionsAssumption DEF FoundAsLeft
<1> QED BY <1>2, <1>5 DEF Found, FoundAsLeft, Alone

LEMMA FoundStep ==
    ASSUME Base, Records, Found, SessionsAssumption, [Next]_vars
    PROVE  Found'
<1>1. CASE UNCHANGED vars
  BY <1>1 DEF vars, connVars, selfVars, histVars, Found, FoundAsLeft, Alone
<1>2. CASE Next
  BY <1>2, NextCases, QuietStepFound, UpdateStepFound, UpsertStepFound, LogoutFound, TimeFound
<1> QED BY <1>1, <1>2

\* Whoever restores with an id to itself gets what the last connection of the
\* id had at its end, although CanRestore and the reading of the record are
\* two steps, and purges, logouts and other connections' hellos may come between.
THEOREM RestoreIsExact == Spec => RestoresExactly
<1>1. Init => Found
  BY DEF Init, Found, FoundAsLeft, Restoring
<1>2. Base /\ Records /\ Found /\ [Next]_vars => Found'
  BY FoundStep, SessionsAssumption
<1>3. ASSUME Base, Found, NEW c \in Conns, HelloRestore(c), Alone(c)
      PROVE  /\ nick[c] = IF wanted[c] = NoNick THEN left[sid[c]].nick ELSE wanted[c]
             /\ todo'[c] = LobbyWhenEmpty(left[sid[c]].rooms)
             /\ rec'[c].nick = nick[c] /\ rec'[c].rooms = left[sid[c]].rooms
  <2>1. pc[c] = "storing" /\ FoundAsLeft(c)
    BY <1>3 DEF HelloRestore, Found
  <2>2. todo'[c] = LobbyWhenEmpty(rec[found[c]].rooms)
    BY <1>3 DEF HelloRestore, Base, TypeOK
  <2>3. rec'[c].nick = nick[c] /\ rec'[c].rooms = todo[c]
    BY <1>3, UpsertStepRegisters, SessionsAssumption DEF UpsertStep, HelloRestore, selfVars
  <2> QED BY <1>3, <2>1, <2>2, <2>3 DEF FoundAsLeft, Restoring
<1>4. Base /\ Found /\ [Next]_vars =>
        [\A c \in Conns : HelloRestore(c) /\ Alone(c) =>
            /\ nick[c] = IF wanted[c] = NoNick THEN left[sid[c]].nick ELSE wanted[c]
            /\ todo'[c] = LobbyWhenEmpty(left[sid[c]].rooms)
            /\ rec'[c].nick = nick[c] /\ rec'[c].rooms = left[sid[c]].rooms]_vars
  BY <1>3
<1> QED BY <1>1, <1>2, <1>4, RecordsAlways, PTL DEF Spec, RestoresExactly
=============================================================================
