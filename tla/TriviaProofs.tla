---------------------------- MODULE TriviaProofs ----------------------------
(***************************************************************************)
(* The trivia games of a room, for every number of games, players, viewers *)
(* and questions.                                                          *)
(*                                                                         *)
(* The invariant has one part for each thing that races: what a command or *)
(* a viewer looked up before using it (LookedUp), a game's stop, its flag  *)
(* and its goroutine (Stops, Flags), its question and the answers to it    *)
(* (Rounds), and the question and the viewers (Informed).                  *)
(***************************************************************************)
EXTENDS Trivia, TLAPS

\* What was found under tm.mu, and is used later, is a game.
LookedUp ==
    /\ \A p \in Players : cmd[p].op # "none" => cmd[p].game \in born
    /\ \A v \in Viewers : vpc[v] = "resync" => held[v] \in born

\* stopCh is closed by whoever brings Active down, and only then.
Stops ==
    \A g \in Games :
        /\ closes[g] <= 1
        /\ active[g] => closes[g] = 0
        /\ gpc[g] = "unborn" => closes[g] = 0

\* Active is down once the goroutine is at its end, and before it starts.
Flags ==
    \A g \in Games :
        /\ active[g] => gpc[g] \notin {"unborn", "unregister", "ended"}
        /\ active[g] => byRoom = g \/ g \in orphaned

\* No question is left from an earlier round when the next one is picked.
Rounds ==
    \A g \in Games :
        /\ wins[g] <= 1
        /\ question[g] # NoQuestion => wins[g] = 0
        /\ gpc[g] \in {"unborn", "top", "pick", "pause"} => question[g] = NoQuestion
        /\ gpc[g] \in {"unborn", "top", "pick"} => wins[g] = 0

Open(g) == byRoom = g /\ active[g] /\ gpc[g] = "wait" /\ question[g] # NoQuestion

\* A viewer between its two looks at the game has seen the open question or
\* holds the game that will tell.
Informed ==
    \A v \in Viewers, g \in Games : Open(g) =>
        /\ vpc[v] = "in" => seen[v][g] \in {question[g], Dropped}
        /\ vpc[v] = "resync" => seen[v][g] \in {question[g], Dropped} \/ held[v] = g

Base == TypeOK /\ LookedUp

-----------------------------------------------------------------------------
LEMMA InitOK ==
    ASSUME TriviaAssumption, Init
    PROVE  Base /\ Stops /\ Flags /\ Rounds /\ Informed
  <1>1. TypeOK
    BY DEF Init, TypeOK, GameSteps, NoCmd
  <1>2. LookedUp
    BY DEF Init, LookedUp, NoCmd
  <1> QED
    BY <1>1, <1>2 DEF Init, Base, Stops, Flags, Rounds, Informed, Open

-----------------------------------------------------------------------------
(* Types, and what was looked up *)

LEMMA BaseStart ==
    ASSUME TriviaAssumption, Base, NEW g \in Games, NEW cont \in BOOLEAN, Start(g, cont)
    PROVE  Base'
  <1> USE DEF Base, TypeOK, LookedUp
  <1>1. /\ born' = born \cup {g} /\ byRoom' = g /\ gpc' = [gpc EXCEPT ![g] = "top"]
        /\ UNCHANGED <<question, closes, wins, cmd, vpc, held, seen, orphaned>>
    BY DEF Start, GameGoto, FirstStep, viewVars
  <1>2. continuous' \in [Games -> BOOLEAN] /\ active' \in [Games -> BOOLEAN]
    BY DEF Start
  <1>3. gpc' \in [Games -> GameSteps] /\ \A h \in Games : h \in born' <=> gpc'[h] # "unborn"
    BY <1>1 DEF GameSteps
  <1>4. cmd' \in [Players -> [op : {"none", "stop", "answer"},
                              game : born' \cup {NoGame},
                              text : Questions \cup {NoQuestion}]]
    BY <1>1
  <1> QED
    BY <1>1, <1>2, <1>3, <1>4

\* What stop and checkAnswer do to the game that was found before.
LEMMA StopEffect ==
    ASSUME Base, NEW p \in Players, stop(p)
    PROVE  \E g \in born :
             \/ UNCHANGED <<active, closes>>
             \/ /\ active[g] /\ active' = [active EXCEPT ![g] = FALSE]
                /\ closes' = [closes EXCEPT ![g] = closes[g] + 1]
  <1>1. cmd[p].game \in born
    BY DEF Base, TypeOK, LookedUp, stop
  <1> QED
    BY <1>1 DEF stop, MayStop

LEMMA AnswerEffect ==
    ASSUME Base, NEW p \in Players, checkAnswer(p)
    PROVE  \E g \in Games :
             \/ UNCHANGED <<question, wins>>
             \/ /\ active[g] /\ question[g] # NoQuestion
                /\ question' = [question EXCEPT ![g] = NoQuestion]
                /\ wins' = [wins EXCEPT ![g] = wins[g] + 1]
  <1>1. cmd[p].game \in Games
    BY DEF Base, TypeOK, LookedUp, checkAnswer
  <1> QED
    BY <1>1 DEF checkAnswer, AfterWin

\* The commands of the players, but for start.
LEMMA BaseCommand ==
    ASSUME TriviaAssumption, Base, NEW p \in Players,
           LookupStop(p) \/ (\E q \in Questions : LookupAnswer(p, q)) \/ stop(p) \/ checkAnswer(p)
    PROVE  Base'
  <1> USE DEF Base, TypeOK, LookedUp, gameVars, runVars, viewVars
  <1> DEFINE Cmd == [op : {"none", "stop", "answer"}, game : born \cup {NoGame},
                     text : Questions \cup {NoQuestion}]
  <1>1. CASE LookupStop(p)
    <2>1. PICK g \in Found : cmd' = [cmd EXCEPT ![p] = [NoCmd EXCEPT !.op = "stop", !.game = g]]
      BY <1>1 DEF LookupStop
    <2>2. g \in born
      BY DEF Found, TriviaAssumption
    <2>3. [NoCmd EXCEPT !.op = "stop", !.game = g] \in Cmd
      BY <2>2 DEF NoCmd
    <2> QED
      BY <1>1, <2>1, <2>2, <2>3 DEF LookupStop, NoCmd
  <1>2. ASSUME NEW q \in Questions, LookupAnswer(p, q)
        PROVE  Base'
    <2>1. PICK g \in Found : cmd' = [cmd EXCEPT ![p] = [op |-> "answer", game |-> g, text |-> q]]
      BY <1>2 DEF LookupAnswer
    <2>2. g \in born
      BY DEF Found, TriviaAssumption
    <2> QED
      BY <1>2, <2>1, <2>2 DEF LookupAnswer
  <1>3. CASE stop(p)
    <2>1. active' \in [Games -> BOOLEAN] /\ closes' \in [Games -> Nat]
      <3>1. active \in [Games -> BOOLEAN] /\ closes \in [Games -> Nat] /\ born \subseteq Games
        OBVIOUS
      <3>2. PICK g \in born :
               \/ UNCHANGED <<active, closes>>
               \/ /\ active' = [active EXCEPT ![g] = FALSE]
                  /\ closes' = [closes EXCEPT ![g] = closes[g] + 1]
        BY <1>3, StopEffect
      <3>3. closes[g] + 1 \in Nat
        BY <3>1
      <3>4. closes' \in [Games -> Nat]
        BY <3>1, <3>2, <3>3
      <3>5. active' \in [Games -> BOOLEAN]
        BY <3>1, <3>2
      <3> QED
        BY <3>4, <3>5
    <2>2. NoCmd \in Cmd
      BY DEF NoCmd
    <2> QED
      BY <1>3, <2>1, <2>2 DEF stop, NoCmd
  <1>4. CASE checkAnswer(p)
    <2>1. /\ question' \in [Games -> Questions \cup {NoQuestion}]
          /\ wins' \in [Games -> Nat]
      <3>1. question \in [Games -> Questions \cup {NoQuestion}] /\ wins \in [Games -> Nat]
        OBVIOUS
      <3>2. PICK g \in Games :
               \/ UNCHANGED <<question, wins>>
               \/ /\ question' = [question EXCEPT ![g] = NoQuestion]
                  /\ wins' = [wins EXCEPT ![g] = wins[g] + 1]
        BY <1>4, AnswerEffect
      <3>3. wins[g] + 1 \in Nat
        BY <3>1
      <3> QED
        BY <3>1, <3>2, <3>3
    <2>2. NoCmd \in Cmd
      BY DEF NoCmd
    <2> QED
      BY <1>4, <2>1, <2>2 DEF checkAnswer, NoCmd
  <1> QED
    BY <1>1, <1>2, <1>3, <1>4

\* A question that is sent, or lost.
LEMMA SentTyped ==
    ASSUME TypeOK, NEW g \in Games, NEW vs, NEW full, Sent(g, question[g], vs, full)
    PROVE  seen' \in [Viewers -> [Games -> Questions \cup {NoQuestion, Dropped}]]
  <1>1. question[g] \in Questions \cup {NoQuestion, Dropped}
    BY DEF TypeOK
  <1> QED
    BY <1>1 DEF TypeOK, Sent

\* The goroutine of a game never goes back to where it has not been started.
LEMMA BaseRun ==
    ASSUME TriviaAssumption, Base, NEW g \in Games, RunSteps(g)
    PROVE  Base'
  <1> USE DEF Base, TypeOK, LookedUp, gameVars, viewVars
  <1>1. gpc' \in [Games -> GameSteps] /\ \A h \in Games : h \in born <=> gpc'[h] # "unborn"
    <2>1. ASSUME Top(g) \/ Pick(g) \/ Announce(g) \/ PauseStopped(g) \/ PauseOver(g)
          PROVE  \E step \in GameSteps \ {"unborn"} : gpc' = [gpc EXCEPT ![g] = step]
      BY <2>1 DEF Top, Pick, Announce, PauseStopped, PauseOver, GameGoto, GameSteps
    <2>2. ASSUME \/ WaitStopped(g) \/ WaitDeadline(g) \/ WaitTick(g)
                 \/ Finish(g) \/ Unregister(g)
          PROVE  \E step \in GameSteps \ {"unborn"} : gpc' = [gpc EXCEPT ![g] = step]
      BY <2>2 DEF WaitStopped, WaitDeadline, WaitTick, AfterWait, Finish, Unregister,
                  GameGoto, GameSteps
    <2>3. PICK step \in GameSteps \ {"unborn"} : gpc' = [gpc EXCEPT ![g] = step]
      BY <2>1, <2>2 DEF RunSteps
    <2>4. gpc[g] # "unborn"
      BY DEF RunSteps, Top, Pick, Announce, WaitStopped, WaitDeadline, WaitTick,
             PauseStopped, PauseOver, Finish, Unregister
    <2> QED
      BY <2>3, <2>4
  <1>2. UNCHANGED <<born, continuous, cmd, vpc, held, closes>>
    BY DEF RunSteps, Top, Pick, Announce, WaitStopped, WaitDeadline, WaitTick,
           PauseStopped, PauseOver, Finish, Unregister
  <1>3. byRoom' \in born \cup {NoGame} /\ orphaned' \subseteq born
    BY DEF RunSteps, Top, Pick, Announce, WaitStopped, WaitDeadline, WaitTick,
           PauseStopped, PauseOver, Finish, Unregister
  <1>4. active' \in [Games -> BOOLEAN]
    BY DEF RunSteps, Top, Pick, Announce, WaitStopped, WaitDeadline, WaitTick,
           PauseStopped, PauseOver, Finish, ActiveAtEnd, Unregister
  <1>5. question' \in [Games -> Questions \cup {NoQuestion}]
    BY DEF RunSteps, Top, Pick, Announce, WaitStopped, WaitDeadline, WaitTick,
           PauseStopped, PauseOver, Finish, Unregister
  <1>6. wins' \in [Games -> Nat]
    BY DEF RunSteps, Top, Pick, Announce, WaitStopped, WaitDeadline, WaitTick,
           PauseStopped, PauseOver, Finish, ForgetRound, Unregister
  <1>7. seen' \in [Viewers -> [Games -> Questions \cup {NoQuestion, Dropped}]]
    <2>1. CASE Announce(g)
      BY <2>1, SentTyped DEF Announce
    <2>2. CASE PauseOver(g) \/ Finish(g)
      BY <2>2 DEF PauseOver, Finish, ForgetRound
    <2> QED
      BY <2>1, <2>2 DEF RunSteps, Top, Pick, WaitStopped, WaitDeadline, WaitTick,
                        PauseStopped, Unregister
  <1> QED
    BY <1>1, <1>2, <1>3, <1>4, <1>5, <1>6, <1>7

LEMMA BaseJoins ==
    ASSUME TriviaAssumption, Base, NEW v \in Viewers,
           ViewerJoin(v) \/ ResyncLookup(v) \/ ResyncClient(v)
    PROVE  Base'
  <1> USE DEF Base, TypeOK, LookedUp, gameVars, runVars
  <1>1. CASE ViewerJoin(v)
    BY <1>1 DEF ViewerJoin
  <1>3. CASE ResyncLookup(v)
    <2>1. UNCHANGED <<gameVars, runVars, cmd, seen>>
      BY <1>3 DEF ResyncLookup
    <2>2. Found \subseteq born
      BY DEF Found, TriviaAssumption
    <2>4. /\ vpc' \in [Viewers -> {"out", "joined", "resync", "in"}]
          /\ held' = held \/ \E g \in Found : held' = [held EXCEPT ![v] = g]
      BY <1>3 DEF ResyncLookup
    <2>5. held' \in [Viewers -> born \cup {NoGame}]
      BY <2>2, <2>4
    <2>3. ASSUME NEW u \in Viewers, vpc'[u] = "resync" PROVE held'[u] \in born
      <3>1. CASE u # v
        BY <1>3, <2>3, <3>1 DEF ResyncLookup
      <3>2. CASE u = v
        <4>1. \E g \in Found : held' = [held EXCEPT ![v] = g]
          BY <1>3, <2>3, <3>2 DEF ResyncLookup
        <4> QED
          BY <2>2, <3>2, <4>1
      <3> QED
        BY <3>1, <3>2
    <2> QED
      BY <2>1, <2>3, <2>4, <2>5
  <1>2. CASE ResyncClient(v)
    <2>1. held[v] \in Games
      BY <1>2 DEF ResyncClient
    <2>2. seen' \in [Viewers -> [Games -> Questions \cup {NoQuestion, Dropped}]]
      BY <1>2, <2>1, SentTyped DEF ResyncClient
    <2> QED
      BY <1>2, <2>2 DEF ResyncClient
  <1> QED
    BY <1>1, <1>2, <1>3

LEMMA BaseStep ==
    ASSUME TriviaAssumption, Base, [Next]_vars
    PROVE  Base'
  <1>1. CASE UNCHANGED vars
    BY <1>1 DEF vars, gameVars, runVars, viewVars, Base, TypeOK, LookedUp
  <1> QED
    BY <1>1, BaseStart, BaseCommand, BaseRun, BaseJoins DEF Next, Commands, Joins

-----------------------------------------------------------------------------
(* The stop, the flag and the goroutine *)

LEMMA StopsStep ==
    ASSUME Base, Stops, [Next]_vars
    PROVE  Stops'
  <1> USE DEF Base, TypeOK, Stops
  <1>1. CASE UNCHANGED <<active, closes, gpc>>
    BY <1>1
  <1>2. ASSUME NEW g \in Games, NEW cont \in BOOLEAN, Start(g, cont)
        PROVE  Stops'
    BY <1>2 DEF Start, GameGoto, FirstStep
  <1>3. ASSUME NEW p \in Players, stop(p)
        PROVE  Stops'
    <2>1. PICK g \in born :
             \/ UNCHANGED <<active, closes>>
             \/ /\ active[g] /\ active' = [active EXCEPT ![g] = FALSE]
                /\ closes' = [closes EXCEPT ![g] = closes[g] + 1]
      BY <1>3, StopEffect
    <2>2. gpc' = gpc
      BY <1>3 DEF stop
    <2> QED
      BY <2>1, <2>2
  <1>4. ASSUME NEW g \in Games, RunSteps(g)
        PROVE  Stops'
    <2>1. closes' = closes /\ \A h \in Games : active'[h] => active[h]
      BY <1>4 DEF RunSteps, Top, Pick, Announce, WaitStopped, WaitDeadline, WaitTick,
                  PauseStopped, PauseOver, Finish, ActiveAtEnd, Unregister
    <2>2. \A h \in Games : gpc'[h] = "unborn" => gpc[h] = "unborn"
      BY <1>4 DEF RunSteps, Top, Pick, Announce, WaitStopped, WaitDeadline, WaitTick, AfterWait,
                  PauseStopped, PauseOver, Finish, Unregister, GameGoto
    <2> QED
      BY <2>1, <2>2
  <1>5. ASSUME NEW p \in Players, NEW q \in Questions,
               LookupAnswer(p, q)
        PROVE  UNCHANGED <<active, closes, gpc>>
    BY <1>5 DEF LookupAnswer, runVars
  <1>6. ASSUME NEW p \in Players, LookupStop(p) \/ checkAnswer(p)
        PROVE  UNCHANGED <<active, closes, gpc>>
    BY <1>6 DEF LookupStop, checkAnswer, runVars
  <1>7. ASSUME Joins \/ UNCHANGED vars
        PROVE  UNCHANGED <<active, closes, gpc>>
    BY <1>7 DEF Joins, ViewerJoin, ResyncLookup, ResyncClient, runVars, vars
  <1> QED
    BY <1>1, <1>2, <1>3, <1>4, <1>5, <1>6, <1>7 DEF Next, Commands

LEMMA FlagsStep ==
    ASSUME Base, Stops, Flags, [Next]_vars
    PROVE  Flags'
  <1> USE DEF Base, TypeOK
  <1>1. CASE UNCHANGED <<byRoom, active, gpc, orphaned>>
    BY <1>1 DEF Flags
  <1>2. ASSUME NEW g \in Games, NEW cont \in BOOLEAN, Start(g, cont)
        PROVE  Flags'
    <2>1. /\ byRoom' = g /\ gpc' = [gpc EXCEPT ![g] = "top"] /\ gpc[g] = "unborn"
          /\ active' = [active EXCEPT ![g] = TRUE]
          /\ \A h \in Games : byRoom = h => ~active[h]
          /\ orphaned' = orphaned
      BY <1>2 DEF Start, GameGoto, FirstStep, MayStart, Found
    <2> QED
      BY <2>1 DEF Flags
  <1>3. ASSUME NEW p \in Players, stop(p)
        PROVE  Flags'
    BY <1>3 DEF stop, gameVars, Flags
  <1>4. ASSUME NEW g \in Games, RunSteps(g)
        PROVE  Flags'
    <2>1. CASE Finish(g) \/ Unregister(g)
      BY <2>1 DEF Finish, ActiveAtEnd, Unregister, GameGoto, gameVars, Flags
    <2>2. CASE Top(g)
      BY <2>2 DEF Top, Stopped, GameGoto, gameVars, Flags, Stops
    <2>3. CASE Pick(g) \/ Announce(g) \/ WaitStopped(g) \/ WaitDeadline(g) \/ WaitTick(g)
                 \/ PauseStopped(g) \/ PauseOver(g)
      <3>1. /\ UNCHANGED <<byRoom, active, orphaned>> /\ gpc[g] # "ended" /\ gpc[g] # "unborn"
            /\ \E step \in {"announce", "wait", "finish", "pause", "top"} :
                 gpc' = [gpc EXCEPT ![g] = step]
        BY <2>3 DEF Pick, Announce, WaitStopped, WaitDeadline, WaitTick, AfterWait,
                    PauseStopped, PauseOver, GameGoto, gameVars
      <3> QED
        BY <3>1 DEF Flags
    <2> QED
      BY <1>4, <2>1, <2>2, <2>3 DEF RunSteps
  <1>5. ASSUME Commands, ~(\E g \in Games, cont \in BOOLEAN : Start(g, cont)),
               ~(\E p \in Players : stop(p))
        PROVE  UNCHANGED <<byRoom, active, gpc, orphaned>>
    BY <1>5 DEF Commands, LookupStop, LookupAnswer, checkAnswer, gameVars, runVars
  <1>6. ASSUME Joins \/ UNCHANGED vars
        PROVE  UNCHANGED <<byRoom, active, gpc, orphaned>>
    BY <1>6 DEF Joins, ViewerJoin, ResyncLookup, ResyncClient, gameVars, runVars, vars
  <1> QED
    BY <1>1, <1>2, <1>3, <1>4, <1>5, <1>6 DEF Next

-----------------------------------------------------------------------------
(* The question and its winner *)

LEMMA RoundsStep ==
    ASSUME TriviaAssumption, Base, Rounds, [Next]_vars
    PROVE  Rounds'
  <1> USE DEF Base, TypeOK
  <1>1. CASE UNCHANGED <<question, wins, gpc>>
    BY <1>1 DEF Rounds
  <1>2. ASSUME NEW g \in Games, NEW cont \in BOOLEAN, Start(g, cont)
        PROVE  Rounds'
    BY <1>2 DEF Start, GameGoto, FirstStep, Rounds
  <1>3. ASSUME NEW p \in Players, checkAnswer(p)
        PROVE  Rounds'
    <2>1. PICK g \in Games :
             \/ UNCHANGED <<question, wins>>
             \/ /\ active[g] /\ question[g] # NoQuestion
                /\ question' = [question EXCEPT ![g] = NoQuestion]
                /\ wins' = [wins EXCEPT ![g] = wins[g] + 1]
      BY <1>3, AnswerEffect
    <2>2. gpc' = gpc
      BY <1>3 DEF checkAnswer
    <2> QED
      BY <1>1, <2>1, <2>2 DEF Rounds
  <1>4. ASSUME NEW g \in Games, RunSteps(g)
        PROVE  Rounds'
    <2>1. CASE Top(g) \/ WaitStopped(g) \/ Announce(g) \/ PauseStopped(g) \/ Unregister(g)
      BY <2>1 DEF Top, WaitStopped, Announce, PauseStopped, Unregister, GameGoto, Rounds
    <2>2. CASE Pick(g)
      BY <2>2 DEF Pick, GameGoto, Rounds, TriviaAssumption
    <2>3. CASE WaitDeadline(g) \/ WaitTick(g)
      BY <2>3 DEF WaitDeadline, WaitTick, AfterWait, GameGoto, Rounds
    <2>4. CASE PauseOver(g) \/ Finish(g)
      BY <2>4 DEF PauseOver, Finish, ForgetRound, GameGoto, Rounds
    <2> QED
      BY <1>4, <2>1, <2>2, <2>3, <2>4 DEF RunSteps
  <1>5. ASSUME Commands, ~(\E g \in Games, cont \in BOOLEAN : Start(g, cont)),
               ~(\E p \in Players : checkAnswer(p))
        PROVE  UNCHANGED <<question, wins, gpc>>
    BY <1>5 DEF Commands, LookupStop, LookupAnswer, stop, runVars
  <1>6. ASSUME Joins \/ UNCHANGED vars
        PROVE  UNCHANGED <<question, wins, gpc>>
    BY <1>6 DEF Joins, ViewerJoin, ResyncLookup, ResyncClient, runVars, vars
  <1> QED
    BY <1>1, <1>2, <1>3, <1>4, <1>5, <1>6 DEF Next

-----------------------------------------------------------------------------
(* The question and the viewers *)

\* A question that is open was open before, the same one, or is announced now.
LEMMA OpenChanges ==
    ASSUME TriviaAssumption, Base, [Next]_vars, NEW g \in Games, Open(g)'
    PROVE  Announce(g) \/ (Open(g) /\ question'[g] = question[g])
  <1> USE DEF Base, TypeOK
  <1>1. CASE UNCHANGED <<byRoom, active, gpc, question>>
    BY <1>1 DEF Open
  <1>2. ASSUME NEW h \in Games, NEW cont \in BOOLEAN, Start(h, cont)
        PROVE  FALSE
    BY <1>2 DEF Start, GameGoto, FirstStep, Open
  <1>3. ASSUME NEW p \in Players, stop(p) \/ checkAnswer(p)
        PROVE  Open(g) /\ question'[g] = question[g]
    BY <1>3 DEF stop, checkAnswer, AfterWin, gameVars, Open
  <1>4. ASSUME NEW h \in Games, RunSteps(h), ~Announce(g)
        PROVE  Open(g) /\ question'[g] = question[g]
    <2>1. CASE h # g
      BY <1>4, <2>1
      DEF RunSteps, Top, Pick, Announce, WaitStopped, WaitDeadline, WaitTick,
          PauseStopped, PauseOver, Finish, Unregister, GameGoto, gameVars, TriviaAssumption, Open
    <2>2. CASE h = g
      BY <1>4, <2>2
      DEF RunSteps, Top, Pick, WaitStopped, WaitDeadline, WaitTick, AfterWait,
          PauseStopped, PauseOver, Finish, Unregister, GameGoto, Open
    <2> QED
      BY <2>1, <2>2
  <1>5. ASSUME Commands, ~(\E h \in Games, cont \in BOOLEAN : Start(h, cont)),
               ~(\E p \in Players : stop(p) \/ checkAnswer(p))
        PROVE  UNCHANGED <<byRoom, active, gpc, question>>
    BY <1>5 DEF Commands, LookupStop, LookupAnswer, gameVars, runVars
  <1>6. ASSUME Joins \/ UNCHANGED vars
        PROVE  UNCHANGED <<byRoom, active, gpc, question>>
    BY <1>6 DEF Joins, ViewerJoin, ResyncLookup, ResyncClient, gameVars, runVars, vars
  <1> QED
    BY <1>1, <1>2, <1>3, <1>4, <1>5, <1>6 DEF Next

LEMMA InformedStep ==
    ASSUME TriviaAssumption, Base, Informed, [Next]_vars
    PROVE  Informed'
  <1> SUFFICES ASSUME NEW v \in Viewers, NEW g \in Games, Open(g)'
               PROVE  /\ vpc'[v] = "in" => seen'[v][g] \in {question'[g], Dropped}
                      /\ vpc'[v] = "resync" =>
                           seen'[v][g] \in {question'[g], Dropped} \/ held'[v] = g
    BY DEF Informed
  <1> USE DEF Base, TypeOK
  <1>1. CASE Announce(g)
    BY <1>1 DEF Announce, Sent, InRoom
  <1>2. CASE /\ Open(g) /\ question'[g] = question[g]
             /\ UNCHANGED <<vpc, held>> /\ seen'[v][g] = seen[v][g]
    BY <1>2 DEF Informed
  <1>3. CASE Open(g) /\ question'[g] = question[g] /\ Joins
    <2>1. ASSUME NEW w \in Viewers, ViewerJoin(w)
          PROVE  vpc'[v] \in {"in", "resync"} =>
                   vpc'[v] = vpc[v] /\ seen' = seen /\ held' = held
      BY <2>1 DEF ViewerJoin
    <2>2. ASSUME NEW w \in Viewers, ResyncLookup(w)
          PROVE  /\ v # w => vpc'[v] = vpc[v] /\ seen' = seen /\ held'[v] = held[v]
                 /\ v = w => vpc'[v] = "resync" /\ held'[v] = g
      <3>1. g \in Found /\ \A h \in Found : h = g
        BY <1>3 DEF Found, Open
      <3> QED
        BY <2>2, <3>1 DEF ResyncLookup
    <2>3. ASSUME NEW w \in Viewers, ResyncClient(w)
          PROVE  /\ v # w => vpc'[v] = vpc[v] /\ seen'[v] = seen[v] /\ held'[v] = held[v]
                 /\ v = w => vpc'[v] = "in" /\ seen'[v][g] \in {question[g], Dropped}
      <3>1. v # w => vpc'[v] = vpc[v] /\ seen'[v] = seen[v] /\ held'[v] = held[v]
        BY <2>3 DEF ResyncClient, Sent
      <3>2. CASE v = w /\ held[v] = g
        <4>1. ResyncAsks(g) /\ active[g]
          BY <1>3 DEF ResyncAsks, Open
        <4>2. \E full \in SUBSET {v} : Sent(g, question[g], {v}, full)
          BY <2>3, <3>2, <4>1 DEF ResyncClient
        <4> QED
          BY <2>3, <3>2, <4>2 DEF ResyncClient, Sent
      <3>3. CASE v = w /\ held[v] # g
        <4>1. seen[v][g] \in {question[g], Dropped}
          BY <1>3, <2>3, <3>3 DEF ResyncClient, Informed
        <4>2. seen'[v][g] = seen[v][g]
          BY <2>3, <3>3 DEF ResyncClient, Sent
        <4> QED
          BY <2>3, <3>3, <4>1, <4>2 DEF ResyncClient
      <3> QED
        BY <3>1, <3>2, <3>3
    <2> QED
      BY <1>3, <2>1, <2>2, <2>3 DEF Joins, Informed
  <1>4. ASSUME ~Joins, ~Announce(g)
        PROVE  UNCHANGED <<vpc, held>> /\ seen'[v][g] = seen[v][g]
    <2>1. ASSUME Commands
          PROVE  UNCHANGED viewVars
      BY <2>1 DEF Commands, Start, LookupStop, LookupAnswer, stop, checkAnswer
    <2>2. ASSUME NEW h \in Games, RunSteps(h)
          PROVE  UNCHANGED <<vpc, held>> /\ seen'[v][g] = seen[v][g]
      <3>1. CASE Announce(h)
        <4>1. h # g
          BY <1>4, <3>1
        <4>2. PICK full \in SUBSET InRoom : Sent(h, question[h], InRoom, full)
          BY <3>1 DEF Announce
        <4>3. seen'[v][g] = seen[v][g]
          BY <4>1, <4>2 DEF Sent
        <4> QED
          BY <3>1, <4>3 DEF Announce
      <3>2. CASE PauseOver(h) \/ Finish(h)
        BY <3>2 DEF PauseOver, Finish, ForgetRound, GameGoto, Open
      <3> QED
        BY <2>2, <3>1, <3>2 DEF RunSteps, Top, Pick, WaitStopped, WaitDeadline, WaitTick,
                                PauseStopped, Unregister, viewVars
    <2> QED
      BY <1>4, <2>1, <2>2 DEF Next, vars, viewVars
  <1> QED
    BY <1>1, <1>2, <1>3, <1>4, OpenChanges


-----------------------------------------------------------------------------
(* Theorems *)

LEMMA BaseAlways == TriviaAssumption => (Spec => []Base)
  <1>1. TriviaAssumption /\ Init => Base
    BY InitOK
  <1>2. TriviaAssumption /\ Base /\ [Next]_vars => Base'
    BY BaseStep
  <1> QED
    BY <1>1, <1>2, TriviaAssumption, PTL DEF Spec

\* Every variable of the games, the commands and the viewers keeps its type;
\* no step uses a game that was not looked up.
THEOREM TypeCorrect == Spec => []TypeOK
  <1>1. Base => TypeOK
    BY DEF Base
  <1> QED
    BY <1>1, BaseAlways, TriviaAssumption, PTL

LEMMA StopsAlways == Spec => []Stops
  <1>1. Init => Stops
    BY InitOK, TriviaAssumption
  <1>2. Base /\ Stops /\ [Next]_vars => Stops'
    BY StopsStep
  <1> QED
    BY <1>1, <1>2, BaseAlways, TriviaAssumption, PTL DEF Spec

\* No race of stop commands with each other or with finish closes stopCh twice.
THEOREM ClosedAtMostOnce == Spec => []ClosedOnce
  <1>1. Stops => ClosedOnce
    BY DEF Stops, ClosedOnce
  <1> QED
    BY <1>1, StopsAlways, PTL

\* A question is won once, whoever answers it at the same time.
THEOREM OneWinnerAtMost == Spec => []OneWinner
  <1>1. Init => Rounds
    BY InitOK, TriviaAssumption
  <1>2. Base /\ Rounds /\ [Next]_vars => Rounds'
    BY RoundsStep, TriviaAssumption
  <1>3. Rounds => OneWinner
    BY DEF Rounds, OneWinner
  <1> QED
    BY <1>1, <1>2, <1>3, BaseAlways, TriviaAssumption, PTL DEF Spec

\* A game with its flag up has a goroutine, and is the registered one unless
\* the finish of another game has unregistered it.
THEOREM ActiveStaysReachable == Spec => []ActiveIsReachable
  <1>1. Init => Flags
    BY InitOK, TriviaAssumption
  <1>2. Base /\ Stops /\ Flags /\ [Next]_vars => Flags'
    BY FlagsStep
  <1>3. Base /\ Flags => ActiveIsReachable
    BY DEF Base, TypeOK, Flags, ActiveIsReachable
  <1> QED
    BY <1>1, <1>2, <1>3, BaseAlways, StopsAlways, TriviaAssumption, PTL DEF Spec

\* Room.Join before ResyncClient: who has joined knows the open question, or
\* its last message about that game was dropped.
THEOREM ViewersKnowTheQuestion == Spec => []OpenQuestionKnown
  <1>1. Init => Informed
    BY InitOK, TriviaAssumption
  <1>2. Base /\ Informed /\ [Next]_vars => Informed'
    BY InformedStep, TriviaAssumption
  <1>3. TriviaAssumption /\ Base /\ Informed => OpenQuestionKnown
    BY DEF Base, TypeOK, Informed, Open, OpenQuestionKnown, TriviaAssumption
  <1> QED
    BY <1>1, <1>2, <1>3, BaseAlways, TriviaAssumption, PTL DEF Spec
=============================================================================
