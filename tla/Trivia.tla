------------------------------- MODULE Trivia -------------------------------
(***************************************************************************)
(* The trivia games of one public room (trivia.go): the goroutine of each  *)
(* roomTrivia (run, waitForAnswer, finish), and the commands that reach it *)
(* from the connections' readers (Start, AskOnce, Stop, CheckAnswer) and   *)
(* from joinRoom (ResyncClient).                                           *)
(*                                                                         *)
(* TriviaManager.byRoom[room] is looked up under tm.mu, the game found is  *)
(* used later under its own rt.mu: a step is one of these critical         *)
(* sections, or one branch of a select.  Active is also read with no lock, *)
(* by Stop, CheckAnswer and ResyncClient between the two; it only ever     *)
(* falls, so that reading is folded into the lookup when it finds the flag *)
(* down, and into the critical section that follows when it does not: stop *)
(* and checkAnswer read it again there, ResyncClient does not.             *)
(*                                                                         *)
(* Time is left out: the 30s deadline and the 3s pause end whenever they   *)
(* do, before or after the 200ms tick that notices an answer.              *)
(*                                                                         *)
(* Scores are counted per question; the score lists sent to the room, and  *)
(* the lines kept in the history, are left out.  SendRaw and Send drop what *)
(* a full buffer cannot take (hub.go): any message may be lost.            *)
(***************************************************************************)
EXTENDS Integers, FiniteSets

CONSTANTS
    Games,             \* *roomTrivia objects: bounds the games ever started
    NoGame,
    Questions,         \* tm.bank
    NoQuestion,        \* CurrentQ and Answer = ""
    Dropped,           \* in place of a question that a full buffer lost
    Players,           \* connections that send commands
    Viewers            \* connections that join the room meanwhile

ASSUME TriviaAssumption ==
    /\ IsFiniteSet(Questions) /\ Questions # {}
    /\ NoQuestion \notin Questions
    /\ Dropped \notin Questions \cup {NoQuestion}
    /\ NoGame \notin Games

VARIABLES
    byRoom,       \* tm.byRoom[room]
    born,         \* games started
    continuous,   \* rt.Continuous
    active,       \* rt.Active
    question,     \* rt.CurrentQ (and rt.Answer with it)
    closes,       \* how often rt.stopCh was closed; twice is a panic
    wins,         \* answers the current question was won by
    gpc,          \* where the game's goroutine stands
    cmd,          \* the command a player's reader is in the middle of
    vpc, held,    \* where a viewer's joinRoom stands, the game it found
    seen,         \* the question each game sent a viewer this round, or Dropped
    orphaned      \* history: games the finish of another has unregistered

gameVars == <<byRoom, born, continuous, orphaned>>
runVars  == <<active, question, closes, wins, gpc>>
viewVars == <<vpc, held, seen>>
vars == <<gameVars, runVars, cmd, viewVars>>

GameSteps == {"unborn", "top", "pick", "announce", "wait", "pause",
              "finish", "unregister", "ended"}
NoCmd == [op |-> "none", game |-> NoGame, text |-> NoQuestion]

Init ==
    /\ byRoom = NoGame
    /\ born = {}
    /\ continuous = [g \in Games |-> FALSE]
    /\ active = [g \in Games |-> FALSE]
    /\ question = [g \in Games |-> NoQuestion]
    /\ closes = [g \in Games |-> 0]
    /\ wins = [g \in Games |-> 0]
    /\ gpc = [g \in Games |-> "unborn"]
    /\ cmd = [p \in Players |-> NoCmd]
    /\ vpc = [v \in Viewers |-> "out"]
    /\ held = [v \in Viewers |-> NoGame]
    /\ seen = [v \in Viewers |-> [g \in Games |-> NoQuestion]]
    /\ orphaned = {}

Stopped(g) == closes[g] > 0

\* What was counted and sent of a round is of no interest after it.
ForgetRound(g) ==
    /\ wins' = [wins EXCEPT ![g] = 0]
    /\ seen' = [v \in Viewers |-> [seen[v] EXCEPT ![g] = NoQuestion]]

GameGoto(g, step) == gpc' = [gpc EXCEPT ![g] = step]

-----------------------------------------------------------------------------
(* Commands: handleTriviaStart, handleTriviaOnce, handleTriviaStop, and the *)
(* answer check of handleChat.                                              *)

\* What a lookup under tm.mu finds, with its flag up.
Found == {g \in Games : byRoom = g /\ active[g]}

MayStartAlways == TRUE

MayStart == Found = {}

\* "go rt.run": where the new goroutine starts.
FirstStep == "top"

\* TriviaManager.start: test and registration under tm.mu.
Start(g, cont) ==
    /\ MayStart
    /\ g \notin born
    /\ born' = born \cup {g}
    /\ byRoom' = g
    /\ continuous' = [continuous EXCEPT ![g] = cont]
    /\ active' = [active EXCEPT ![g] = TRUE]
    /\ GameGoto(g, FirstStep)
    /\ UNCHANGED <<question, closes, wins, cmd, viewVars, orphaned>>

\* Stop and CheckAnswer: the lookup under tm.mu.
LookupStop(p) ==
    /\ cmd[p] = NoCmd
    /\ \E g \in Found : cmd' = [cmd EXCEPT ![p] = [NoCmd EXCEPT !.op = "stop", !.game = g]]
    /\ UNCHANGED <<gameVars, runVars, viewVars>>

\* A chat line that answers some question; a line that answers none changes
\* nothing here.
LookupAnswer(p, q) ==
    /\ cmd[p] = NoCmd
    /\ \E g \in Found : cmd' = [cmd EXCEPT ![p] = [op |-> "answer", game |-> g, text |-> q]]
    /\ UNCHANGED <<gameVars, runVars, viewVars>>

StopTwice(g) == TRUE

MayStop(g) == active[g]

\* roomTrivia.stop, under rt.mu.
stop(p) ==
    LET g == cmd[p].game
    IN  /\ cmd[p].op = "stop"
        /\ IF MayStop(g)
           THEN /\ active' = [active EXCEPT ![g] = FALSE]
                /\ closes' = [closes EXCEPT ![g] = @ + 1]
           ELSE UNCHANGED <<active, closes>>
        /\ cmd' = [cmd EXCEPT ![p] = NoCmd]
        /\ UNCHANGED <<gameVars, question, wins, gpc,
                       viewVars>>

AfterWinKeep(q) == q

\* CurrentQ after a right answer.
AfterWin(q) == NoQuestion

\* roomTrivia.checkAnswer, under rt.mu.
checkAnswer(p) ==
    LET g == cmd[p].game
    IN  /\ cmd[p].op = "answer"
        /\ IF active[g] /\ question[g] # NoQuestion /\ cmd[p].text = question[g]
           THEN /\ wins' = [wins EXCEPT ![g] = @ + 1]
                /\ question' = [question EXCEPT ![g] = AfterWin(@)]
           ELSE UNCHANGED <<wins, question>>
        /\ cmd' = [cmd EXCEPT ![p] = NoCmd]
        /\ UNCHANGED <<gameVars, active, closes, gpc,
                       viewVars>>

-----------------------------------------------------------------------------
(* The game's goroutine: run, waitForAnswer, finish *)

TopForgetsStop(g) ==
    /\ gpc[g] = "top"
    /\ GameGoto(g, "pick")
    /\ UNCHANGED <<gameVars, active, question, closes, wins, cmd,
                   viewVars>>

\* The select at the top of the loop; a stopped game returns with no finish.
Top(g) ==
    /\ gpc[g] = "top"
    /\ GameGoto(g, IF Stopped(g) THEN "ended" ELSE "pick")
    /\ UNCHANGED <<gameVars, active, question, closes, wins, cmd,
                   viewVars>>

\* pickQuestion, then the assignment of CurrentQ under rt.mu.  The choice
\* among the questions not yet used is abstracted to any question.
Pick(g) ==
    /\ gpc[g] = "pick"
    /\ \E q \in Questions : question' = [question EXCEPT ![g] = q]
    /\ GameGoto(g, "announce")
    /\ UNCHANGED <<gameVars, active, closes, wins, cmd, viewVars>>

InRoom == {v \in Viewers : vpc[v] # "out"}

\* The viewers vs are sent question q of g; it is lost for the full ones.
Sent(g, q, vs, full) ==
    seen' = [v \in Viewers |->
               IF v \in vs THEN [seen[v] EXCEPT ![g] = IF v \in full THEN Dropped ELSE q]
               ELSE seen[v]]

\* CurrentQ is read again for the broadcast, with no lock: a right answer may
\* have emptied it since.
Announce(g) ==
    /\ gpc[g] = "announce"
    /\ \E full \in SUBSET InRoom : Sent(g, question[g], InRoom, full)
    /\ GameGoto(g, "wait")
    /\ UNCHANGED <<gameVars, active, question, closes, wins, cmd, vpc, held>>

AfterWaitNext(g) == "pause"

AfterWait(g) == IF continuous[g] THEN "pause" ELSE "finish"

\* The three branches of waitForAnswer's select; any that is ready may run.
WaitStopped(g) ==
    /\ gpc[g] = "wait" /\ Stopped(g)
    /\ GameGoto(g, "finish")
    /\ UNCHANGED <<gameVars, active, question, closes, wins, cmd,
                   viewVars>>

\* The deadline branch does not look whether the question was answered.
WaitDeadline(g) ==
    /\ gpc[g] = "wait"
    /\ question' = [question EXCEPT ![g] = NoQuestion]
    /\ GameGoto(g, AfterWait(g))
    /\ UNCHANGED <<gameVars, active, closes, wins, cmd, viewVars>>

WaitTick(g) ==
    /\ gpc[g] = "wait" /\ question[g] = NoQuestion
    /\ GameGoto(g, AfterWait(g))
    /\ UNCHANGED <<gameVars, active, question, closes, wins, cmd, viewVars>>

PauseStopped(g) ==
    /\ gpc[g] = "pause" /\ Stopped(g)
    /\ GameGoto(g, "finish")
    /\ UNCHANGED <<gameVars, active, question, closes, wins, cmd,
                   viewVars>>

PauseOver(g) ==
    /\ gpc[g] = "pause"
    /\ ForgetRound(g)
    /\ GameGoto(g, "top")
    /\ UNCHANGED <<gameVars, active, question, closes, cmd, vpc, held>>

ActiveAtEndKept(g) == active[g]

ActiveAtEnd(g) == FALSE

\* finish, under rt.mu.
Finish(g) ==
    /\ gpc[g] = "finish"
    /\ active' = [active EXCEPT ![g] = ActiveAtEnd(g)]
    /\ ForgetRound(g)
    /\ GameGoto(g, "unregister")
    /\ UNCHANGED <<gameVars, question, closes, cmd, vpc, held>>

\* finish, under tm.mu: whichever game is registered for the room goes.
Unregister(g) ==
    /\ gpc[g] = "unregister"
    /\ byRoom' = NoGame
    /\ orphaned' = orphaned \cup ({byRoom} \ {g, NoGame})
    /\ GameGoto(g, "ended")
    /\ UNCHANGED <<born, continuous, active, question, closes, wins,
                   cmd, viewVars>>

-----------------------------------------------------------------------------
(* A connection joins the room: Room.Join, then ResyncClient *)

ViewerJoin(v) ==
    /\ vpc[v] = "out"
    /\ vpc' = [vpc EXCEPT ![v] = "joined"]
    /\ UNCHANGED <<gameVars, runVars, cmd, held, seen>>

ResyncLookup(v) ==
    /\ vpc[v] = "joined"
    /\ IF Found = {}
       THEN vpc' = [vpc EXCEPT ![v] = "in"] /\ UNCHANGED held
       ELSE /\ vpc' = [vpc EXCEPT ![v] = "resync"]
            /\ \E g \in Found : held' = [held EXCEPT ![v] = g]
    /\ UNCHANGED <<gameVars, runVars, cmd, seen>>

ResyncNothing(g) == FALSE

\* ResyncClient under rt.mu: whether there is a question to send.
ResyncAsks(g) == question[g] # NoQuestion

\* Active is not read again under rt.mu: once it has fallen, the question is sent
\* or not, as it was read before or after.
ResyncClient(v) ==
    LET g == held[v]
    IN  /\ vpc[v] = "resync"
        /\ \/ /\ ResyncAsks(g)
              /\ \E full \in SUBSET {v} : Sent(g, question[g], {v}, full)
           \/ (active[g] => ~ResyncAsks(g)) /\ UNCHANGED seen
        /\ held' = [held EXCEPT ![v] = NoGame]
        /\ vpc' = [vpc EXCEPT ![v] = "in"]
        /\ UNCHANGED <<gameVars, runVars, cmd>>

-----------------------------------------------------------------------------
RunSteps(g) ==
    \/ Top(g) \/ Pick(g) \/ Announce(g)
    \/ WaitStopped(g) \/ WaitDeadline(g) \/ WaitTick(g)
    \/ PauseStopped(g) \/ PauseOver(g)
    \/ Finish(g) \/ Unregister(g)

Commands ==
    \/ \E g \in Games, cont \in BOOLEAN : Start(g, cont)
    \/ \E p \in Players :
         \/ LookupStop(p)
         \/ \E q \in Questions : LookupAnswer(p, q)
         \/ stop(p)
         \/ checkAnswer(p)

Joins == \E v \in Viewers : ViewerJoin(v) \/ ResyncLookup(v) \/ ResyncClient(v)

Next ==
    \/ \E g \in Games : RunSteps(g)
    \/ Commands
    \/ Joins

Spec == Init /\ [][Next]_vars

\* A game's goroutine is scheduled and its timers fire; nobody has to send
\* anything.
FairSpec == Spec /\ \A g \in Games : WF_vars(RunSteps(g))

-----------------------------------------------------------------------------
(* Properties *)

TypeOK ==
    /\ byRoom \in born \cup {NoGame} /\ born \subseteq Games
    /\ continuous \in [Games -> BOOLEAN] /\ active \in [Games -> BOOLEAN]
    /\ question \in [Games -> Questions \cup {NoQuestion}]
    /\ closes \in [Games -> Nat]
    /\ wins \in [Games -> Nat]
    /\ gpc \in [Games -> GameSteps]
    /\ \A g \in Games : g \in born <=> gpc[g] # "unborn"
    /\ cmd \in [Players -> [op : {"none", "stop", "answer"},
                            game : born \cup {NoGame},
                            text : Questions \cup {NoQuestion}]]
    /\ vpc \in [Viewers -> {"out", "joined", "resync", "in"}]
    /\ held \in [Viewers -> born \cup {NoGame}]
    /\ seen \in [Viewers -> [Games -> Questions \cup {NoQuestion, Dropped}]]
    /\ orphaned \subseteq born

\* stopCh is closed at most once, however many /trivia stop commands race each
\* other and the game's own finish: a second close would panic the server.
ClosedOnce == \A g \in Games : closes[g] <= 1

\* However many players send the right answer at once, a question has one
\* winner and scores one point.
OneWinner == \A g \in Games : wins[g] <= 1

\* A game whose Active flag is up has a goroutine that can still bring it down, so
\* a game that ended never keeps start from starting another ("trivia already
\* active"); and it is the registered one, which stop and the answers find, but
\* for one case: the finish of an earlier game, whose flag was down already, came
\* after this very game had been registered, and took it out instead.
ActiveIsReachable ==
    \A g \in Games : active[g] =>
        /\ g \in born /\ gpc[g] # "ended"
        /\ byRoom = g \/ g \in orphaned

\* Whoever has completed joinRoom knows the question that is open in the
\* registered game: it was asked after Room.Join and reached the viewer as a
\* broadcast, or before, and ResyncClient sent it.  Only a viewer whose buffer
\* was full when that game last sent it a question may know less.
OpenQuestionKnown ==
    \A v \in Viewers :
        LET g == byRoom
        IN  (/\ vpc[v] = "in" /\ g # NoGame /\ seen[v][g] # Dropped
             /\ active[g] /\ gpc[g] = "wait" /\ question[g] # NoQuestion)
            => seen[v][g] = question[g]

\* A stopped game's goroutine ends, wherever in its loop the stop found it.
StopEnds == \A g \in Games : Stopped(g) ~> gpc[g] = "ended"
=============================================================================
