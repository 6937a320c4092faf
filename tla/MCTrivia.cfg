SPECIFICATION FairSpec
CONSTANTS
  Games = {g1, g2}
  NoGame = NoGame
  Questions = {q1}
  NoQuestion = NoQuestion
  Dropped = Dropped
  Players = {p1, p2}
  Viewers = {v1}
INVARIANTS ClosedOnce OneWinner ActiveIsReachable OpenQuestionKnown
PROPERTY StopEnds
CHECK_DEADLOCK FALSE
