SPECIFICATION FairTurnSpec
CONSTANTS
  MaxCalls = 2
  Checks = 1
  Goals <- MCGoals
  Proposals <- MCProposals
  Answers <- MCAnswers
INVARIANTS
  TypeOK
  OnlyUnansweredCallsLeak
  CommandsRunAlone
  CommitsAreOfTheirTurn
  OnlyPermittedCommandsRun
PROPERTIES
  ResultsAreTrue
  ExecuteEnds
  ThreadsEnd
  RunEnds
\* A sandbox that is closed has nothing left to do.
CHECK_DEADLOCK FALSE
