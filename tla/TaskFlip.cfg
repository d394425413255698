\* A task with one or two assignees.
SPECIFICATION CardsSpec
CONSTANTS
  Voters = {v1, v2}
  Options = {o1}
  MaxBallots = 1
  MaxMoves = 4
CHECK_DEADLOCK FALSE
PROPERTIES
  DoneWithLastAssignee
