SPECIFICATION FarmSpec
CONSTANTS
  Problem = Problem
  Result = Result
  Spaces = {Problem, Result}
  Master = m
  Workers = {w1, w2}
  Clients = {m, w1, w2}
  Names <- FarmNames
  Data <- FarmData
  Priorities = {1}
  Requests <- FarmRequests
  Mortal = {}
  SigPipe = FALSE
  FalseSuspicion = TRUE
  NumTasks = 2
  Nil = Nil
CHECK_DEADLOCK FALSE
INVARIANT NoTaskLost
