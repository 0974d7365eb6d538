SPECIFICATION FairSpec
CONSTANTS
  Nil = Nil
  Hosts = {"h0", "h1"}
  Slots = {1, 2, 3}
  Procs = {"p1", "p2", "p3"}
  Handlers = {"ts"}
  Callers = {"dac", "left", "fdd", "user"}
  Watched = TRUE
  Doubtful = {"p3", "ts"}
  EarlyExits = TRUE
  Outcomes = {"EXITTED", "KILLED"}
  MaxOutside = 1
  DacHost = "h0"
  ProcList <- MCProcList
  HandlerList <- MCHandlerList
  HostOf <- MCHostOf
  Precedents <- MCPrecedents
  Outside <- MCOutside
INVARIANTS AppTypeOK NoOrphans ReportsAreTrue NoLostExit
CHECK_DEADLOCK FALSE
PROPERTIES ImplementsJobGraph AppEnds LossRecovered
