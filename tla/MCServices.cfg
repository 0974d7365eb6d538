SPECIFICATION ServicesSpec
CONSTANTS
  Spaces = {"distributor", "constructor"}
  Master = "m"
  Workers = {"w1", "w2"}
  Clients = {"m", "w1", "w2"}
  Scalars = {"max"}
  None = None
  MaxDeaths = 1
  Programs <- MCPrograms
  Users = {"u1", "u2", "u3"}
  Paths = {"log", "out"}
  TableSize = 2
  MaxItems <- MCMaxItems
  NoStream = NoStream
  NoReply = NoReply
  Uses <- MCUses
  Sites = {"a", "b"}
  Tasks = {"t1", "t2", "t3"}
  SiteOf <- MCSiteOf
  Senders = {"t1"}
  Labels = {"x", "y"}
  AnyLabel = "*"
  MaxPuts = 3
  Conduits = {"x", "y"}
  Peers = {"q1", "q2", "q3"}
  Scripts <- MCScripts
  Askers = {"n1", "n2", "n3"}
  Director = "n1"
  Names = {"s", "t"}
  Expressions <- MCExpressions
  MaxContents = 2
  MaxCalls = 4
  MaxLosses = 1
CHECK_DEADLOCK FALSE
INVARIANTS
  AdvTypeOK DataIsWhole EveryIterationOnce
  HandleIsMine SavedIsOnDisk ReadsAreThere
  NobodyWaitsBesideMatch EveryPutAccounted
  PipesRendezvous
PROPERTIES LoopMasterEnds LoopWorkersEnd PipePeersEnd
