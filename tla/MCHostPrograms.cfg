SPECIFICATION HostProgramsSpec
CONSTANTS
  TableSize = 2
  Keys = {k1, k2, k3}
  Ports = {p1, p2}
  Pids = {q1, q2}
  NoKey = NoKey
  Nil = Nil
  Cids = {c1, c2}
  Programs = {"h1", "h2", "d"}
  KindOf <- MCKindOf
  NameOf <- MCNameOf
  MaxMishaps = 1
  NoOne = NoOne
  MaxApps = 3
  TitleOf <- MCTitleOf
  DacPorts = {1, 2}
  MaxAsked = 1
  MaxWaiting = 2
  Hosts = {"here", "there"}
  LocalHost = "here"
  Shells = {s1, s2}
  NoHost = NoHost
  NoFile = NoFile
  CslNames = {"a", "b", "c", "d", "e", "f"}
  Synonymies <- MCSynonymies
  Declarations <- MCDeclarations
  MaxStatements = 4
  Callers = {"x1", "x2"}
  Locals = {"l1", "l2"}
  LocalOf <- MCLocalOf
  Paths = {f1, f2}
  Locked = {f2}
  MaxSegments = 2
  MaxChanges = 1
  Servers = {v1, v2}
  Logins = {a1, a2}
  MaxKills = 1
  NoPath = NoPath
  NoCaller = NoCaller
  NoLogin = NoLogin
SYMMETRY Symmetry
CHECK_DEADLOCK FALSE
INVARIANTS TypeOK KeysDistinct EveryCidIsFound NamesAreTrue AppListIsTrue HostFileIsRight LoginFilesAreRight ConfiguratorIsRight
PROPERTY ImplementsPortMap
