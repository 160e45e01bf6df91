\* The parts around the message path, one at a time.
CONSTANTS
  PoolConns = {1, 2, 3, 4}
  PoolMaxSize = 2
  PoolMaxLost = 1
  LogThreads = {"t1", "t2"}
  LogMaxOpens = 2
  SystemIDs = {"s1", "s2"}
  Passwords = {"p1", "p2"}
  Addresses = {"a1"}
  AccRequests = {"r1", "r2"}
  AccMaxRows = 2
  AccMaxWrites = 2
  AccMaxRestarts = 1
  UseIPWhitelist = TRUE
  ConfigKeys = {"k1", "k2"}
  MainMaxFaults = 3
  SvWorkers = {"w1", "w2"}
  SvQueueSize = 1
  SvMaxConnections = 1
  Numbers = {"n1", "n2"}
  TraceMessages <- OneMessage
  TrRequests = {"q1", "q2"}
  TraceGoroutines = {"g1"}
  MaxRecent = 1
  LogToDatabase = FALSE
  FrHeader = 2
  FrMaxBody = 1
  FrMaxFrames = 2
SPECIFICATION SupportSpec
INVARIANTS
  PoolLimit
  LinesReachOutput
  MemoryFollowsTable
  SecondLookUpFinds
  RecordedIsMade
  OnlyColumnSticks
  
  VerdictWasTrue
  NumbersFollowTable
  FramesAsSent
PROPERTIES
  LogCallsReturn
  ShutdownEnds
CHECK_DEADLOCK FALSE
