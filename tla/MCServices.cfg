SPECIFICATION Spec
CONSTANTS
  MinDifficulty = 1
  MaxDifficulty = 2
  Updates = {"u"}
  Partials = {"x"}
  PoolFaults = 2
  Starts <- MCStarts
  RequestBound <- MCRequestBound
  DHosts = {"d1", "d2"}
  GroupOf <- MCGroupOf
  TargetOutbound = 2
  CleanupPeers = 1
  MaxPending = 2
  MaxTries = 2
  Neighbours = {"n1", "n2", "n3"}
  MaxReceived = 1
  ReportBound = 2
  PlotBound = 2
  RequestSize = 2
  PlotterCrashes = 1
  ServiceNames = {"node", "wallet"}
  ProcBound = 2
  DaemonBound = 2
  CutBound = 1
  Conns = {"c1", "c2", "c3", "c4"}
  NoConn = "none"
  Peers = {"p1", "p2"}
  PeerOf <- MCPeerOf
  OutboundConns = {"c1"}
  InboundLimit = 1
  BanTimes = {0, 2}
  InvalidProtocolBan = 1
  ClockBound = 2
  MsgTypes = {"a", "b"}
  TxTypes = {"b"}
  Frequency <- MCFrequency
  MaxSize <- MCMaxSize
  MaxTotalSize <- MCMaxTotalSize
  NonTxFreq = 7
  NonTxMaxTotalSize = 9
  MsgSizes = {1}
  SendPercent = 30
  ReceivePercent = 100
  Minute = 2
  Offset = 1
  MaxDelay = 2
  RateClockBound = 6
CHECK_DEADLOCK FALSE
INVARIANT HonestPeerKept
PROPERTIES ConnectionsCloseOnce RequestsSound DifficultySettles DiscoverySound PlotsRunOnce ServicesAccounted
