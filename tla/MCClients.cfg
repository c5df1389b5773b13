SPECIFICATION Spec
CONSTANTS
  NoBlock = "none"
  Blocks <- MCBlocks
  Prev <- MCPrev
  Height <- MCHeight
  Weight <- MCWeight
  Path <- MCPath
  Coins = {"c1", "c2", "d1", "e1"}
  Earns <- MCEarns
  Txs = {"t1", "t2", "t3"}
  Spends <- MCSpends
  Change <- MCChange
  Includes <- MCIncludes
  Peers = {"p"}
  Upsets <- MCUpsets
  AckBound = 1
  RecentBlocks = 5
  NearBlocks = 2
  ShortSyncBlocks = 1
  BatchSize = 2
  TipBound = 8
  FaultBound = 2
  Pools = {"A", "B"}
  RelativeLock = 1
  ReorgDepth = 2
  TripBound = 2
  ClaimBound = 1
  ReorgBound = 1
  DeleteBound = 1
  MyCoins <- MCMyCoins
  OfferCoins <- MCOfferCoins
  OfferSize = 2
  TradeBound = 3
  CancelBound = 1
  SubSlotIters = 4
  NumSps = 2
  MinBlocks = 2
  MaxSlotBlocks = 1
  TBlocks = {"a"}
  SpOf <- MCSpOf
  IpOf <- MCIpOf
  Clients = 3
  OtherPeaks <- MCOtherPeaks
  CrashKinds = {"running", "reset"}
  StateBound = 2
  PeakBound = 1
  CrashBound = 1
  ResetBound = 3
  EventBound = 2
CHECK_DEADLOCK FALSE
INVARIANTS WalletFollowsChain TradesSound
PROPERTIES WalletCatchesUp JourneysSound TimelordSound
