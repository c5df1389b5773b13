SPECIFICATION Spec
CONSTANTS
  NoBlock = NoBlock
  Genesis = Genesis
  NoSp = NoSp
  Unknown = Unknown
  Blocks <- MCBlocks
  Prev <- MCPrev
  Height <- MCHeight
  Weight <- MCWeight
  Path <- MCPath
  Iters <- MCIters
  Finished <- MCFinished
  BlockSp <- MCBlockSp
  Eos <- MCEos
  EosNumber <- MCEosNumber
  EosRc <- MCEosRc
  SlotIters = 8
  NUM_SPS_SUB_SLOT = 4
  InfusionDelay = 3
  SpMessages <- MCSpMessages
  EosMessages <- MCEosMessages
  IpMessages <- MCIpMessages
  BlockMessages <- MCBlockMessages
  UnfinishedMessages <- MCUnfinished
  PeerSlots <- MCPeerSlots
  FarmedSps <- MCFarmed
  LookBack = 10
  KeepDepth = 1
  ClearInterval = 2
  CBlocks <- MCCBlocks
  NoCBlock = "none"
  CHeight <- MCCHeight
  CWeight <- MCCWeight
  CPath <- MCCPath
  Vdfs <- MCVdfs
  Wanted <- MCVdfs
  CTasks = {"x1", "x2"}
  NoCTask = "none"
  ReorgWindow = 1
  ScanBatch = 2
  Hosts = {"h1", "h2", "h3"}
  Ports = {1, 2}
  Sources = {"x", "y"}
  NewSlots = {"n1", "n2"}
  TriedSlots = {"t1", "t2"}
  NewSlotOf <- MCNewSlotOf
  TriedSlotOf <- MCTriedSlotOf
  NewBucketsPerAddress = 2
  TriedCollisionSize = 1
  IdBound = 3
CHECK_DEADLOCK FALSE
INVARIANTS StoreFollowsChain AddressTablesSound
PROPERTIES EarlyArrivalsAreUsed CompactionOnlyAdds
