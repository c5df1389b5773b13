SPECIFICATION FairSpec
CONSTANTS
  NoBlock = NoBlock
  NoCoin = NoCoin
  NoPeer = NoPeer
  Nobody = Nobody
  SyncTask = SyncTask
  Blocks <- MCBlocks
  Prev <- MCPrev
  Height <- MCHeight
  Weight <- MCWeight
  Path <- MCPath
  TxBlocks <- MCBlocks
  Removals <- None
  Additions <- None
  Claims <- None
  Coins <- MCCoins
  ParentCoin <- MCParentCoin
  RewardCoin <- MCHeight
  Amount <- MCAmount
  Fee <- Zero
  SesBlocks = {}
  WrongHeight = {}
  BadHeader = {}
  BadBody <- MCBadBody
  Peers <- MCPeers
  PeerBlocks <- MCPeerBlocks
  Tasks = {k1}
  ShortSyncThreshold = 1
  SyncThreshold = 3
  WEIGHT_PROOF_RECENT_BLOCKS = 3
  BatchSize = 2
  BacktrackDepth = 1
  BatchBack = 1
  ClearInterval = 4
  FaultBound = 1
  FinishBound = 1
  LongWait = TRUE
PROPERTY SyncCompletes
