SPECIFICATION Spec
CONSTANTS
  NoBlock = NoBlock
  NoCoin = NoCoin
  NoRecord = NoRecord
  NoTx = NoTx
  Nobody = Nobody
  PeakTask = PeakTask
  CoinCacheSize = 1
  Prev <- MCPrev
  Height <- MCHeight
  Weight <- MCWeight
  Path <- MCPath
  TxBlocks <- MCTxBlocks
  Removals <- MCRemovals
  Additions <- MCAdditions
  Claims <- MCClaims
  Coins <- MCCoins
  ParentCoin <- MCParentCoin
  RewardCoin <- MCRewardCoin
  Amount <- MCAmount
  Fee <- MCFee
  SesBlocks = {}
  WrongHeight = {}
  BadHeader = {}
  BadBody = {}
  TxRemovals <- MCTxRemovals
  TxAdditions <- MCTxAdditions
  TxCost <- MCTxCost
  TxHeight <- MCTxHeight
  TxAge <- MCTxAge
  TxReserve <- MCTxReserve
  Malformed <- MCMalformed
  BadSignature <- MCBadSignature
  BadConditions = {}
  MaxMempoolCost = 4
  MaxBundleCost = 3
  MinFeePerCost = 1
  MinFeeIncrease = 2
  Blocks <- TaskBlocks
  Txs <- TaskTxs
  Tasks = {k1, k2}
  Cancels = TRUE
  MaxPotentialCost = 3
  SeenCacheSize = 3
  SubmitBound = 1
SYMMETRY TaskSymmetry
INVARIANTS TypeOK IndexExact CostAccounted PoolIsVerified
PROPERTY LeavesForBetter
