SPECIFICATION Spec
CONSTANTS
  NoBlock = NoBlock
  NoCoin = NoCoin
  NoRecord = NoRecord
  NoFork = NoFork
  Prev <- MCPrev
  Height <- MCHeight
  Weight <- MCWeight
  Path <- MCPath
  TxBlocks <- MCTxBlocks
  Removals <- MCRemovals
  Additions <- MCAdditions
  Claims <- MCClaims
  Coins <- MCCoins
  ParentCoin <- MCParentCoin
  RewardCoin <- MCRewardCoin
  Amount <- MCAmount
  Fee <- MCFee
  SesBlocks <- MCSesBlocks
  WrongHeight <- MCWrongHeight
  BadHeader <- MCBadHeader
  BadBody <- MCBadBody
  Blocks <- SmallBlocks
  Faults = {"abort"}
  Readers = FALSE
  BLOCKS_CACHE_SIZE = 10
  CoinCacheSize = 10
INVARIANT NoDoubleSpend
