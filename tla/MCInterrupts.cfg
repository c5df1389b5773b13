SPECIFICATION FairSpec
CONSTANTS
  NoBlock = NoBlock
  NoCoin = NoCoin
  NoRecord = NoRecord
  NoFork = NoFork
  Prev <- MCPrev
  Height <- MCHeight
  Weight <- MCWeight
  Path <- MCPath
  TxBlocks <- MCTxBlocks
  Removals <- MCRemovals
  Additions <- MCAdditions
  Claims <- MCClaims
  Coins <- MCCoins
  ParentCoin <- MCParentCoin
  RewardCoin <- MCRewardCoin
  Amount <- MCAmount
  Fee <- MCFee
  SesBlocks <- MCSesBlocks
  WrongHeight <- MCWrongHeight
  BadHeader <- MCBadHeader
  BadBody <- MCBadBody
  Blocks <- FaultBlocks
  Faults = {"crash", "abort", "cancel_at_commit", "ses_mismatch"}
  Readers = TRUE
  BLOCKS_CACHE_SIZE = 1
  CoinCacheSize = 1
PROPERTIES ReceiveTerminates PeakNeverLighter
