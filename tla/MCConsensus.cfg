SPECIFICATION Spec
CONSTANTS
  MinBlocks = 2
  MaxSlotBlocks = 3
  SubEpochBlocks = 9
  EpochBlocks = 18
  NumSps = 4
  ExtraIntervals = 1
  SpIntervalIters = 2
  Modes <- MCModes
  HeightBound = 30
  SpsPerSlot = 4
  MaxFactor = 3
  SignificantBits = 3
  SlotTimeTarget = 4
  SlotBlocksTarget = 2
  StartingIters = 24
  StartingDifficulty = 7
  EpochSlots = {1, 2, 3}
  EpochSize = {3, 4, 7}
  EpochTimes = {1, 2, 3, 5, 8, 9, 12, 40}
  ValueBound = 300
  SubEpochSize = 2
  EpochSubEpochs = 3
  MaxOverflow = 1
  Difficulties = {1, 3}
  FirstDifficulty = 2
  RecentBlocks = 5
  MaxSamples = 2
  TrunkBound = 8
  BranchBound = 5
  MinDeficit = 2
  SlotSps = 3
  ExtraSps = 2
  IntervalIters = 2
  SlotSteps = 2
  BoxedSets <- MCBoxedSets
  LengthBound = 5
  FSps <- MCFSps
  Qualities = {"q1", "q2"}
  ProofSp <- MCProofSp
  ProofIters <- MCProofIters
  ProofPlot <- MCProofPlot
  PooledPlots = {"p2"}
  MaxPosPerSp = 1
  KeepTime = 1
  TimeBound = 2
  UnplugBound = 1
CHECK_DEADLOCK FALSE
INVARIANTS TimelordAndNodeAgree EpochRulesKept HonestProofsAccepted SegmentsVerify ProofsCanBeUsed
PROPERTY AdjustmentSound
