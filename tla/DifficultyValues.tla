-------------------------- MODULE DifficultyValues --------------------------
(***************************************************************************)
(* The number of iterations of a sub-slot and the difficulty, epoch after  *)
(* epoch (_get_next_sub_slot_iters, _get_next_difficulty), for any number  *)
(* of iterations and blocks an epoch takes and any timestamps its blocks   *)
(* carry.                                                                  *)
(***************************************************************************)
EXTENDS Integers, FiniteSetsExt

CONSTANTS
    SpsPerSlot,         \* NUM_SPS_SUB_SLOT
    MaxFactor,          \* DIFFICULTY_CHANGE_MAX_FACTOR
    SignificantBits,    \* SIGNIFICANT_BITS
    SlotTimeTarget,     \* SUB_SLOT_TIME_TARGET
    SlotBlocksTarget,   \* SLOT_BLOCKS_TARGET
    StartingIters, StartingDifficulty,
    EpochSlots,         \* sub-slots an epoch may take
    EpochSize,          \* blocks an epoch may take
    EpochTimes,         \* seconds between the two blocks the epoch is measured with
    ValueBound          \* largest value followed

ASSUME DifficultyAssumption ==
    /\ SpsPerSlot \in {2 ^ k : k \in 0 .. 10} /\ MaxFactor \in Nat /\ MaxFactor > 1
    /\ SignificantBits \in Nat \ {0} /\ SlotTimeTarget \in Nat \ {0} /\ SlotBlocksTarget \in Nat \ {0}
    /\ StartingDifficulty \in Nat \ {0} /\ StartingIters \in Nat \ {0} /\ StartingIters % SpsPerSlot = 0
    /\ EpochSlots \subseteq Nat \ {0} /\ EpochSize \subseteq Nat \ {0} /\ EpochTimes \subseteq Nat \ {0}

VARIABLES slotIters, difficulty

difficultyVars == <<slotIters, difficulty>>

\* significant_bits.py
BitLength(x) == IF x = 0 THEN 0 ELSE CHOOSE k \in 1 .. x : 2 ^ (k - 1) <= x /\ x < 2 ^ k
Truncate(x) ==
    IF SignificantBits > BitLength(x) THEN x ELSE x - (x % (2 ^ (BitLength(x) - SignificantBits)))
CountSignificantBits(x) ==
    IF x = 0 THEN 0 ELSE BitLength(x) - Max({k \in 0 .. BitLength(x) : x % (2 ^ k) = 0})

\* Only change by a max factor, and not below the least value.  Mutant: the factor
\* only bounds a fall.
ClampedUp(new, old, least) ==
    IF new >= old THEN new ELSE Max({least, new, old \div MaxFactor})
Clamped(new, old, least) ==
    IF new >= old THEN Min({new, MaxFactor * old}) ELSE Max({least, new, old \div MaxFactor})

Divisible(x) == Truncate(x) - (Truncate(x) % SpsPerSlot)
NextSlotIters(iters, time) ==
    Divisible(Clamped((SlotTimeTarget * iters) \div time, slotIters, SpsPerSlot))
NextDifficulty(weight, time) ==
    Truncate(Clamped((weight * SlotTimeTarget) \div (SlotBlocksTarget * time), difficulty, 1))

DifficultyInit == slotIters = StartingIters /\ difficulty = StartingDifficulty

NewEpoch(slots, blocks, time) ==
    /\ slotIters' = NextSlotIters(slots * slotIters, time)
    /\ difficulty' = NextDifficulty(blocks * difficulty, time)

DifficultyNext ==
    /\ slotIters <= ValueBound /\ difficulty <= ValueBound
    /\ \E slots \in EpochSlots, blocks \in EpochSize, time \in EpochTimes : NewEpoch(slots, blocks, time)

-----------------------------------------------------------------------------
\* Whatever the timestamps, a sub-slot stays divisible into its signage points, which
\* calculate_sp_interval_iters asserts and the division by its length needs, and the
\* values have no more significant bits than the code asserts.
ValuesUsable ==
    /\ slotIters > 0 /\ slotIters % SpsPerSlot = 0
    /\ difficulty > 0
    /\ CountSignificantBits(slotIters) <= SignificantBits \/ slotIters = StartingIters
    /\ CountSignificantBits(difficulty) <= SignificantBits \/ difficulty = StartingDifficulty

\* The values stay usable, and no epoch changes the difficulty or the length of a
\* sub-slot by more than the factor, but for the bits that are cut off afterwards
\* (DIFFICULTY_CHANGE_MAX_FACTOR).
AdjustmentSound ==
    [][ difficultyVars' # difficultyVars =>
          /\ ValuesUsable'
          /\ difficulty' <= MaxFactor * difficulty
          /\ difficulty' >= Truncate(difficulty \div MaxFactor)
          /\ slotIters' <= MaxFactor * slotIters
          /\ slotIters' >= Divisible(slotIters \div MaxFactor) ]_difficultyVars
=============================================================================
