--------------------------- MODULE ConsensusRules ---------------------------
(***************************************************************************)
(* Sub-slots, deficits and sub-epoch summaries (deficit.py,                *)
(* difficulty_adjustment.py, make_sub_epoch_summary.py,                    *)
(* block_header_validation.py): what validation demands of the sub-slots   *)
(* and blocks that extend a chain, and how the two that build them, a      *)
(* timelord from its own state (timelord.py, timelord_state.py) and the    *)
(* full node that tells it the peak (full_node.py), work the same numbers  *)
(* out on their own.                                                       *)
(*                                                                         *)
(* The chain is kept as its last block and the landmarks the code walks    *)
(* back to: the last summary, the last one with a new difficulty, the last *)
(* transaction block, the last challenge block of the sub-slot.  Positions *)
(* are iterations from the start of the sub-slot.  A summary is known by   *)
(* the block whose summary it follows and by whether it changes the        *)
(* difficulty; the values are those of DifficultyValues.  The number of    *)
(* iterations of a sub-slot is the same in every epoch, and at most one    *)
(* block is infused between a block's signage point and its infusion.      *)
(***************************************************************************)
EXTENDS Integers, Sequences

CONSTANTS
    MinBlocks,        \* MIN_BLOCKS_PER_CHALLENGE_BLOCK
    MaxSlotBlocks,    \* MAX_SUB_SLOT_BLOCKS
    SubEpochBlocks,   \* SUB_EPOCH_BLOCKS
    EpochBlocks,      \* EPOCH_BLOCKS
    NumSps,           \* NUM_SPS_SUB_SLOT
    ExtraIntervals,   \* NUM_SP_INTERVALS_EXTRA
    SpIntervalIters,  \* calculate_sp_interval_iters
    Modes,            \* [own, slots, miss]: whether the timelord makes its own peaks, the most
                      \* sub-slots between blocks, whether it can miss a peak
    HeightBound

ASSUME ConsensusAssumption ==
    /\ MinBlocks \in Nat /\ MinBlocks > 1 /\ MaxSlotBlocks \in Nat /\ MaxSlotBlocks > MinBlocks
    \* More than the comment in constants.py asks for, and less than default_constants.py
    \* has: a summary that is late by as much as it can be is not near the next sub-epoch.
    /\ SubEpochBlocks \in Nat /\ MinBlocks + 2 * MaxSlotBlocks + ExtraIntervals - 2 < SubEpochBlocks
    /\ EpochBlocks \in Nat /\ EpochBlocks > SubEpochBlocks /\ EpochBlocks % SubEpochBlocks = 0
    /\ NumSps \in Nat /\ ExtraIntervals \in 1 .. NumSps - 1 /\ SpIntervalIters \in Nat /\ SpIntervalIters > 1
    /\ Modes \subseteq [own : BOOLEAN, slots : Nat, miss : BOOLEAN]
    /\ HeightBound \in Nat

VARIABLES
    tip,      \* the last block, with the landmarks behind it
    ended,    \* the sub-slots ended since, as the timelord built them
    tl,       \* the timelord's last_state
    synced,   \* the timelord's state is on top of tip and ended
    mode

consensusVars == <<tip, ended, tl, synced, mode>>

SlotIters == NumSps * SpIntervalIters
None == -1
NoSummary == [follows |-> -2, epoch |-> FALSE]

-----------------------------------------------------------------------------
\* pot_iterations.py, with the least number of iterations required.
IsOverflow(sp) == sp >= NumSps - ExtraIntervals
SpIters(sp) == sp * SpIntervalIters
IpIters(sp) == ((sp + ExtraIntervals) * SpIntervalIters + 1) % SlotIters
\* The signage point, from the start of the sub-slot of the infusion.
SpTotal(sp) == SpIters(sp) - (IF IsOverflow(sp) THEN SlotIters ELSE 0)

\* A position n sub-slots later; nothing looks back further than one sub-slot.
Later(at, n) == IF at - n * SlotIters < -SlotIters THEN -SlotIters ELSE at - n * SlotIters

\* calculate_deficit of a block n sub-slots after one with deficit d.
Deficit(d, ov, n) ==
    CASE d = MinBlocks -> IF ov /\ n = 0 THEN d ELSE d - 1
      [] d = 0 -> IF n = 0 THEN 0 ELSE IF n = 1 /\ ov THEN MinBlocks ELSE MinBlocks - 1
      [] OTHER -> d - 1

\* height_can_be_first_in_epoch
CanBeFirstInEpoch(h) == (h - (h % SubEpochBlocks)) % EpochBlocks = 0
\* The first height of the sub-epoch of h, where the walks through a sub-epoch end.
SubEpochStart(h) == h - (h % SubEpochBlocks)

\* can_finish_sub_and_full_epoch after block t.
JustIncluded(t) == t.ses = t.height
CanFinishSubEpoch(t) ==
    /\ t.height >= SubEpochBlocks - 1
    /\ t.deficit = 0
    /\ ~JustIncluded(t)
    /\ (t.height + 1) % SubEpochBlocks > 1 => t.prevSes < SubEpochStart(t.height - 1)
CanFinishEpoch(t) == CanFinishSubEpoch(t) /\ CanBeFirstInEpoch(t.height + 1)

\* make_sub_epoch_summary for a block at height h, the last summary being at ses.
MakeSummary(h, ses, epoch) ==
    IF (h + MaxSlotBlocks) \div SubEpochBlocks <= 1
    THEN [follows |-> None, epoch |-> FALSE]
    ELSE [follows |-> ses, epoch |-> epoch]

\* next_sub_epoch_summary with can_finish_soon, for a block whose previous block is at
\* height p, where the last summary was at ses and the last new difficulty at epo.
EpochSoon(p, epo) ==
    IF CanBeFirstInEpoch(p + 2)
    THEN (p + 2) % SubEpochBlocks > 1 => epo < SubEpochStart(p)
    ELSE CanBeFirstInEpoch(p + MaxSlotBlocks + 2)
NextSummary(p, ses, epo) ==
    IF p = 0 THEN NoSummary ELSE MakeSummary(p + 2, ses, EpochSoon(p, epo))

-----------------------------------------------------------------------------
\* validate_unfinished_header_block: the sub-slots es after block t (checks 2e-2n, 2s, 2t).
ExpectedIcc(t, es, k) ==
    CASE t.deficit = MinBlocks -> None
      [] t.deficit # MinBlocks /\ k = 1 -> SlotIters - t.csb
      [] OTHER -> IF es[k - 1].deficit < MinBlocks THEN SlotIters ELSE None
SubSlotsValid(t, es) ==
    \A k \in DOMAIN es :
        /\ es[k].icc = ExpectedIcc(t, es, k)
        /\ k > 1 => es[k].sum = NoSummary
        /\ es[k].sum.epoch = (CanFinishEpoch(t) /\ es[k].sum # NoSummary)
        /\ es[k].deficit = IF t.deficit = 0 THEN MinBlocks ELSE t.deficit

\* Check 3: the summary is there when it must be, and is the one validation makes.
SummaryValid(t, es) ==
    IF es[1].sum = NoSummary
    THEN ~CanFinishSubEpoch(t)
    ELSE /\ CanFinishSubEpoch(t)
         /\ es[1].sum = MakeSummary(t.height + 1, t.prevSes, CanFinishEpoch(t))

\* Checks 4, 9, and 31 of validate_finished_header_block, for a block with the signage
\* point sp, and an infused challenge chain if icc.
RoomInSlot(t, es) == es # <<>> \/ t.blocks + 1 <= MaxSlotBlocks
\* Mutant of the second: one sub-slot is enough.
NoEarlyOverflowNearly(t, es, sp) ==
    ~(IsOverflow(sp) /\ es # <<>> /\ CanFinishEpoch(t) /\ Len(es) < 1)
NoEarlyOverflow(t, es, sp) ==
    ~(IsOverflow(sp) /\ es # <<>> /\ CanFinishEpoch(t) /\ Len(es) < 2)
IccValid(t, es, sp, icc) == icc = (Deficit(t.deficit, IsOverflow(sp), Len(es)) < MinBlocks - 1)
BlockValid(t, es, sp, icc) ==
    RoomInSlot(t, es) /\ NoEarlyOverflow(t, es, sp) /\ IccValid(t, es, sp, icc)

\* Check 15 and get_prev_transaction_block: the first block whose signage point is past
\* the last transaction block is one.
IsTransactionBlock(t, es, sp) == SpTotal(sp) > Later(t.lastTx, Len(es))

\* The signage point comes with a sub-slot of the chain, and the infusion after the last.
Infusible(t, es, sp) ==
    /\ es = <<>> => IpIters(sp) > t.ip
    /\ IsOverflow(sp) => es # <<>> \/ ~t.first
    /\ Later(t.prevAt, Len(es)) <= SpTotal(sp)

\* block_to_block_record, with unfinished_block_to_full_block.
NewTip(sp) ==
    LET n == Len(ended)
        ov == IsOverflow(sp)
        d == Deficit(tip.deficit, ov, n)
        sum == IF n = 0 THEN NoSummary ELSE ended[1].sum
        tx == IsTransactionBlock(tip, ended, sp)
    IN  [height |-> tip.height + 1, deficit |-> d, ov |-> ov, tx |-> tx, n |-> n,
         ip |-> IpIters(sp), prevAt |-> Later(tip.ip, n),
         blocks |-> IF n = 0 THEN tip.blocks + 1 ELSE 1,
         first |-> tip.first /\ n = 0,
         fresh |-> IF n = 0 THEN tip.fresh ELSE n = 1 /\ sum.epoch,
         csb |-> IF d = MinBlocks - 1 THEN IpIters(sp) ELSE IF n = 0 THEN tip.csb ELSE 0,
         lastTx |-> IF tx THEN IpIters(sp) ELSE Later(tip.lastTx, n),
         ses |-> IF sum # NoSummary THEN tip.height + 1 ELSE tip.ses,
         prevSes |-> tip.ses,
         epo |-> IF sum.epoch THEN tip.height + 1 ELSE tip.epo,
         prevEpo |-> tip.epo,
         summaries |-> tip.summaries + (IF sum # NoSummary THEN 1 ELSE 0),
         since |-> (IF n > 0 /\ tip.deficit = 0 THEN 0 ELSE tip.since) + 1]

-----------------------------------------------------------------------------
\* send_peak_to_timelords: what the full node works out about the peak t.  Mutant: only
\* the peak itself is looked at for a summary.
NodeSummary(t) ==
    IF t.height = 0 \/ JustIncluded(t)
    THEN NoSummary
    ELSE NextSummary(t.height - 1, t.prevSes, t.prevEpo)
PassedButNotIncluded(t) ==
    SubEpochStart(t.height) # 0 /\ t.ses < SubEpochStart(t.height)
NodePeak(t) ==
    [height |-> t.height, deficit |-> t.deficit, ip |-> t.ip, sum |-> NodeSummary(t),
     passed |-> PassedButNotIncluded(t), csb |-> t.csb, tx |-> t.tx, blocks |-> t.blocks]

\* LastState.set_state with a peak, or with the end of the sub-slot.
PeakState(p) ==
    [kind |-> "peak", height |-> p.height, deficit |-> p.deficit, ip |-> p.ip, sum |-> p.sum,
     passed |-> (p.height + 1) % SubEpochBlocks = 0 \/ p.passed,
     infused |-> FALSE, newEpoch |-> FALSE, icc |-> FALSE, csb |-> p.csb, blocks |-> p.blocks,
     lastTx |-> IF p.tx THEN p.ip ELSE tl.lastTx]
HasIcc == tl.deficit < MinBlocks
EosState(e) ==
    [tl EXCEPT !.kind = "eos", !.deficit = e.deficit, !.ip = 0, !.csb = 0, !.blocks = 0,
               !.passed = @ /\ e.sum = NoSummary, !.infused = e.sum # NoSummary,
               !.newEpoch = e.sum.epoch, !.icc = e.icc # None, !.lastTx = Later(@, 1)]

\* _check_for_end_of_subslot.
EosDeficit == IF tl.deficit \in 1 .. MinBlocks - 1 THEN tl.deficit ELSE MinBlocks
TimelordSummary ==
    IF tl.kind = "peak" /\ tl.passed /\ tl.deficit = 0 THEN tl.sum ELSE NoSummary
TimelordEos ==
    [deficit |-> EosDeficit, icc |-> IF HasIcc THEN SlotIters - tl.csb ELSE None, sum |-> TimelordSummary]

\* can_infuse_block.
CanInfuse(ov) ==
    /\ ~(ov /\ tl.newEpoch)
    /\ tl.kind = "eos" \/ tl.blocks < MaxSlotBlocks

\* _check_for_new_ip: the deficit of the timelord's own peak.  Mutant: an overflow block
\* that is the first of a sub-slot always lowers it.
OwnDeficitLower(ov) ==
    IF ov /\ tl.deficit = MinBlocks /\ tl.kind = "peak" THEN MinBlocks
    ELSE IF tl.deficit = 0 THEN 0 ELSE tl.deficit - 1
OwnDeficit(ov) ==
    IF ov /\ tl.deficit = MinBlocks /\ (tl.kind = "peak" \/ tl.icc) THEN MinBlocks
    ELSE IF tl.deficit = 0 THEN 0 ELSE tl.deficit - 1

\* The summary the full node sent along with the unfinished block, when its previous
\* block was the last one before the signage point; the last sub-slot of an overflow
\* block was not there yet.
UnfinishedSummary(sp) ==
    LET n == Len(ended)
        behind == Later(tip.ip, n) > SpTotal(sp)
        slots == (IF behind THEN tip.n ELSE 0) + n - (IF IsOverflow(sp) THEN 1 ELSE 0)
        included == slots > 0 /\ (IF behind /\ tip.n > 0 THEN JustIncluded(tip) ELSE ended[1].sum # NoSummary)
    IN  IF included THEN NoSummary
        ELSE IF behind THEN IF tip.height = 0 THEN NoSummary
                            ELSE NextSummary(tip.height - 1, tip.prevSes, tip.prevEpo)
        ELSE NextSummary(tip.height, tip.ses, tip.epo)

OwnPeak(sp) ==
    LET ov == IsOverflow(sp)
        d == OwnDeficit(ov)
        just == tl.kind = "eos" /\ tl.infused
    IN  [height |-> tl.height + 1, deficit |-> d, ip |-> IpIters(sp),
         sum |-> IF just THEN NoSummary ELSE UnfinishedSummary(sp),
         passed |-> ~just /\ ((tl.height + 1) % SubEpochBlocks = 0 \/ tl.passed),
         csb |-> IF d = MinBlocks - 1 THEN IpIters(sp) ELSE tl.csb,
         tx |-> tl.lastTx < SpTotal(sp), blocks |-> tl.blocks + 1]

-----------------------------------------------------------------------------
Genesis ==
    [height |-> 0, deficit |-> MinBlocks - 1, ov |-> FALSE, tx |-> TRUE, n |-> 0, ip |-> IpIters(0),
     prevAt |-> -SlotIters, blocks |-> 1, first |-> TRUE, fresh |-> FALSE, csb |-> IpIters(0),
     lastTx |-> IpIters(0), ses |-> None, prevSes |-> None, epo |-> None, prevEpo |-> None,
     summaries |-> 0, since |-> 1]

ConsensusInit ==
    /\ mode \in Modes
    /\ tip = Genesis /\ ended = <<>> /\ synced = TRUE
    /\ tl = [kind |-> "peak", height |-> 0, deficit |-> MinBlocks - 1, ip |-> IpIters(0), sum |-> NoSummary,
             passed |-> FALSE, infused |-> FALSE, newEpoch |-> FALSE, icc |-> FALSE, csb |-> IpIters(0),
             blocks |-> 1, lastTx |-> IpIters(0)]

\* _check_for_end_of_subslot and _handle_subslot_end
EndSubSlot ==
    /\ synced /\ Len(ended) < mode.slots
    /\ ended' = Append(ended, TimelordEos)
    /\ tl' = EosState(TimelordEos)
    /\ UNCHANGED <<tip, synced, mode>>

Extend(sp) ==
    /\ tip.height < HeightBound
    /\ Infusible(tip, ended, sp)
    /\ tip' = NewTip(sp)
    /\ ended' = <<>>
    /\ UNCHANGED mode

\* _check_for_new_ip and _handle_new_peak: the timelord's own infusion point becomes its
\* peak, except for the first few blocks; the full node makes the block of it.
InfuseOwn(sp) ==
    /\ mode.own /\ synced /\ CanInfuse(IsOverflow(sp)) /\ tip.height + 1 >= 5
    /\ Extend(sp)
    /\ tl' = PeakState(OwnPeak(sp))
    /\ UNCHANGED synced

\* A block another timelord infused.
InfuseOther(sp) ==
    /\ synced \/ mode.miss
    /\ \E icc \in BOOLEAN : BlockValid(tip, ended, sp, icc)
    /\ Extend(sp)
    /\ synced' = FALSE
    /\ UNCHANGED tl

\* send_peak_to_timelords, new_peak_timelord and _handle_new_peak
TellTimelord ==
    /\ ~synced
    /\ tl' = PeakState(NodePeak(tip))
    /\ synced' = TRUE
    /\ UNCHANGED <<tip, ended, mode>>

ConsensusNext ==
    \/ EndSubSlot
    \/ \E sp \in 0 .. NumSps - 1 : InfuseOwn(sp) \/ InfuseOther(sp)
    \/ TellTimelord

ConsensusSpec == ConsensusInit /\ [][ConsensusNext]_consensusVars

-----------------------------------------------------------------------------
\* The sub-slots a timelord builds are the ones validation accepts
\* (_check_for_end_of_subslot against checks 2 and 3 of header validation): their
\* deficits, their infused challenge chains, and a summary exactly when one is due.
SubSlotsAccepted == ended # <<>> => SubSlotsValid(tip, ended) /\ SummaryValid(tip, ended)

\* A block a timelord agrees to infuse passes validation (can_infuse_block against
\* checks 4, 9 and 31): room in the sub-slot, no overflow block as an epoch starts, an
\* infused challenge chain exactly when the deficit asks for one.
InfusionsAccepted ==
    \A sp \in 0 .. NumSps - 1 :
        synced /\ Infusible(tip, ended, sp) /\ CanInfuse(IsOverflow(sp))
            => BlockValid(tip, ended, sp, HasIcc)

\* The peak a timelord makes by itself is the one the full node would have sent it
\* (_check_for_new_ip against send_peak_to_timelords), so that skipping the full node's
\* message loses nothing; the summary counts once its height is passed.
Effective(s) == [s EXCEPT !.sum = IF s.passed THEN @ ELSE NoSummary]
TimelordAgrees ==
    mode.own /\ synced /\ tl.kind = "peak"
        => Effective(tl) = Effective(PeakState(NodePeak(tip))) /\ tl.lastTx = tip.lastTx

\* Every sub-epoch gets one summary (can_finish_sub_and_full_epoch), at most
\* 2 * MAX_SUB_SLOT_BLOCKS + MIN_BLOCKS_PER_CHALLENGE_BLOCK - 3 blocks after its
\* height is passed, where _get_second_to_last_transaction_block_in_previous_epoch and
\* make_sub_epoch_summary look for it.
OneSummaryInTime ==
    LET start == SubEpochStart(tip.height)
        missing == start > 0 /\ tip.ses < start
    IN  /\ tip.summaries = tip.height \div SubEpochBlocks - (IF missing THEN 1 ELSE 0)
        /\ missing => tip.height - start <= 2 * MaxSlotBlocks + MinBlocks - 3

\* No overflow block is infused in the first sub-slot of an epoch (check 9), not even
\* after another block, where the check no longer looks.
NoOverflowAsEpochStarts == ~(tip.ov /\ tip.fresh)

\* A challenge slot is closed only once it holds MIN_BLOCKS_PER_CHALLENGE_BLOCK blocks
\* (calculate_deficit against check 2s).
SlotsHoldEnoughBlocks == tip.deficit = 0 => tip.since >= MinBlocks

\* What a timelord that works ahead of the node makes, by its own code for the same
\* rules, is what the node makes and accepts (timelord_state.py against
\* block_header_validation.py).
TimelordAndNodeAgree == SubSlotsAccepted /\ InfusionsAccepted /\ TimelordAgrees

\* The rules on sub-epochs, epochs and challenge slots add up, over every chain the
\* checks let through one block at a time.
EpochRulesKept == OneSummaryInTime /\ NoOverflowAsEpochStarts /\ SlotsHoldEnoughBlocks
=============================================================================
