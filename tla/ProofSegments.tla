---------------------------- MODULE ProofSegments ----------------------------
(***************************************************************************)
(* The segments of a weight proof (full_node/weight_proof.py): the ends of *)
(* sub-slots and the blocks around each challenge block of a sub-epoch,    *)
(* from which the other side must find again where every VDF starts        *)
(* without the blocks themselves.  A VDF output is the height of the block *)
(* it belongs to; Default is the element a VDF starts a sub-slot with.     *)
(*                                                                         *)
(* Heights count from 1 here, so that 0 is free for Default.  The genesis  *)
(* block opens sub-epoch 0; ses is the block that carries the summary that *)
(* opens the next one (0: not yet), always in the first of the sub-slots   *)
(* that block finishes.                                                    *)
(***************************************************************************)
EXTENDS Integers, Sequences, SequencesExt, FiniteSetsExt

CONSTANTS
    MinDeficit,       \* MIN_BLOCKS_PER_CHALLENGE_BLOCK
    SlotSps,          \* NUM_SPS_SUB_SLOT
    ExtraSps,         \* NUM_SP_INTERVALS_EXTRA
    IntervalIters,
    SlotSteps,        \* how many sub-slots a block may finish at most
    BoxedSets,        \* the sets of sub-slots whose end may be normalized
    LengthBound

ASSUME SegmentAssumption == ExtraSps < SlotSps /\ IntervalIters > 1

VARIABLES chain, ses, boxed      \* boxed: the sub-slots with a normalized end

segmentVars == <<chain, ses, boxed>>

Default == 0
SubSlotIters == SlotSps * IntervalIters

-----------------------------------------------------------------------------
(* The chain. *)

IsOverflowSp(sp) == sp >= SlotSps - ExtraSps
InfusionIters(sp, required) == (sp * IntervalIters + ExtraSps * IntervalIters + required) % SubSlotIters

Finished(h) == IF h = 1 THEN chain[1].slot ELSE chain[h].slot - chain[h - 1].slot
NewSlot(h) == Finished(h) > 0
Overflows(h) == IsOverflowSp(chain[h].sp)
TotalIters(h) == chain[h].slot * SubSlotIters + chain[h].ip
SpTotalIters(h) ==
    (IF Overflows(h) THEN chain[h].slot - 1 ELSE chain[h].slot) * SubSlotIters + chain[h].sp * IntervalIters

\* BlockRecord: the genesis block counts as the first of its sub-slot.
FirstInSlot(h) == NewSlot(h) \/ h = 1
SlotHashes(h) == IF h = 1 THEN Max({1, Finished(1)}) ELSE Finished(h)

\* calculate_deficit.
NextDeficit(previous, overflow, finished) ==
    IF previous = MinDeficit /\ overflow /\ finished = 0 THEN previous
    ELSE IF previous > 0 THEN previous - 1
    ELSE IF finished = 0 THEN 0
    ELSE IF finished = 1 /\ overflow THEN MinDeficit
    ELSE MinDeficit - 1

IsChallenge(h) == chain[h].deficit = MinDeficit - 1

NewBlock(slot, sp, required, withSummary) ==
    LET last == Last(chain)
        ip == InfusionIters(sp, required)
        finished == slot - last.slot
        deficit == NextDeficit(last.deficit, IsOverflowSp(sp), finished)
    IN  /\ Len(chain) < LengthBound
        /\ IsOverflowSp(sp) => slot > 0
        /\ finished = 0 => ip > last.ip
        /\ withSummary => ses = 0 /\ finished > 0 /\ last.deficit = 0
        /\ chain' = Append(chain, [slot |-> slot, sp |-> sp, ip |-> ip, deficit |-> deficit])
        /\ ses' = IF withSummary THEN Len(chain) + 1 ELSE ses
        /\ UNCHANGED boxed

SegmentInit ==
    /\ \E slot \in 0 .. SlotSteps, sp \in 0 .. SlotSps - 1, required \in 1 .. IntervalIters - 1 :
        /\ IsOverflowSp(sp) => slot > 0
        /\ chain = <<[slot |-> slot, sp |-> sp, ip |-> InfusionIters(sp, required), deficit |-> MinDeficit - 1]>>
    /\ ses = 0
    /\ boxed \in BoxedSets

SegmentNext ==
    \E skipped \in 0 .. SlotSteps, sp \in 0 .. SlotSps - 1, required \in 1 .. IntervalIters - 1, w \in BOOLEAN :
        NewBlock(Last(chain).slot + skipped, sp, required, w)

SegmentSpec == SegmentInit /\ [][SegmentNext]_segmentVars

-----------------------------------------------------------------------------
(* Where the VDF to a signage point starts, from the chain. *)

\* The last of the blocks from h down that is not past the point, without
\* leaving the sub-slot of h.
BackTo(h, point) ==
    LET start == Max({g \in 1 .. h : FirstInSlot(g)})
        before == {g \in start .. h : TotalIters(g) <= point}
    IN  IF before = {} THEN start ELSE Max(before)

\* Case 5: not the first of its sub-slot, and the signage point is in the
\* sub-slot before.  The walk stops once two finished sub-slots were seen.
OverflowStart(h) ==
    LET point == SpTotalIters(h)
        seen(g) == MapThenSumSet(SlotHashes, {f \in g .. h - 1 : FirstInSlot(f)})
        stop == Max({1} \cup {g \in 1 .. h - 1 : seen(g) >= 2})
        before == {g \in stop .. h - 1 : TotalIters(g) < point /\ (g = stop \/ seen(g) < 2)}
    IN  IF before = {} THEN Default ELSE Max(before)

\* get_signage_point_vdf_info.
SignagePointStart(h) ==
    LET curr == BackTo(h - 1, SpTotalIters(h))
    IN  IF NewSlot(h) /\ (~Overflows(h) \/ Finished(h) > 1) THEN Default
        ELSE IF h = 1 THEN Default
        ELSE IF ~NewSlot(h) /\ Overflows(h) THEN OverflowStart(h)
        ELSE IF TotalIters(curr) < SpTotalIters(h) THEN curr
        ELSE Default

-----------------------------------------------------------------------------
(* Making a segment: the end of the sub-slot before slot k is [slot |-> k]. *)

EosEntries(h) == [i \in 1 .. Finished(h) |-> [type |-> "eos", slot |-> chain[h].slot - Finished(h) + i]]
BlockEntry(h) == [type |-> "block", height |-> h]

\* The sub-slot the block before h is in has a normalized end.
Boxed(h) == chain[h].slot - Finished(h) \in boxed

\* __first_sub_slot_vdfs: the block the entries before a challenge block start at.
SegmentStart(h, first) ==
    IF first /\ h > 1 THEN ses
    ELSE IF Overflows(h) /\ NewSlot(h) THEN
        LET seen(g) == MapThenSumSet(SlotHashes, {f \in g .. h : FirstInSlot(f)})
            twoSlots == {g \in 2 .. h : seen(g) >= 2}
        IN  IF twoSlots = {} THEN 1 ELSE Max(twoSlots) - 1
    ELSE Max({g \in 1 .. h : FirstInSlot(g)})

\* The blocks of a sub-slot are left out when its end is normalized.
EntriesBefore(h, first) ==
    LET step(acc, g) ==
            IF NewSlot(g)
            THEN [kept |-> (IF Boxed(g) THEN acc.kept ELSE acc.kept \o acc.held) \o EosEntries(g),
                  held |-> <<BlockEntry(g)>>]
            ELSE [acc EXCEPT !.held = Append(@, BlockEntry(g))]
        start == SegmentStart(h, first)
        end == FoldLeft(step, [kept |-> <<>>, held |-> <<>>], [i \in 1 .. h - start |-> start + i - 1])
    IN  end.kept \o end.held \o EosEntries(h)

NextChallenge(h) == Min({g \in h + 1 .. Len(chain) : IsChallenge(g)})

\* __slot_end_vdf: everything up to the next challenge block.
EntriesAfter(h) ==
    FlattenSeq([i \in 1 .. NextChallenge(h) - h - 1 |-> Append(EosEntries(h + i), BlockEntry(h + i))])

\* _create_challenge_segment.
Segment(h, first) == EntriesBefore(h, first) \o <<[type |-> "challenge", height |-> h]>> \o EntriesAfter(h)

\* __create_sub_epoch_segments: the challenge blocks whose segments can be made,
\* and the one that opens its sub-epoch.
Challenges == {h \in 1 .. Len(chain) : IsChallenge(h) /\ \E g \in h + 1 .. Len(chain) : IsChallenge(g)}
OpensSubEpoch(h) ==
    \/ h = 1
    \/ ses > 0 /\ ses <= h /\ \A g \in ses .. h - 1 : ~IsChallenge(g)

-----------------------------------------------------------------------------
(* Checking a segment. *)

IsEos(entry) == entry.type = "eos"

\* The block of the entry, its output when it is before the point.
OutputBefore(entry, point) ==
    IF ~IsEos(entry) /\ TotalIters(entry.height) < point THEN entry.height ELSE Default

InputAfterSlotNear(slots, i, point) ==
    IF i < 3 \/ IsEos(slots[i - 2]) THEN Default ELSE OutputBefore(slots[i - 2], point)

\* sub_slot_data_vdf_input: the first block of a sub-slot, an overflow block.
InputAfterSlot(slots, i, point) ==
    IF i < 3 \/ IsEos(slots[i - 2]) THEN Default
    ELSE LET stops == {j \in 1 .. i - 2 : IsEos(slots[j]) \/ TotalIters(slots[j].height) <= point}
             stop == IF stops = {} THEN 1 ELSE Max(stops)
         IN  OutputBefore(slots[IF IsEos(slots[stop]) THEN stop + 1 ELSE stop], point)

\* sub_slot_data_vdf_input: not the first of its sub-slot, not an overflow block.
InputInSlot(slots, i, point) ==
    LET stops == {j \in 1 .. i - 1 : IsEos(slots[j]) \/ TotalIters(slots[j].height) <= point}
        stop == IF stops = {} THEN 1 ELSE Max(stops)
    IN  OutputBefore(slots[IF IsEos(slots[stop]) THEN stop + 1 ELSE stop], point)

\* sub_slot_data_vdf_input: an overflow block, not the first of its sub-slot.
InputBeforeSlot(slots, i, point) ==
    LET ends(j) == Cardinality({k \in j .. i - 1 : IsEos(slots[k])})
        stops == {j \in 1 .. i - 1 : \/ IsEos(slots[j]) /\ ends(j) = 2
                                     \/ ~IsEos(slots[j]) /\ TotalIters(slots[j].height) <= point}
        stop == IF stops = {} THEN 1 ELSE Max(stops)
    IN  OutputBefore(slots[stop], point)

\* _validate_challenge_block_vdfs, _validate_sub_slot_data: the start of the VDF
\* to the signage point of entry i.
SpInput(slots, i) ==
    LET h == slots[i].height
        point == SpTotalIters(h)
    IN  IF i = 1 THEN Default
        ELSE IF Overflows(h) /\ IsEos(slots[i - 1]) THEN InputAfterSlot(slots, i, point)
        ELSE IF Overflows(h) THEN InputBeforeSlot(slots, i, point)
        ELSE IF IsEos(slots[i - 1]) THEN Default
        ELSE InputInSlot(slots, i, point)

\* The start of the VDF to the infusion point of entry i, or to an end of sub-slot.
IpInput(slots, i) == IF i = 1 \/ IsEos(slots[i - 1]) THEN Default ELSE slots[i - 1].height

\* The blocks that have an infused challenge chain.
HasIccIp(h) == chain[h].deficit < MinDeficit - 1

\* The start of the infused challenge chain's VDF at entry i.
IccInput(slots, i) ==
    IF ~IsEos(slots[i - 1]) /\ HasIccIp(slots[i - 1].height) THEN slots[i - 1].height ELSE Default

\* Intermediate VDFs are not looked at when the sub-slot's end is normalized.
Skipped(slots, i) ==
    \E j \in i .. Len(slots) - 1 :
        /\ IsEos(slots[j]) /\ slots[j].slot - 1 \in boxed
        /\ \A k \in i .. j - 1 : ~IsEos(slots[k])

\* __get_cc_sub_slot: the sub-slot whose hash is the challenge, and whether the
\* summary is hashed with it.
CcSubSlot(slots, i, first) ==
    LET end == slots[Max({j \in 1 .. i - 1 : IsEos(slots[j])})]
    IN  [slot |-> end.slot, summary |-> first]

\* __get_rc_sub_slot: the same for the sub-slot in the next summary.
RcSubSlot(slots) ==
    LET first == Min({i \in DOMAIN slots : ~IsEos(slots[i])})
        overflow == Overflows(slots[first].height)
        n == IF overflow /\ first >= 3 /\ ~IsEos(slots[first - 2]) THEN 2 ELSE 1
        ends == {j \in 1 .. first - 1 : IsEos(slots[j])}
        end == CHOOSE j \in ends : Cardinality({k \in ends : k >= j}) = n
    IN  [slot |-> slots[end].slot,
         summary |-> ~(overflow /\ first >= 3 /\ IsEos(slots[first - 2]) /\ IsEos(slots[first - 1]))]

-----------------------------------------------------------------------------
(* Properties. *)

\* The last block infused before the signage point in the point's sub-slot.
TrueStart(h) ==
    LET point == SpTotalIters(h)
        slot == IF Overflows(h) THEN chain[h].slot - 1 ELSE chain[h].slot
        before == {g \in 1 .. h - 1 : chain[g].slot = slot /\ TotalIters(g) < point}
    IN  IF before = {} THEN Default ELSE Max(before)

\* The walk back over block records finds the last block infused before the
\* signage point in its sub-slot, in each of its six cases, also over empty
\* sub-slots and next to genesis (get_signage_point_vdf_info).
SignagePointsStartRight == \A h \in DOMAIN chain : SignagePointStart(h) = TrueStart(h)

\* In a segment made by an honest node every VDF the other side looks at starts
\* where it really started, though entries were left out for normalized
\* sub-slots and the walk is over entries instead of blocks
\* (_create_challenge_segment against _validate_segment).
SegmentVdfsStartRight ==
    \A h \in Challenges :
        LET slots == Segment(h, OpensSubEpoch(h))
            own == Min({i \in DOMAIN slots : slots[i].type = "challenge"})
        IN  /\ SpInput(slots, own) = TrueStart(h)
            /\ IpInput(slots, own) = IF NewSlot(h) \/ h = 1 THEN Default ELSE h - 1
            /\ \A i \in own + 1 .. Len(slots) :
                IF IsEos(slots[i]) THEN
                    LET before == {g \in DOMAIN chain : chain[g].slot = slots[i].slot - 1}
                        last == IF before = {} THEN Default ELSE Max(before)
                    IN  /\ IpInput(slots, i) = last
                        /\ IccInput(slots, i) = IF last = h THEN Default ELSE last
                ELSE LET g == slots[i].height IN
                    Skipped(slots, i) \/
                    /\ SpInput(slots, i) = TrueStart(g)
                    /\ IpInput(slots, i) = IF NewSlot(g) THEN Default ELSE g - 1
                    /\ HasIccIp(g) => IccInput(slots, i) = IF NewSlot(g) \/ g - 1 = h THEN Default ELSE g - 1

\* The sub-slot a challenge block's proof of space is checked against, and the
\* one the next summary is checked against, are the real ones, with the summary
\* hashed in exactly when the sub-slot carries it.  The summary is in the first
\* sub-slot its block finishes, so two cases are left out: the first challenge
\* block is in a later sub-slot, and the summary's block comes after an empty
\* sub-slot without being an overflow block (__validate_pospace,
\* __get_rc_sub_slot).
SegmentChallengesRight ==
    \A h \in Challenges :
        LET first == OpensSubEpoch(h) /\ h > 1
            slots == Segment(h, OpensSubEpoch(h))
            own == Min({i \in DOMAIN slots : slots[i].type = "challenge"})
            summarySlot == IF ses = 0 THEN 0 ELSE chain[ses].slot - Finished(ses) + 1
            hash(slot) == [slot |-> slot, summary |-> ses > 0 /\ slot = summarySlot]
        IN  /\ own > 1 /\ ~Overflows(h) /\ (first => chain[h].slot = summarySlot)
                => CcSubSlot(slots, own, first) = hash(chain[h].slot)
            /\ first /\ (Finished(ses) = 1 \/ Overflows(ses))
                => RcSubSlot(slots) = hash(chain[ses].slot)

\* Everything the validation of an honest segment rebuilds from its entries is what
\* the blocks had.
SegmentsVerify == SignagePointsStartRight /\ SegmentVdfsStartRight /\ SegmentChallengesRight
=============================================================================
