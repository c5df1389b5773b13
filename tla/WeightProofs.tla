---------------------------- MODULE WeightProofs ----------------------------
(***************************************************************************)
(* Weight proofs (full_node/weight_proof.py): what a node says of its      *)
(* chain to prove its weight, what another one checks of it, and the fork  *)
(* point that one finds.  The chain of this node and the chain of another  *)
(* grow from a common trunk.                                               *)
(*                                                                         *)
(* A chain is a sequence of blocks, the block of height h at h + 1.  The   *)
(* reward chain hash of a summary commits to every block before the one    *)
(* that carries the summary before it, so it is the id of the last of      *)
(* them.  Proofs of space and VDFs are left out here; the weights a proof  *)
(* is sampled at are arbitrary.                                            *)
(***************************************************************************)
EXTENDS Integers, Sequences, SequencesExt, FiniteSetsExt

CONSTANTS
    SubEpochSize,
    EpochSubEpochs,      \* the sub-epochs of an epoch
    MaxOverflow,         \* how many blocks late a summary may be
    Difficulties, FirstDifficulty,
    RecentBlocks,        \* WEIGHT_PROOF_RECENT_BLOCKS
    MaxSamples,
    TrunkBound, BranchBound

ASSUME WeightProofAssumption ==
    /\ MaxOverflow < SubEpochSize
    /\ RecentBlocks >= 2 * SubEpochSize + MaxOverflow

NoSes == [none |-> TRUE]
Unchanged == 0      \* new_difficulty is None

VARIABLES trunk, mine, theirs

proofVars == <<trunk, mine, theirs>>

Heights(c) == 0 .. Len(c) - 1
At(c, h) == c[h + 1]
HasSes(c, h) == At(c, h).ses # NoSes

\* get_ses_heights.
SesHeights(c) == SelectSeq([i \in 1 .. Len(c) |-> i - 1], LAMBDA h : HasSes(c, h))
SesUpTo(c, tip) == SelectSeq(SesHeights(c), LAMBDA h : h <= tip)

-----------------------------------------------------------------------------
(* The chains. *)

\* make_sub_epoch_summary, for the next block of the chain c.
NewSummary(c, difficulty) ==
    LET heights == SesHeights(c) IN
    IF heights = <<>> THEN [prev |-> NoSes, rc |-> "genesis", overflow |-> 0, diff |-> Unchanged]
    ELSE LET last == Last(heights) IN
         [prev |-> At(c, last).ses, rc |-> At(c, last - 1).id,
          overflow |-> last % SubEpochSize, diff |-> difficulty]

\* The blocks the consensus allows after the chain c: the n-th summary comes at
\* most MaxOverflow blocks after the n-th sub-epoch, and the difficulty changes
\* with the first summary of an epoch.
NextBlocks(c, branch) ==
    LET h == Len(c)
        n == Len(SesHeights(c)) + 1
        due == n * SubEpochSize
        old == Last(c)
        difficulties == IF n % EpochSubEpochs = 0 THEN Difficulties ELSE {Unchanged}
        plain == [id |-> <<branch, h>>, diff |-> old.diff, weight |-> old.weight + old.diff, ses |-> NoSes]
        with(d) ==
            LET diff == IF d = Unchanged THEN old.diff ELSE d IN
            [id |-> <<branch, h>>, diff |-> diff, weight |-> old.weight + diff, ses |-> NewSummary(c, d)]
    IN  (IF h < due + MaxOverflow THEN {plain} ELSE {})
        \cup (IF h >= due THEN {with(d) : d \in difficulties} ELSE {})

GrowTrunk ==
    /\ mine = <<>> /\ theirs = <<>> /\ Len(trunk) < TrunkBound
    /\ \E b \in NextBlocks(trunk, "trunk") : trunk' = Append(trunk, b)
    /\ UNCHANGED <<mine, theirs>>

GrowMine ==
    /\ Len(mine) < BranchBound
    /\ \E b \in NextBlocks(trunk \o mine, "mine") : mine' = Append(mine, b)
    /\ UNCHANGED <<trunk, theirs>>

GrowTheirs ==
    /\ Len(theirs) < BranchBound
    /\ \E b \in NextBlocks(trunk \o theirs, "theirs") : theirs' = Append(theirs, b)
    /\ UNCHANGED <<trunk, mine>>

ProofInit ==
    /\ trunk = <<[id |-> <<"trunk", 0>>, diff |-> FirstDifficulty, weight |-> FirstDifficulty, ses |-> NoSes]>>
    /\ mine = <<>> /\ theirs = <<>>

ProofNext == GrowTrunk \/ GrowMine \/ GrowTheirs

ProofSpec == ProofInit /\ [][ProofNext]_proofVars

-----------------------------------------------------------------------------
(* Making a proof. *)

\* _get_recent_chain: from before the second summary back up to the tip.
RecentStart(c, tip) ==
    LET heights == SesUpTo(c, tip)
    IN  IF Len(heights) < 2 THEN 0 ELSE heights[Len(heights) - 1] - 1
RecentHeights(c, tip) == RecentStart(c, tip) .. tip

\* _sample_sub_epoch.
Sampled(start, end, weights) == \E w \in weights : start < w /\ w < end

FirstSamples(sampled) == SubSeq(sampled, 1, Min({MaxSamples, Len(sampled)}))

\* prev_ses_block: the block that starts the n-th sub-epoch.
StartBlock(heights, n) == IF n = 1 THEN 0 ELSE heights[n - 1]

\* _create_proof_of_weight: the sub-epochs whose segments are in the proof.
SampledSubEpochs(c, tip, weights) ==
    LET heights == SesUpTo(c, tip)
    IN  ToSet(FirstSamples(SelectSeq([n \in DOMAIN heights |-> n],
            LAMBDA n : Sampled(At(c, StartBlock(heights, n)).weight, At(c, heights[n]).weight, weights))))

\* get_sub_epoch_data.
SubEpochData(c, tip) ==
    LET heights == SesUpTo(c, tip)
    IN  [n \in DOMAIN heights |->
            LET ses == At(c, heights[n]).ses
            IN  [rc |-> ses.rc, overflow |-> ses.overflow, diff |-> ses.diff]]

-----------------------------------------------------------------------------
(* Checking a proof. *)

NextOverflowSame(data, n) == data[n].overflow

\* How late the summary after the n-th was: it is the next record that says it.
NextOverflow(data, n) == data[n + 1].overflow

\* _map_sub_epoch_summaries: the summaries, the weight before the last but one,
\* and the weight at which each sub-epoch starts.
MapSubEpochSummaries(data) ==
    LET step(acc, n) ==
            LET ses == [prev |-> acc.ses, rc |-> data[n].rc, overflow |-> data[n].overflow, diff |-> data[n].diff]
                blocks == SubEpochSize + NextOverflow(data, n) - (IF n > 1 THEN data[n].overflow ELSE 0)
                more == n < Len(data)
            IN  [ses |-> ses,
                 summaries |-> Append(acc.summaries, ses),
                 starts |-> IF more THEN Append(acc.starts, acc.total + acc.diff) ELSE acc.starts,
                 total |-> IF more THEN acc.total + acc.diff * blocks ELSE acc.total,
                 diff |-> IF data[n].diff # Unchanged THEN data[n].diff ELSE acc.diff]
        end == FoldLeft(step, [ses |-> NoSes, summaries |-> <<>>, starts |-> <<>>, total |-> 0,
                               diff |-> FirstDifficulty], [n \in DOMAIN data |-> n])
    IN  [summaries |-> end.summaries, total |-> end.total,
         starts |-> Append(end.starts, end.total + end.diff)]

\* _get_last_ses_hash: the first summary after the last sub-epoch boundary that
\* has one after it.
LastSes(c, recent) ==
    LET after(h) == {g \in recent : g >= h /\ HasSes(c, g)}
        boundaries == {h \in recent : h % SubEpochSize = 0 /\ after(h) # {}}
    IN  IF boundaries = {} THEN NoSes ELSE At(c, Min(after(Max(boundaries)))).ses

\* _validate_summaries_weight: the block before the last but one summary.
WeightMatches(c, recent, map) ==
    LET end == (Len(map.summaries) - 1) * SubEpochSize + Last(map.summaries).overflow - 1
    IN  end \in recent /\ At(c, end).weight = map.total

\* _validate_sub_epoch_summaries.
SummariesValid(c, recent, map) ==
    /\ LastSes(c, recent) # NoSes
    /\ WeightMatches(c, recent, map)
    /\ Last(map.summaries) = LastSes(c, recent)

\* validate_sub_epoch_sampling: the sub-epochs that must be in the proof.
RequiredSubEpochs(map, weights) ==
    ToSet(FirstSamples(SelectSeq([n \in 1 .. Len(map.starts) - 1 |-> n],
        LAMBDA n : Sampled(map.starts[n], map.starts[n + 1], weights))))

\* _get_curr_diff_ssi: the difficulty the segments of the n-th sub-epoch are
\* checked with.
SegmentDifficulty(summaries, n) ==
    LET set == {k \in 1 .. n - 1 : summaries[k].diff # Unchanged}
    IN  IF set = {} THEN FirstDifficulty ELSE summaries[Max(set)].diff

\* _validate_recent_blocks: the difficulty a recent block is checked with.
RecentDifficulty(c, recent, summaries, h) ==
    LET inRecent == {g \in recent : HasSes(c, g)}
        before == Len(summaries) - Cardinality(inRecent)
        set == {g \in inRecent : g <= h /\ At(c, g).ses.diff # Unchanged}
    IN  IF set = {} THEN SegmentDifficulty(summaries, before + 1) ELSE At(c, Max(set)).ses.diff

\* get_fork_point, for the chain c and the summaries received.
LastEqual(c, received) ==
    LET heights == SesHeights(c)
        same(n) == n < Len(received) /\ At(c, heights[n]).ses = received[n]
    IN  Max({1} \cup {n \in DOMAIN heights : \A k \in 1 .. n : same(k)})

ForkPoint(c, received) ==
    LET n == LastEqual(c, received) IN IF n > 3 THEN SesHeights(c)[n - 2] ELSE 0

-----------------------------------------------------------------------------
(* Properties. *)

MyChain == trunk \o mine
TheirChain == trunk \o theirs
Map(c, tip) == MapSubEpochSummaries(SubEpochData(c, tip))

\* The block at the fork point found from the other node's summaries is on
\* both chains, though two equal summaries need not stand in the same block
\* (get_fork_point).  A long sync goes on from there without looking back.
ForkPointIsCommon ==
    Len(SesHeights(TheirChain)) > 0 =>
        ForkPoint(MyChain, Map(TheirChain, Len(TheirChain) - 1).summaries) \in Heights(trunk)

\* The summaries, the weight and the difficulties of an honest proof are what
\* the other side works out from it, for every tip, also one below the peak
\* (_create_proof_of_weight against _validate_sub_epoch_summaries,
\* _validate_recent_blocks and _get_curr_diff_ssi).
HonestProofsValid ==
    \A tip \in {h \in Heights(MyChain) : h >= RecentBlocks} :
        LET map == Map(MyChain, tip)
            recent == RecentHeights(MyChain, tip)
            heights == SesUpTo(MyChain, tip)
        IN  /\ SummariesValid(MyChain, recent, map)
            /\ \A h \in recent : RecentDifficulty(MyChain, recent, map.summaries, h) = At(MyChain, h).diff
            /\ \A n \in 2 .. Len(heights) :
                SegmentDifficulty(map.summaries, n) = At(MyChain, heights[n - 1]).diff

\* The sub-epochs the other side wants to see are in the proof, wherever the
\* chain is sampled, unless the last summary changes the difficulty: then the
\* end of the last sub-epoch is worked out with the new one
\* (_create_proof_of_weight against validate_sub_epoch_sampling).
HonestProofsComplete ==
    \A tip \in {h \in Heights(MyChain) : h >= RecentBlocks} :
        LET map == Map(MyChain, tip)
            total == At(MyChain, tip).weight
        IN  Last(map.summaries).diff = Unchanged =>
                \A weights \in {{w} : w \in 1 .. total} \cup {1 .. total} :
                    RequiredSubEpochs(map, weights) \subseteq SampledSubEpochs(MyChain, tip, weights)

\* A node that validates an honest node's proof finds it correct and complete, and
\* goes on from a block both have.
HonestProofsAccepted == HonestProofsValid /\ HonestProofsComplete /\ ForkPointIsCommon
=============================================================================
