---------------------------- MODULE MCConsensus -----------------------------
(***************************************************************************)
(* The rules a chain is built and judged by, for TLC: deficits, overflow   *)
(* and summaries; difficulty and sub-slot iterations; weight proofs; the   *)
(* segments weight proofs sample; and the farmer who finds the proofs of   *)
(* space.  Each is about a chain of its own, so a behaviour is one of one  *)
(* part: active says which.                                                *)
(***************************************************************************)
EXTENDS ConsensusRules, DifficultyValues, WeightProofs, ProofSegments, Farming

VARIABLE active

\* A timelord that makes every block itself, and one that follows others' blocks,
\* with empty sub-slots between them, and can miss some.
MCModes ==
    {[own |-> TRUE, slots |-> 1, miss |-> FALSE], [own |-> FALSE, slots |-> 3, miss |-> TRUE]}

\* Every other sub-slot may have an end that is normalized.
MCBoxedSets == {{}, {n \in 1 .. 2 * LengthBound + 3 : n % 2 = 1}}

\* Two signage points with one challenge chain hash.  Only q2 is good enough for
\* the second.
Fsp(cc, rc, limit) == [cc |-> cc, rc |-> rc, limit |-> limit]
MCFSps == {Fsp("s1", "r1", 5), Fsp("s1", "r2", 2)}
MCProofSp == [q \in Qualities |-> "s1"]
MCProofIters == [q \in Qualities |-> IF q = "q1" THEN 4 ELSE 1]
MCProofPlot == [q \in Qualities |-> IF q = "q1" THEN "p1" ELSE "p2"]

-----------------------------------------------------------------------------
vars == <<consensusVars, difficultyVars, proofVars, segmentVars,
          farmingVars, active>>

\* What a part may start with only varies when it is the active one.
Init ==
    /\ ConsensusInit /\ DifficultyInit /\ ProofInit /\ SegmentInit
    /\ FarmingInit
    /\ active \in {"rules", "difficulty", "proofs", "segments", "farming"}
    /\ active # "rules" => mode.own
    /\ active # "segments" => boxed = {} /\ chain[1].slot = 0 /\ chain[1].sp = 0

RulesStep ==
    /\ active = "rules" /\ ConsensusNext
    /\ UNCHANGED <<difficultyVars, proofVars, segmentVars, farmingVars, active>>
DifficultyStep ==
    /\ active = "difficulty" /\ DifficultyNext
    /\ UNCHANGED <<consensusVars, proofVars, segmentVars, farmingVars, active>>
ProofStep ==
    /\ active = "proofs" /\ ProofNext
    /\ UNCHANGED <<consensusVars, difficultyVars, segmentVars, farmingVars,
                  active>>
SegmentStep ==
    /\ active = "segments" /\ SegmentNext
    /\ UNCHANGED <<consensusVars, difficultyVars, proofVars, farmingVars, active>>
FarmingStep ==
    /\ active = "farming" /\ FarmingNext
    /\ UNCHANGED <<consensusVars, difficultyVars, proofVars, segmentVars, active>>

Next ==
    \/ RulesStep \/ DifficultyStep \/ ProofStep \/ SegmentStep
    \/ FarmingStep

Spec == Init /\ [][Next]_vars
=============================================================================
