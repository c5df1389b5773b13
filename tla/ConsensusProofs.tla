--------------------------- MODULE ConsensusProofs ---------------------------
(***************************************************************************)
(* Proofs about ConsensusRules for any numbers of blocks per challenge     *)
(* slot, sub-slot, sub-epoch and epoch and any spacing of signage points:  *)
(* the rules that are checked block by block add up to one summary per     *)
(* sub-epoch and to challenge slots that are long enough, and what a       *)
(* timelord builds from its own state is what the full node would have     *)
(* told it and what validation accepts.                                    *)
(*                                                                         *)
(* And proofs about WalletLedger, for any tree of blocks, coins and        *)
(* transactions: how the wallet follows the chain those rules make.        *)
(***************************************************************************)
EXTENDS ConsensusRules, WalletLedger, WellFoundedInduction, TLAPS

-----------------------------------------------------------------------------
(* Arithmetic of sub-epochs.                                               *)

\* What is smaller times a positive number is smaller.
LEMMA CancelFactor ==
    ASSUME NEW d \in Nat \ {0}, NEW p \in Int, NEW q \in Int, d * p < d * q
    PROVE  p < q
<1> SUFFICES ASSUME q <= p PROVE FALSE  OBVIOUS
<1>1. p - q \in Nat  OBVIOUS
<1>2. d * (p - q) \in Nat  BY <1>1
<1>3. d * (p - q) = d * p - d * q  OBVIOUS
<1> QED  BY <1>2, <1>3

\* Quotient and remainder.
LEMMA DivMod ==
    ASSUME NEW d \in Nat \ {0}, NEW x \in Int
    PROVE  x \div d \in Int /\ x % d \in 0 .. d - 1 /\ x = d * (x \div d) + (x % d)
OBVIOUS

\* They are the only ones.
LEMMA DivModUnique ==
    ASSUME NEW d \in Nat \ {0}, NEW x \in Int, NEW q \in Int, NEW r \in 0 .. d - 1, x = d * q + r
    PROVE  x \div d = q /\ x % d = r
<1> DEFINE p == x \div d
           s == x % d
<1>1. p \in Int /\ s \in 0 .. d - 1 /\ x = d * p + s  BY DivMod
<1> HIDE DEF p, s
<1>2. d * p < d * (q + 1)  BY <1>1
<1>3. d * q < d * (p + 1)  BY <1>1
<1>4. p < q + 1 /\ q < p + 1  BY <1>1, <1>2, <1>3, CancelFactor
<1>5. p = q  BY <1>1, <1>4
<1>6. s = r  BY <1>1, <1>5
<1> QED  BY <1>5, <1>6 DEF p, s

\* Heights, their sub-epochs and where these start.
LEMMA HeightFacts ==
    ASSUME NEW h \in Nat
    PROVE  /\ h % SubEpochBlocks \in 0 .. SubEpochBlocks - 1
           /\ h \div SubEpochBlocks \in Nat
           /\ SubEpochStart(h) \in Nat /\ SubEpochStart(h) <= h
           /\ h - SubEpochStart(h) = h % SubEpochBlocks
           /\ SubEpochStart(h) = 0 <=> h < SubEpochBlocks
           /\ SubEpochStart(h) > 0 => SubEpochStart(h) >= SubEpochBlocks
<1> DEFINE q == h \div SubEpochBlocks
           r == h % SubEpochBlocks
<1>0. SubEpochBlocks \in Nat \ {0}  BY ConsensusAssumption
<1>1. q \in Int /\ r \in 0 .. SubEpochBlocks - 1 /\ h = SubEpochBlocks * q + r  BY <1>0, DivMod
<1>2. SubEpochStart(h) = h - r  BY DEF SubEpochStart
<1> HIDE DEF q, r
<1>3. q \in Nat
  <2> SUFFICES ASSUME q <= -1 PROVE FALSE  BY <1>1
  <2>1. SubEpochBlocks * (-1 - q) \in Nat  BY <1>0, <1>1
  <2>2. SubEpochBlocks * (-1 - q) = -SubEpochBlocks - SubEpochBlocks * q  BY <1>0, <1>1
  <2> QED  BY <1>0, <1>1, <2>1, <2>2
<1>4. q = 0 => SubEpochBlocks * q = 0  BY <1>0
<1>5. q > 0 => SubEpochBlocks * q >= SubEpochBlocks
  <2> SUFFICES ASSUME q > 0 PROVE SubEpochBlocks * q >= SubEpochBlocks  OBVIOUS
  <2>1. SubEpochBlocks * (q - 1) \in Nat  BY <1>0, <1>1
  <2>2. SubEpochBlocks * (q - 1) = SubEpochBlocks * q - SubEpochBlocks  BY <1>0, <1>1
  <2> QED  BY <1>0, <1>1, <2>1, <2>2
<1>6. SubEpochBlocks * q \in Nat  BY <1>0, <1>3
<1> QED  BY <1>0, <1>1, <1>2, <1>3, <1>4, <1>5, <1>6 DEF q, r

\* As long as the sub-epoch does not end, nothing but the remainder changes.
LEMMA SameSubEpoch ==
    ASSUME NEW h \in Nat, NEW a \in Nat, (h % SubEpochBlocks) + a < SubEpochBlocks
    PROVE  /\ (h + a) % SubEpochBlocks = (h % SubEpochBlocks) + a
           /\ (h + a) \div SubEpochBlocks = h \div SubEpochBlocks
           /\ SubEpochStart(h + a) = SubEpochStart(h)
           /\ CanBeFirstInEpoch(h + a) = CanBeFirstInEpoch(h)
<1> DEFINE q == h \div SubEpochBlocks
           r == h % SubEpochBlocks
<1>0. SubEpochBlocks \in Nat \ {0}  BY ConsensusAssumption
<1>1. q \in Int /\ r \in 0 .. SubEpochBlocks - 1 /\ h = SubEpochBlocks * q + r  BY <1>0, DivMod
<1>2. r + a < SubEpochBlocks  OBVIOUS
<1> HIDE DEF q, r
<1>3. r + a \in 0 .. SubEpochBlocks - 1 /\ h + a = SubEpochBlocks * q + (r + a)  BY <1>0, <1>1, <1>2
<1>4. (h + a) \div SubEpochBlocks = q /\ (h + a) % SubEpochBlocks = r + a
  <2> DEFINE x == h + a
             s == r + a
  <2>1. x \in Int /\ s \in 0 .. SubEpochBlocks - 1 /\ x = SubEpochBlocks * q + s  BY <1>3
  <2> HIDE DEF x, s
  <2>2. x \div SubEpochBlocks = q /\ x % SubEpochBlocks = s  BY <1>0, <1>1, <2>1, DivModUnique
  <2> QED  BY <2>2 DEF x, s
<1>5. SubEpochStart(h) = h - r  BY DEF SubEpochStart, r
<1>6. SubEpochStart(h + a) = (h + a) - (r + a)  BY <1>4 DEF SubEpochStart
<1>7. SubEpochStart(h + a) = SubEpochStart(h)  BY <1>1, <1>5, <1>6
<1>8. CanBeFirstInEpoch(h + a) = CanBeFirstInEpoch(h)  BY <1>7 DEF CanBeFirstInEpoch, SubEpochStart
<1> QED  BY <1>4, <1>7, <1>8 DEF q, r

\* After its last block the next sub-epoch starts.
LEMMA NextSubEpoch ==
    ASSUME NEW h \in Nat, h % SubEpochBlocks = SubEpochBlocks - 1
    PROVE  /\ (h + 1) % SubEpochBlocks = 0
           /\ (h + 1) \div SubEpochBlocks = h \div SubEpochBlocks + 1
           /\ SubEpochStart(h + 1) = h + 1
<1> DEFINE q == h \div SubEpochBlocks
<1>0. SubEpochBlocks \in Nat \ {0}  BY ConsensusAssumption
<1>1. q \in Int /\ h = SubEpochBlocks * q + (SubEpochBlocks - 1)  BY <1>0, DivMod
<1> HIDE DEF q
<1>2. h + 1 = SubEpochBlocks * (q + 1) + 0  BY <1>0, <1>1
<1>3. (h + 1) \div SubEpochBlocks = q + 1 /\ (h + 1) % SubEpochBlocks = 0
  <2> DEFINE x == h + 1
             p == q + 1
  <2>1. x \in Int /\ p \in Int /\ 0 \in 0 .. SubEpochBlocks - 1 /\ x = SubEpochBlocks * p + 0  BY <1>0, <1>1, <1>2
  <2> HIDE DEF x, p
  <2>2. x \div SubEpochBlocks = p /\ x % SubEpochBlocks = 0  BY <1>0, <2>1, DivModUnique
  <2> QED  BY <2>2 DEF x, p
<1> QED  BY <1>3 DEF SubEpochStart, q

\* The next height, either way.
LEMMA NextHeight ==
    ASSUME NEW h \in Nat
    PROVE  /\ (h + 1) % SubEpochBlocks = 0 <=> h % SubEpochBlocks = SubEpochBlocks - 1
           /\ (h + 1) % SubEpochBlocks # 0 =>
                 /\ (h + 1) % SubEpochBlocks = (h % SubEpochBlocks) + 1
                 /\ (h + 1) \div SubEpochBlocks = h \div SubEpochBlocks
                 /\ SubEpochStart(h + 1) = SubEpochStart(h)
                 /\ CanBeFirstInEpoch(h + 1) = CanBeFirstInEpoch(h)
           /\ (h + 1) % SubEpochBlocks = 0 =>
                 /\ (h + 1) \div SubEpochBlocks = h \div SubEpochBlocks + 1
                 /\ SubEpochStart(h + 1) = h + 1
<1>1. h % SubEpochBlocks \in 0 .. SubEpochBlocks - 1 /\ SubEpochBlocks \in Nat  BY HeightFacts, ConsensusAssumption
<1>2. CASE h % SubEpochBlocks = SubEpochBlocks - 1  BY <1>2, NextSubEpoch
<1>3. CASE h % SubEpochBlocks # SubEpochBlocks - 1
  <2>1. (h % SubEpochBlocks) + 1 < SubEpochBlocks /\ 1 \in Nat  BY <1>1, <1>3
  <2>2. /\ (h + 1) % SubEpochBlocks = (h % SubEpochBlocks) + 1
        /\ (h + 1) \div SubEpochBlocks = h \div SubEpochBlocks
        /\ SubEpochStart(h + 1) = SubEpochStart(h)
        /\ CanBeFirstInEpoch(h + 1) = CanBeFirstInEpoch(h)
    BY <2>1, SameSubEpoch
  <2>3. (h + 1) % SubEpochBlocks # 0  BY <1>1, <2>2
  <2> QED  BY <1>3, <2>2, <2>3
<1> QED  BY <1>2, <1>3

-----------------------------------------------------------------------------
(* The inductive invariant.                                                *)

Tips ==
    [height : Nat, deficit : 0 .. MinBlocks, ov : BOOLEAN, tx : BOOLEAN, n : Nat, ip : Nat,
     prevAt : Int, blocks : 1 .. MaxSlotBlocks, first : BOOLEAN, fresh : BOOLEAN, csb : Nat, lastTx : Int,
     ses : Int, prevSes : Int, epo : Int, prevEpo : Int, summaries : Int, since : Nat]
Sums == [follows : Int, epoch : BOOLEAN]
SubSlots == [deficit : 0 .. MinBlocks, icc : Int, sum : Sums]
States ==
    [kind : {"peak", "eos"}, height : Nat, deficit : 0 .. MinBlocks, ip : Nat, sum : Sums,
     passed : BOOLEAN, infused : BOOLEAN, newEpoch : BOOLEAN, icc : BOOLEAN, csb : Nat,
     blocks : Nat, lastTx : Int]

ChainTypes == tip \in Tips /\ ended \in Seq(SubSlots) /\ tl \in States /\ mode \in Modes /\ synced \in BOOLEAN

\* The landmarks: a summary is at the last block or where the block before had it,
\* and so is a new difficulty, which comes with a summary.
Landmarks ==
    /\ -1 <= tip.prevEpo /\ tip.prevEpo <= tip.prevSes /\ tip.prevSes < tip.height
    /\ \/ tip.ses = tip.height /\ tip.epo \in {tip.height, tip.prevEpo}
       \/ tip.ses = tip.prevSes /\ tip.epo = tip.prevEpo
    /\ tip.tx => tip.lastTx = tip.ip
    /\ tip.lastTx >= -SlotIters /\ tip.csb < SlotIters

\* Where in the sub-slot the last block is: only one block per signage point.
Positioned ==
    \E k \in 0 .. NumSps - 1 :
        /\ tip.ip = k * SpIntervalIters + 1 /\ tip.blocks <= k + 1
        /\ tip.ov => k < ExtraIntervals
        /\ tip.fresh => ~tip.ov /\ k >= ExtraIntervals

\* How many blocks of the challenge slot there are.  Its first ones, all of one
\* sub-slot, may be overflow blocks, which do not count; then the deficit goes down,
\* and once it is 0 the sub-slot is the last one.
SlotCounted ==
    /\ tip.since >= MinBlocks - tip.deficit
    /\ tip.deficit = MinBlocks => tip.ov /\ tip.since = tip.blocks
    /\ \A ovs \in {ExtraIntervals, MaxSlotBlocks} :
          tip.since <= MinBlocks - tip.deficit + ovs + (IF tip.deficit = 0 THEN tip.blocks - 1 ELSE 0)

\* How late a summary is: the sub-epoch started after the first block of the
\* challenge slot.  A sub-epoch has its summary, and a new epoch its difficulty.
Start == SubEpochStart(tip.height)
Missing == Start > 0 /\ tip.ses < Start
Late == MinBlocks + MaxSlotBlocks + ExtraIntervals - 2
SummariesInTime ==
    /\ Missing => tip.height - Start <= tip.since - 2
    /\ JustIncluded(tip) => tip.height % SubEpochBlocks <= Late
    /\ tip.summaries = tip.height \div SubEpochBlocks - (IF Missing THEN 1 ELSE 0)
    /\ Start > 0 /\ ~Missing /\ CanBeFirstInEpoch(tip.height) => tip.epo >= Start

TipInv == Landmarks /\ Positioned /\ SlotCounted /\ SummariesInTime

\* What the timelord has of the chain, after a peak ...
Passed == (tip.height + 1) % SubEpochBlocks = 0 \/ PassedButNotIncluded(tip)
AtPeak ==
    /\ tl.kind = "peak" /\ tl.deficit = tip.deficit /\ tl.ip = tip.ip /\ tl.csb = tip.csb
    /\ tl.blocks = tip.blocks /\ ~tl.infused /\ ~tl.newEpoch /\ ~tl.icc
    /\ tl.passed = Passed
    /\ tl.passed => tl.sum = NodeSummary(tip)

\* ... and after ends of sub-slots.
FirstSum == IF Passed /\ tip.deficit = 0 THEN NodeSummary(tip) ELSE NoSummary
AtEos ==
    /\ tl.kind = "eos" /\ tl.ip = 0 /\ tl.csb = 0 /\ tl.blocks = 0
    /\ tl.deficit = IF tip.deficit = 0 THEN MinBlocks ELSE tip.deficit
    /\ \A k \in DOMAIN ended :
          /\ ended[k].deficit = tl.deficit /\ ended[k].icc = ExpectedIcc(tip, ended, k)
          /\ ended[k].sum = IF k = 1 THEN FirstSum ELSE NoSummary
    /\ tl.passed = (Passed /\ FirstSum = NoSummary)
    /\ tl.icc = (ended[Len(ended)].icc # None)
    /\ tl.infused = (ended[Len(ended)].sum # NoSummary) /\ tl.newEpoch = ended[Len(ended)].sum.epoch

TimelordFollows ==
    /\ synced => tl.height = tip.height /\ IF ended = <<>> THEN AtPeak ELSE AtEos
    /\ ended # <<>> => synced
    /\ mode.own =>
          /\ Len(ended) <= 1
          /\ synced => tl.lastTx = Later(tip.lastTx, Len(ended))
          /\ ~synced /\ ~tip.tx => tl.lastTx = tip.lastTx

ConsensusInv == ChainTypes /\ TipInv /\ TimelordFollows

\* The timelords the theorem is about: one that makes its own peaks hears of the
\* others', and of no two sub-slots without a block between them.
Attentive == \A m \in Modes : m.own => m.slots <= 1 /\ ~m.miss
-----------------------------------------------------------------------------
(* Facts about the numbers.                                                *)

\* How the constants compare.
LEMMA Limits ==
    /\ MinBlocks \in Nat /\ MaxSlotBlocks \in Nat /\ SubEpochBlocks \in Nat \ {0} /\ ExtraIntervals \in Nat
    /\ MinBlocks >= 2 /\ MaxSlotBlocks >= 3 /\ ExtraIntervals >= 1
    /\ Late \in Nat /\ Late + MaxSlotBlocks < SubEpochBlocks
    /\ EpochBlocks \in Nat \ {0} /\ SubEpochBlocks < EpochBlocks
    /\ NumSps \in Nat /\ ExtraIntervals < NumSps /\ SpIntervalIters \in Nat /\ SpIntervalIters > 1
BY ConsensusAssumption DEF Late

\* Two sub-epochs in a row do not both start an epoch, and the second one of all
\* starts none.
LEMMA EpochsApart ==
    ASSUME NEW h \in Nat
    PROVE  /\ h % SubEpochBlocks = SubEpochBlocks - 1 => ~(CanBeFirstInEpoch(h) /\ CanBeFirstInEpoch(h + 1))
           /\ SubEpochStart(h) = SubEpochBlocks => ~CanBeFirstInEpoch(h)
<1> DEFINE s == SubEpochStart(h)
           e == s + SubEpochBlocks
<1>0. /\ SubEpochBlocks \in Nat \ {0} /\ EpochBlocks \in Nat \ {0} /\ SubEpochBlocks < EpochBlocks
      /\ s \in Nat
  BY Limits, HeightFacts
<1>1. s % EpochBlocks = 0 => e % EpochBlocks = SubEpochBlocks
  <2> HIDE DEF s
  <2> SUFFICES ASSUME s % EpochBlocks = 0 PROVE e % EpochBlocks = SubEpochBlocks  OBVIOUS
  <2> DEFINE q == s \div EpochBlocks
  <2>1. q \in Int /\ s = EpochBlocks * q + 0  BY <1>0, DivMod
  <2> HIDE DEF q
  <2>2. e \in Int /\ SubEpochBlocks \in 0 .. EpochBlocks - 1 /\ e = EpochBlocks * q + SubEpochBlocks  BY <1>0, <2>1
  <2> HIDE DEF e
  <2> QED  BY <1>0, <2>1, <2>2, DivModUnique
<1>2. SubEpochBlocks % EpochBlocks = SubEpochBlocks
  <2>1. 0 \in Int /\ SubEpochBlocks \in Int /\ SubEpochBlocks \in 0 .. EpochBlocks - 1 /\ SubEpochBlocks = EpochBlocks * 0 + SubEpochBlocks
    BY <1>0
  <2> QED  BY <1>0, <2>1, DivModUnique
<1>3. CanBeFirstInEpoch(h) <=> s % EpochBlocks = 0  BY DEF CanBeFirstInEpoch, SubEpochStart
<1>4. h % SubEpochBlocks = SubEpochBlocks - 1 => (CanBeFirstInEpoch(h + 1) <=> e % EpochBlocks = 0)
  <2> SUFFICES ASSUME h % SubEpochBlocks = SubEpochBlocks - 1
               PROVE  CanBeFirstInEpoch(h + 1) <=> e % EpochBlocks = 0
    OBVIOUS
  <2>1. SubEpochStart(h + 1) = h + 1  BY NextSubEpoch
  <2>2. h - s = SubEpochBlocks - 1  BY HeightFacts
  <2>3. e = h + 1  BY <1>0, <2>2
  <2>4. CanBeFirstInEpoch(h + 1) <=> SubEpochStart(h + 1) % EpochBlocks = 0  BY DEF CanBeFirstInEpoch, SubEpochStart
  <2> QED  BY <2>1, <2>3, <2>4
<1> HIDE DEF s, e
<1> QED  BY <1>0, <1>1, <1>2, <1>3, <1>4 DEF s

\* The infusion point of a signage point is one more than a multiple of the interval:
\* that many intervals further, in the next sub-slot for an overflow block.
LEMMA IpPosition ==
    ASSUME NEW sp \in 0 .. NumSps - 1
    PROVE  /\ SlotIters \in Nat /\ IpIters(sp) \in Nat /\ IpIters(sp) < SlotIters
           /\ \E k \in 0 .. NumSps - 1 :
                 /\ IpIters(sp) = k * SpIntervalIters + 1
                 /\ IF IsOverflow(sp) THEN k < ExtraIntervals ELSE k >= ExtraIntervals
<1> DEFINE c == IF IsOverflow(sp) THEN 1 ELSE 0
           k == sp + ExtraIntervals - c * NumSps
           x == (sp + ExtraIntervals) * SpIntervalIters + 1
           r == k * SpIntervalIters + 1
<1>0. /\ NumSps \in Nat /\ SpIntervalIters \in Nat /\ SpIntervalIters > 1 /\ ExtraIntervals \in Nat
      /\ ExtraIntervals >= 1 /\ ExtraIntervals < NumSps
  BY Limits
<1>1. c \in {0, 1} /\ k \in 0 .. NumSps - 1 /\ (IF IsOverflow(sp) THEN k < ExtraIntervals ELSE k >= ExtraIntervals)
  BY <1>0 DEF IsOverflow
<1>2. SlotIters \in Nat  BY <1>0 DEF SlotIters
<1>3. (sp + ExtraIntervals) * SpIntervalIters = k * SpIntervalIters + c * (NumSps * SpIntervalIters)
  <2>1. CASE c = 0  BY <1>0, <2>1
  <2>2. CASE c = 1
    <3>1. k = sp + ExtraIntervals - NumSps  BY <1>0, <2>2
    <3>2. k * SpIntervalIters = (sp + ExtraIntervals) * SpIntervalIters - NumSps * SpIntervalIters  BY <1>0, <3>1
    <3> QED  BY <1>0, <1>1, <2>2, <3>2
  <2> QED  BY <1>1, <2>1, <2>2
<1>4. k * SpIntervalIters \in Nat /\ k * SpIntervalIters + SpIntervalIters <= NumSps * SpIntervalIters
  <2> HIDE DEF k
  <2>1. NumSps - 1 - k \in Nat  BY <1>0, <1>1
  <2>2. (NumSps - 1 - k) * SpIntervalIters \in Nat  BY <1>0, <2>1
  <2>3. (NumSps - 1 - k) * SpIntervalIters = NumSps * SpIntervalIters - SpIntervalIters - k * SpIntervalIters
    BY <1>0, <1>1
  <2>4. k * SpIntervalIters \in Nat /\ NumSps * SpIntervalIters \in Nat  BY <1>0, <1>1
  <2> QED  BY <1>0, <2>2, <2>3, <2>4
<1>5. r \in Nat /\ r < SlotIters /\ r \in 0 .. SlotIters - 1 /\ SlotIters \in Nat \ {0}
  BY <1>0, <1>2, <1>4 DEF SlotIters
<1>6. x \in Int /\ x = SlotIters * c + r
  BY <1>0, <1>1, <1>2, <1>3, <1>4 DEF SlotIters
<1>7. IpIters(sp) = x % SlotIters  BY DEF IpIters
<1> HIDE DEF x, r, c, k
<1>8. x % SlotIters = r  BY <1>1, <1>5, <1>6, DivModUnique
<1>9. IpIters(sp) = r  BY <1>7, <1>8
<1> QED  BY <1>1, <1>2, <1>5, <1>9 DEF r

-----------------------------------------------------------------------------
(* What the invariant says about summaries.                                *)

\* The fields of the last block.
LEMMA TipFields ==
    ASSUME tip \in Tips
    PROVE  /\ tip.height \in Nat /\ tip.deficit \in 0 .. MinBlocks /\ tip.ov \in BOOLEAN /\ tip.tx \in BOOLEAN
           /\ tip.n \in Nat /\ tip.ip \in Nat /\ tip.prevAt \in Int /\ tip.blocks \in 1 .. MaxSlotBlocks
           /\ tip.first \in BOOLEAN /\ tip.fresh \in BOOLEAN /\ tip.csb \in Nat /\ tip.lastTx \in Int
           /\ tip.ses \in Int /\ tip.prevSes \in Int /\ tip.epo \in Int /\ tip.prevEpo \in Int
           /\ tip.summaries \in Int /\ tip.since \in Nat
BY DEF Tips

\* A challenge slot is not arbitrarily long, and a summary not arbitrarily late.
LEMMA Lateness ==
    ASSUME tip \in Tips, TipInv
    PROVE  /\ tip.since >= 1 /\ tip.since <= Late + 1
           /\ Missing => tip.height % SubEpochBlocks <= tip.since - 2
           /\ Missing => tip.height % SubEpochBlocks < Late
           /\ tip.ses <= tip.height /\ tip.epo <= tip.ses /\ tip.ses >= -1
<1>1. tip.since >= 1 /\ tip.since <= Late + 1
  BY TipFields, Limits DEF TipInv, SlotCounted, Late
<1>2. Missing => tip.height % SubEpochBlocks <= tip.since - 2
  BY TipFields, HeightFacts DEF TipInv, SummariesInTime, Start
<1>3. tip.height % SubEpochBlocks \in Int  BY TipFields, HeightFacts
<1>4. tip.ses <= tip.height /\ tip.epo <= tip.ses /\ tip.ses >= -1  BY TipFields DEF TipInv, Landmarks
<1> QED  BY <1>1, <1>2, <1>3, <1>4, TipFields, Limits

\* What is missing for the timelord is missing for the full node.
LEMMA PassedIs ==
    ASSUME tip \in Tips
    PROVE  PassedButNotIncluded(tip) <=> Missing
BY TipFields, HeightFacts DEF PassedButNotIncluded, Missing, Start

\* A sub-epoch can be finished exactly when its height is passed, the challenge slot is
\* over and the last block has not just done it.
LEMMA FinishIffPassed ==
    ASSUME tip \in Tips, TipInv
    PROVE  CanFinishSubEpoch(tip) <=> tip.deficit = 0 /\ Passed /\ tip.ses # tip.height
<1> DEFINE h == tip.height
           r == h % SubEpochBlocks
<1>0. h \in Nat /\ SubEpochBlocks \in Nat /\ SubEpochBlocks > 7  BY TipFields, Limits DEF Late
<1>1. /\ r \in 0 .. SubEpochBlocks - 1
      /\ SubEpochStart(h) \in Nat /\ SubEpochStart(h) <= h /\ h - SubEpochStart(h) = r
      /\ SubEpochStart(h) = 0 <=> h < SubEpochBlocks
  BY <1>0, HeightFacts
<1>2. (h + 1) % SubEpochBlocks \in Int /\ ((h + 1) % SubEpochBlocks = 0 <=> r = SubEpochBlocks - 1)
  BY <1>0, NextHeight
<1>3. (h + 1) % SubEpochBlocks # 0 => (h + 1) % SubEpochBlocks = r + 1  BY <1>0, NextHeight
<1>4. r >= 1 => SubEpochStart(h - 1) = SubEpochStart(h)
  <2> SUFFICES ASSUME r >= 1 PROVE SubEpochStart(h - 1) = SubEpochStart(h)  OBVIOUS
  <2> DEFINE g == h - 1
  <2>1. g \in Nat /\ g + 1 = h  BY <1>0, <1>1
  <2> HIDE DEF g
  <2>2. SubEpochStart(g + 1) = SubEpochStart(g)  BY <2>1, <1>1, NextHeight
  <2> QED  BY <2>1, <2>2 DEF g
<1>5. tip.ses # h => tip.ses = tip.prevSes  BY TipFields DEF TipInv, Landmarks
<1>6. /\ tip.prevSes \in Int /\ tip.ses \in Int /\ tip.ses <= h
  BY TipFields, Lateness
<1>7. Passed <=> (h + 1) % SubEpochBlocks = 0 \/ (SubEpochStart(h) > 0 /\ tip.ses < SubEpochStart(h))
  BY PassedIs DEF Passed, Missing, Start
<1>8. r = SubEpochBlocks - 1 => h >= SubEpochBlocks - 1  BY <1>0, <1>1
<1>9. CanFinishSubEpoch(tip) <=> /\ h >= SubEpochBlocks - 1 /\ tip.deficit = 0 /\ tip.ses # h
                                 /\ (h + 1) % SubEpochBlocks > 1 => tip.prevSes < SubEpochStart(h - 1)
  BY DEF CanFinishSubEpoch, JustIncluded
<1> HIDE DEF h, r
<1>10. ASSUME tip.ses # h
       PROVE (h >= SubEpochBlocks - 1 /\ ((h + 1) % SubEpochBlocks > 1 => tip.prevSes < SubEpochStart(h - 1))) <=> Passed
  <2>1. CASE r = SubEpochBlocks - 1  BY <2>1, <1>0, <1>1, <1>2, <1>7, <1>8
  <2>2. CASE r = 0
    <3>1. (h + 1) % SubEpochBlocks = 1  BY <2>2, <1>0, <1>2, <1>3
    <3>2. h # SubEpochBlocks - 1  BY <1>0, <1>1, <2>2
    <3>3. SubEpochStart(h) = h  BY <1>0, <1>1, <2>2
    <3> QED  BY <1>0, <1>1, <1>6, <1>7, <1>10, <3>1, <3>2, <3>3
  <2>3. CASE r \in 1 .. SubEpochBlocks - 2
    <3>1. (h + 1) % SubEpochBlocks = r + 1 /\ r >= 1  BY <2>3, <1>0, <1>2, <1>3
    <3>2. h # SubEpochBlocks - 1  BY <1>0, <1>1, <2>3
    <3>3. (h + 1) % SubEpochBlocks > 1 /\ (h + 1) % SubEpochBlocks # 0  BY <1>0, <3>1, <2>3
    <3> QED  BY <1>0, <1>1, <1>4, <1>5, <1>6, <1>7, <1>10, <3>1, <3>2, <3>3
  <2> QED  BY <1>0, <1>1, <2>1, <2>2, <2>3
<1> QED  BY <1>9, <1>10 DEF h

\* Summaries are summaries.
LEMMA SummaryTypes ==
    /\ NoSummary \in Sums
    /\ \A h \in Nat : \A ses \in Int, e \in BOOLEAN : MakeSummary(h, ses, e) \in Sums
    /\ \A p \in Int, ses \in Int, epo \in Int : EpochSoon(p, epo) \in BOOLEAN
<1>1. NoSummary \in Sums  BY DEF NoSummary, Sums
<1>2. \A h \in Nat : \A ses \in Int, e \in BOOLEAN : MakeSummary(h, ses, e) \in Sums
  BY DEF Sums, MakeSummary, None
<1>3. \A p \in Int, ses \in Int, epo \in Int : EpochSoon(p, epo) \in BOOLEAN
  BY DEF EpochSoon, CanBeFirstInEpoch
<1> QED  BY <1>1, <1>2, <1>3

\* The summary the full node announces while the sub-epoch can be finished is the one
\* validation makes, a new difficulty included.
LEMMA AnnouncedIsMade ==
    ASSUME tip \in Tips, TipInv, CanFinishSubEpoch(tip)
    PROVE  /\ NodeSummary(tip) = MakeSummary(tip.height + 1, tip.prevSes, CanFinishEpoch(tip))
           /\ NodeSummary(tip).epoch = CanFinishEpoch(tip)
           /\ NodeSummary(tip) # NoSummary
<1> DEFINE h == tip.height
           g == h + 1
           r == h % SubEpochBlocks
           x == g + MaxSlotBlocks
<1>0. /\ h \in Nat /\ SubEpochBlocks \in Nat /\ SubEpochBlocks > 7 /\ MaxSlotBlocks \in Nat
      /\ Late \in Nat /\ Late + MaxSlotBlocks < SubEpochBlocks /\ MaxSlotBlocks >= 3
  BY TipFields, Limits DEF Late
<1>1. /\ h >= SubEpochBlocks - 1 /\ tip.ses # h /\ Passed
      /\ g % SubEpochBlocks > 1 => tip.prevSes < SubEpochStart(h - 1)
  BY FinishIffPassed DEF CanFinishSubEpoch
<1>2. tip.prevEpo <= tip.prevSes /\ tip.prevEpo \in Int /\ tip.prevSes \in Int /\ tip.prevSes >= -1
  BY TipFields DEF TipInv, Landmarks
<1>3. g \in Nat /\ x \in Nat /\ g % SubEpochBlocks \in 0 .. SubEpochBlocks - 1
  <2>1. g \in Nat /\ x \in Nat  BY <1>0
  <2> HIDE DEF g
  <2> QED  BY <2>1, HeightFacts
<1>4. (g % SubEpochBlocks) + MaxSlotBlocks < SubEpochBlocks
  <2>1. CASE g % SubEpochBlocks = 0  BY <2>1, <1>0
  <2>2. CASE g % SubEpochBlocks # 0
    <3>1. Missing  BY <1>1, <2>2, PassedIs DEF Passed
    <3>2. r < Late /\ r \in Int
      <4>1. r \in 0 .. SubEpochBlocks - 1  BY <1>0, HeightFacts
      <4>2. r < Late  BY <3>1, Lateness
      <4> QED  BY <4>1, <4>2
    <3>3. g % SubEpochBlocks = r + 1  BY <1>0, <2>2, NextHeight
    <3> QED  BY <1>0, <3>2, <3>3
  <2> QED  BY <2>1, <2>2
<1>5. CanBeFirstInEpoch(x) = CanBeFirstInEpoch(g) /\ x \div SubEpochBlocks = g \div SubEpochBlocks
  BY <1>0, <1>3, <1>4, SameSubEpoch
<1>6. EpochSoon(h - 1, tip.prevEpo) = CanBeFirstInEpoch(g)
  <2>1. h - 1 + 2 = g /\ h - 1 + MaxSlotBlocks + 2 = x  BY <1>0
  <2>2. g % SubEpochBlocks > 1 => tip.prevEpo < SubEpochStart(h - 1)
    <3> SUFFICES ASSUME g % SubEpochBlocks > 1 PROVE tip.prevEpo < SubEpochStart(h - 1)  OBVIOUS
    <3>1. h - 1 \in Nat  BY <1>0, <1>1
    <3>2. SubEpochStart(h - 1) \in Nat  BY <3>1, HeightFacts
    <3> QED  BY <1>1, <1>2, <3>2
  <2>3. EpochSoon(h - 1, tip.prevEpo)
          = IF CanBeFirstInEpoch(g) THEN (g % SubEpochBlocks > 1 => tip.prevEpo < SubEpochStart(h - 1))
            ELSE CanBeFirstInEpoch(x)
    BY <2>1 DEF EpochSoon
  <2>4. CanBeFirstInEpoch(g) \in BOOLEAN  BY DEF CanBeFirstInEpoch
  <2> HIDE DEF g, x
  <2> QED  BY <1>5, <2>2, <2>3, <2>4
<1>7. CanFinishEpoch(tip) = CanBeFirstInEpoch(g)  BY DEF CanFinishEpoch, CanBeFirstInEpoch
<1>8. NodeSummary(tip) = MakeSummary(g, tip.prevSes, CanFinishEpoch(tip))
  <2>1. h # 0 /\ h - 1 # 0 /\ h - 1 + 2 = g  BY <1>0, <1>1
  <2>2. NodeSummary(tip) = NextSummary(h - 1, tip.prevSes, tip.prevEpo)
    BY <1>1, <2>1 DEF NodeSummary, JustIncluded
  <2> QED  BY <1>6, <1>7, <2>1, <2>2 DEF NextSummary
<1>9. x \div SubEpochBlocks <= 1 => ~CanBeFirstInEpoch(g)
  <2> SUFFICES ASSUME g \div SubEpochBlocks <= 1 PROVE ~CanBeFirstInEpoch(g)  BY <1>5
  <2> HIDE DEF g
  <2>0. g >= SubEpochBlocks  BY <1>0, <1>1 DEF g
  <2>1. /\ SubEpochStart(g) >= SubEpochBlocks /\ g - SubEpochStart(g) = g % SubEpochBlocks /\ SubEpochStart(g) \in Nat
        /\ g \div SubEpochBlocks \in Nat
    <3>1. SubEpochStart(g) # 0  BY <1>0, <1>3, <2>0, HeightFacts
    <3> QED  BY <1>3, <3>1, HeightFacts
  <2> DEFINE q == g \div SubEpochBlocks
  <2>2. g = SubEpochBlocks * q + (g % SubEpochBlocks) /\ q \in Nat  BY <1>0, <1>3, <2>1, DivMod
  <2>3. q = 0 \/ q = 1  BY <2>2
  <2> HIDE DEF q
  <2>4. SubEpochBlocks * 0 = 0 /\ SubEpochBlocks * 1 = SubEpochBlocks  BY <1>0
  <2>5. SubEpochStart(g) = SubEpochBlocks  BY <1>0, <1>3, <2>1, <2>2, <2>3, <2>4
  <2> QED  BY <1>3, <2>5, EpochsApart
<1>10. CanFinishEpoch(tip) \in BOOLEAN  BY <1>7 DEF CanBeFirstInEpoch
<1>11. MakeSummary(g, tip.prevSes, CanFinishEpoch(tip)).epoch = CanFinishEpoch(tip)
  <2> HIDE DEF g, x
  <2>1. CASE x \div SubEpochBlocks <= 1  BY <2>1, <1>7, <1>9, <1>10 DEF MakeSummary, x
  <2>2. CASE ~(x \div SubEpochBlocks <= 1)  BY <2>2 DEF MakeSummary, x
  <2> QED  BY <2>1, <2>2
<1>12. MakeSummary(g, tip.prevSes, CanFinishEpoch(tip)).follows # -2
  BY <1>2 DEF MakeSummary, None
<1> QED  BY <1>8, <1>11, <1>12 DEF NoSummary

\* So the first sub-slot after the last block carries a summary exactly when one is due.
LEMMA DueSummary ==
    ASSUME tip \in Tips, TipInv
    PROVE  /\ FirstSum # NoSummary <=> CanFinishSubEpoch(tip)
           /\ CanFinishSubEpoch(tip) => FirstSum = MakeSummary(tip.height + 1, tip.prevSes, CanFinishEpoch(tip))
           /\ FirstSum.epoch = CanFinishEpoch(tip)
           /\ CanFinishEpoch(tip) => CanFinishSubEpoch(tip)
<1>1. CASE CanFinishSubEpoch(tip)
  <2>1. FirstSum = NodeSummary(tip)  BY <1>1, FinishIffPassed DEF FirstSum
  <2> QED  BY <1>1, <2>1, AnnouncedIsMade
<1>2. CASE ~CanFinishSubEpoch(tip)
  <2>1. FirstSum = NoSummary
    <3>1. tip.deficit = 0 /\ Passed => tip.ses = tip.height  BY <1>2, FinishIffPassed
    <3> QED  BY <3>1 DEF FirstSum, NodeSummary, JustIncluded
  <2>2. CanFinishEpoch(tip) = FALSE  BY <1>2 DEF CanFinishEpoch
  <2>3. NoSummary.epoch = FALSE  BY DEF NoSummary
  <2> QED  BY <1>2, <2>1, <2>2, <2>3
<1> QED  BY <1>1, <1>2

-----------------------------------------------------------------------------
(* The invariant implies the properties.                                   *)

\* The fields of the timelord's state.
LEMMA StateFields ==
    ASSUME tl \in States
    PROVE  /\ tl.kind \in {"peak", "eos"} /\ tl.height \in Nat /\ tl.deficit \in 0 .. MinBlocks /\ tl.ip \in Nat
           /\ tl.sum \in Sums /\ tl.passed \in BOOLEAN /\ tl.infused \in BOOLEAN /\ tl.newEpoch \in BOOLEAN
           /\ tl.icc \in BOOLEAN /\ tl.csb \in Nat /\ tl.blocks \in Nat /\ tl.lastTx \in Int
BY DEF States

\* The sub-slots since the last block, and that only the first of them has a summary.
LEMMA EndedFacts ==
    ASSUME ConsensusInv
    PROVE  /\ Len(ended) \in Nat
           /\ Len(ended) = 0 <=> ended = <<>>
           /\ ended # <<>> => AtEos /\ synced /\ DOMAIN ended = 1 .. Len(ended) /\ ended[1].sum = FirstSum
           /\ ended = <<>> /\ synced => AtPeak
<1>1. Len(ended) \in Nat /\ (Len(ended) = 0 <=> ended = <<>>) /\ DOMAIN ended = 1 .. Len(ended)
  BY DEF ConsensusInv, ChainTypes
<1>2. (ended # <<>> => AtEos /\ synced) /\ (ended = <<>> /\ synced => AtPeak)
  BY DEF ConsensusInv, TimelordFollows
<1>3. ended # <<>> => ended[1].sum = FirstSum
  <2> SUFFICES ASSUME ended # <<>> PROVE ended[1].sum = FirstSum  OBVIOUS
  <2>1. 1 \in DOMAIN ended  BY <1>1
  <2> QED  BY <1>2, <2>1 DEF AtEos
<1> QED  BY <1>1, <1>2, <1>3

\* What the timelord built is what validation expects.
LEMMA BuiltIsValid ==
    ASSUME ConsensusInv
    PROVE  SubSlotsAccepted
<1> SUFFICES ASSUME ended # <<>> PROVE SubSlotsValid(tip, ended) /\ SummaryValid(tip, ended)
  BY DEF SubSlotsAccepted
<1>1. tip \in Tips /\ TipInv /\ AtEos /\ ended[1].sum = FirstSum
  BY EndedFacts DEF ConsensusInv, ChainTypes
<1>2. SubSlotsValid(tip, ended)
  <2> SUFFICES ASSUME NEW k \in DOMAIN ended
               PROVE  /\ ended[k].icc = ExpectedIcc(tip, ended, k)
                      /\ k > 1 => ended[k].sum = NoSummary
                      /\ ended[k].sum.epoch = (CanFinishEpoch(tip) /\ ended[k].sum # NoSummary)
                      /\ ended[k].deficit = IF tip.deficit = 0 THEN MinBlocks ELSE tip.deficit
    BY DEF SubSlotsValid
  <2>0. k \in Int  BY EndedFacts
  <2>1. /\ ended[k].icc = ExpectedIcc(tip, ended, k)
        /\ ended[k].sum = IF k = 1 THEN FirstSum ELSE NoSummary
        /\ ended[k].deficit = IF tip.deficit = 0 THEN MinBlocks ELSE tip.deficit
    BY <1>1 DEF AtEos
  <2>2. CanFinishEpoch(tip) \in BOOLEAN  BY DEF CanFinishEpoch, CanBeFirstInEpoch, CanFinishSubEpoch
  <2>3. FirstSum.epoch = (CanFinishEpoch(tip) /\ FirstSum # NoSummary)  BY <1>1, <2>2, DueSummary
  <2>4. NoSummary.epoch = FALSE  BY DEF NoSummary
  <2>5. ended[k].sum.epoch = (CanFinishEpoch(tip) /\ ended[k].sum # NoSummary)
    <3>1. CASE k = 1  BY <3>1, <2>1, <2>3
    <3>2. CASE k # 1  BY <3>2, <2>1, <2>4
    <3> QED  BY <3>1, <3>2
  <2>6. k > 1 => ended[k].sum = NoSummary  BY <2>0, <2>1
  <2> QED  BY <2>1, <2>5, <2>6
<1>3. SummaryValid(tip, ended)  BY <1>1, DueSummary DEF SummaryValid
<1> QED  BY <1>2, <1>3

\* What the timelord would infuse is what validation would let through.
LEMMA InfusedIsValid ==
    ASSUME ConsensusInv
    PROVE  InfusionsAccepted
<1> SUFFICES ASSUME NEW sp \in 0 .. NumSps - 1, synced, CanInfuse(IsOverflow(sp))
             PROVE  BlockValid(tip, ended, sp, HasIcc)
  BY DEF InfusionsAccepted
<1> DEFINE n == Len(ended)
           d == tip.deficit
           ov == IsOverflow(sp)
<1>0. /\ tip \in Tips /\ TipInv /\ n \in Nat /\ d \in 0 .. MinBlocks /\ MinBlocks \in Nat /\ MinBlocks >= 2
      /\ tip.blocks \in Nat /\ MaxSlotBlocks \in Nat
  BY TipFields, EndedFacts, Limits DEF ConsensusInv, ChainTypes
<1>1. CASE ended = <<>>
  <2>1. AtPeak /\ n = 0  BY <1>1, EndedFacts
  <2>2. tip.blocks < MaxSlotBlocks  BY <2>1 DEF AtPeak, CanInfuse
  <2>3. RoomInSlot(tip, ended)  BY <1>0, <2>2 DEF RoomInSlot
  <2>4. NoEarlyOverflow(tip, ended, sp)  BY <1>1 DEF NoEarlyOverflow
  <2>5. HasIcc = (d < MinBlocks)  BY <2>1 DEF HasIcc, AtPeak
  <2>6. HasIcc = (Deficit(d, ov, n) < MinBlocks - 1)  BY <1>0, <2>1, <2>5 DEF Deficit
  <2> QED  BY <2>3, <2>4, <2>6 DEF BlockValid, IccValid
<1>2. CASE ended # <<>>
  <2>1. AtEos /\ n \in Nat /\ n > 0 /\ ended[1].sum = FirstSum  BY <1>0, <1>2, EndedFacts
  <2>2. RoomInSlot(tip, ended)  BY <1>2 DEF RoomInSlot
  <2>3. NoEarlyOverflow(tip, ended, sp)
    <3> SUFFICES ASSUME ov, CanFinishEpoch(tip), n < 2 PROVE FALSE  BY DEF NoEarlyOverflow
    <3>1. n = 1  BY <2>1, SMTT(30)
    <3>2. tl.newEpoch = FirstSum.epoch  BY <2>1, <3>1 DEF AtEos
    <3>3. FirstSum.epoch = CanFinishEpoch(tip)  BY <1>0, DueSummary
    <3> QED  BY <3>2, <3>3 DEF CanInfuse
  <2>4. tl.deficit = IF d = 0 THEN MinBlocks ELSE d  BY <2>1 DEF AtEos
  <2>5. HasIcc = (d \in 1 .. MinBlocks - 1)  BY <1>0, <2>4 DEF HasIcc
  <2>6. HasIcc = (Deficit(d, ov, n) < MinBlocks - 1)  BY <1>0, <2>1, <2>5 DEF Deficit
  <2> QED  BY <2>2, <2>3, <2>6 DEF BlockValid, IccValid
<1> QED  BY <1>1, <1>2

\* Replacing the summary of a state, field by field.
LEMMA WithSummary ==
    ASSUME NEW a, NEW b, NEW c, NEW d, NEW e, NEW f, NEW g, NEW h, NEW i, NEW j, NEW k, NEW l, NEW s
    PROVE  [[kind |-> a, height |-> b, deficit |-> c, ip |-> d, sum |-> e, passed |-> f, infused |-> g,
             newEpoch |-> h, icc |-> i, csb |-> j, blocks |-> k, lastTx |-> l] EXCEPT !.sum = s]
           = [kind |-> a, height |-> b, deficit |-> c, ip |-> d, sum |-> s, passed |-> f, infused |-> g,
              newEpoch |-> h, icc |-> i, csb |-> j, blocks |-> k, lastTx |-> l]
OBVIOUS

\* What the timelord has as its peak is what the full node would have sent.
LEMMA PeakIsSent ==
    ASSUME ConsensusInv
    PROVE  TimelordAgrees
<1> SUFFICES ASSUME mode.own, synced, tl.kind = "peak"
             PROVE  Effective(tl) = Effective(PeakState(NodePeak(tip))) /\ tl.lastTx = tip.lastTx
  BY DEF TimelordAgrees
<1>1. ended = <<>> /\ AtPeak /\ tl.height = tip.height /\ Len(ended) = 0
  <2>1. ended = <<>>
    <3> SUFFICES ASSUME ended # <<>> PROVE FALSE  OBVIOUS
    <3>1. AtEos  BY EndedFacts
    <3>2. tl.kind = "eos"  BY <3>1 DEF AtEos
    <3> QED  BY <3>2
  <2> QED  BY <2>1, EndedFacts DEF ConsensusInv, TimelordFollows
<1>2. tl \in States /\ tip \in Tips /\ SlotIters \in Nat  BY Limits DEF ConsensusInv, ChainTypes, SlotIters
<1>3. tl.lastTx = tip.lastTx
  <2>1. tl.lastTx = Later(tip.lastTx, 0) /\ tip.lastTx >= -SlotIters
    BY <1>1 DEF ConsensusInv, TimelordFollows, TipInv, Landmarks
  <2>2. 0 * SlotIters = 0  BY <1>2
  <2> QED  BY <1>2, <2>1, <2>2, TipFields DEF Later
<1>4. tl.lastTx = IF tip.tx THEN tip.ip ELSE tl.lastTx
  BY <1>3 DEF ConsensusInv, TipInv, Landmarks
<1> DEFINE p == PeakState(NodePeak(tip))
<1>5. /\ p = [kind |-> "peak", height |-> tip.height, deficit |-> tip.deficit, ip |-> tip.ip, sum |-> NodeSummary(tip),
               passed |-> Passed, infused |-> FALSE, newEpoch |-> FALSE, icc |-> FALSE, csb |-> tip.csb,
               blocks |-> tip.blocks, lastTx |-> IF tip.tx THEN tip.ip ELSE tl.lastTx]
  BY DEF PeakState, NodePeak, Passed
<1>6. tl = [kind |-> tl.kind, height |-> tl.height, deficit |-> tl.deficit, ip |-> tl.ip, sum |-> tl.sum,
            passed |-> tl.passed, infused |-> tl.infused, newEpoch |-> tl.newEpoch, icc |-> tl.icc, csb |-> tl.csb,
            blocks |-> tl.blocks, lastTx |-> tl.lastTx]
  BY <1>2 DEF States
<1>7. tl.infused = FALSE /\ tl.newEpoch = FALSE /\ tl.icc = FALSE  BY <1>1, <1>2, StateFields DEF AtPeak
<1>8. tl = [p EXCEPT !.sum = tl.sum]
  <2> DEFINE ps == Passed
             no == FALSE
             sm == NodeSummary(tip)
             lt == IF tip.tx THEN tip.ip ELSE tl.lastTx
  <2>1. p = [kind |-> "peak", height |-> tip.height, deficit |-> tip.deficit, ip |-> tip.ip, sum |-> sm,
             passed |-> ps, infused |-> no, newEpoch |-> no, icc |-> no, csb |-> tip.csb,
             blocks |-> tip.blocks, lastTx |-> lt]
    BY <1>5
  <2>2. /\ tl.kind = "peak" /\ tl.height = tip.height /\ tl.deficit = tip.deficit /\ tl.ip = tip.ip
        /\ tl.passed = ps /\ tl.csb = tip.csb /\ tl.blocks = tip.blocks
    BY <1>1 DEF AtPeak
  <2>3. lt = tl.lastTx /\ tl.infused = no /\ tl.newEpoch = no /\ tl.icc = no  BY <1>4, <1>7
  <2> HIDE DEF p, ps, no, sm, lt
  <2>4. [p EXCEPT !.sum = tl.sum]
          = [kind |-> "peak", height |-> tip.height, deficit |-> tip.deficit, ip |-> tip.ip, sum |-> tl.sum,
             passed |-> ps, infused |-> no, newEpoch |-> no, icc |-> no, csb |-> tip.csb,
             blocks |-> tip.blocks, lastTx |-> lt]
    BY <2>1, WithSummary
  <2> QED  BY <1>6, <2>2, <2>3, <2>4
<1>9. (IF tl.passed THEN tl.sum ELSE NoSummary) = (IF p.passed THEN p.sum ELSE NoSummary)
  <2>1. p.passed = Passed /\ p.sum = NodeSummary(tip)  BY <1>5
  <2> QED  BY <1>1, <2>1 DEF AtPeak
<1>10. Effective(tl) = Effective(p)
  <2> HIDE DEF p
  <2> DEFINE e == IF tl.passed THEN tl.sum ELSE NoSummary
  <2>1. Effective(tl) = [tl EXCEPT !.sum = e]  BY DEF Effective
  <2>2. Effective(p) = [p EXCEPT !.sum = e]  BY <1>9 DEF Effective
  <2> HIDE DEF e
  <2>3. [[p EXCEPT !.sum = tl.sum] EXCEPT !.sum = e] = [p EXCEPT !.sum = e]  OBVIOUS
  <2> QED  BY <1>8, <2>1, <2>2, <2>3
<1> QED  BY <1>3, <1>10

\* The rules on epochs follow from how blocks are counted.
LEMMA RulesFollow ==
    ASSUME ConsensusInv
    PROVE  EpochRulesKept
<1>1. tip \in Tips /\ TipInv  BY DEF ConsensusInv, ChainTypes
<1>2. OneSummaryInTime
  <2>1. Missing => tip.height - Start <= 2 * MaxSlotBlocks + MinBlocks - 3
    <3> SUFFICES ASSUME Missing PROVE tip.height - Start <= 2 * MaxSlotBlocks + MinBlocks - 3  OBVIOUS
    <3>1. tip.since <= MinBlocks - tip.deficit + MaxSlotBlocks + (IF tip.deficit = 0 THEN tip.blocks - 1 ELSE 0)
      BY <1>1 DEF TipInv, SlotCounted
    <3>2. tip.height - Start <= tip.since - 2  BY <1>1 DEF TipInv, SummariesInTime
    <3>3. Start \in Int  BY <1>1, TipFields, HeightFacts DEF Start
    <3> QED  BY <1>1, <3>1, <3>2, <3>3, TipFields, Limits
  <2> QED  BY <1>1, <2>1 DEF OneSummaryInTime, TipInv, SummariesInTime, Missing, Start
<1>3. NoOverflowAsEpochStarts  BY <1>1 DEF NoOverflowAsEpochStarts, TipInv, Positioned
<1>4. SlotsHoldEnoughBlocks  BY <1>1, TipFields, Limits DEF SlotsHoldEnoughBlocks, TipInv, SlotCounted
<1> QED  BY <1>2, <1>3, <1>4 DEF EpochRulesKept

-----------------------------------------------------------------------------
(* The invariant holds at the start and when a sub-slot ends.              *)

\* At the genesis block.
LEMMA InvInit ==
    ASSUME ConsensusInit
    PROVE  ConsensusInv
<1>0. /\ tip = Genesis /\ ended = <<>> /\ synced = TRUE /\ mode \in Modes
      /\ tl = [kind |-> "peak", height |-> 0, deficit |-> MinBlocks - 1, ip |-> IpIters(0), sum |-> NoSummary,
               passed |-> FALSE, infused |-> FALSE, newEpoch |-> FALSE, icc |-> FALSE, csb |-> IpIters(0),
               blocks |-> 1, lastTx |-> IpIters(0)]
  BY DEF ConsensusInit
<1>1. 0 \in 0 .. NumSps - 1 /\ ~IsOverflow(0)  BY Limits DEF IsOverflow
<1>2. /\ SlotIters \in Nat /\ IpIters(0) \in Nat /\ IpIters(0) < SlotIters
      /\ \E k \in 0 .. NumSps - 1 : IpIters(0) = k * SpIntervalIters + 1 /\ k >= ExtraIntervals
  BY <1>1, IpPosition
<1>3. tip \in Tips  BY <1>0, <1>2, Limits DEF Genesis, Tips, None
<1>4. tl \in States  BY <1>0, <1>2, Limits, SummaryTypes DEF States
<1>5. ChainTypes  BY <1>0, <1>3, <1>4 DEF ChainTypes
<1>6. /\ tip.height = 0 /\ tip.deficit = MinBlocks - 1 /\ tip.ov = FALSE /\ tip.tx = TRUE /\ tip.ip = IpIters(0)
      /\ tip.blocks = 1 /\ tip.fresh = FALSE /\ tip.csb = IpIters(0) /\ tip.lastTx = IpIters(0)
      /\ tip.ses = -1 /\ tip.prevSes = -1 /\ tip.epo = -1 /\ tip.prevEpo = -1 /\ tip.summaries = 0 /\ tip.since = 1
  BY <1>0 DEF Genesis, None
<1>7. Landmarks  BY <1>2, <1>6 DEF Landmarks
<1>8. Positioned
  <2>1. PICK k \in 0 .. NumSps - 1 : IpIters(0) = k * SpIntervalIters + 1 /\ k >= ExtraIntervals  BY <1>2
  <2>2. tip.ip = k * SpIntervalIters + 1 /\ tip.blocks <= k + 1 /\ ~tip.ov /\ ~tip.fresh  BY <1>6, <2>1, Limits
  <2> QED  BY <2>2 DEF Positioned
<1>9. SlotCounted  BY <1>6, Limits DEF SlotCounted
<1>10. SubEpochStart(0) = 0 /\ 0 % SubEpochBlocks = 0 /\ 0 \div SubEpochBlocks = 0
  <2>1. 0 \in Int /\ SubEpochBlocks \in Nat \ {0} /\ 0 \in 0 .. SubEpochBlocks - 1 /\ 0 = SubEpochBlocks * 0 + 0
    BY Limits
  <2>2. 0 % SubEpochBlocks = 0 /\ 0 \div SubEpochBlocks = 0  BY <2>1, DivModUnique
  <2> QED  BY <2>2 DEF SubEpochStart
<1>11. Start = 0 /\ ~Missing  BY <1>6, <1>10 DEF Start, Missing
<1>12. SummariesInTime  BY <1>6, <1>10, <1>11 DEF SummariesInTime, JustIncluded
<1>13. Passed = FALSE
  <2>1. (0 + 1) % SubEpochBlocks # 0  BY <1>10, NextHeight, Limits DEF Late
  <2> QED  BY <1>6, <1>10, <2>1 DEF Passed, PassedButNotIncluded
<1>14. AtPeak  BY <1>0, <1>6, <1>13 DEF AtPeak
<1>15. TimelordFollows
  <2>1. Len(ended) = 0  BY <1>0
  <2>2. tl.lastTx = Later(tip.lastTx, 0)
    <3>1. 0 * SlotIters = 0  BY <1>2
    <3> QED  BY <1>0, <1>2, <1>6, <3>1 DEF Later
  <2> QED  BY <1>0, <1>6, <1>14, <2>1, <2>2 DEF TimelordFollows
<1> QED  BY <1>5, <1>7, <1>8, <1>9, <1>12, <1>15 DEF ConsensusInv, TipInv

\* The timelord ends a sub-slot.
LEMMA InvEndSubSlot ==
    ASSUME ConsensusInv, Attentive, EndSubSlot
    PROVE  ConsensusInv'
<1> DEFINE e == TimelordEos
           m == Len(ended) + 1
<1>0. /\ synced /\ Len(ended) < mode.slots /\ ended' = Append(ended, e) /\ tl' = EosState(e)
      /\ tip' = tip /\ synced' = synced /\ mode' = mode
  BY DEF EndSubSlot
<1>1. /\ tip \in Tips /\ TipInv /\ tl \in States /\ ended \in Seq(SubSlots) /\ mode \in Modes /\ synced \in BOOLEAN
      /\ tl.height = tip.height
  BY <1>0 DEF ConsensusInv, ChainTypes, TimelordFollows
<1>2. SlotIters \in Nat /\ MinBlocks \in Nat /\ MinBlocks >= 2  BY Limits DEF SlotIters
<1>3. e.deficit = EosDeficit /\ e.icc = (IF HasIcc THEN SlotIters - tl.csb ELSE None) /\ e.sum = TimelordSummary
  BY DEF TimelordEos
<1>4. e \in SubSlots
  <2>1. EosDeficit \in 0 .. MinBlocks  BY <1>2 DEF EosDeficit
  <2>2. (IF HasIcc THEN SlotIters - tl.csb ELSE None) \in Int  BY <1>1, <1>2, StateFields DEF None
  <2>3. TimelordSummary \in Sums  BY <1>1, StateFields, SummaryTypes DEF TimelordSummary
  <2> QED  BY <2>1, <2>2, <2>3 DEF TimelordEos, SubSlots
<1>5. /\ tl'.kind = "eos" /\ tl'.height = tl.height /\ tl'.deficit = e.deficit /\ tl'.ip = 0 /\ tl'.csb = 0
      /\ tl'.blocks = 0 /\ tl'.passed = (tl.passed /\ e.sum = NoSummary) /\ tl'.infused = (e.sum # NoSummary)
      /\ tl'.newEpoch = e.sum.epoch /\ tl'.icc = (e.icc # None) /\ tl'.lastTx = Later(tl.lastTx, 1) /\ tl'.sum = tl.sum
  <2> HIDE DEF e
  <2> QED  BY <1>0, <1>1 DEF EosState, States
<1>6. tl' \in States
  <2> HIDE DEF e
  <2>1. e.sum.epoch \in BOOLEAN /\ e.deficit \in 0 .. MinBlocks  BY <1>4 DEF SubSlots, Sums
  <2>2. Later(tl.lastTx, 1) \in Int  BY <1>1, <1>2, StateFields DEF Later
  <2> QED  BY <1>0, <1>1, <2>1, <2>2, ZenonT(40) DEF EosState, States
<1> HIDE DEF e
<1>7. /\ ended' \in Seq(SubSlots) /\ Len(ended') = m /\ m \in Nat /\ m >= 1 /\ ended'[m] = e /\ ended' # <<>>
      /\ \A k \in 1 .. Len(ended) : ended'[k] = ended[k]
      /\ DOMAIN ended' = 1 .. m
  BY <1>0, <1>1, <1>4
<1>8. ChainTypes'  BY <1>0, <1>1, <1>6, <1>7 DEF ChainTypes
<1>9. TipInv' /\ FirstSum' = FirstSum /\ Passed' = Passed
  BY <1>0, <1>1 DEF TipInv, Landmarks, Positioned, SlotCounted, SummariesInTime, Start, Missing, FirstSum, Passed
<1>10. e.deficit = IF tip.deficit = 0 THEN MinBlocks ELSE tip.deficit
  <2>1. CASE ended = <<>>
    <3>1. tl.deficit = tip.deficit  BY <2>1, <1>0, EndedFacts DEF AtPeak
    <3> QED  BY <1>1, <1>2, <1>3, <3>1, TipFields, SMTT(30) DEF EosDeficit
  <2>2. CASE ended # <<>>
    <3>1. tl.deficit = IF tip.deficit = 0 THEN MinBlocks ELSE tip.deficit  BY <2>2, EndedFacts DEF AtEos
    <3>2. tl.deficit \in 1 .. MinBlocks  BY <1>1, <1>2, <3>1, TipFields
    <3>3. EosDeficit = tl.deficit  BY <1>2, <3>2 DEF EosDeficit
    <3> QED  BY <1>3, <3>1, <3>3
  <2> QED  BY <2>1, <2>2
<1>11. e.sum = IF m = 1 THEN FirstSum ELSE NoSummary
  <2>1. CASE ended = <<>>
    <3>1. AtPeak /\ m = 1  BY <2>1, <1>0, EndedFacts
    <3>2. tl.passed = Passed /\ tl.kind = "peak" /\ tl.deficit = tip.deficit /\ (tl.passed => tl.sum = NodeSummary(tip))
      BY <3>1 DEF AtPeak
    <3> QED  BY <1>3, <3>1, <3>2 DEF TimelordSummary, FirstSum
  <2>2. CASE ended # <<>>
    <3>1. AtEos /\ m # 1  BY <2>2, EndedFacts
    <3>2. tl.kind = "eos"  BY <3>1 DEF AtEos
    <3> QED  BY <1>3, <3>1, <3>2 DEF TimelordSummary
  <2> QED  BY <2>1, <2>2
<1>12. e.icc = ExpectedIcc(tip, ended', m)
  <2>1. CASE ended = <<>>
    <3>1. AtPeak /\ m = 1  BY <2>1, <1>0, EndedFacts
    <3>2. tl.deficit = tip.deficit /\ tl.csb = tip.csb  BY <3>1 DEF AtPeak
    <3> QED  BY <1>1, <1>2, <1>3, <3>1, <3>2, TipFields, SMTT(30) DEF HasIcc, ExpectedIcc
  <2>2. CASE ended # <<>>
    <3>1. AtEos /\ m - 1 = Len(ended) /\ m - 1 \in DOMAIN ended /\ m # 1  BY <2>2, EndedFacts
    <3>2. tl.csb = 0 /\ ended[m - 1].deficit = tl.deficit /\ tl.deficit = IF tip.deficit = 0 THEN MinBlocks ELSE tip.deficit
      BY <3>1 DEF AtEos
    <3>3. ended'[m - 1] = ended[m - 1]  BY <3>1, <1>7, <2>2, EndedFacts
    <3> QED  BY <1>1, <1>2, <1>3, <3>1, <3>2, <3>3, TipFields, SMTT(30) DEF HasIcc, ExpectedIcc
  <2> QED  BY <2>1, <2>2
<1>13. ASSUME NEW k \in 1 .. Len(ended)
       PROVE  /\ ended'[k].deficit = e.deficit /\ ended'[k].icc = ExpectedIcc(tip, ended', k)
              /\ ended'[k].sum = IF k = 1 THEN FirstSum ELSE NoSummary
  <2>1. ended # <<>> /\ AtEos /\ k \in DOMAIN ended  BY <1>13, EndedFacts
  <2>2. /\ ended[k].deficit = tl.deficit /\ ended[k].icc = ExpectedIcc(tip, ended, k)
        /\ ended[k].sum = IF k = 1 THEN FirstSum ELSE NoSummary
        /\ tl.deficit = IF tip.deficit = 0 THEN MinBlocks ELSE tip.deficit
    BY <2>1 DEF AtEos
  <2>3. k # 1 => ended'[k - 1] = ended[k - 1]
    <3>1. k # 1 => k - 1 \in 1 .. Len(ended)  BY <1>13, EndedFacts
    <3> QED  BY <3>1, <1>7
  <2>4. ExpectedIcc(tip, ended', k) = ExpectedIcc(tip, ended, k)
    <3>1. CASE k = 1  BY <3>1 DEF ExpectedIcc
    <3>2. CASE k # 1  BY <3>2, <2>3 DEF ExpectedIcc
    <3> QED  BY <3>1, <3>2
  <2> QED  BY <1>7, <1>10, <2>2, <2>4
<1>14. tl'.passed = (Passed /\ FirstSum = NoSummary)
  <2>1. CASE ended = <<>>
    <3>1. AtPeak /\ m = 1  BY <2>1, <1>0, EndedFacts
    <3> QED  BY <1>5, <1>11, <3>1 DEF AtPeak
  <2>2. CASE ended # <<>>
    <3>1. AtEos /\ m # 1  BY <2>2, EndedFacts
    <3> QED  BY <1>1, <1>5, <1>11, <3>1, StateFields DEF AtEos
  <2> QED  BY <2>1, <2>2
<1>15. AtEos'
  <2>1. \A k \in DOMAIN ended' :
          /\ ended'[k].deficit = tl'.deficit /\ ended'[k].icc = ExpectedIcc(tip, ended', k)
          /\ ended'[k].sum = IF k = 1 THEN FirstSum ELSE NoSummary
    <3> SUFFICES ASSUME NEW k \in 1 .. m
                 PROVE  /\ ended'[k].deficit = tl'.deficit /\ ended'[k].icc = ExpectedIcc(tip, ended', k)
                        /\ ended'[k].sum = IF k = 1 THEN FirstSum ELSE NoSummary
      BY <1>7
    <3>1. CASE k = m  BY <3>1, <1>5, <1>7, <1>11, <1>12
    <3>2. CASE k # m
      <4>1. k \in 1 .. Len(ended)  BY <3>2, EndedFacts
      <4> QED  BY <4>1, <1>5, <1>13
    <3> QED  BY <3>1, <3>2
  <2>2. tl'.deficit = IF tip.deficit = 0 THEN MinBlocks ELSE tip.deficit  BY <1>5, <1>10
  <2> QED  BY <1>0, <1>5, <1>7, <1>9, <1>14, <2>1, <2>2 DEF AtEos, ExpectedIcc
<1>16. mode.own => Len(ended') <= 1 /\ tl'.lastTx = Later(tip.lastTx, Len(ended'))
  <2> SUFFICES ASSUME mode.own PROVE Len(ended') <= 1 /\ tl'.lastTx = Later(tip.lastTx, Len(ended'))  OBVIOUS
  <2>1. mode.slots <= 1 /\ mode.slots \in Nat  BY <1>1, ConsensusAssumption DEF Attentive
  <2>2. Len(ended) = 0 /\ m = 1  BY <1>0, <2>1, EndedFacts
  <2>3. tl.lastTx = Later(tip.lastTx, 0) /\ tip.lastTx >= -SlotIters
    BY <1>0, <1>1, <2>2 DEF ConsensusInv, TimelordFollows, TipInv, Landmarks
  <2>4. 0 * SlotIters = 0  BY <1>2
  <2>5. tl.lastTx = tip.lastTx  BY <1>1, <1>2, <2>3, <2>4, TipFields DEF Later
  <2> QED  BY <1>5, <1>7, <2>2, <2>5
<1>17. TimelordFollows'
  BY <1>0, <1>1, <1>5, <1>7, <1>15, <1>16 DEF TimelordFollows
<1> QED  BY <1>8, <1>9, <1>17 DEF ConsensusInv

-----------------------------------------------------------------------------
(* The next block.                                                         *)

\* Whether the next block comes with a summary.
Included == ended # <<>> /\ CanFinishSubEpoch(tip)

\* The deficit goes down by one at a time, and up only as a challenge slot ends.
LEMMA DeficitRange ==
    ASSUME NEW d \in 0 .. MinBlocks, NEW ov \in BOOLEAN, NEW n \in Nat
    PROVE  Deficit(d, ov, n) \in 0 .. MinBlocks
BY Limits DEF Deficit

\* A position some sub-slots later.
LEMMA LaterFacts ==
    ASSUME NEW at \in Int
    PROVE  /\ \A n \in Nat : Later(at, n) \in Int /\ Later(at, n) >= -SlotIters
           /\ at >= -SlotIters => Later(at, 0) = at
<1>1. SlotIters \in Nat /\ 0 * SlotIters = 0  BY Limits DEF SlotIters
<1>2. ASSUME NEW n \in Nat PROVE Later(at, n) \in Int /\ Later(at, n) >= -SlotIters
  <2> DEFINE b == n * SlotIters
  <2>1. b \in Int  BY <1>1
  <2>2. Later(at, n) = IF at - b < -SlotIters THEN -SlotIters ELSE at - b  BY DEF Later
  <2> HIDE DEF b
  <2> QED  BY <1>1, <2>1, <2>2
<1>3. at >= -SlotIters => Later(at, 0) = at  BY <1>1 DEF Later
<1> QED  BY <1>2, <1>3

\* The new block, field by field.
LEMMA NewTipFields ==
    ASSUME ConsensusInv, NEW sp \in 0 .. NumSps - 1, Extend(sp)
    PROVE  /\ tip'.height = tip.height + 1 /\ tip'.deficit = Deficit(tip.deficit, IsOverflow(sp), Len(ended))
           /\ tip'.ov = IsOverflow(sp) /\ tip'.tx = IsTransactionBlock(tip, ended, sp) /\ tip'.n = Len(ended)
           /\ tip'.ip = IpIters(sp) /\ tip'.prevAt = Later(tip.ip, Len(ended))
           /\ tip'.blocks = (IF ended = <<>> THEN tip.blocks + 1 ELSE 1)
           /\ tip'.first = (tip.first /\ ended = <<>>)
           /\ tip'.fresh = (IF ended = <<>> THEN tip.fresh ELSE Len(ended) = 1 /\ CanFinishEpoch(tip))
           /\ tip'.csb = (IF tip'.deficit = MinBlocks - 1 THEN IpIters(sp) ELSE IF ended = <<>> THEN tip.csb ELSE 0)
           /\ tip'.lastTx = (IF tip'.tx THEN IpIters(sp) ELSE Later(tip.lastTx, Len(ended)))
           /\ tip'.ses = (IF Included THEN tip.height + 1 ELSE tip.ses) /\ tip'.prevSes = tip.ses
           /\ tip'.epo = (IF Included /\ CanFinishEpoch(tip) THEN tip.height + 1 ELSE tip.epo)
           /\ tip'.prevEpo = tip.epo
           /\ tip'.summaries = tip.summaries + (IF Included THEN 1 ELSE 0)
           /\ tip'.since = (IF ended # <<>> /\ tip.deficit = 0 THEN 0 ELSE tip.since) + 1
           /\ ended' = <<>> /\ mode' = mode
           /\ RoomInSlot(tip, ended) => tip' \in Tips
<1> DEFINE n == Len(ended)
           sum == IF n = 0 THEN NoSummary ELSE ended[1].sum
           d == Deficit(tip.deficit, IsOverflow(sp), n)
           tx == IsTransactionBlock(tip, ended, sp)
           ov == IsOverflow(sp)
           at == Later(tip.ip, n)
           ip == IpIters(sp)
           ltx == Later(tip.lastTx, n)
<1>0. tip' = NewTip(sp) /\ ended' = <<>> /\ mode' = mode  BY DEF Extend
<1>1. n \in Nat /\ (n = 0 <=> ended = <<>>) /\ (ended # <<>> => ended[1].sum = FirstSum)
  BY EndedFacts
<1>2. tip \in Tips /\ TipInv  BY DEF ConsensusInv, ChainTypes
<1>3. /\ sum # NoSummary <=> Included
      /\ sum.epoch = (ended # <<>> /\ CanFinishEpoch(tip))
      /\ (ended # <<>> /\ CanFinishEpoch(tip)) = (Included /\ CanFinishEpoch(tip))
  <2>1. CASE n = 0
    <3>1. sum = NoSummary /\ ended = <<>> /\ NoSummary.epoch = FALSE  BY <2>1, <1>1 DEF NoSummary
    <3> QED  BY <3>1 DEF Included
  <2>2. CASE n # 0
    <3>1. sum = FirstSum /\ ended # <<>>  BY <2>2, <1>1
    <3>2. CanFinishEpoch(tip) \in BOOLEAN  BY DEF CanFinishEpoch, CanBeFirstInEpoch, CanFinishSubEpoch
    <3> QED  BY <3>1, <3>2, <1>2, DueSummary DEF Included
  <2> QED  BY <2>1, <2>2
<1>4. tip' = [height |-> tip.height + 1, deficit |-> d, ov |-> ov, tx |-> tx, n |-> n,
              ip |-> ip, prevAt |-> at,
              blocks |-> IF n = 0 THEN tip.blocks + 1 ELSE 1,
              first |-> tip.first /\ n = 0,
              fresh |-> IF n = 0 THEN tip.fresh ELSE n = 1 /\ sum.epoch,
              csb |-> IF d = MinBlocks - 1 THEN ip ELSE IF n = 0 THEN tip.csb ELSE 0,
              lastTx |-> IF tx THEN ip ELSE ltx,
              ses |-> IF sum # NoSummary THEN tip.height + 1 ELSE tip.ses,
              prevSes |-> tip.ses,
              epo |-> IF sum.epoch THEN tip.height + 1 ELSE tip.epo,
              prevEpo |-> tip.epo,
              summaries |-> tip.summaries + (IF sum # NoSummary THEN 1 ELSE 0),
              since |-> (IF n > 0 /\ tip.deficit = 0 THEN 0 ELSE tip.since) + 1]
  BY <1>0 DEF NewTip
<1> HIDE DEF n, sum, d, tx, ov, at, ip, ltx
<1>5. /\ tip'.height = tip.height + 1 /\ tip'.deficit = d /\ tip'.ov = ov /\ tip'.tx = tx /\ tip'.n = n
      /\ tip'.ip = ip /\ tip'.prevAt = at /\ tip'.blocks = (IF n = 0 THEN tip.blocks + 1 ELSE 1)
      /\ tip'.first = (tip.first /\ n = 0) /\ tip'.fresh = (IF n = 0 THEN tip.fresh ELSE n = 1 /\ sum.epoch)
      /\ tip'.csb = (IF d = MinBlocks - 1 THEN ip ELSE IF n = 0 THEN tip.csb ELSE 0)
  BY <1>4
<1>6. /\ tip'.lastTx = (IF tx THEN ip ELSE ltx)
      /\ tip'.ses = (IF sum # NoSummary THEN tip.height + 1 ELSE tip.ses) /\ tip'.prevSes = tip.ses
      /\ tip'.epo = (IF sum.epoch THEN tip.height + 1 ELSE tip.epo) /\ tip'.prevEpo = tip.epo
      /\ tip'.summaries = tip.summaries + (IF sum # NoSummary THEN 1 ELSE 0)
      /\ tip'.since = (IF n > 0 /\ tip.deficit = 0 THEN 0 ELSE tip.since) + 1
  BY <1>4
<1>7. /\ tip'.ses = (IF Included THEN tip.height + 1 ELSE tip.ses)
      /\ tip'.epo = (IF Included /\ CanFinishEpoch(tip) THEN tip.height + 1 ELSE tip.epo)
      /\ tip'.summaries = tip.summaries + (IF Included THEN 1 ELSE 0)
  BY <1>3, <1>6
<1>8. tip'.fresh = (IF ended = <<>> THEN tip.fresh ELSE n = 1 /\ CanFinishEpoch(tip))
  <2>1. CASE ended = <<>>  BY <2>1, <1>1, <1>5
  <2>2. CASE ended # <<>>
    <3>1. sum.epoch = CanFinishEpoch(tip)
      <4>1. CanFinishEpoch(tip) \in BOOLEAN  BY DEF CanFinishEpoch, CanBeFirstInEpoch, CanFinishSubEpoch
      <4> QED  BY <2>2, <1>3, <4>1
    <3> QED  BY <2>2, <1>1, <1>5, <3>1
  <2> QED  BY <2>1, <2>2
<1>9. n > 0 <=> ended # <<>>  BY <1>1
<1>10. tip'.blocks = (IF ended = <<>> THEN tip.blocks + 1 ELSE 1) /\ tip'.first = (tip.first /\ ended = <<>>)
  BY <1>1, <1>5
<1>11. tip'.csb = (IF tip'.deficit = MinBlocks - 1 THEN ip ELSE IF ended = <<>> THEN tip.csb ELSE 0)
  BY <1>1, <1>5
<1>12. tip'.since = (IF ended # <<>> /\ tip.deficit = 0 THEN 0 ELSE tip.since) + 1  BY <1>6, <1>9
<1>13. RoomInSlot(tip, ended) => tip' \in Tips
  <2> SUFFICES ASSUME RoomInSlot(tip, ended) PROVE tip' \in Tips  OBVIOUS
  <2>1. ip \in Nat /\ SlotIters \in Nat  BY IpPosition DEF ip
  <2>2. at \in Int /\ ltx \in Int
    <3>1. tip.ip \in Int /\ tip.lastTx \in Int  BY <1>2, TipFields
    <3>2. at \in Int  BY <1>1, <3>1, LaterFacts DEF at
    <3>3. ltx \in Int  BY <1>1, <3>1, LaterFacts DEF ltx
    <3> QED  BY <3>2, <3>3
  <2>3. ov \in BOOLEAN /\ tx \in BOOLEAN  BY DEF ov, tx, IsOverflow, IsTransactionBlock
  <2>4. d \in 0 .. MinBlocks  BY <1>1, <1>2, <2>3, TipFields, DeficitRange DEF d, ov
  <2>5. (IF n = 0 THEN tip.blocks + 1 ELSE 1) \in 1 .. MaxSlotBlocks
    <3>1. tip.blocks \in 1 .. MaxSlotBlocks /\ MaxSlotBlocks \in Nat /\ MaxSlotBlocks >= 3  BY <1>2, TipFields, Limits
    <3>2. n = 0 => tip.blocks + 1 <= MaxSlotBlocks  BY <1>1 DEF RoomInSlot
    <3> QED  BY <3>1, <3>2
  <2>6. /\ (tip.first /\ n = 0) \in BOOLEAN
        /\ (IF n = 0 THEN tip.fresh ELSE n = 1 /\ sum.epoch) \in BOOLEAN
    BY <1>2, <1>3, TipFields
  <2>7. /\ tip.height + 1 \in Nat
        /\ (IF d = MinBlocks - 1 THEN ip ELSE IF n = 0 THEN tip.csb ELSE 0) \in Nat
        /\ (IF tx THEN ip ELSE ltx) \in Int
        /\ (IF sum # NoSummary THEN tip.height + 1 ELSE tip.ses) \in Int
        /\ (IF sum.epoch THEN tip.height + 1 ELSE tip.epo) \in Int
        /\ tip.summaries + (IF sum # NoSummary THEN 1 ELSE 0) \in Int
        /\ (IF n > 0 /\ tip.deficit = 0 THEN 0 ELSE tip.since) + 1 \in Nat
    BY <1>2, <2>1, <2>2, TipFields
  <2> QED  BY <1>1, <1>2, <1>4, <2>1, <2>2, <2>3, <2>4, <2>5, <2>6, <2>7, TipFields DEF Tips
<1>14. tip'.lastTx = (IF tip'.tx THEN ip ELSE ltx)  BY <1>5, <1>6
<1> QED  BY <1>0, <1>5, <1>6, <1>7, <1>8, <1>10, <1>11, <1>12, <1>13, <1>14 DEF n, d, tx, ov, at, ip, ltx
\* The landmarks behind the new block.
LEMMA LandmarksExtend ==
    ASSUME ConsensusInv, NEW sp \in 0 .. NumSps - 1, Extend(sp)
    PROVE  Landmarks'
<1>1. tip \in Tips /\ TipInv /\ Landmarks  BY DEF ConsensusInv, ChainTypes, TipInv
<1>2. SlotIters \in Nat /\ IpIters(sp) \in Nat /\ IpIters(sp) < SlotIters  BY IpPosition
<1>3. tip.ses <= tip.height /\ tip.epo <= tip.ses /\ tip.epo >= -1
  BY <1>1, TipFields DEF Landmarks
<1>4. /\ -1 <= tip'.prevEpo /\ tip'.prevEpo <= tip'.prevSes /\ tip'.prevSes < tip'.height
      /\ \/ tip'.ses = tip'.height /\ tip'.epo \in {tip'.height, tip'.prevEpo}
         \/ tip'.ses = tip'.prevSes /\ tip'.epo = tip'.prevEpo
  <2>1. /\ tip'.height = tip.height + 1
        /\ tip'.ses = (IF Included THEN tip.height + 1 ELSE tip.ses) /\ tip'.prevSes = tip.ses
        /\ tip'.epo = (IF Included /\ CanFinishEpoch(tip) THEN tip.height + 1 ELSE tip.epo) /\ tip'.prevEpo = tip.epo
    BY NewTipFields
  <2>2. tip.height \in Nat /\ tip.ses \in Int /\ tip.epo \in Int  BY <1>1, TipFields
  <2>3. -1 <= tip'.prevEpo /\ tip'.prevEpo <= tip'.prevSes /\ tip'.prevSes < tip'.height  BY <1>3, <2>1, <2>2
  <2>4. Included => tip'.ses = tip'.height /\ tip'.epo \in {tip'.height, tip'.prevEpo}  BY <2>1
  <2>5. ~Included => tip'.ses = tip'.prevSes /\ tip'.epo = tip'.prevEpo  BY <2>1
  <2> QED  BY <2>3, <2>4, <2>5
<1>5. tip'.tx => tip'.lastTx = tip'.ip  BY NewTipFields
<1>6. tip'.lastTx >= -SlotIters
  <2>1. Later(tip.lastTx, Len(ended)) >= -SlotIters  BY <1>1, TipFields, EndedFacts, LaterFacts
  <2> QED  BY <1>2, <2>1, NewTipFields
<1>7. tip'.csb < SlotIters  BY <1>1, <1>2, NewTipFields DEF Landmarks
<1>8. SlotIters' = SlotIters  BY DEF SlotIters
<1> QED  BY <1>4, <1>5, <1>6, <1>7, <1>8 DEF Landmarks

\* Its position: later than the block before it in the same sub-slot, and an overflow
\* block only early in a sub-slot, and not in the first one of an epoch.
LEMMA PositionedExtend ==
    ASSUME ConsensusInv, NEW sp \in 0 .. NumSps - 1, Extend(sp), NoEarlyOverflow(tip, ended, sp)
    PROVE  Positioned'
<1>1. tip \in Tips /\ TipInv /\ Positioned  BY DEF ConsensusInv, ChainTypes, TipInv
<1>2. PICK j \in 0 .. NumSps - 1 :
        /\ IpIters(sp) = j * SpIntervalIters + 1
        /\ IF IsOverflow(sp) THEN j < ExtraIntervals ELSE j >= ExtraIntervals
  BY IpPosition
<1>3. PICK k \in 0 .. NumSps - 1 :
        /\ tip.ip = k * SpIntervalIters + 1 /\ tip.blocks <= k + 1
        /\ tip.ov => k < ExtraIntervals
        /\ tip.fresh => ~tip.ov /\ k >= ExtraIntervals
  BY <1>1 DEF Positioned
<1>4. ended = <<>> => j > k
  <2> SUFFICES ASSUME ended = <<>> PROVE j > k  OBVIOUS
  <2>1. IpIters(sp) > tip.ip  BY DEF Extend, Infusible
  <2>2. k \in Int /\ j \in Int /\ SpIntervalIters \in Nat \ {0}  BY Limits
  <2>3. SpIntervalIters * k < SpIntervalIters * j  BY <1>2, <1>3, <2>1, <2>2
  <2> QED  BY <2>2, <2>3, CancelFactor
<1>5. tip'.ip = j * SpIntervalIters + 1  BY <1>2, NewTipFields
<1>6. tip'.blocks <= j + 1
  <2>1. tip'.blocks = (IF ended = <<>> THEN tip.blocks + 1 ELSE 1)  BY NewTipFields
  <2>2. tip.blocks \in Nat /\ j \in Nat /\ k \in Nat  BY <1>1, TipFields, Limits
  <2> QED  BY <1>3, <1>4, <2>1, <2>2
<1>7. tip'.ov => j < ExtraIntervals  BY <1>2, NewTipFields
<1>8. tip'.fresh => ~tip'.ov /\ j >= ExtraIntervals
  <2> SUFFICES ASSUME tip'.fresh PROVE ~IsOverflow(sp) /\ j >= ExtraIntervals  BY NewTipFields
  <2>1. CASE ended = <<>>
    <3>1. tip.fresh  BY <2>1, NewTipFields
    <3>2. j > k /\ k >= ExtraIntervals  BY <2>1, <1>3, <1>4, <3>1
    <3> QED  BY <1>2, <3>2, Limits
  <2>2. CASE ended # <<>>
    <3>1. Len(ended) = 1 /\ CanFinishEpoch(tip)  BY <2>2, NewTipFields
    <3>2. ~IsOverflow(sp)  BY <2>2, <3>1 DEF NoEarlyOverflow
    <3> QED  BY <1>2, <3>2
  <2> QED  BY <2>1, <2>2
<1> QED  BY <1>5, <1>6, <1>7, <1>8 DEF Positioned

\* The count of the blocks of the challenge slot.
LEMMA SlotCountedExtend ==
    ASSUME ConsensusInv, NEW sp \in 0 .. NumSps - 1, Extend(sp), RoomInSlot(tip, ended), Positioned'
    PROVE  SlotCounted'
<1> DEFINE n == Len(ended)
           d == tip.deficit
           ov == IsOverflow(sp)
<1>1. /\ tip \in Tips /\ TipInv /\ SlotCounted /\ n \in Nat /\ (n = 0 <=> ended = <<>>) /\ ov \in BOOLEAN
      /\ MinBlocks \in Nat /\ MinBlocks >= 2 /\ ExtraIntervals \in Nat /\ ExtraIntervals >= 1
      /\ MaxSlotBlocks \in Nat /\ MaxSlotBlocks >= 3
      /\ d \in 0 .. MinBlocks /\ tip.blocks \in 1 .. MaxSlotBlocks /\ tip.since \in Nat
  BY TipFields, EndedFacts, Limits DEF ConsensusInv, ChainTypes, TipInv, IsOverflow
<1>2. /\ tip'.deficit = Deficit(d, ov, n) /\ tip'.ov = ov
      /\ tip'.blocks = (IF n = 0 THEN tip.blocks + 1 ELSE 1)
      /\ tip'.since = (IF n > 0 /\ d = 0 THEN 0 ELSE tip.since) + 1
  BY <1>1, NewTipFields
<1>3. tip'.blocks \in 1 .. MaxSlotBlocks  BY <1>1, <1>2 DEF RoomInSlot
<1>4. tip'.ov => tip'.blocks <= ExtraIntervals
  <2>1. PICK k \in 0 .. NumSps - 1 : tip'.blocks <= k + 1 /\ (tip'.ov => k < ExtraIntervals)
    BY DEF Positioned
  <2> QED  BY <1>1, <1>3, <2>1
<1>5. tip.ov => tip.blocks <= ExtraIntervals
  <2>1. PICK k \in 0 .. NumSps - 1 : tip.blocks <= k + 1 /\ (tip.ov => k < ExtraIntervals)
    BY <1>1 DEF TipInv, Positioned
  <2> QED  BY <1>1, <2>1
<1>6. /\ tip.since >= MinBlocks - d
      /\ d = MinBlocks => tip.ov /\ tip.since = tip.blocks
      /\ tip.since <= MinBlocks - d + ExtraIntervals + (IF d = 0 THEN tip.blocks - 1 ELSE 0)
      /\ tip.since <= MinBlocks - d + MaxSlotBlocks + (IF d = 0 THEN tip.blocks - 1 ELSE 0)
  BY <1>1 DEF SlotCounted
<1> SUFFICES
      /\ tip'.since >= MinBlocks - tip'.deficit
      /\ tip'.deficit = MinBlocks => tip'.ov /\ tip'.since = tip'.blocks
      /\ tip'.since <= MinBlocks - tip'.deficit + ExtraIntervals + (IF tip'.deficit = 0 THEN tip'.blocks - 1 ELSE 0)
      /\ tip'.since <= MinBlocks - tip'.deficit + MaxSlotBlocks + (IF tip'.deficit = 0 THEN tip'.blocks - 1 ELSE 0)
  BY DEF SlotCounted
<1> HIDE DEF n, d, ov
<1>10. /\ n = 0 => tip'.blocks = tip.blocks + 1
       /\ n # 0 => tip'.blocks = 1
       /\ n = 0 \/ d # 0 => tip'.since = tip.since + 1
       /\ n # 0 /\ d = 0 => tip'.since = 1
  BY <1>1, <1>2
<1>11. /\ MinBlocks \in Nat /\ MinBlocks >= 2 /\ ExtraIntervals \in Nat /\ ExtraIntervals >= 1
       /\ MaxSlotBlocks \in Nat /\ MaxSlotBlocks >= 3 /\ tip.blocks \in Nat /\ tip.since \in Nat
  BY <1>1
<1>7. CASE d = MinBlocks
  <2>1. CASE ov /\ n = 0
    <3>1. tip'.deficit = MinBlocks  BY <1>1, <1>2, <1>7, <2>1 DEF Deficit
    <3>2. tip'.since = tip'.blocks /\ tip'.ov /\ tip'.blocks <= ExtraIntervals /\ tip'.blocks <= MaxSlotBlocks
      BY <1>1, <1>2, <1>3, <1>4, <1>6, <1>7, <1>10, <2>1
    <3> QED  BY <1>1, <1>3, <3>1, <3>2
  <2>2. CASE ~(ov /\ n = 0)
    <3>1. tip'.deficit = MinBlocks - 1  BY <1>1, <1>2, <1>7, <2>2 DEF Deficit
    <3>2. tip'.since = tip.blocks + 1 /\ tip.blocks <= ExtraIntervals /\ tip.blocks <= MaxSlotBlocks
      BY <1>1, <1>5, <1>6, <1>7, <1>10
    <3> QED  BY <1>11, <3>1, <3>2
  <2> QED  BY <2>1, <2>2
<1>8. CASE d = 0
  <2>1. CASE n = 0
    <3>1. tip'.deficit = 0  BY <1>1, <1>2, <1>8, <2>1 DEF Deficit
    <3>2. tip'.since = tip.since + 1 /\ tip'.blocks = tip.blocks + 1  BY <1>10, <2>1
    <3>3. /\ tip.since >= MinBlocks /\ tip.since <= MinBlocks + ExtraIntervals + tip.blocks - 1
          /\ tip.since <= MinBlocks + MaxSlotBlocks + tip.blocks - 1
      BY <1>1, <1>6, <1>8
    <3> QED  BY <1>11, <3>1, <3>2, <3>3
  <2>2. CASE n = 1 /\ ov
    <3>1. tip'.deficit = MinBlocks  BY <1>1, <1>2, <1>8, <2>2 DEF Deficit
    <3>2. tip'.since = 1 /\ tip'.blocks = 1 /\ tip'.ov  BY <1>2, <1>8, <1>10, <2>2
    <3> QED  BY <1>11, <3>1, <3>2
  <2>3. CASE n # 0 /\ ~(n = 1 /\ ov)
    <3>1. tip'.deficit = MinBlocks - 1  BY <1>1, <1>2, <1>8, <2>3 DEF Deficit
    <3>2. tip'.since = 1  BY <1>8, <1>10, <2>3
    <3> QED  BY <1>11, <3>1, <3>2
  <2> QED  BY <2>1, <2>2, <2>3
<1>9. CASE d # 0 /\ d # MinBlocks
  <2>1. tip'.deficit = d - 1  BY <1>1, <1>2, <1>9 DEF Deficit
  <2>2. tip'.since = tip.since + 1  BY <1>9, <1>10
  <2>3. /\ tip.since >= MinBlocks - d /\ tip.since <= MinBlocks - d + ExtraIntervals
        /\ tip.since <= MinBlocks - d + MaxSlotBlocks
    BY <1>1, <1>6, <1>9
  <2>4. (IF tip'.deficit = 0 THEN tip'.blocks - 1 ELSE 0) \in Nat  BY <1>1, <1>3
  <2> QED  BY <1>1, <1>9, <2>1, <2>2, <2>3, <2>4
<1> QED  BY <1>7, <1>8, <1>9

\* Whether a summary is missing after the new block.
LEMMA MissingNext ==
    ASSUME ConsensusInv, NEW sp \in 0 .. NumSps - 1, Extend(sp)
    PROVE  /\ Included => ~Missing'
           /\ ~Included /\ (tip.height + 1) % SubEpochBlocks = 0 => Missing'
           /\ ~Included /\ (tip.height + 1) % SubEpochBlocks # 0 => (Missing' <=> Missing)
           /\ (tip.height + 1) % SubEpochBlocks = 0 => Start' = tip.height + 1
           /\ (tip.height + 1) % SubEpochBlocks # 0 => Start' = Start
           /\ Start' \in Nat /\ Start' <= tip.height + 1 /\ Start \in Nat /\ Start <= tip.height
<1> DEFINE h == tip.height
           g == h + 1
<1>1. tip \in Tips /\ TipInv /\ h \in Nat /\ g \in Nat /\ tip.ses \in Int /\ tip.ses <= h
  BY TipFields, Lateness, SMTT(30) DEF ConsensusInv, ChainTypes
<1>2. tip'.height = g /\ tip'.ses = (IF Included THEN g ELSE tip.ses)  BY NewTipFields
<1>3. Start' = SubEpochStart(g)  BY <1>2 DEF Start, SubEpochStart
<1>4. Missing' <=> Start' > 0 /\ tip'.ses < Start'  BY DEF Missing
<1>5. /\ g % SubEpochBlocks = 0 => SubEpochStart(g) = g
      /\ g % SubEpochBlocks # 0 => SubEpochStart(g) = SubEpochStart(h)
  BY <1>1, NextHeight
<1>6. SubEpochStart(h) \in Nat /\ SubEpochStart(h) <= h  BY <1>1, HeightFacts
<1>7. SubEpochStart(g) \in Nat /\ SubEpochStart(g) <= g  BY <1>1, <1>5, <1>6
<1>8. Start = SubEpochStart(h)  BY DEF Start
<1>9. Included => ~Missing'  BY <1>1, <1>2, <1>3, <1>4, <1>7
<1>10. ~Included /\ g % SubEpochBlocks = 0 => Missing'  BY <1>1, <1>2, <1>3, <1>4, <1>5
<1>11. ~Included /\ g % SubEpochBlocks # 0 => (Missing' <=> Missing)
  BY <1>1, <1>2, <1>3, <1>4, <1>5, <1>8 DEF Missing
<1> QED  BY <1>3, <1>5, <1>6, <1>7, <1>8, <1>9, <1>10, <1>11

\* The summaries so far.
LEMMA SummariesExtend ==
    ASSUME ConsensusInv, NEW sp \in 0 .. NumSps - 1, Extend(sp)
    PROVE  SummariesInTime'
<1> DEFINE h == tip.height
           g == h + 1
           r == h % SubEpochBlocks
           q == h \div SubEpochBlocks
<1>0. /\ SubEpochBlocks \in Nat /\ Late \in Nat /\ MaxSlotBlocks \in Nat /\ MaxSlotBlocks >= 3
      /\ Late + MaxSlotBlocks < SubEpochBlocks
  BY Limits
<1>1. tip \in Tips /\ TipInv /\ SummariesInTime /\ h \in Nat /\ g \in Nat /\ tip.since \in Nat /\ tip.summaries \in Int
  BY TipFields, SMTT(30) DEF ConsensusInv, ChainTypes, TipInv
<1>2. /\ tip.since >= 1 /\ tip.since <= Late + 1 /\ (Missing => r <= tip.since - 2) /\ (Missing => r < Late)
      /\ tip.ses <= h /\ tip.ses \in Int /\ tip.epo \in Int
  BY <1>1, Lateness, TipFields
<1>3. /\ tip'.height = g /\ tip'.ses = (IF Included THEN g ELSE tip.ses)
      /\ tip'.epo = (IF Included /\ CanFinishEpoch(tip) THEN g ELSE tip.epo)
      /\ tip'.summaries = tip.summaries + (IF Included THEN 1 ELSE 0)
      /\ tip'.since = (IF ended # <<>> /\ tip.deficit = 0 THEN 0 ELSE tip.since) + 1
  BY NewTipFields
<1>4. r \in 0 .. SubEpochBlocks - 1 /\ q \in Nat /\ h - Start = r  BY <1>1, HeightFacts DEF Start
<1>5. /\ g % SubEpochBlocks = 0 <=> r = SubEpochBlocks - 1
      /\ g % SubEpochBlocks # 0 => g % SubEpochBlocks = r + 1 /\ g \div SubEpochBlocks = q
                                   /\ CanBeFirstInEpoch(g) = CanBeFirstInEpoch(h)
      /\ g % SubEpochBlocks = 0 => g \div SubEpochBlocks = q + 1
  BY <1>1, NextHeight
<1>6. ended # <<>> /\ tip.deficit = 0 /\ Passed /\ tip.ses # h => Included
  BY <1>1, FinishIffPassed DEF Included
<1>7. Included => CanFinishSubEpoch(tip) /\ Passed /\ tip.deficit = 0  BY <1>1, FinishIffPassed DEF Included
<1>8. CanFinishEpoch(tip) <=> CanFinishSubEpoch(tip) /\ CanBeFirstInEpoch(g)  BY DEF CanFinishEpoch
<1>9. Passed <=> g % SubEpochBlocks = 0 \/ Missing  BY <1>1, PassedIs DEF Passed
<1>10. /\ JustIncluded(tip) => r <= Late
       /\ tip.summaries = q - (IF Missing THEN 1 ELSE 0)
       /\ Start > 0 /\ ~Missing /\ CanBeFirstInEpoch(h) => tip.epo >= Start
  BY <1>1 DEF SummariesInTime
<1>11. JustIncluded(tip) <=> tip.ses = h  BY DEF JustIncluded
<1>12. JustIncluded(tip)' <=> tip'.ses = g  BY <1>3 DEF JustIncluded
<1>13. /\ Included => ~Missing'
       /\ ~Included /\ g % SubEpochBlocks = 0 => Missing'
       /\ ~Included /\ g % SubEpochBlocks # 0 => (Missing' <=> Missing)
       /\ g % SubEpochBlocks = 0 => Start' = g
       /\ g % SubEpochBlocks # 0 => Start' = Start
       /\ Start \in Nat /\ Start <= h
  BY MissingNext
<1> SUFFICES /\ Missing' => g - Start' <= tip'.since - 2
             /\ tip'.ses = g => g % SubEpochBlocks <= Late
             /\ tip'.summaries = g \div SubEpochBlocks - (IF Missing' THEN 1 ELSE 0)
             /\ Start' > 0 /\ ~Missing' /\ CanBeFirstInEpoch(g) => tip'.epo >= Start'
  BY <1>3, <1>12 DEF SummariesInTime, Late, CanBeFirstInEpoch
<1> HIDE DEF g, r, q
<1>14. CASE g % SubEpochBlocks = 0
  <2>1. r = SubEpochBlocks - 1 /\ Start' = g /\ ~Missing /\ tip.ses # h
    BY <1>0, <1>2, <1>4, <1>5, <1>10, <1>11, <1>13, <1>14
  <2>2. Missing' => g - Start' <= tip'.since - 2
    <3> SUFFICES ASSUME Missing' PROVE tip'.since >= 2  BY <1>1, <1>3, <2>1
    <3>1. ~(ended # <<>> /\ tip.deficit = 0)  BY <1>6, <1>9, <1>13, <1>14, <2>1
    <3> QED  BY <1>1, <1>2, <1>3, <3>1
  <2>3. tip'.summaries = g \div SubEpochBlocks - (IF Missing' THEN 1 ELSE 0)
    <3>1. CASE Included  BY <3>1, <1>1, <1>3, <1>4, <1>5, <1>10, <1>13, <1>14, <2>1
    <3>2. CASE ~Included  BY <3>2, <1>1, <1>3, <1>4, <1>5, <1>10, <1>13, <1>14, <2>1
    <3> QED  BY <3>1, <3>2
  <2>4. ~Missing' /\ CanBeFirstInEpoch(g) => tip'.epo >= Start'
    <3> SUFFICES ASSUME ~Missing', CanBeFirstInEpoch(g) PROVE tip'.epo >= Start'  OBVIOUS
    <3>1. Included  BY <1>13, <1>14
    <3>2. tip'.epo = g  BY <3>1, <1>3, <1>7, <1>8
    <3> QED  BY <1>1, <2>1, <3>2
  <2> QED  BY <1>0, <1>14, <2>2, <2>3, <2>4
<1>15. CASE g % SubEpochBlocks # 0 /\ Included
  <2>1. Missing /\ ~Missing' /\ Start' = Start  BY <1>7, <1>9, <1>13, <1>15
  <2>2. g % SubEpochBlocks <= Late  BY <1>0, <1>2, <1>4, <1>5, <1>15, <2>1
  <2>3. tip'.summaries = g \div SubEpochBlocks  BY <1>1, <1>3, <1>4, <1>5, <1>10, <1>15, <2>1
  <2>4. CanBeFirstInEpoch(g) => tip'.epo >= Start'
    <3> SUFFICES ASSUME CanBeFirstInEpoch(g) PROVE tip'.epo >= Start'  OBVIOUS
    <3>1. tip'.epo = g  BY <1>3, <1>7, <1>8, <1>15
    <3> QED  BY <1>1, <1>13, <2>1, <3>1 DEF g
  <2>5. g \div SubEpochBlocks \in Int  BY <1>4, <1>5, <1>15
  <2> QED  BY <2>1, <2>2, <2>3, <2>4, <2>5
<1>16. CASE g % SubEpochBlocks # 0 /\ ~Included
  <2>1. (Missing' <=> Missing) /\ Start' = Start /\ tip'.ses = tip.ses /\ tip'.epo = tip.epo /\ tip'.summaries = tip.summaries
    BY <1>1, <1>3, <1>13, <1>16
  <2>2. Missing' => g - Start' <= tip'.since - 2
    <3> SUFFICES ASSUME Missing PROVE g - Start <= tip'.since - 2  BY <2>1
    <3>1. tip.ses # h  BY <1>2, <1>13 DEF Missing
    <3>2. ~(ended # <<>> /\ tip.deficit = 0)  BY <1>6, <1>9, <1>16, <3>1
    <3>3. tip'.since = tip.since + 1  BY <1>3, <3>2
    <3> QED  BY <1>1, <1>2, <1>4, <1>13, <3>3 DEF g
  <2>3. tip'.ses # g  BY <1>1, <1>2, <2>1 DEF g
  <2>4. tip'.summaries = g \div SubEpochBlocks - (IF Missing' THEN 1 ELSE 0)  BY <1>5, <1>10, <1>16, <2>1
  <2>5. Start' > 0 /\ ~Missing' /\ CanBeFirstInEpoch(g) => tip'.epo >= Start'  BY <1>5, <1>10, <1>16, <2>1
  <2> QED  BY <2>2, <2>3, <2>4, <2>5
<1> QED  BY <1>14, <1>15, <1>16

\* So a block that passes validation keeps what is known of the chain.
LEMMA TipInvExtend ==
    ASSUME ConsensusInv, NEW sp \in 0 .. NumSps - 1, Extend(sp), NEW icc \in BOOLEAN, BlockValid(tip, ended, sp, icc)
    PROVE  tip' \in Tips /\ TipInv'
<1>1. RoomInSlot(tip, ended) /\ NoEarlyOverflow(tip, ended, sp)  BY DEF BlockValid
<1>2. tip' \in Tips  BY <1>1, NewTipFields
<1>3. Landmarks'  BY LandmarksExtend
<1>4. Positioned'  BY <1>1, PositionedExtend
<1>5. SlotCounted'  BY <1>1, <1>4, SlotCountedExtend
<1>6. SummariesInTime'  BY SummariesExtend
<1> QED  BY <1>2, <1>3, <1>4, <1>5, <1>6 DEF TipInv

-----------------------------------------------------------------------------
(* The other steps.                                                        *)

\* Another timelord's block.
LEMMA InvInfuseOther ==
    ASSUME ConsensusInv, Attentive, NEW sp \in 0 .. NumSps - 1, InfuseOther(sp)
    PROVE  ConsensusInv'
<1>0. Extend(sp) /\ synced' = FALSE /\ tl' = tl /\ (synced \/ mode.miss)  BY DEF InfuseOther
<1>1. PICK icc \in BOOLEAN : BlockValid(tip, ended, sp, icc)  BY DEF InfuseOther
<1>2. tip' \in Tips /\ TipInv'  BY <1>0, <1>1, TipInvExtend
<1>3. ended' = <<>> /\ mode' = mode  BY <1>0, NewTipFields
<1>4. tl \in States /\ mode \in Modes  BY DEF ConsensusInv, ChainTypes
<1>5. ChainTypes'
  <2>1. ended' \in Seq(SubSlots)  BY <1>3
  <2> QED  BY <1>0, <1>2, <1>3, <1>4, <2>1 DEF ChainTypes
<1>6. mode.own /\ ~tip'.tx => tl.lastTx = tip'.lastTx
  <2> SUFFICES ASSUME mode.own, ~tip'.tx PROVE tl.lastTx = tip'.lastTx  OBVIOUS
  <2>1. synced  BY <1>0, <1>4 DEF Attentive
  <2>2. tl.lastTx = Later(tip.lastTx, Len(ended))  BY <2>1 DEF ConsensusInv, TimelordFollows
  <2>3. tip'.lastTx = Later(tip.lastTx, Len(ended))  BY <1>0, NewTipFields
  <2> QED  BY <2>2, <2>3
<1>7. Len(ended') = 0  BY <1>3
<1>8. TimelordFollows'  BY <1>0, <1>3, <1>6, <1>7 DEF TimelordFollows
<1> QED  BY <1>2, <1>5, <1>8 DEF ConsensusInv

\* A peak has the right types.
LEMMA PeakStateType ==
    ASSUME tl \in States, NEW p,
           p.height \in Nat, p.deficit \in 0 .. MinBlocks, p.ip \in Nat, p.sum \in Sums, p.passed \in BOOLEAN,
           p.csb \in Nat, p.tx \in BOOLEAN, p.blocks \in Nat
    PROVE  PeakState(p) \in States
<1>1. tl.lastTx \in Int  BY StateFields
<1> DEFINE ps == (p.height + 1) % SubEpochBlocks = 0 \/ p.passed
           lt == IF p.tx THEN p.ip ELSE tl.lastTx
<1>2. ps \in BOOLEAN /\ lt \in Int  BY <1>1
<1> HIDE DEF ps, lt
<1>3. PeakState(p) = [kind |-> "peak", height |-> p.height, deficit |-> p.deficit, ip |-> p.ip, sum |-> p.sum,
                      passed |-> ps, infused |-> FALSE, newEpoch |-> FALSE, icc |-> FALSE, csb |-> p.csb,
                      blocks |-> p.blocks, lastTx |-> lt]
  BY DEF PeakState, ps, lt
<1> QED  BY <1>2, <1>3 DEF States

\* The summaries that are announced are summaries.
LEMMA NextSummaryType ==
    ASSUME NEW p \in Nat, NEW ses \in Int, NEW epo \in Int
    PROVE  NextSummary(p, ses, epo) \in Sums
<1>1. p \in Int /\ p + 2 \in Nat  OBVIOUS
<1>2. EpochSoon(p, epo) \in BOOLEAN  BY <1>1, SummaryTypes
<1>3. MakeSummary(p + 2, ses, EpochSoon(p, epo)) \in Sums  BY <1>1, <1>2, SummaryTypes
<1> QED  BY <1>3, SummaryTypes DEF NextSummary

\* The full node's too.
LEMMA NodeSummaryType ==
    ASSUME tip \in Tips
    PROVE  NodeSummary(tip) \in Sums
<1>1. tip.height \in Nat /\ tip.prevSes \in Int /\ tip.prevEpo \in Int  BY TipFields
<1>2. tip.height # 0 => tip.height - 1 \in Nat  BY <1>1
<1>3. tip.height # 0 => NextSummary(tip.height - 1, tip.prevSes, tip.prevEpo) \in Sums  BY <1>1, <1>2, NextSummaryType
<1> QED  BY <1>3, SummaryTypes DEF NodeSummary

\* The full node tells the timelord.
LEMMA InvTellTimelord ==
    ASSUME ConsensusInv, TellTimelord
    PROVE  ConsensusInv'
<1>0. ~synced /\ tl' = PeakState(NodePeak(tip)) /\ synced' = TRUE /\ tip' = tip /\ ended' = ended /\ mode' = mode
  BY DEF TellTimelord
<1>1. tip \in Tips /\ TipInv /\ tl \in States /\ mode \in Modes /\ ended \in Seq(SubSlots)
  BY DEF ConsensusInv, ChainTypes
<1>2. ended = <<>> /\ Len(ended) = 0  BY <1>0 DEF ConsensusInv, TimelordFollows
<1>3. tl' \in States
  <2> DEFINE p == NodePeak(tip)
  <2>1. /\ p.height = tip.height /\ p.deficit = tip.deficit /\ p.ip = tip.ip /\ p.sum = NodeSummary(tip)
        /\ p.passed = PassedButNotIncluded(tip) /\ p.csb = tip.csb /\ p.tx = tip.tx /\ p.blocks = tip.blocks
    BY DEF NodePeak
  <2>2. PassedButNotIncluded(tip) \in BOOLEAN  BY DEF PassedButNotIncluded
  <2> HIDE DEF p
  <2>3. /\ p.height \in Nat /\ p.deficit \in 0 .. MinBlocks /\ p.ip \in Nat /\ p.sum \in Sums /\ p.passed \in BOOLEAN
        /\ p.csb \in Nat /\ p.tx \in BOOLEAN /\ p.blocks \in Nat
    BY <1>1, <2>1, <2>2, TipFields, NodeSummaryType, Limits
  <2>4. PeakState(p) \in States  BY <1>1, <2>3, PeakStateType
  <2> QED  BY <1>0, <2>4 DEF p
<1>4. ChainTypes'  BY <1>0, <1>1, <1>3 DEF ChainTypes
<1>5. TipInv'
  BY <1>0, <1>1 DEF TipInv, Landmarks, Positioned, SlotCounted, SummariesInTime, Start, Missing
<1>6. /\ tl'.kind = "peak" /\ tl'.height = tip.height /\ tl'.deficit = tip.deficit /\ tl'.ip = tip.ip
      /\ tl'.sum = NodeSummary(tip) /\ tl'.passed = Passed /\ tl'.infused = FALSE /\ tl'.newEpoch = FALSE
      /\ tl'.icc = FALSE /\ tl'.csb = tip.csb /\ tl'.blocks = tip.blocks
      /\ tl'.lastTx = (IF tip.tx THEN tip.ip ELSE tl.lastTx)
  BY <1>0 DEF PeakState, NodePeak, Passed
<1>7. AtPeak'  BY <1>0, <1>6 DEF AtPeak, Passed, NodeSummary
<1>8. mode.own => tl'.lastTx = Later(tip.lastTx, 0)
  <2> SUFFICES ASSUME mode.own PROVE tl'.lastTx = Later(tip.lastTx, 0)  OBVIOUS
  <2>1. tip.lastTx \in Int /\ tip.lastTx >= -SlotIters /\ (tip.tx => tip.lastTx = tip.ip)
    BY <1>1, TipFields DEF TipInv, Landmarks
  <2>2. tl'.lastTx = tip.lastTx  BY <1>0, <1>6, <2>1 DEF ConsensusInv, TimelordFollows
  <2> QED  BY <2>1, <2>2, LaterFacts
<1>9. TimelordFollows'  BY <1>0, <1>2, <1>6, <1>7, <1>8 DEF TimelordFollows
<1> QED  BY <1>4, <1>5, <1>9 DEF ConsensusInv

-----------------------------------------------------------------------------
(* The timelord's own peaks.                                               *)

\* The height of a new sub-epoch is passed after the new block.
LEMMA PassedNext ==
    ASSUME ConsensusInv, NEW sp \in 0 .. NumSps - 1, Extend(sp)
    PROVE  Passed' <=> (tip.height + 2) % SubEpochBlocks = 0 \/ Missing'
<1>1. tip \in Tips /\ tip.height \in Nat  BY TipFields DEF ConsensusInv, ChainTypes
<1>2. tip'.height = tip.height + 1  BY NewTipFields
<1>3. tip'.height + 1 = tip.height + 2  BY <1>1, <1>2
<1>4. Start' \in Nat  BY MissingNext
<1>5. PassedButNotIncluded(tip)' <=> Start' # 0 /\ tip'.ses < Start'  BY DEF PassedButNotIncluded, Start
<1>6. Missing' <=> Start' > 0 /\ tip'.ses < Start'  BY DEF Missing
<1>7. PassedButNotIncluded(tip)' <=> Missing'  BY <1>4, <1>5, <1>6
<1>8. Passed' <=> (tip'.height + 1) % SubEpochBlocks = 0 \/ PassedButNotIncluded(tip)'  BY DEF Passed
<1> QED  BY <1>3, <1>7, <1>8

\* A summary is never due right after one.
LEMMA NotPassedSoon ==
    ASSUME ConsensusInv, NEW sp \in 0 .. NumSps - 1, Extend(sp), tip.ses = tip.height
    PROVE  ~Passed'
<1> DEFINE h == tip.height
           g == h + 1
           r == h % SubEpochBlocks
<1>0. /\ SubEpochBlocks \in Nat /\ Late \in Nat /\ MaxSlotBlocks \in Nat /\ MaxSlotBlocks >= 3
      /\ Late + MaxSlotBlocks < SubEpochBlocks
  BY Limits
<1>1. tip \in Tips /\ TipInv /\ h \in Nat /\ g \in Nat /\ g + 1 = h + 2
  <2>1. tip \in Tips /\ TipInv /\ h \in Nat  BY TipFields DEF ConsensusInv, ChainTypes
  <2> HIDE DEF h
  <2> QED  BY <2>1
<1>2. r \in 0 .. SubEpochBlocks - 1 /\ r <= Late
  BY <1>1, HeightFacts DEF TipInv, SummariesInTime, JustIncluded
<1>3. g % SubEpochBlocks = r + 1
  BY <1>0, <1>1, <1>2, NextHeight
<1>4. (g + 1) % SubEpochBlocks # 0
  <2> HIDE DEF g, r
  <2>1. g % SubEpochBlocks # SubEpochBlocks - 1  BY <1>0, <1>2, <1>3
  <2> QED  BY <1>1, <2>1, NextHeight
<1>5. ~Missing'
  <2>1. Start' = Start /\ Start \in Nat /\ Start <= h  BY <1>0, <1>2, <1>3, MissingNext
  <2>2. tip'.ses >= h  BY <1>1, NewTipFields
  <2>3. tip'.ses \in Int  BY <1>1, NewTipFields
  <2> QED  BY <1>1, <2>1, <2>2, <2>3 DEF Missing
<1> QED  BY <1>1, <1>4, <1>5, PassedNext

\* How late the next block can still be.
LEMMA LatenessNext ==
    ASSUME tip' \in Tips, TipInv', Missing', Start' \in Nat
    PROVE  tip'.height - Start' < Late
<1>1. /\ tip'.height \in Nat /\ tip'.deficit \in 0 .. MinBlocks /\ tip'.blocks \in 1 .. MaxSlotBlocks
      /\ tip'.since \in Nat
  BY DEF Tips
<1>2. tip'.since <= MinBlocks - tip'.deficit + ExtraIntervals + (IF tip'.deficit = 0 THEN tip'.blocks - 1 ELSE 0)
  BY DEF TipInv, SlotCounted
<1>3. tip'.height - Start' <= tip'.since - 2  BY DEF TipInv, SummariesInTime
<1>4. tip'.since <= Late + 1  BY <1>1, <1>2, Limits DEF Late
<1> QED  BY <1>1, <1>3, <1>4, Limits

\* Two summaries for the same sub-epoch are the same.
LEMMA SameSummary ==
    ASSUME NEW a \in Nat, NEW b \in Nat, NEW s, NEW e, NEW f,
           (a + MaxSlotBlocks) \div SubEpochBlocks = (b + MaxSlotBlocks) \div SubEpochBlocks,
           (b + MaxSlotBlocks) \div SubEpochBlocks <= 1 \/ e = f
    PROVE  MakeSummary(a, s, e) = MakeSummary(b, s, f)
BY DEF MakeSummary

\* The summary of the block before the signage point, when a block was infused since,
\* is the one the full node announces after both.
LEMMA SoonerIsLater ==
    ASSUME ConsensusInv, NEW sp \in 0 .. NumSps - 1, Extend(sp), tip' \in Tips, TipInv',
           tip.height >= 4, ~Included, Passed', tip.ses # tip.height
    PROVE  NextSummary(tip.height - 1, tip.prevSes, tip.prevEpo) = NextSummary(tip.height, tip.ses, tip.epo)
<1> DEFINE h == tip.height
           g == h + 1
           k == h + 2
           r == h % SubEpochBlocks
           X == MaxSlotBlocks
           e == EpochSoon(h - 1, tip.epo)
           f == EpochSoon(h, tip.epo)
<1>0. /\ SubEpochBlocks \in Nat \ {0} /\ Late \in Nat /\ X \in Nat /\ X >= 3
      /\ Late + X < SubEpochBlocks
  BY Limits
<1>1. /\ tip \in Tips /\ TipInv /\ h \in Nat /\ g \in Nat /\ k \in Nat /\ g + 1 = k /\ tip.epo \in Int /\ tip.ses \in Int
      /\ tip.epo <= tip.ses
  <2>1. tip \in Tips /\ TipInv /\ h \in Nat  BY TipFields DEF ConsensusInv, ChainTypes
  <2>2. tip.epo \in Int /\ tip.ses \in Int /\ tip.epo <= tip.ses  BY <2>1, TipFields, Lateness
  <2> HIDE DEF h
  <2> QED  BY <2>1, <2>2
<1>2. tip.ses = tip.prevSes /\ tip.epo = tip.prevEpo  BY <1>1 DEF TipInv, Landmarks
<1>3. /\ r \in 0 .. SubEpochBlocks - 1 /\ SubEpochStart(h) \in Nat /\ h - SubEpochStart(h) = r /\ Start = SubEpochStart(h)
      /\ SubEpochStart(h) = 0 <=> h < SubEpochBlocks
  BY <1>1, HeightFacts DEF Start
<1>4. /\ h - 1 + 2 = g /\ h - 1 + X + 2 = g + X /\ h + X + 2 = k + X /\ h # 0 /\ h - 1 # 0
  BY <1>0, <1>1
<1>5. /\ NextSummary(h - 1, tip.prevSes, tip.prevEpo) = MakeSummary(g, tip.ses, e)
      /\ NextSummary(h, tip.ses, tip.epo) = MakeSummary(k, tip.ses, f)
  BY <1>2, <1>4 DEF NextSummary
<1>6. e = IF CanBeFirstInEpoch(g) THEN (g % SubEpochBlocks > 1 => tip.epo < SubEpochStart(h - 1)) ELSE CanBeFirstInEpoch(g + X)
  BY <1>4 DEF EpochSoon
<1>7. f = IF CanBeFirstInEpoch(k) THEN (k % SubEpochBlocks > 1 => tip.epo < SubEpochStart(h)) ELSE CanBeFirstInEpoch(k + X)
  BY <1>4 DEF EpochSoon
<1>8. r >= 1 => SubEpochStart(h - 1) = SubEpochStart(h)
  <2> SUFFICES ASSUME r >= 1 PROVE SubEpochStart(h - 1) = SubEpochStart(h)  OBVIOUS
  <2> DEFINE b == h - 1
  <2>1. b \in Nat /\ b + 1 = h  BY <1>1, <1>4
  <2> HIDE DEF b
  <2>2. SubEpochStart(b + 1) = SubEpochStart(b)  BY <2>1, <1>3, NextHeight
  <2> QED  BY <2>1, <2>2 DEF b
<1>9. \A x : CanBeFirstInEpoch(x) \in BOOLEAN  BY DEF CanBeFirstInEpoch
<1> SUFFICES /\ (g + X) \div SubEpochBlocks = (k + X) \div SubEpochBlocks
             /\ (k + X) \div SubEpochBlocks <= 1 \/ e = f
  BY <1>1, <1>5, SameSummary
<1>10. k % SubEpochBlocks = 0 \/ Missing'  BY PassedNext
<1>11. /\ g % SubEpochBlocks = 0 <=> r = SubEpochBlocks - 1
       /\ g % SubEpochBlocks # 0 => g % SubEpochBlocks = r + 1 /\ CanBeFirstInEpoch(g) = CanBeFirstInEpoch(h)
                                    /\ g \div SubEpochBlocks = h \div SubEpochBlocks
  BY <1>1, NextHeight
<1> HIDE DEF g, k, r, X, e, f
<1>12. /\ k % SubEpochBlocks = 0 <=> g % SubEpochBlocks = SubEpochBlocks - 1
       /\ k % SubEpochBlocks = 0 => k \div SubEpochBlocks = (g \div SubEpochBlocks) + 1
  BY <1>1, NextHeight
<1>13. CASE k % SubEpochBlocks = 0
  <2>1. g % SubEpochBlocks = SubEpochBlocks - 1 /\ r = SubEpochBlocks - 2 /\ r >= 1
    BY <1>0, <1>3, <1>11, <1>12, <1>13
  <2>2. CanBeFirstInEpoch(k + X) = CanBeFirstInEpoch(k) /\ (k + X) \div SubEpochBlocks = k \div SubEpochBlocks
    <3>1. X \in Nat /\ (k % SubEpochBlocks) + X < SubEpochBlocks  BY <1>0, <1>13
    <3> QED  BY <1>1, <3>1, SameSubEpoch
  <2>3. CanBeFirstInEpoch(g + X) = CanBeFirstInEpoch(k) /\ (g + X) \div SubEpochBlocks = k \div SubEpochBlocks
    <3> DEFINE y == X - 1
    <3>1. y \in Nat /\ (k % SubEpochBlocks) + y < SubEpochBlocks /\ k + y = g + X  BY <1>0, <1>1, <1>13
    <3> HIDE DEF y
    <3>2. CanBeFirstInEpoch(k + y) = CanBeFirstInEpoch(k) /\ (k + y) \div SubEpochBlocks = k \div SubEpochBlocks
      BY <1>1, <3>1, SameSubEpoch
    <3> QED  BY <3>1, <3>2
  <2>4. f = CanBeFirstInEpoch(k)  BY <1>7, <1>9, <1>13, <2>2
  <2>5. CASE ~CanBeFirstInEpoch(g)
    <3>1. e = CanBeFirstInEpoch(k)  BY <1>6, <2>3, <2>5
    <3> QED  BY <2>2, <2>3, <2>4, <3>1
  <2>6. CASE CanBeFirstInEpoch(g)
    <3>1. ~CanBeFirstInEpoch(k)  BY <1>1, <2>1, <2>6, EpochsApart
    <3>2. f = FALSE  BY <2>4, <3>1, <1>9
    <3>3. CASE SubEpochStart(h) = 0
      <4>1. h < SubEpochBlocks /\ h \in 0 .. SubEpochBlocks - 1 /\ 0 \in Int /\ h \in Int /\ h = SubEpochBlocks * 0 + h
        BY <1>0, <1>1, <1>3, <3>3
      <4>2. h \div SubEpochBlocks = 0  BY <1>0, <4>1, DivModUnique
      <4>3. g % SubEpochBlocks # 0  BY <1>0, <2>1
      <4>4. k \div SubEpochBlocks = 1  BY <1>11, <1>12, <1>13, <4>2, <4>3
      <4> QED  BY <2>2, <2>3, <4>4
    <3>4. CASE SubEpochStart(h) # 0
      <4>1. ~Missing
        <5>1. Missing => r < Late  BY <1>1, Lateness DEF r
        <5> QED  BY <1>0, <2>1, <5>1
      <4>2. g % SubEpochBlocks # 0 /\ g % SubEpochBlocks > 1  BY <1>0, <2>1
      <4>3. CanBeFirstInEpoch(h)  BY <1>11, <2>6, <4>2
      <4>4. Start > 0  BY <1>3, <3>4
      <4>5. tip.epo >= SubEpochStart(h)  BY <1>1, <1>3, <4>1, <4>3, <4>4 DEF TipInv, SummariesInTime
      <4>6. ~(tip.epo < SubEpochStart(h - 1))  BY <1>1, <1>3, <1>8, <2>1, <4>5
      <4>7. e = FALSE  BY <1>6, <2>6, <4>2, <4>6
      <4> QED  BY <2>2, <2>3, <3>2, <4>7
    <3> QED  BY <3>3, <3>4
  <2> QED  BY <2>5, <2>6
<1>14. CASE k % SubEpochBlocks # 0 /\ g % SubEpochBlocks = 0
  <2>1. CanBeFirstInEpoch(g + X) = CanBeFirstInEpoch(g) /\ (g + X) \div SubEpochBlocks = g \div SubEpochBlocks
    <3>1. X \in Nat /\ (g % SubEpochBlocks) + X < SubEpochBlocks  BY <1>0, <1>14
    <3> QED  BY <1>1, <3>1, SameSubEpoch
  <2>2. CanBeFirstInEpoch(k) = CanBeFirstInEpoch(g) /\ k % SubEpochBlocks = 1
    <3>1. 1 \in Nat /\ (g % SubEpochBlocks) + 1 < SubEpochBlocks  BY <1>0, <1>14
    <3>2. CanBeFirstInEpoch(g + 1) = CanBeFirstInEpoch(g) /\ (g + 1) % SubEpochBlocks = (g % SubEpochBlocks) + 1
      BY <1>1, <3>1, SameSubEpoch
    <3> QED  BY <1>1, <1>14, <3>2
  <2>3. CanBeFirstInEpoch(k + X) = CanBeFirstInEpoch(g) /\ (k + X) \div SubEpochBlocks = g \div SubEpochBlocks
    <3> DEFINE y == X + 1
    <3>1. y \in Nat /\ (g % SubEpochBlocks) + y < SubEpochBlocks /\ g + y = k + X
      <4>1. Late >= 2  BY Limits DEF Late
      <4> QED  BY <1>0, <1>1, <1>14, <4>1
    <3> HIDE DEF y
    <3>2. CanBeFirstInEpoch(g + y) = CanBeFirstInEpoch(g) /\ (g + y) \div SubEpochBlocks = g \div SubEpochBlocks
      BY <1>1, <3>1, SameSubEpoch
    <3> QED  BY <3>1, <3>2
  <2>4. e = CanBeFirstInEpoch(g)  BY <1>6, <1>9, <1>14, <2>1
  <2>5. f = CanBeFirstInEpoch(g)  BY <1>7, <1>9, <2>2, <2>3
  <2> QED  BY <2>1, <2>3, <2>4, <2>5
<1>15. CASE k % SubEpochBlocks # 0 /\ g % SubEpochBlocks # 0
  <2>1. Missing' /\ Missing /\ Start' = Start  BY <1>10, <1>15, MissingNext DEF g
  <2>2. r + 1 < Late
    <3>1. Start' \in Nat /\ tip'.height = h + 1  BY MissingNext, NewTipFields
    <3>2. tip'.height - Start' < Late  BY <2>1, <3>1, LatenessNext
    <3> QED  BY <1>1, <1>3, <2>1, <3>1, <3>2
  <2>3. \A y \in Nat : y <= X + 2 =>
          /\ CanBeFirstInEpoch(h + y) = CanBeFirstInEpoch(h)
          /\ (h + y) \div SubEpochBlocks = h \div SubEpochBlocks
    <3> SUFFICES ASSUME NEW y \in Nat, y <= X + 2
                 PROVE  /\ CanBeFirstInEpoch(h + y) = CanBeFirstInEpoch(h)
                        /\ (h + y) \div SubEpochBlocks = h \div SubEpochBlocks
      OBVIOUS
    <3>1. r + y < SubEpochBlocks  BY <1>0, <1>3, <2>2
    <3> QED  BY <1>1, <3>1, SameSubEpoch DEF r
  <2>4. /\ g + X = h + (X + 1) /\ k + X = h + (X + 2) /\ k = h + 2 /\ g = h + 1
        /\ X + 1 \in Nat /\ X + 2 \in Nat /\ X + 1 <= X + 2 /\ 2 <= X + 2 /\ 1 <= X + 2
    BY <1>0, <1>1 DEF g, k
  <2>5. /\ CanBeFirstInEpoch(g + X) = CanBeFirstInEpoch(h) /\ (g + X) \div SubEpochBlocks = h \div SubEpochBlocks
        /\ CanBeFirstInEpoch(k + X) = CanBeFirstInEpoch(h) /\ (k + X) \div SubEpochBlocks = h \div SubEpochBlocks
        /\ CanBeFirstInEpoch(k) = CanBeFirstInEpoch(h) /\ CanBeFirstInEpoch(g) = CanBeFirstInEpoch(h)
    <3>1. CanBeFirstInEpoch(g + X) = CanBeFirstInEpoch(h) /\ (g + X) \div SubEpochBlocks = h \div SubEpochBlocks
      BY <2>3, <2>4
    <3>2. CanBeFirstInEpoch(k + X) = CanBeFirstInEpoch(h) /\ (k + X) \div SubEpochBlocks = h \div SubEpochBlocks
      BY <2>3, <2>4
    <3>3. CanBeFirstInEpoch(k) = CanBeFirstInEpoch(h) /\ CanBeFirstInEpoch(g) = CanBeFirstInEpoch(h)
      BY <2>3, <2>4
    <3> QED  BY <3>1, <3>2, <3>3
  <2>6. tip.epo < SubEpochStart(h)  BY <1>1, <1>3, <2>1 DEF Missing
  <2>7. g % SubEpochBlocks > 1 => tip.epo < SubEpochStart(h - 1)
    <3>1. g % SubEpochBlocks > 1 => r >= 1  BY <1>3, <1>11, <1>15
    <3> QED  BY <1>8, <2>6, <3>1
  <2>8. e = CanBeFirstInEpoch(h)  BY <1>6, <1>9, <2>5, <2>7
  <2>9. f = CanBeFirstInEpoch(h)  BY <1>7, <1>9, <2>5, <2>6
  <2> QED  BY <2>5, <2>8, <2>9
<1> QED  BY <1>13, <1>14, <1>15

\* Whether the timelord knows that the last sub-slot carried a summary.
LEMMA JustIsIncluded ==
    ASSUME ConsensusInv, synced, mode.own
    PROVE  (tl.kind = "eos" /\ tl.infused) <=> Included
<1>1. tip \in Tips /\ TipInv  BY DEF ConsensusInv, ChainTypes
<1>2. CASE ended = <<>>
  <2>1. AtPeak  BY <1>2, EndedFacts
  <2>2. tl.kind # "eos"  BY <2>1 DEF AtPeak
  <2> QED  BY <1>2, <2>2 DEF Included
<1>3. CASE ended # <<>>
  <2>1. AtEos /\ ended[1].sum = FirstSum /\ Len(ended) \in Nat /\ Len(ended) # 0  BY <1>3, EndedFacts
  <2>2. Len(ended) <= 1  BY DEF ConsensusInv, TimelordFollows
  <2>3. Len(ended) = 1
    <3> DEFINE n == Len(ended)
    <3>1. n \in Nat /\ n # 0 /\ n <= 1  BY <2>1, <2>2
    <3> HIDE DEF n
    <3>2. n = 1  BY <3>1
    <3> QED  BY <3>2 DEF n
  <2>4. tl.kind = "eos" /\ tl.infused = (FirstSum # NoSummary)  BY <2>1, <2>3 DEF AtEos
  <2> QED  BY <1>1, <1>3, <2>4, DueSummary DEF Included
<1> QED  BY <1>2, <1>3

\* The summary that comes with an unfinished block.
LEMMA UnfinishedSummaryIs ==
    ASSUME ConsensusInv, NEW sp \in 0 .. NumSps - 1, tip.height >= 4
    PROVE  /\ UnfinishedSummary(sp) \in Sums
           /\ ~Included /\ tip.ses # tip.height =>
                 UnfinishedSummary(sp) \in {NextSummary(tip.height - 1, tip.prevSes, tip.prevEpo),
                                            NextSummary(tip.height, tip.ses, tip.epo)}
<1> DEFINE n == Len(ended)
           behind == Later(tip.ip, n) > SpTotal(sp)
           c == IF IsOverflow(sp) THEN 1 ELSE 0
           slots == (IF behind THEN tip.n ELSE 0) + n - c
           included == slots > 0 /\ (IF behind /\ tip.n > 0 THEN JustIncluded(tip) ELSE ended[1].sum # NoSummary)
           old == NextSummary(tip.height - 1, tip.prevSes, tip.prevEpo)
           new == NextSummary(tip.height, tip.ses, tip.epo)
<1>1. /\ tip \in Tips /\ TipInv /\ tip.height \in Nat /\ tip.n \in Nat /\ n \in Nat /\ c \in {0, 1}
      /\ n = 0 <=> ended = <<>>
      /\ ended # <<>> => ended[1].sum = FirstSum
  BY TipFields, EndedFacts DEF ConsensusInv, ChainTypes
<1>2. tip.prevSes \in Int /\ tip.prevEpo \in Int /\ tip.ses \in Int /\ tip.epo \in Int  BY <1>1, TipFields
<1>3. tip.height # 0 /\ tip.height - 1 \in Nat  BY <1>1
<1>4. UnfinishedSummary(sp) = IF included THEN NoSummary ELSE IF behind THEN old ELSE new
  BY <1>3 DEF UnfinishedSummary
<1>5. old \in Sums  BY <1>2, <1>3, NextSummaryType
<1>6. new \in Sums  BY <1>1, <1>2, NextSummaryType
<1>7. ~Included /\ tip.ses # tip.height => ~included
  <2> SUFFICES ASSUME ~Included, tip.ses # tip.height, included PROVE FALSE  OBVIOUS
  <2>1. ~JustIncluded(tip)  BY DEF JustIncluded
  <2>2. ~(behind /\ tip.n > 0) /\ ended[1].sum # NoSummary /\ slots > 0  BY <2>1
  <2> HIDE DEF n, c, behind
  <2>3. slots = n - c  BY <1>1, <2>2
  <2>4. ended # <<>>  BY <1>1, <2>2, <2>3
  <2>5. FirstSum # NoSummary  BY <1>1, <2>2, <2>4
  <2> QED  BY <1>1, <2>4, <2>5, DueSummary DEF Included
<1> HIDE DEF included, behind, old, new
<1>8. UnfinishedSummary(sp) \in Sums  BY <1>4, <1>5, <1>6, SummaryTypes
<1>9. ~Included /\ tip.ses # tip.height => UnfinishedSummary(sp) \in {old, new}  BY <1>4, <1>7
<1> QED  BY <1>8, <1>9 DEF old, new

\* The timelord's own block.
LEMMA InvInfuseOwn ==
    ASSUME ConsensusInv, Attentive, NEW sp \in 0 .. NumSps - 1, InfuseOwn(sp)
    PROVE  ConsensusInv'
<1> DEFINE ov == IsOverflow(sp)
           n == Len(ended)
           just == tl.kind = "eos" /\ tl.infused
           sum == IF just THEN NoSummary ELSE UnfinishedSummary(sp)
           p == OwnPeak(sp)
<1>0. mode.own /\ synced /\ CanInfuse(ov) /\ tip.height + 1 >= 5 /\ Extend(sp) /\ tl' = PeakState(p) /\ synced' = synced
  BY DEF InfuseOwn
<1>1. /\ tip \in Tips /\ TipInv /\ tl \in States /\ mode \in Modes /\ tip.height \in Nat /\ tl.height = tip.height
      /\ synced \in BOOLEAN
  BY <1>0, TipFields DEF ConsensusInv, ChainTypes, TimelordFollows
<1>2. tip' \in Tips /\ TipInv'
  <2>1. Infusible(tip, ended, sp)  BY <1>0 DEF Extend
  <2>2. BlockValid(tip, ended, sp, HasIcc)  BY <1>0, <2>1, InfusedIsValid DEF InfusionsAccepted
  <2>3. HasIcc \in BOOLEAN  BY DEF HasIcc
  <2> QED  BY <1>0, <2>2, <2>3, TipInvExtend
<1>3. /\ n \in Nat /\ n <= 1 /\ (n = 0 <=> ended = <<>>) /\ (ended = <<>> => AtPeak) /\ (ended # <<>> => AtEos)
      /\ ended' = <<>> /\ mode' = mode
  BY <1>0, EndedFacts, NewTipFields DEF ConsensusInv, TimelordFollows
<1>4. just <=> Included  BY <1>0, JustIsIncluded
<1>5. /\ p.height = tip.height + 1 /\ p.deficit = OwnDeficit(ov) /\ p.ip = IpIters(sp) /\ p.sum = sum
      /\ p.passed = (~just /\ ((tip.height + 1) % SubEpochBlocks = 0 \/ tl.passed))
      /\ p.csb = (IF OwnDeficit(ov) = MinBlocks - 1 THEN IpIters(sp) ELSE tl.csb)
      /\ p.tx = (tl.lastTx < SpTotal(sp)) /\ p.blocks = tl.blocks + 1
  BY <1>1 DEF OwnPeak
<1>6. OwnDeficit(ov) = tip'.deficit
  <2>0. /\ tip'.deficit = Deficit(tip.deficit, ov, n) /\ MinBlocks \in Nat /\ MinBlocks >= 2 /\ tip.deficit \in 0 .. MinBlocks
        /\ ov \in BOOLEAN
    BY <1>0, <1>1, NewTipFields, Limits, TipFields DEF IsOverflow
  <2> HIDE DEF ov, n
  <2>1. CASE ended = <<>>
    <3>1. tl.deficit = tip.deficit /\ tl.kind = "peak" /\ n = 0  BY <1>3, <2>1 DEF AtPeak
    <3> QED  BY <2>0, <3>1 DEF OwnDeficit, Deficit
  <2>2. CASE ended # <<>>
    <3>1. AtEos /\ n = 1 /\ DOMAIN ended = 1 .. n  BY <1>3, <2>2, EndedFacts DEF n
    <3>2. /\ tl.deficit = (IF tip.deficit = 0 THEN MinBlocks ELSE tip.deficit) /\ tl.kind = "eos"
          /\ tl.icc = (ended[1].icc # None) /\ ended[1].icc = ExpectedIcc(tip, ended, 1)
      BY <3>1 DEF AtEos, n
    <3>3. ended[1].icc = IF tip.deficit = MinBlocks THEN None ELSE SlotIters - tip.csb
      BY <3>2 DEF ExpectedIcc
    <3>4. SlotIters - tip.csb # None
      <4>1. tip.csb < SlotIters /\ tip.csb \in Nat /\ SlotIters \in Nat
        BY <1>1, TipFields, IpPosition DEF TipInv, Landmarks
      <4> QED  BY <4>1 DEF None
    <3>5. tl.icc = (tip.deficit # MinBlocks)  BY <3>2, <3>3, <3>4
    <3>6. CASE tip.deficit = 0
      <4>0. tip.deficit # MinBlocks  BY <2>0, <3>6
      <4>1. tl.deficit = MinBlocks /\ tl.icc  BY <3>2, <3>5, <3>6, <4>0
      <4>2. OwnDeficit(ov) = IF ov THEN MinBlocks ELSE MinBlocks - 1  BY <2>0, <3>2, <4>1 DEF OwnDeficit
      <4>3. Deficit(tip.deficit, ov, n) = IF ov THEN MinBlocks ELSE MinBlocks - 1  BY <2>0, <3>1, <3>6 DEF Deficit
      <4> QED  BY <2>0, <4>2, <4>3
    <3>7. CASE tip.deficit = MinBlocks
      <4>1. tl.deficit = MinBlocks /\ ~tl.icc /\ tl.kind # "peak"  BY <2>0, <3>2, <3>5, <3>7
      <4>2. OwnDeficit(ov) = MinBlocks - 1  BY <2>0, <4>1 DEF OwnDeficit
      <4>3. Deficit(tip.deficit, ov, n) = MinBlocks - 1  BY <2>0, <3>1, <3>7 DEF Deficit
      <4> QED  BY <2>0, <4>2, <4>3
    <3>8. CASE tip.deficit # 0 /\ tip.deficit # MinBlocks
      <4>1. tl.deficit = tip.deficit  BY <3>2, <3>8
      <4> QED  BY <2>0, <3>8, <4>1 DEF OwnDeficit, Deficit
    <3> QED  BY <3>6, <3>7, <3>8
  <2> QED  BY <2>1, <2>2
<1>7. p.csb = tip'.csb
  <2>1. tl.csb = IF ended = <<>> THEN tip.csb ELSE 0  BY <1>3 DEF AtPeak, AtEos
  <2>2. tip'.csb = (IF tip'.deficit = MinBlocks - 1 THEN IpIters(sp) ELSE IF ended = <<>> THEN tip.csb ELSE 0)
    BY <1>0, NewTipFields
  <2> QED  BY <1>5, <1>6, <2>1, <2>2
<1>8. p.blocks = tip'.blocks
  <2>1. tl.blocks = IF ended = <<>> THEN tip.blocks ELSE 0  BY <1>3 DEF AtPeak, AtEos
  <2>2. tip'.blocks = (IF ended = <<>> THEN tip.blocks + 1 ELSE 1)  BY <1>0, NewTipFields
  <2> QED  BY <1>5, <2>1, <2>2
<1>9. p.tx = tip'.tx /\ (IF p.tx THEN p.ip ELSE tl.lastTx) = tip'.lastTx
  <2>1. tl.lastTx = Later(tip.lastTx, n)  BY <1>0 DEF ConsensusInv, TimelordFollows
  <2>2. tip'.tx = (SpTotal(sp) > Later(tip.lastTx, n))  BY <1>0, NewTipFields DEF IsTransactionBlock
  <2>3. tip'.lastTx = (IF tip'.tx THEN IpIters(sp) ELSE Later(tip.lastTx, n))  BY <1>0, NewTipFields
  <2>4. p.tx = tip'.tx
    <3>1. SpTotal(sp) \in Int
      <4>1. sp * SpIntervalIters \in Int /\ SlotIters \in Int  BY Limits DEF SlotIters
      <4> QED  BY <4>1 DEF SpTotal, SpIters
    <3>2. Later(tip.lastTx, n) \in Int  BY <1>1, <1>3, TipFields, LaterFacts
    <3>3. (tl.lastTx < SpTotal(sp)) = (SpTotal(sp) > Later(tip.lastTx, n))  BY <2>1, <3>1, <3>2
    <3> QED  BY <1>5, <2>2, <3>3
  <2> HIDE DEF p, n
  <2> QED  BY <1>5, <2>1, <2>3, <2>4
<1>10. ((tip.height + 2) % SubEpochBlocks = 0 \/ p.passed) = Passed'
  <2>1. Passed' <=> (tip.height + 2) % SubEpochBlocks = 0 \/ Missing'  BY <1>0, PassedNext
  <2>2. p.passed <=> Missing'
    <3>1. CASE Included
      <4>1. ~Missing'  BY <1>0, <3>1, MissingNext
      <4> QED  BY <1>4, <1>5, <3>1, <4>1
    <3>2. CASE ~Included
      <4>1. CASE (tip.height + 1) % SubEpochBlocks = 0
        <5>1. Missing'  BY <1>0, <3>2, <4>1, MissingNext
        <5> QED  BY <1>4, <1>5, <3>2, <4>1, <5>1
      <4>2. CASE (tip.height + 1) % SubEpochBlocks # 0
        <5>1. Missing' <=> Missing  BY <1>0, <3>2, <4>2, MissingNext
        <5>2. Passed <=> Missing  BY <1>1, <4>2, PassedIs DEF Passed
        <5>3. tl.passed <=> Passed
          <6>1. CASE ended = <<>>  BY <1>3, <6>1 DEF AtPeak
          <6>2. CASE ended # <<>>
            <7>1. FirstSum = NoSummary  BY <1>1, <3>2, <6>2, DueSummary DEF Included
            <7>2. tl.passed = (Passed /\ FirstSum = NoSummary)  BY <1>3, <6>2 DEF AtEos
            <7> QED  BY <7>1, <7>2
          <6> QED  BY <6>1, <6>2
        <5> QED  BY <1>4, <1>5, <3>2, <4>2, <5>1, <5>2, <5>3
      <4> QED  BY <4>1, <4>2
    <3> QED  BY <3>1, <3>2
  <2>3. Passed' \in BOOLEAN  BY DEF Passed, PassedButNotIncluded
  <2> HIDE DEF p
  <2> QED  BY <2>1, <2>2, <2>3
<1>11. Passed' => sum = NodeSummary(tip)'
  <2> SUFFICES ASSUME Passed' PROVE sum = NodeSummary(tip)'  OBVIOUS
  <2>1. tip'.height = tip.height + 1 /\ tip'.ses = (IF Included THEN tip.height + 1 ELSE tip.ses)
        /\ tip'.prevSes = tip.ses /\ tip'.prevEpo = tip.epo
    BY <1>0, NewTipFields
  <2>2. tip'.height # 0 /\ tip'.height - 1 = tip.height /\ (tip'.ses = tip'.height <=> Included)
    <3>1. tip.ses <= tip.height /\ tip.ses \in Int  BY <1>1, Lateness, TipFields
    <3> QED  BY <1>1, <2>1, <3>1
  <2>3. NodeSummary(tip)' = IF Included THEN NoSummary ELSE NextSummary(tip.height, tip.ses, tip.epo)
    BY <2>1, <2>2 DEF NodeSummary, JustIncluded
  <2>4. CASE Included  BY <1>4, <2>3, <2>4
  <2>5. CASE ~Included
    <3>1. tip.ses # tip.height  BY <1>0, NotPassedSoon
    <3>2. tip.height >= 4  BY <1>0, <1>1
    <3>3. NextSummary(tip.height - 1, tip.prevSes, tip.prevEpo) = NextSummary(tip.height, tip.ses, tip.epo)
      BY <1>0, <1>2, <2>5, <3>1, <3>2, SoonerIsLater
    <3>4. UnfinishedSummary(sp) = NextSummary(tip.height, tip.ses, tip.epo)
      BY <2>5, <3>1, <3>2, <3>3, UnfinishedSummaryIs
    <3> QED  BY <1>4, <2>3, <2>5, <3>4
  <2> QED  BY <2>4, <2>5
<1>12. tip'.height = tip.height + 1 /\ tip'.ip = IpIters(sp)  BY <1>0, NewTipFields
<1>13. tl' \in States
  <2>1. sum \in Sums
    <3>1. tip.height >= 4  BY <1>0, <1>1
    <3> QED  BY <3>1, UnfinishedSummaryIs, SummaryTypes
  <2>2. p.passed \in BOOLEAN  BY <1>1, <1>5, StateFields
  <2>3. /\ tip'.deficit \in 0 .. MinBlocks /\ tip'.ip \in Nat /\ tip'.csb \in Nat /\ tip'.tx \in BOOLEAN
        /\ tip'.blocks \in Nat /\ tip'.height \in Nat
    BY <1>2, Limits DEF Tips
  <2> HIDE DEF p, sum
  <2>4. PeakState(p) \in States
    BY <1>1, <1>5, <1>6, <1>7, <1>8, <1>9, <1>12, <2>1, <2>2, <2>3, PeakStateType
  <2> QED  BY <1>0, <2>4
<1>14. /\ tl'.kind = "peak" /\ tl'.height = p.height /\ tl'.deficit = p.deficit /\ tl'.ip = p.ip
       /\ tl'.sum = p.sum /\ tl'.passed = ((p.height + 1) % SubEpochBlocks = 0 \/ p.passed)
       /\ tl'.infused = FALSE /\ tl'.newEpoch = FALSE
       /\ tl'.icc = FALSE /\ tl'.csb = p.csb /\ tl'.blocks = p.blocks
       /\ tl'.lastTx = (IF p.tx THEN p.ip ELSE tl.lastTx)
  <2> HIDE DEF p
  <2> QED  BY <1>0 DEF PeakState
<1>15. tl'.passed = Passed'
  <2>1. p.height + 1 = tip.height + 2
    <3> HIDE DEF p
    <3> QED  BY <1>1, <1>5
  <2> QED  BY <1>10, <1>14, <2>1
<1> HIDE DEF p, sum, just
<1>16. AtPeak'
  BY <1>5, <1>6, <1>7, <1>8, <1>11, <1>12, <1>14, <1>15 DEF AtPeak
<1>17. tl'.lastTx = Later(tip.lastTx, 0)'
  <2>1. tip'.lastTx \in Int /\ tip'.lastTx >= -SlotIters  BY <1>2 DEF Tips, TipInv, Landmarks, SlotIters
  <2>2. Later(tip'.lastTx, 0) = tip'.lastTx  BY <2>1, LaterFacts
  <2> QED  BY <1>9, <1>14, <2>2 DEF Later, SlotIters
<1>18. ChainTypes'
  <2>1. ended' \in Seq(SubSlots)  BY <1>3
  <2> QED  BY <1>0, <1>1, <1>2, <1>3, <1>13, <2>1 DEF ChainTypes
<1>19. TimelordFollows'
  <2>1. Len(ended') = 0  BY <1>3
  <2>2. tl'.height = tip'.height  BY <1>5, <1>12, <1>14
  <2> QED  BY <1>0, <1>3, <1>16, <1>17, <2>1, <2>2 DEF TimelordFollows
<1> QED  BY <1>2, <1>18, <1>19 DEF ConsensusInv

-----------------------------------------------------------------------------
(* The theorems.                                                           *)

\* Every step keeps the invariant.
LEMMA InvNext ==
    ASSUME ConsensusInv, Attentive, [ConsensusNext]_consensusVars
    PROVE  ConsensusInv'
<1>1. CASE EndSubSlot  BY <1>1, InvEndSubSlot
<1>2. ASSUME NEW sp \in 0 .. NumSps - 1, InfuseOwn(sp) PROVE ConsensusInv'  BY <1>2, InvInfuseOwn
<1>3. ASSUME NEW sp \in 0 .. NumSps - 1, InfuseOther(sp) PROVE ConsensusInv'  BY <1>3, InvInfuseOther
<1>4. CASE TellTimelord  BY <1>4, InvTellTimelord
<1>5. CASE UNCHANGED consensusVars
  <2>1. tip' = tip /\ ended' = ended /\ tl' = tl /\ synced' = synced /\ mode' = mode  BY <1>5 DEF consensusVars
  <2>2. ChainTypes'  BY <2>1 DEF ConsensusInv, ChainTypes
  <2>3. TipInv'
    BY <2>1 DEF ConsensusInv, TipInv, Landmarks, Positioned, SlotCounted, SummariesInTime, Start, Missing
  <2>4. TimelordFollows'
    BY <2>1 DEF ConsensusInv, TimelordFollows, AtPeak, AtEos, FirstSum, Passed
  <2> QED  BY <2>2, <2>3, <2>4 DEF ConsensusInv
<1> QED  BY <1>1, <1>2, <1>3, <1>4, <1>5 DEF ConsensusNext

\* The invariant holds in every state.
LEMMA InvAlways ==
    ASSUME Attentive
    PROVE  ConsensusSpec => []ConsensusInv
<1>1. ConsensusInit => ConsensusInv  BY InvInit
<1>2. ConsensusInv /\ [ConsensusNext]_consensusVars => ConsensusInv'  BY InvNext
<1> QED  BY <1>1, <1>2, PTL DEF ConsensusSpec

\* For all lengths of challenge slots, sub-slots, sub-epochs and epochs and all spacings
\* of signage points that the assumption allows, the rules that header validation checks
\* one block at a time (calculate_deficit, can_finish_sub_and_full_epoch, check 9) give
\* every sub-epoch one summary in time, no overflow block in the first sub-slot of an
\* epoch, and challenge slots with enough blocks.
THEOREM EpochRulesHold ==
    ASSUME Attentive
    PROVE  ConsensusSpec => []EpochRulesKept
<1>1. ConsensusInv => EpochRulesKept  BY RulesFollow
<1>2. ConsensusSpec => []ConsensusInv  BY InvAlways
<1> QED  BY <1>1, <1>2, PTL

\* For the same numbers, the sub-slots a timelord builds and the blocks it agrees to
\* infuse are the ones header validation accepts, and the peak it works out by itself
\* is the one send_peak_to_timelords would have sent, as long as a timelord that makes
\* its own peaks hears of the others' and no sub-slot is empty.
THEOREM TimelordAgreement ==
    ASSUME Attentive
    PROVE  ConsensusSpec => []TimelordAndNodeAgree
<1>1. ConsensusInv => TimelordAndNodeAgree
  BY BuiltIsValid, InfusedIsValid, PeakIsSent DEF TimelordAndNodeAgree
<1>2. ConsensusSpec => []ConsensusInv  BY InvAlways
<1> QED  BY <1>1, <1>2, PTL

-----------------------------------------------------------------------------
(* The wallet's ledger.                                                    *)

\* A set of naturals has a least element, and a greatest one if it is bounded.
LEMMA LeastHeight ==
    ASSUME NEW S, S \subseteq Nat, S # {}
    PROVE  \E m \in S : \A k \in S : m <= k
<1> DEFINE R == OpToRel(<, Nat)
<1>1. IsWellFoundedOn(R, Nat)
  BY NatLessThanWellFounded
<1>2. PICK x \in S : \A y \in S : ~(<<y, x>> \in R)
  <2> HIDE DEF R
  <2> QED BY <1>1, WFMin
<1>3. \A y \in S : <<y, x>> \in R <=> y < x
  BY DEF OpToRel
<1> HIDE DEF R
<1>4. \A y \in S : ~(y < x)
  BY <1>2, <1>3
<1> QED BY <1>4

\* The greatest element of a bounded set of heights.
LEMMA GreatestHeight ==
    ASSUME NEW S, S \subseteq Nat, S # {}, NEW n \in Nat, \A k \in S : k <= n
    PROVE  \E m \in S : \A k \in S : k <= m
<1> DEFINE D == {k \in Nat : n - k \in S}
<1>1. D # {}
  <2>1. PICK s \in S : TRUE  OBVIOUS
  <2>2. s \in Nat /\ s <= n  BY <2>1
  <2>3. n - s \in Nat /\ n - (n - s) = s  BY <2>2
  <2>4. n - s \in D  BY <2>1, <2>3
  <2> QED  BY <2>4
<1>2. PICK d \in D : \A k \in D : d <= k
  <2>1. D \subseteq Nat  OBVIOUS
  <2> HIDE DEF D
  <2> QED  BY <1>1, <2>1, LeastHeight
<1>3. n - d \in S /\ d \in Nat  OBVIOUS
<1>4. ASSUME NEW k \in S PROVE k <= n - d
  <2>1. k \in Nat /\ k <= n  OBVIOUS
  <2>2. n - k \in Nat /\ n - (n - k) = k  BY <2>1
  <2>3. n - k \in D  BY <2>2
  <2>4. d <= n - k  BY <1>2, <2>3
  <2> QED  BY <1>3, <2>1, <2>4
<1> QED  BY <1>3, <1>4

-----------------------------------------------------------------------------
(* The tree the wallet follows.                                            *)

\* The path of b has one block at every height up to b's, and that of each of its blocks
\* is the part of it up to there.
PathOk(b) ==
    /\ b \in Path[b] /\ Path[b] \subseteq Blocks
    /\ \A x \in Path[b] : Path[x] \subseteq Path[b] /\ Height[x] <= Height[b]
    /\ \A x, y \in Path[b] : Height[x] = Height[y] => x = y
    /\ \A x, y \in Path[b] : Height[y] <= Height[x] => y \in Path[x]
    /\ \A i \in 0 .. Height[b] : \E x \in Path[b] : Height[x] = i

\* Heights are naturals.
LEMMA HeightNat == \A b \in Blocks : Height[b] \in Nat
  BY LedgerAssumption

\* Every path is like that: a lowest block whose path is not has a parent whose path is.
LEMMA Paths == \A b \in Blocks : PathOk(b)
<1> DEFINE Bad == {b \in Blocks : ~PathOk(b)}
           S == {Height[b] : b \in Bad}
<1> SUFFICES ASSUME Bad # {} PROVE FALSE  OBVIOUS
<1>1. PICK m \in S : \A k \in S : m <= k
  <2>1. S \subseteq Nat /\ S # {}  BY HeightNat
  <2> HIDE DEF S
  <2> QED  BY <2>1, LeastHeight
<1>2. PICK b \in Bad : Height[b] = m  OBVIOUS
<1>3. \A a \in Blocks : Height[a] < Height[b] => PathOk(a)
  <2> SUFFICES ASSUME NEW a \in Blocks, Height[a] < Height[b], ~PathOk(a) PROVE FALSE  OBVIOUS
  <2>1. Height[a] \in S  OBVIOUS
  <2>2. Height[b] <= Height[a] /\ Height[a] \in Nat /\ Height[b] \in Nat  BY <1>1, <1>2, <2>1, HeightNat
  <2> QED  BY <2>2
<1>4. b \in Blocks /\ ~PathOk(b) /\ Height[b] \in Nat  BY HeightNat
<1> HIDE DEF Bad, S
<1>5. CASE Prev[b] = NoBlock
  <2>1. Height[b] = 0 /\ Path[b] = {b}  BY <1>4, <1>5, LedgerAssumption
  <2>2. \A i \in 0 .. 0 : i = 0  OBVIOUS
  <2>3. PathOk(b)  BY <1>4, <2>1, <2>2 DEF PathOk
  <2> QED  BY <1>4, <2>3
<1>6. CASE Prev[b] # NoBlock
  <2> DEFINE p == Prev[b]
  <2>1. p \in Blocks /\ Height[b] = Height[p] + 1 /\ Path[b] = Path[p] \cup {b} /\ Height[p] \in Nat
    BY <1>4, <1>6, LedgerAssumption
  <2> HIDE DEF p
  <2>2. PathOk(p)
    <3>1. Height[p] < Height[b]  BY <2>1
    <3> QED  BY <1>3, <2>1, <3>1
  <2>3. \A x \in Path[p] : x \in Blocks /\ Height[x] \in Nat /\ Height[x] <= Height[p] /\ Height[x] < Height[b]
    <3>1. \A x \in Path[p] : x \in Blocks /\ Height[x] <= Height[p]  BY <2>2 DEF PathOk
    <3> QED  BY <2>1, <3>1, HeightNat
  <2>4. b \notin Path[p]  BY <1>4, <2>3
  <2>5. b \in Path[b] /\ Path[b] \subseteq Blocks  BY <1>4, <2>1, <2>2 DEF PathOk
  <2>6. \A x \in Path[b] : Path[x] \subseteq Path[b] /\ Height[x] <= Height[b]
    <3> SUFFICES ASSUME NEW x \in Path[b] PROVE Path[x] \subseteq Path[b] /\ Height[x] <= Height[b]  OBVIOUS
    <3>1. CASE x = b  BY <1>4, <3>1
    <3>2. CASE x \in Path[p]
      <4>1. Path[x] \subseteq Path[p]  BY <2>2, <3>2 DEF PathOk
      <4>2. Height[x] <= Height[b]  BY <1>4, <2>3, <3>2
      <4> QED  BY <2>1, <4>1, <4>2
    <3> QED  BY <2>1, <3>1, <3>2
  <2>7. \A x, y \in Path[b] : Height[x] = Height[y] => x = y
    <3> SUFFICES ASSUME NEW x \in Path[b], NEW y \in Path[b], Height[x] = Height[y] PROVE x = y  OBVIOUS
    <3>1. CASE x \in Path[p] /\ y \in Path[p]  BY <2>2, <3>1 DEF PathOk
    <3>2. CASE x = b \/ y = b  BY <1>4, <2>1, <2>3, <3>2
    <3> QED  BY <2>1, <3>1, <3>2
  <2>8. \A x, y \in Path[b] : Height[y] <= Height[x] => y \in Path[x]
    <3> SUFFICES ASSUME NEW x \in Path[b], NEW y \in Path[b], Height[y] <= Height[x] PROVE y \in Path[x]  OBVIOUS
    <3>1. CASE x = b  BY <3>1
    <3>2. CASE x \in Path[p] /\ y \in Path[p]  BY <2>2, <3>2 DEF PathOk
    <3>3. CASE x \in Path[p] /\ y = b  BY <1>4, <2>3, <3>3
    <3> QED  BY <2>1, <3>1, <3>2, <3>3
  <2>9. \A i \in 0 .. Height[b] : \E x \in Path[b] : Height[x] = i
    <3> SUFFICES ASSUME NEW i \in 0 .. Height[b] PROVE \E x \in Path[b] : Height[x] = i  OBVIOUS
    <3>1. CASE i = Height[b]  BY <2>5, <3>1
    <3>2. CASE i # Height[b]
      <4>1. i \in 0 .. Height[p]  BY <2>1, <3>2
      <4>2. PICK x \in Path[p] : Height[x] = i  BY <2>2, <4>1 DEF PathOk
      <4> QED  BY <2>1, <4>2
    <3> QED  BY <3>1, <3>2
  <2>10. PathOk(b)  BY <2>5, <2>6, <2>7, <2>8, <2>9 DEF PathOk
  <2> QED  BY <1>4, <2>10
<1> QED  BY <1>5, <1>6

\* The blocks of a path.
LEMMA OnPath ==
    ASSUME NEW b \in Blocks
    PROVE  /\ b \in Path[b]
           /\ \A x \in Path[b] : x \in Blocks /\ Height[x] \in Nat /\ Height[x] <= Height[b] /\ Path[x] \subseteq Path[b]
           /\ \A x, y \in Path[b] : Height[x] = Height[y] => x = y
           /\ \A x, y \in Path[b] : Height[y] <= Height[x] => y \in Path[x]
<1>1. PathOk(b)  BY Paths
<1> QED  BY <1>1, HeightNat DEF PathOk

\* The block of a chain at a height.
LEMMA AtHeight ==
    ASSUME NEW b \in Blocks, NEW i \in 0 .. Height[b]
    PROVE  /\ BlockAt(b, i) \in Path[b] /\ Height[BlockAt(b, i)] = i
           /\ \A x \in Path[b] : Height[x] = i => x = BlockAt(b, i)
<1>1. \E x \in Path[b] : Height[x] = i  BY Paths DEF PathOk
<1>2. BlockAt(b, i) \in Path[b] /\ Height[BlockAt(b, i)] = i  BY <1>1 DEF BlockAt
<1> QED  BY <1>2, OnPath

\* An ancestor has the same blocks below it.
LEMMA AtSame ==
    ASSUME NEW b \in Blocks, NEW a \in Path[b], NEW i \in 0 .. Height[a]
    PROVE  i \in 0 .. Height[b] /\ BlockAt(a, i) = BlockAt(b, i)
<1>1. a \in Blocks /\ Height[a] \in Nat /\ Height[b] \in Nat /\ Height[a] <= Height[b] /\ Path[a] \subseteq Path[b]
  BY OnPath, HeightNat
<1>2. i \in 0 .. Height[b]  BY <1>1
<1>3. BlockAt(a, i) \in Path[a] /\ Height[BlockAt(a, i)] = i  BY <1>1, AtHeight
<1> QED  BY <1>1, <1>2, <1>3, AtHeight

\* The block at its own height is the block itself.
LEMMA AtTop == ASSUME NEW b \in Blocks PROVE Height[b] \in 0 .. Height[b] /\ BlockAt(b, Height[b]) = b
<1>1. Height[b] \in 0 .. Height[b]  BY HeightNat
<1> QED  BY <1>1, AtHeight, OnPath

\* A block above the first has the block below it as its previous one.
LEMMA Below ==
    ASSUME NEW b \in Blocks, NEW i \in 1 .. Height[b]
    PROVE  LET x == BlockAt(b, i) IN
           /\ x \in Blocks /\ Height[x] = i /\ Prev[x] \in Blocks /\ Prev[x] # NoBlock
           /\ i - 1 \in 0 .. Height[b] /\ Prev[x] = BlockAt(b, i - 1) /\ Prev[x] \in Path[b]
<1> DEFINE x == BlockAt(b, i)
<1>0. Height[b] \in Nat /\ i \in 0 .. Height[b] /\ i - 1 \in 0 .. Height[b] /\ i # 0  BY HeightNat
<1>1. x \in Path[b] /\ Height[x] = i  BY <1>0, AtHeight
<1>2. x \in Blocks /\ Path[x] \subseteq Path[b]  BY <1>1, OnPath
<1> HIDE DEF x
<1>3. Prev[x] # NoBlock  BY <1>0, <1>1, <1>2, LedgerAssumption
<1>4. Prev[x] \in Blocks /\ Height[x] = Height[Prev[x]] + 1 /\ Path[x] = Path[Prev[x]] \cup {x}
  BY <1>2, <1>3, LedgerAssumption
<1>5. Prev[x] \in Path[b]  BY <1>2, <1>4, OnPath
<1>6. Height[Prev[x]] = i - 1
  <2>1. Height[Prev[x]] \in Nat  BY <1>4, HeightNat
  <2> QED  BY <1>0, <1>1, <1>4, <2>1
<1>7. Prev[x] = BlockAt(b, i - 1)  BY <1>0, <1>5, <1>6, AtHeight
<1> QED  BY <1>0, <1>1, <1>2, <1>3, <1>4, <1>5, <1>7 DEF x

\* Where two chains part: below it they have the same blocks.
LEMMA Forks ==
    ASSUME NEW a \in Blocks, NEW b \in Blocks
    PROVE  /\ ForkHeight(a, b) \in 0 .. Height[a] /\ ForkHeight(a, b) \in 0 .. Height[b]
           /\ ForkHeight(a, b) = ForkHeight(b, a)
           /\ \A i \in 0 .. ForkHeight(a, b) : i \in 0 .. Height[a] /\ i \in 0 .. Height[b] /\ BlockAt(a, i) = BlockAt(b, i)
<1> DEFINE S == {Height[x] : x \in Path[a] \cap Path[b]}
<1>0. Height[a] \in Nat /\ Height[b] \in Nat /\ 0 \in 0 .. Height[a] /\ 0 \in 0 .. Height[b]  BY HeightNat
<1>1. \A c \in Blocks : Height[c] = 0 => Prev[c] = NoBlock
  <2> SUFFICES ASSUME NEW c \in Blocks, Height[c] = 0, Prev[c] # NoBlock PROVE FALSE  OBVIOUS
  <2>1. Prev[c] \in Blocks /\ Height[c] = Height[Prev[c]] + 1  BY LedgerAssumption
  <2>2. Height[Prev[c]] \in Nat  BY <2>1, HeightNat
  <2> QED  BY <2>1, <2>2
<1>2. BlockAt(a, 0) = BlockAt(b, 0) /\ BlockAt(a, 0) \in Path[a] /\ BlockAt(b, 0) \in Path[b]
  <2>1. BlockAt(a, 0) \in Path[a] /\ Height[BlockAt(a, 0)] = 0  BY <1>0, AtHeight
  <2>2. BlockAt(b, 0) \in Path[b] /\ Height[BlockAt(b, 0)] = 0  BY <1>0, AtHeight
  <2>3. BlockAt(a, 0) \in Blocks /\ BlockAt(b, 0) \in Blocks  BY <2>1, <2>2, OnPath
  <2>4. Prev[BlockAt(a, 0)] = NoBlock /\ Prev[BlockAt(b, 0)] = NoBlock  BY <1>1, <2>1, <2>2, <2>3
  <2> QED  BY <2>1, <2>2, <2>3, <2>4, LedgerAssumption
<1>3. \A k \in S : k \in Nat /\ k <= Height[a] /\ k <= Height[b]  BY OnPath
<1>4. S # {}  BY <1>2
<1>5. \E m \in S : \A k \in S : k <= m
  <2>1. S \subseteq Nat  BY <1>3
  <2> HIDE DEF S
  <2> QED  BY <1>0, <1>3, <1>4, <2>1, GreatestHeight
<1>6. Max(S) \in S
  <2> HIDE DEF S
  <2>1. \E m \in S : \A k \in S : m >= k
    <3>1. PICK m \in S : \A k \in S : k <= m  BY <1>5
    <3>2. \A k \in S : m >= k  BY <1>3, <3>1
    <3> QED  BY <3>2
  <2> QED  BY <2>1 DEF Max
<1>7. ForkHeight(a, b) = Max(S) /\ ForkHeight(b, a) = Max(S)
  <2>1. Path[a] \cap Path[b] = Path[b] \cap Path[a]  OBVIOUS
  <2> QED  BY <2>1 DEF ForkHeight
<1>8. PICK x \in Path[a] \cap Path[b] : Height[x] = ForkHeight(a, b)  BY <1>6, <1>7
<1>9. ForkHeight(a, b) \in 0 .. Height[a] /\ ForkHeight(a, b) \in 0 .. Height[b]  BY <1>0, <1>8, OnPath
<1>10. \A i \in 0 .. Height[x] : i \in 0 .. Height[a] /\ i \in 0 .. Height[b] /\ BlockAt(a, i) = BlockAt(b, i)
  BY <1>8, AtSame
<1> QED  BY <1>7, <1>8, <1>9, <1>10

-----------------------------------------------------------------------------
(* The coins of a chain.                                                   *)

\* The coins made on the chain of p, and what is right of a coin's record: CoinsOn by
\* the blocks that make and spend a coin.
Made(p) == UNION {Added(b) : b \in Path[p]}
IsCoin(r) == r = [conf |-> r.conf, spent |-> r.spent]
CoinRight(r, p, c) ==
    /\ IsCoin(r)
    /\ \E x \in Path[p] : c \in Added(x) /\ r.conf = Height[x]
    /\ \/ \E y \in Path[p] : c \in Removed(y) /\ r.spent = Height[y]
       \/ r.spent = 0 /\ \A y \in Path[p] : c \notin Removed(y)
CoinsRight(K, p) ==
    /\ K = [c \in Made(p) |-> K[c]]
    /\ \A c \in Made(p) : CoinRight(K[c], p, c)

\* A coin is made once, and spent once, later.
LEMMA CoinOnce ==
    ASSUME NEW p \in Blocks
    PROVE  /\ \A c : \A x, y \in Path[p] : c \in Added(x) /\ c \in Added(y) => x = y
           /\ \A c : \A x, y \in Path[p] : c \in Removed(x) /\ c \in Removed(y) => x = y
           /\ \A c : \A x, y \in Path[p] : c \in Added(x) /\ c \in Removed(y) => Height[x] < Height[y]
           /\ \A c : \A y \in Path[p] : c \in Removed(y) => \E x \in Path[p] : c \in Added(x)
           /\ \A y \in Path[p] : Removed(y) # {} => Height[y] > 0
<1>1. \A c : \A x, y \in Path[p] : c \in Added(x) /\ c \in Added(y) => x = y  BY CoinAssumption
<1>2. \A c : \A x, y \in Path[p] : c \in Removed(x) /\ c \in Removed(y) => x = y  BY CoinAssumption
<1>3. ASSUME NEW c, NEW y \in Path[p], c \in Removed(y)
      PROVE  \E x \in Path[p] : c \in Added(x) /\ Height[x] < Height[y]
  <2>1. y \in Blocks /\ Path[y] \subseteq Path[p]  BY OnPath
  <2>2. PICK x \in Path[y] \ {y} : c \in Added(x)  BY <1>3, <2>1, CoinAssumption
  <2>3. Height[x] \in Nat /\ Height[y] \in Nat /\ Height[x] <= Height[y] /\ Height[x] # Height[y]
    BY <2>1, <2>2, OnPath
  <2> QED  BY <2>1, <2>2, <2>3
<1>4. ASSUME NEW y \in Path[p], Removed(y) # {} PROVE Height[y] > 0
  <2>1. y \in Blocks  BY OnPath
  <2>2. Prev[y] # NoBlock  BY <1>4, <2>1, LedgerAssumption
  <2>3. Prev[y] \in Blocks /\ Height[y] = Height[Prev[y]] + 1  BY <2>1, <2>2, LedgerAssumption
  <2>4. Height[Prev[y]] \in Nat  BY <2>3, HeightNat
  <2> QED  BY <2>3, <2>4
<1> QED  BY <1>1, <1>2, <1>3, <1>4

\* There is one right record.
LEMMA OneRecord ==
    ASSUME NEW p \in Blocks, NEW c, NEW r, NEW s, CoinRight(r, p, c), CoinRight(s, p, c)
    PROVE  r = s
<1>1. r.conf = s.conf  BY CoinOnce DEF CoinRight
<1>2. r.spent = s.spent  BY CoinOnce DEF CoinRight
<1> QED  BY <1>1, <1>2 DEF CoinRight, IsCoin

\* The heights in a right record are those of the chain, and the spend is after the making.
LEMMA RightNumbers ==
    ASSUME NEW p \in Blocks, NEW c, NEW r, CoinRight(r, p, c)
    PROVE  /\ r.conf \in 0 .. Height[p] /\ r.spent \in 0 .. Height[p] /\ (r.spent # 0 => r.conf < r.spent)
           /\ r.conf \in Nat /\ r.spent \in Nat
<1>0. Height[p] \in Nat  BY HeightNat
<1>1. PICK x \in Path[p] : c \in Added(x) /\ r.conf = Height[x]  BY DEF CoinRight
<1>2. Height[x] \in 0 .. Height[p] /\ Height[x] \in Nat  BY <1>0, OnPath
<1>3. CASE r.spent = 0  BY <1>0, <1>1, <1>2, <1>3
<1>4. CASE \E y \in Path[p] : c \in Removed(y) /\ r.spent = Height[y]
  <2>1. PICK y \in Path[p] : c \in Removed(y) /\ r.spent = Height[y]  BY <1>4
  <2>2. Height[y] \in 0 .. Height[p] /\ Height[y] \in Nat  BY <1>0, OnPath
  <2>3. Height[x] < Height[y]  BY <1>1, <2>1, CoinOnce
  <2> QED  BY <1>1, <1>2, <2>1, <2>2, <2>3
<1> QED  BY <1>3, <1>4 DEF CoinRight

\* CoinsOn is right, and nothing else.
LEMMA CoinsOnRight ==
    ASSUME NEW p \in Blocks, NEW K, CoinsRight(K, p)
    PROVE  K = CoinsOn(p)
<1> DEFINE makers(c) == {b \in Path[p] : c \in Added(b)}
           spenders(c) == {b \in Path[p] : c \in Removed(b)}
           N(c) == [conf |-> Height[CHOOSE b \in makers(c) : TRUE],
                    spent |-> IF spenders(c) = {} THEN 0 ELSE Height[CHOOSE b \in spenders(c) : TRUE]]
<1>1. CoinsOn(p) = [c \in Made(p) |-> N(c)]
  <2>1. p # NoBlock  BY LedgerAssumption
  <2> QED  BY <2>1 DEF CoinsOn, Made
<1>2. ASSUME NEW c \in Made(p) PROVE K[c] = N(c)
  <2>1. makers(c) # {}  BY DEF Made
  <2>2. PICK x \in makers(c) : (CHOOSE b \in makers(c) : TRUE) = x  BY <2>1
  <2>3. N(c).conf = Height[x] /\ x \in Path[p] /\ c \in Added(x)  BY <2>2
  <2>4. IsCoin(N(c))  BY DEF IsCoin
  <2>5. CASE spenders(c) = {}
    <3>1. N(c).spent = 0 /\ \A y \in Path[p] : c \notin Removed(y)  BY <2>5
    <3> HIDE DEF N
    <3>2. CoinRight(N(c), p, c)  BY <2>3, <2>4, <3>1 DEF CoinRight
    <3> QED  BY <3>2, OneRecord DEF CoinsRight
  <2>6. CASE spenders(c) # {}
    <3>1. PICK y \in spenders(c) : (CHOOSE b \in spenders(c) : TRUE) = y  BY <2>6
    <3>2. N(c).spent = Height[y] /\ y \in Path[p] /\ c \in Removed(y)  BY <2>6, <3>1
    <3> HIDE DEF N
    <3>3. CoinRight(N(c), p, c)  BY <2>3, <2>4, <3>2 DEF CoinRight
    <3> QED  BY <3>3, OneRecord DEF CoinsRight
  <2> QED  BY <2>5, <2>6
<1>3. K = [c \in Made(p) |-> K[c]]  BY DEF CoinsRight
<1> HIDE DEF N
<1> QED  BY <1>1, <1>2, <1>3

\* What add_coin_record and set_spent make of a coin.
Moved(K, A, R, h, c) ==
    LET r == IF c \in A THEN [conf |-> h, spent |-> 0] ELSE K[c]
    IN  IF c \in R THEN [conf |-> r.conf, spent |-> h] ELSE r

MovesTo(M, K, A, R, h, D) == M = [c \in D \cup A |-> Moved(K, A, R, h, c)]
CoinTable(K, D) == K = [c \in D |-> K[c]] /\ \A c \in D : IsCoin(K[c])

\* MoveCoins gives every coin what Moved says.
LEMMA MoveIs ==
    ASSUME NEW K, NEW A, NEW R, NEW h, NEW D, CoinTable(K, D), R \subseteq D
    PROVE  MovesTo(MoveCoins(K, A, R, h), K, A, R, h, D)
<1> USE DEF CoinTable
<1> DEFINE more == [c \in D \cup A |-> IF c \in A THEN [conf |-> h, spent |-> 0] ELSE K[c]]
<1>0. DOMAIN K = D
  <2>1. DOMAIN [c \in D |-> K[c]] = D  OBVIOUS
  <2> QED  BY <2>1
<1>1. MoveCoins(K, A, R, h) = Override(more, R \cap DOMAIN more, LAMBDA c : [more[c] EXCEPT !.spent = h])
  BY <1>0 DEF MoveCoins, Override
<1>2. DOMAIN more = D \cup A /\ R \cap DOMAIN more = R  OBVIOUS
<1>3. MoveCoins(K, A, R, h) = [c \in (D \cup A) \cup R |-> IF c \in R THEN [more[c] EXCEPT !.spent = h] ELSE more[c]]
  BY <1>1, <1>2 DEF Override
<1>4. (D \cup A) \cup R = D \cup A  OBVIOUS
<1>5. ASSUME NEW c \in D \cup A
      PROVE  (IF c \in R THEN [more[c] EXCEPT !.spent = h] ELSE more[c]) = Moved(K, A, R, h, c)
  <2>1. more[c] = IF c \in A THEN [conf |-> h, spent |-> 0] ELSE K[c]  BY <1>5
  <2>2. IsCoin(more[c])  BY <2>1 DEF IsCoin
  <2> HIDE DEF more
  <2>3. [more[c] EXCEPT !.spent = h] = [conf |-> more[c].conf, spent |-> h]
    <3> DEFINE r == more[c]
    <3>1. r = [conf |-> r.conf, spent |-> r.spent]  BY <2>2 DEF IsCoin
    <3> HIDE DEF r
    <3>2. [r EXCEPT !.spent = h] = [conf |-> r.conf, spent |-> h]  BY <3>1
    <3> QED  BY <3>2 DEF r
  <2> QED  BY <2>1, <2>3 DEF Moved
<1> HIDE DEF more
<1> QED  BY <1>3, <1>4, <1>5 DEF MovesTo

\* A block on top of a chain.
LEMMA BlockMoves ==
    ASSUME NEW x \in Blocks, Prev[x] # NoBlock, NEW K, CoinsRight(K, Prev[x])
    PROVE  CoinsRight(MoveCoins(K, Added(x), Removed(x), Height[x]), x)
<1> DEFINE p == Prev[x]
           A == Added(x)
           R == Removed(x)
           h == Height[x]
           M == MoveCoins(K, A, R, h)
<1>1. p \in Blocks /\ Path[x] = Path[p] \cup {x} /\ h = Height[p] + 1 /\ Height[p] \in Nat /\ h \in Nat
  BY LedgerAssumption, HeightNat
<1>2. x \notin Path[p]
  <2>1. \A y \in Path[p] : Height[y] \in Nat /\ Height[y] <= Height[p]  BY <1>1, OnPath
  <2> QED  BY <1>1, <2>1
<1>3. Made(x) = Made(p) \cup A  BY <1>1 DEF Made
<1>4. R \subseteq Made(p)
  <2> SUFFICES ASSUME NEW c \in R PROVE c \in Made(p)  OBVIOUS
  <2>1. PICK y \in Path[x] \ {x} : c \in Added(y)  BY CoinAssumption
  <2> QED  BY <1>1, <2>1 DEF Made
<1>5. K = [c \in Made(p) |-> K[c]] /\ \A c \in Made(p) : IsCoin(K[c]) /\ CoinRight(K[c], p, c)
  BY DEF CoinsRight, CoinRight
<1>6. M = [c \in Made(x) |-> Moved(K, A, R, h, c)]
  <2>1. CoinTable(K, Made(p))  BY <1>5 DEF CoinTable
  <2> HIDE DEF A, R, h, p
  <2>2. MovesTo(M, K, A, R, h, Made(p))  BY <1>4, <2>1, MoveIs
  <2> QED  BY <1>3, <2>2 DEF MovesTo
<1>7. A \cap R = {} /\ A \cap Made(p) = {}
  <2>1. A \cap R = {}  BY CoinAssumption
  <2>2. ASSUME NEW c \in A, c \in Made(p) PROVE FALSE
    <3>1. PICK y \in Path[p] : c \in Added(y)  BY <2>2 DEF Made
    <3>2. y \in Path[x] /\ x \in Path[x]  BY <1>1
    <3> QED  BY <1>2, <3>1, <3>2, CoinOnce
  <2> QED  BY <2>1, <2>2
<1> HIDE DEF M
<1>8. ASSUME NEW c \in Made(x) PROVE CoinRight(Moved(K, A, R, h, c), x, c)
  <2> DEFINE r == Moved(K, A, R, h, c)
  <2>1. CASE c \in A
    <3>1. r = [conf |-> h, spent |-> 0]  BY <1>7, <2>1 DEF Moved
    <3>2. \A y \in Path[x] : c \notin Removed(y)
      <4> SUFFICES ASSUME NEW y \in Path[x], c \in Removed(y) PROVE FALSE  OBVIOUS
      <4>1. Height[x] < Height[y] /\ Height[y] <= Height[x] /\ Height[y] \in Nat
        BY <1>1, <2>1, CoinOnce, OnPath
      <4> QED  BY <1>1, <4>1
    <3>3. x \in Path[x] /\ r.conf = Height[x] /\ r.spent = 0 /\ IsCoin(r)  BY <1>1, <3>1 DEF IsCoin
    <3> HIDE DEF r
    <3>4. CoinRight(r, x, c)  BY <2>1, <3>2, <3>3 DEF CoinRight
    <3> QED  BY <3>4 DEF r
  <2>2. CASE c \in R
    <3>1. c \in Made(p) /\ c \notin A  BY <1>4, <1>7, <2>2
    <3>2. r = [conf |-> K[c].conf, spent |-> h]  BY <2>2, <3>1 DEF Moved
    <3>3. CoinRight(K[c], p, c)  BY <1>5, <3>1
    <3>4. r.conf = K[c].conf /\ r.spent = Height[x] /\ IsCoin(r) /\ x \in Path[x]  BY <1>1, <3>2 DEF IsCoin
    <3> HIDE DEF r
    <3>5. CoinRight(r, x, c)  BY <1>1, <2>2, <3>3, <3>4 DEF CoinRight
    <3> QED  BY <3>5 DEF r
  <2>3. CASE c \notin A /\ c \notin R
    <3>1. c \in Made(p) /\ r = K[c]  BY <1>3, <2>3 DEF Moved
    <3>2. CoinRight(K[c], p, c)  BY <1>5, <3>1
    <3> HIDE DEF r
    <3>3. CoinRight(r, x, c)  BY <1>1, <2>3, <3>1, <3>2 DEF CoinRight
    <3> QED  BY <3>3 DEF r
  <2> QED  BY <2>1, <2>2, <2>3
<1>9. CoinsRight(M, x)  BY <1>6, <1>8 DEF CoinsRight
<1> QED  BY <1>9 DEF M

\* A rollback to a block of the chain.
LEMMA CoinsBack ==
    ASSUME NEW p \in Blocks, NEW a \in Path[p], NEW K, CoinsRight(K, p)
    PROVE  CoinsRight(RollbackCoins(K, Height[a]), a)
<1> DEFINE h == Height[a]
           M == RollbackCoins(K, h)
           N(c) == IF K[c].spent > h THEN [K[c] EXCEPT !.spent = 0] ELSE K[c]
<1>1. a \in Blocks /\ h \in Nat /\ Path[a] \subseteq Path[p] /\ \A y \in Path[a] : Height[y] \in Nat /\ Height[y] <= h
  BY OnPath
<1>2. \A y \in Path[p] : Height[y] <= h => y \in Path[a]  BY OnPath
<1>3. K = [c \in Made(p) |-> K[c]] /\ \A c \in Made(p) : CoinRight(K[c], p, c)  BY DEF CoinsRight
<1>4. DOMAIN K = Made(p)
  <2>1. DOMAIN [c \in Made(p) |-> K[c]] = Made(p)  OBVIOUS
  <2> QED  BY <1>3, <2>1
<1>5. {d \in Made(p) : K[d].conf <= h} = Made(a)
  <2>1. ASSUME NEW c \in Made(p), K[c].conf <= h PROVE c \in Made(a)
    <3>1. PICK x \in Path[p] : c \in Added(x) /\ K[c].conf = Height[x]  BY <1>3 DEF CoinRight
    <3> QED  BY <1>2, <2>1, <3>1 DEF Made
  <2>2. ASSUME NEW c \in Made(a) PROVE c \in Made(p) /\ K[c].conf <= h
    <3>1. PICK x \in Path[a] : c \in Added(x)  BY DEF Made
    <3>2. x \in Path[p] /\ c \in Made(p)  BY <1>1, <3>1 DEF Made
    <3>3. PICK y \in Path[p] : c \in Added(y) /\ K[c].conf = Height[y]  BY <1>3, <3>2 DEF CoinRight
    <3>4. y = x  BY <3>1, <3>2, <3>3, CoinOnce
    <3> QED  BY <1>1, <3>1, <3>2, <3>3, <3>4
  <2> QED  BY <2>1, <2>2
<1>6. M = [c \in Made(a) |-> N(c)]
  <2>1. M = [c \in {d \in Made(p) : K[d].conf <= h} |-> N(c)]  BY <1>4 DEF RollbackCoins
  <2> QED  BY <1>5, <2>1
<1>7. ASSUME NEW c \in Made(a) PROVE CoinRight(N(c), a, c)
  <2> DEFINE r == K[c]
  <2>1. c \in Made(p) /\ r.conf <= h  BY <1>5
  <2>2. CoinRight(r, p, c) /\ r.conf \in Nat /\ r.spent \in Nat  BY <1>3, <2>1, RightNumbers
  <2>3. IsCoin(r) /\ \E x \in Path[a] : c \in Added(x) /\ r.conf = Height[x]  BY <1>2, <2>1, <2>2 DEF CoinRight
  <2> HIDE DEF r
  <2>4. CASE r.spent > h
    <3>1. N(c) = [conf |-> r.conf, spent |-> 0]
      <4>1. [r EXCEPT !.spent = 0] = [conf |-> r.conf, spent |-> 0]  BY <2>3 DEF IsCoin
      <4> QED  BY <2>4, <4>1 DEF r
    <3>2. \A y \in Path[a] : c \notin Removed(y)
      <4> SUFFICES ASSUME NEW y \in Path[a], c \in Removed(y) PROVE FALSE  OBVIOUS
      <4>1. PICK z \in Path[p] : c \in Removed(z) /\ r.spent = Height[z]  BY <1>1, <2>2 DEF CoinRight
      <4>2. z = y  BY <1>1, <4>1, CoinOnce
      <4> QED  BY <1>1, <2>4, <4>1, <4>2
    <3> HIDE DEF N
    <3> QED  BY <2>3, <3>1, <3>2 DEF CoinRight, IsCoin
  <2>5. CASE ~(r.spent > h)
    <3>1. N(c) = r  BY <2>5 DEF r
    <3>2. r.spent <= h  BY <1>1, <2>2, <2>5
    <3> HIDE DEF N
    <3> QED  BY <1>1, <1>2, <2>2, <2>3, <3>1, <3>2 DEF CoinRight
  <2> QED  BY <2>4, <2>5
<1> HIDE DEF M, N
<1>8. CoinsRight(M, a)  BY <1>6, <1>7 DEF CoinsRight
<1> QED  BY <1>8 DEF M

\* The coins of p while the blocks above height h are applied again, up to height i: what
\* has been made again counts as unspent until it is spent again.
Again(r, h, i) == IF h < r.conf /\ r.conf <= i /\ r.spent > i THEN [conf |-> r.conf, spent |-> 0] ELSE r
CoinsAgain(K, p, h, i) ==
    /\ K = [c \in Made(p) |-> K[c]]
    /\ \A c \in Made(p) : \E r : CoinRight(r, p, c) /\ K[c] = Again(r, h, i)

\* Before the first block is applied again the coins are right.
LEMMA AgainStarts ==
    ASSUME NEW p \in Blocks, NEW h \in Nat, NEW K, CoinsRight(K, p)
    PROVE  CoinsAgain(K, p, h, h)
<1>1. ASSUME NEW c \in Made(p) PROVE \E r : CoinRight(r, p, c) /\ K[c] = Again(r, h, h)
  <2> DEFINE r == K[c]
  <2>1. CoinRight(r, p, c)  BY DEF CoinsRight
  <2>2. r.conf \in Nat  BY <2>1, RightNumbers
  <2>3. Again(r, h, h) = r
    <3> HIDE DEF r
    <3> QED  BY <2>2 DEF Again
  <2> QED  BY <2>1, <2>3
<1> QED  BY <1>1 DEF CoinsAgain, CoinsRight

\* When the last one has been they are right again.
LEMMA AgainEnds ==
    ASSUME NEW p \in Blocks, NEW h, NEW K, CoinsAgain(K, p, h, Height[p])
    PROVE  CoinsRight(K, p)
<1>1. ASSUME NEW c \in Made(p) PROVE CoinRight(K[c], p, c)
  <2>1. PICK r : CoinRight(r, p, c) /\ K[c] = Again(r, h, Height[p])  BY DEF CoinsAgain
  <2>2. r.spent \in 0 .. Height[p] /\ Height[p] \in Nat  BY <2>1, RightNumbers, HeightNat
  <2>3. K[c] = r  BY <2>1, <2>2 DEF Again
  <2> QED  BY <2>1, <2>3
<1> QED  BY <1>1 DEF CoinsAgain, CoinsRight

\* One block of the chain applied again.
LEMMA AgainGoesOn ==
    ASSUME NEW p \in Blocks, NEW h \in Nat, NEW x \in Path[p], h < Height[x], NEW K, CoinsAgain(K, p, h, Height[x] - 1)
    PROVE  CoinsAgain(MoveCoins(K, Added(x), Removed(x), Height[x]), p, h, Height[x])
<1> DEFINE A == Added(x)
           R == Removed(x)
           i == Height[x]
           M == MoveCoins(K, A, R, i)
<1>0. i \in Nat /\ x \in Blocks  BY OnPath
<1>1. A \subseteq Made(p) /\ A \cap R = {}  BY <1>0, CoinAssumption DEF Made
<1>2. R \subseteq Made(p)
  <2> SUFFICES ASSUME NEW c \in R PROVE c \in Made(p)  OBVIOUS
  <2> QED  BY CoinOnce DEF Made
<1>3. K = [c \in Made(p) |-> K[c]]  BY DEF CoinsAgain
<1>4. \A c \in Made(p) : IsCoin(K[c])
  <2> SUFFICES ASSUME NEW c \in Made(p) PROVE IsCoin(K[c])  OBVIOUS
  <2>1. PICK r : CoinRight(r, p, c) /\ K[c] = Again(r, h, i - 1)  BY DEF CoinsAgain
  <2> QED  BY <2>1 DEF Again, CoinRight, IsCoin
<1>5. M = [c \in Made(p) |-> Moved(K, A, R, i, c)]
  <2>1. Made(p) \cup A = Made(p)  BY <1>1
  <2>2. CoinTable(K, Made(p))  BY <1>3, <1>4 DEF CoinTable
  <2> HIDE DEF A, R, i
  <2>3. MovesTo(M, K, A, R, i, Made(p))  BY <1>2, <2>2, MoveIs
  <2> QED  BY <2>1, <2>3 DEF MovesTo
<1>6. ASSUME NEW c \in Made(p) PROVE \E r : CoinRight(r, p, c) /\ Moved(K, A, R, i, c) = Again(r, h, i)
  <2>1. PICK r : CoinRight(r, p, c) /\ K[c] = Again(r, h, i - 1)  BY DEF CoinsAgain
  <2>2. r.conf \in Nat /\ r.spent \in Nat /\ (r.spent # 0 => r.conf < r.spent) /\ IsCoin(r)
    BY <2>1, RightNumbers DEF CoinRight
  <2>3. c \in A <=> r.conf = i
    <3>1. PICK y \in Path[p] : c \in Added(y) /\ r.conf = Height[y]  BY <2>1 DEF CoinRight
    <3> QED  BY <3>1, CoinOnce, OnPath
  <2>4. c \in R <=> r.spent = i
    <3>1. i # 0  BY <1>0
    <3>2. ASSUME c \in R PROVE r.spent = i
      <4>1. PICK y \in Path[p] : c \in Removed(y) /\ r.spent = Height[y]  BY <2>1, <3>2 DEF CoinRight
      <4> QED  BY <3>2, <4>1, CoinOnce
    <3>3. ASSUME r.spent = i PROVE c \in R
      <4>1. PICK y \in Path[p] : c \in Removed(y) /\ r.spent = Height[y]  BY <2>1, <3>1, <3>3 DEF CoinRight
      <4> QED  BY <3>3, <4>1, OnPath
    <3> QED  BY <3>2, <3>3
  <2> HIDE DEF A, R, i
  <2>5. CASE c \in A
    <3>1. c \notin R /\ r.conf = i  BY <1>1, <2>3, <2>5
    <3>2. Moved(K, A, R, i, c) = [conf |-> i, spent |-> 0]  BY <2>5, <3>1 DEF Moved
    <3>3. Again(r, h, i) = [conf |-> i, spent |-> 0]
      <4>1. CASE r.spent > i  BY <1>0, <3>1, <4>1 DEF Again, i
      <4>2. CASE ~(r.spent > i)
        <5>1. r.spent = 0  BY <1>0, <2>2, <3>1, <4>2
        <5> QED  BY <2>2, <3>1, <4>2, <5>1 DEF Again, IsCoin
      <4> QED  BY <4>1, <4>2
    <3> QED  BY <2>1, <3>2, <3>3
  <2>6. CASE c \in R
    <3>1. c \notin A /\ r.spent = i  BY <1>1, <2>4, <2>6
    <3>2. K[c].conf = r.conf  BY <2>1 DEF Again
    <3>3. Moved(K, A, R, i, c) = [conf |-> r.conf, spent |-> i]  BY <2>6, <3>1, <3>2 DEF Moved
    <3>4. Again(r, h, i) = r  BY <1>0, <3>1 DEF Again
    <3>5. r = [conf |-> r.conf, spent |-> i]  BY <2>2, <3>1 DEF IsCoin
    <3> QED  BY <2>1, <3>3, <3>4, <3>5
  <2>7. CASE c \notin A /\ c \notin R
    <3>1. Moved(K, A, R, i, c) = K[c]  BY <2>7 DEF Moved
    <3>2. (r.conf <= i <=> r.conf <= i - 1) /\ (r.spent > i <=> r.spent > i - 1)  BY <1>0, <2>2, <2>3, <2>4, <2>7
    <3>3. Again(r, h, i) = Again(r, h, i - 1)  BY <3>2 DEF Again
    <3> QED  BY <2>1, <3>1, <3>3
  <2> QED  BY <2>5, <2>6, <2>7
<1> HIDE DEF M
<1>7. CoinsAgain(M, p, h, i)  BY <1>5, <1>6 DEF CoinsAgain
<1> QED  BY <1>7 DEF M

-----------------------------------------------------------------------------
(* The transactions of a chain.                                            *)

\* What is right of a transaction: it is confirmed at the lowest block of the chain that
\* spends one of its coins.
Hits(t, y) == Spends[t] \cap Removed(y) # {}
TxRight(k, t, p) ==
    \/ k = 0 /\ \A y \in Path[p] : ~Hits(t, y)
    \/ \E y \in Path[p] : k = Height[y] /\ Hits(t, y) /\ \A z \in Path[p] : Hits(t, z) => Height[y] <= Height[z]
IsTx(r) == r = [conf |-> r.conf, sent |-> r.sent]
TxsRight(T, p) ==
    /\ T = [t \in DOMAIN T |-> T[t]]
    /\ \A t \in DOMAIN T : t \in Txs /\ IsTx(T[t]) /\ TxRight(T[t].conf, t, p)

\* A block that spends a coin is above the first one.
LEMMA HitsAbove ==
    ASSUME NEW p \in Blocks, NEW y \in Path[p], NEW t, Hits(t, y)
    PROVE  Height[y] \in Nat /\ Height[y] > 0 /\ Height[y] <= Height[p]
<1>1. Removed(y) # {}  BY DEF Hits
<1> QED  BY <1>1, CoinOnce, OnPath

\* A block that adds the change of a transaction includes it, and so spends its coins.
LEMMA ChangeHits ==
    ASSUME NEW t \in Txs, NEW x \in Blocks, Change[t] \cap Added(x) # {}
    PROVE  Hits(t, x)
<1>1. t \in Includes[x] /\ Spends[t] # {}  BY CoinAssumption
<1>2. Spends[t] \subseteq Removed(x)  BY <1>1 DEF Removed
<1> QED  BY <1>1, <1>2 DEF Hits

\* What new_transaction_block_callback makes of the stored transactions.
Confirmed(T, x) == {t \in DOMAIN T : T[t].conf = 0 /\ (Change[t] \cap Added(x) # {} \/ Spends[t] \cap Removed(x) # {})}
TxsAfter(T, x) == [t \in DOMAIN T |-> IF t \in Confirmed(T, x) THEN [conf |-> Height[x], sent |-> T[t].sent] ELSE T[t]]

\* A block confirms the waiting transactions one of whose coins it spends, and no others.
LEMMA ConfirmedHits ==
    ASSUME NEW T, NEW p, TxsRight(T, p), NEW x \in Blocks
    PROVE  \A t \in DOMAIN T : t \in Confirmed(T, x) <=> T[t].conf = 0 /\ Hits(t, x)
<1> SUFFICES ASSUME NEW t \in DOMAIN T PROVE t \in Confirmed(T, x) <=> T[t].conf = 0 /\ Hits(t, x)  OBVIOUS
<1>1. t \in Txs  BY DEF TxsRight
<1>2. Change[t] \cap Added(x) # {} => Hits(t, x)  BY <1>1, ChangeHits
<1> QED  BY <1>2 DEF Confirmed, Hits

\* A block on top of a chain leaves the transactions right for it.
LEMMA TxsMove ==
    ASSUME NEW x \in Blocks, Prev[x] # NoBlock, NEW T, TxsRight(T, Prev[x])
    PROVE  TxsRight(TxsAfter(T, x), x)
<1> DEFINE p == Prev[x]
           U == TxsAfter(T, x)
<1>1. p \in Blocks /\ Path[x] = Path[p] \cup {x} /\ Height[x] = Height[p] + 1 /\ Height[p] \in Nat /\ Height[x] \in Nat
  BY LedgerAssumption, HeightNat
<1> HIDE DEF p
<1>2. \A y \in Path[p] : Height[y] \in Nat /\ Height[y] <= Height[p] /\ Height[y] <= Height[x]
  <2>1. \A y \in Path[p] : Height[y] \in Nat /\ Height[y] <= Height[p]  BY <1>1, OnPath
  <2> QED  BY <1>1, <2>1
<1>3. TxsRight(T, p)  BY DEF p
<1>4. DOMAIN U = DOMAIN T /\ U = [t \in DOMAIN U |-> U[t]]  BY DEF TxsAfter
<1>5. ASSUME NEW t \in DOMAIN T PROVE t \in Txs /\ IsTx(U[t]) /\ TxRight(U[t].conf, t, x)
  <2>1. t \in Txs /\ IsTx(T[t]) /\ TxRight(T[t].conf, t, p)  BY <1>3 DEF TxsRight
  <2>2. U[t] = IF t \in Confirmed(T, x) THEN [conf |-> Height[x], sent |-> T[t].sent] ELSE T[t]  BY DEF TxsAfter
  <2>3. t \in Confirmed(T, x) <=> T[t].conf = 0 /\ Hits(t, x)  BY <1>3, ConfirmedHits
  <2> HIDE DEF U
  <2>4. IsTx(U[t])  BY <2>1, <2>2 DEF IsTx
  <2>5. CASE T[t].conf # 0
    <3>1. U[t].conf = T[t].conf  BY <2>2, <2>3, <2>5
    <3>2. PICK y \in Path[p] : /\ T[t].conf = Height[y] /\ Hits(t, y)
                               /\ \A z \in Path[p] : Hits(t, z) => Height[y] <= Height[z]
      BY <2>1, <2>5 DEF TxRight
    <3>3. \A z \in Path[x] : Hits(t, z) => Height[y] <= Height[z]  BY <1>1, <1>2, <3>2
    <3>4. TxRight(U[t].conf, t, x)  BY <1>1, <3>1, <3>2, <3>3 DEF TxRight
    <3> QED  BY <2>1, <2>4, <3>4
  <2>6. CASE T[t].conf = 0
    <3>1. \A y \in Path[p] : ~Hits(t, y)
      <4>1. \A y \in Path[p] : Hits(t, y) => Height[y] # 0  BY <1>1, HitsAbove
      <4> QED  BY <2>1, <2>6, <4>1 DEF TxRight
    <3>2. CASE Hits(t, x)
      <4>1. U[t].conf = Height[x]  BY <2>2, <2>3, <2>6, <3>2
      <4>2. \A z \in Path[x] : Hits(t, z) => Height[x] <= Height[z]  BY <1>1, <3>1
      <4>3. TxRight(U[t].conf, t, x)  BY <1>1, <3>2, <4>1, <4>2 DEF TxRight
      <4> QED  BY <2>1, <2>4, <4>3
    <3>3. CASE ~Hits(t, x)
      <4>1. U[t].conf = 0  BY <2>2, <2>3, <2>6, <3>3
      <4>2. TxRight(U[t].conf, t, x)  BY <1>1, <3>1, <3>3, <4>1 DEF TxRight
      <4> QED  BY <2>1, <2>4, <4>2
    <3> QED  BY <3>2, <3>3
  <2> QED  BY <2>5, <2>6
<1> HIDE DEF U
<1>6. TxsRight(U, x)  BY <1>4, <1>5 DEF TxsRight
<1> QED  BY <1>6 DEF U

\* A block of the chain that is applied again confirms nothing.
LEMMA TxsStay ==
    ASSUME NEW p \in Blocks, NEW x \in Path[p], NEW T, TxsRight(T, p)
    PROVE  TxsAfter(T, x) = T
<1>1. x \in Blocks  BY OnPath
<1>2. ASSUME NEW t \in DOMAIN T PROVE t \notin Confirmed(T, x)
  <2>1. t \in Confirmed(T, x) <=> T[t].conf = 0 /\ Hits(t, x)  BY <1>1, ConfirmedHits
  <2>2. TxRight(T[t].conf, t, p)  BY DEF TxsRight
  <2>3. \A y \in Path[p] : Hits(t, y) => Height[y] # 0  BY HitsAbove
  <2> QED  BY <2>1, <2>2, <2>3 DEF TxRight
<1>3. TxsAfter(T, x) = [t \in DOMAIN T |-> T[t]]  BY <1>2 DEF TxsAfter
<1> QED  BY <1>3 DEF TxsRight

\* What reorg_rollback makes of them.
TxsBack(T, h) == [t \in DOMAIN T |-> IF T[t].conf > h THEN [conf |-> 0, sent |-> {}] ELSE T[t]]

\* A rollback leaves them right for the block it goes back to.
LEMMA TxsRollBack ==
    ASSUME NEW p \in Blocks, NEW a \in Path[p], NEW T, TxsRight(T, p)
    PROVE  TxsRight(TxsBack(T, Height[a]), a)
<1> DEFINE U == TxsBack(T, Height[a])
           h == Height[a]
<1>1. a \in Blocks /\ h \in Nat /\ Path[a] \subseteq Path[p] /\ \A y \in Path[a] : Height[y] \in Nat /\ Height[y] <= h
  BY OnPath
<1>2. \A y \in Path[p] : Height[y] \in Nat /\ (Height[y] <= h => y \in Path[a])  BY OnPath
<1>3. DOMAIN U = DOMAIN T /\ U = [t \in DOMAIN U |-> U[t]]  BY DEF TxsBack
<1>4. ASSUME NEW t \in DOMAIN T PROVE t \in Txs /\ IsTx(U[t]) /\ TxRight(U[t].conf, t, a)
  <2>1. t \in Txs /\ IsTx(T[t]) /\ TxRight(T[t].conf, t, p)  BY DEF TxsRight
  <2>2. U[t] = IF T[t].conf > h THEN [conf |-> 0, sent |-> {}] ELSE T[t]  BY DEF TxsBack
  <2> HIDE DEF U, h
  <2>3. IsTx(U[t])  BY <2>1, <2>2 DEF IsTx
  <2>4. CASE T[t].conf = 0 /\ \A y \in Path[p] : ~Hits(t, y)
    <3>1. U[t].conf = 0  BY <1>1, <2>2, <2>4
    <3>2. \A y \in Path[a] : ~Hits(t, y)  BY <1>1, <2>4
    <3>3. TxRight(U[t].conf, t, a)  BY <3>1, <3>2 DEF TxRight
    <3> QED  BY <2>1, <2>3, <3>3
  <2>5. CASE \E y \in Path[p] : /\ T[t].conf = Height[y] /\ Hits(t, y)
                                /\ \A z \in Path[p] : Hits(t, z) => Height[y] <= Height[z]
    <3>1. PICK y \in Path[p] : /\ T[t].conf = Height[y] /\ Hits(t, y)
                               /\ \A z \in Path[p] : Hits(t, z) => Height[y] <= Height[z]
      BY <2>5
    <3>2. CASE Height[y] <= h
      <4>1. U[t].conf = Height[y]  BY <1>1, <1>2, <2>2, <3>1, <3>2
      <4>2. TxRight(U[t].conf, t, a)  BY <1>1, <1>2, <3>1, <3>2, <4>1 DEF TxRight
      <4> QED  BY <2>1, <2>3, <4>2
    <3>3. CASE ~(Height[y] <= h)
      <4>1. Height[y] > h  BY <1>1, <1>2, <3>3
      <4>2. U[t].conf = 0  BY <2>2, <3>1, <4>1
      <4>3. \A z \in Path[a] : ~Hits(t, z)
        <5> SUFFICES ASSUME NEW z \in Path[a], Hits(t, z) PROVE FALSE  OBVIOUS
        <5>1. Height[y] <= Height[z] /\ Height[z] <= h /\ Height[z] \in Nat  BY <1>1, <3>1
        <5> QED  BY <1>1, <1>2, <3>3, <5>1
      <4>4. TxRight(U[t].conf, t, a)  BY <4>2, <4>3 DEF TxRight
      <4> QED  BY <2>1, <2>3, <4>4
    <3> QED  BY <3>2, <3>3
  <2> QED  BY <2>1, <2>4, <2>5 DEF TxRight
<1> HIDE DEF U
<1>5. TxsRight(U, a)  BY <1>3, <1>4 DEF TxsRight
<1> QED  BY <1>5 DEF U

\* The confirmations that are right are those TxsMatchChain asks for.
LEMMA TxHeight ==
    ASSUME NEW p \in Blocks, NEW K, CoinsRight(K, p), NEW t, NEW k, TxRight(k, t, p)
    PROVE  LET hs == {K[c].spent : c \in Spends[t] \cap DOMAIN K} \ {0}
           IN  k = IF hs = {} THEN 0 ELSE Min(hs)
<1> DEFINE hs == {K[c].spent : c \in Spends[t] \cap DOMAIN K} \ {0}
<1>1. DOMAIN K = Made(p) /\ \A c \in Made(p) : CoinRight(K[c], p, c)
  <2>1. DOMAIN [c \in Made(p) |-> K[c]] = Made(p)  OBVIOUS
  <2> QED  BY <2>1 DEF CoinsRight
<1>2. ASSUME NEW n \in hs PROVE \E y \in Path[p] : Hits(t, y) /\ n = Height[y]
  <2>1. PICK c \in Spends[t] \cap DOMAIN K : n = K[c].spent /\ n # 0  OBVIOUS
  <2>2. PICK y \in Path[p] : c \in Removed(y) /\ K[c].spent = Height[y]  BY <1>1, <2>1 DEF CoinRight
  <2> QED  BY <2>1, <2>2 DEF Hits
<1>3. ASSUME NEW y \in Path[p], Hits(t, y) PROVE Height[y] \in hs
  <2>1. PICK c : c \in Spends[t] /\ c \in Removed(y)  BY <1>3 DEF Hits
  <2>2. c \in Made(p)  BY <2>1, CoinOnce DEF Made
  <2>3. PICK z \in Path[p] : c \in Removed(z) /\ K[c].spent = Height[z]  BY <1>1, <2>1, <2>2 DEF CoinRight
  <2>4. z = y  BY <2>1, <2>3, CoinOnce
  <2>5. Height[y] # 0  BY <1>3, HitsAbove
  <2> QED  BY <1>1, <2>1, <2>2, <2>3, <2>4, <2>5
<1> HIDE DEF hs
<1>4. CASE k = 0 /\ \A y \in Path[p] : ~Hits(t, y)
  <2>1. hs = {}  BY <1>2, <1>4
  <2> QED  BY <1>4, <2>1 DEF hs
<1>5. CASE \E y \in Path[p] : k = Height[y] /\ Hits(t, y) /\ \A z \in Path[p] : Hits(t, z) => Height[y] <= Height[z]
  <2>1. PICK y \in Path[p] : k = Height[y] /\ Hits(t, y) /\ \A z \in Path[p] : Hits(t, z) => Height[y] <= Height[z]
    BY <1>5
  <2>2. k \in hs /\ k \in Nat  BY <1>3, <2>1, OnPath
  <2>3. \A n \in hs : k <= n /\ n \in Nat  BY <1>2, <2>1, OnPath
  <2>4. Min(hs) \in hs /\ \A n \in hs : Min(hs) <= n  BY <2>2, <2>3 DEF Min
  <2>5. Min(hs) = k
    <3>1. \A m \in hs : (\A n \in hs : m <= n) => m = k
      <4> SUFFICES ASSUME NEW m \in hs, \A n \in hs : m <= n PROVE m = k  OBVIOUS
      <4>1. m <= k /\ k <= m /\ m \in Nat  BY <2>2, <2>3
      <4> QED  BY <2>2, <4>1
    <3> QED  BY <2>4, <3>1
  <2> QED  BY <2>2, <2>5 DEF hs
<1> QED  BY <1>4, <1>5 DEF TxRight

-----------------------------------------------------------------------------
(* The stores while blocks are applied: the pair of the cache and the table. *)

IsLedger(l) == l = [coins |-> l.coins, txs |-> l.txs]
PairForm(pr, late) ==
    /\ IsLedger(pr.cache) /\ IsLedger(pr.table)
    /\ pr.cache.coins = pr.table.coins
    /\ late \/ pr.cache = pr.table
PairRight(pr, p, late) ==
    PairForm(pr, late) /\ CoinsRight(pr.table.coins, p) /\ (late \/ TxsRight(pr.table.txs, p))
PairAgain(pr, p, h, i, late) ==
    PairForm(pr, late) /\ CoinsAgain(pr.table.coins, p, h, i) /\ (late \/ TxsRight(pr.table.txs, p))

Stored(x) == db.blocks[x] = [adds |-> Added(x), rems |-> Removed(x)]

\* One block.
LEMMA ApplyForm ==
    ASSUME NEW pr, NEW late, PairForm(pr, late), NEW x, Stored(x)
    PROVE  /\ PairForm(ApplyBlock(pr, x), late)
           /\ ApplyBlock(pr, x).table.coins = MoveCoins(pr.table.coins, Added(x), Removed(x), Height[x])
           /\ ApplyBlock(pr, x).table.txs = Override(pr.table.txs, Confirmed(pr.table.txs, x),
                                               LAMBDA t : [TxRecord(pr, t) EXCEPT !.conf = Height[x]])
<1> DEFINE C == ConfirmedBy(pr.table, Added(x), Removed(x))
           M(l) == [coins |-> MoveCoins(l.coins, Added(x), Removed(x), Height[x]),
                    txs |-> Override(l.txs, C, LAMBDA t : [TxRecord(pr, t) EXCEPT !.conf = Height[x]])]
<1>1. db.blocks[x].adds = Added(x) /\ db.blocks[x].rems = Removed(x)  BY DEF Stored
<1>2. ApplyBlock(pr, x) = [cache |-> M(pr.cache), table |-> M(pr.table)]  BY <1>1 DEF ApplyBlock
<1>3. C = Confirmed(pr.table.txs, x)  BY DEF ConfirmedBy, Pending, Confirmed
<1>4. M(pr.table).coins = MoveCoins(pr.table.coins, Added(x), Removed(x), Height[x])
      /\ M(pr.cache).coins = MoveCoins(pr.cache.coins, Added(x), Removed(x), Height[x])
      /\ M(pr.table).txs = Override(pr.table.txs, C, LAMBDA t : [TxRecord(pr, t) EXCEPT !.conf = Height[x]])
  OBVIOUS
<1>5. IsLedger(M(pr.table)) /\ IsLedger(M(pr.cache))  BY DEF IsLedger
<1>6. pr.cache = pr.table => M(pr.cache) = M(pr.table)  OBVIOUS
<1> HIDE DEF M
<1>7. ApplyBlock(pr, x).cache = M(pr.cache) /\ ApplyBlock(pr, x).table = M(pr.table)  BY <1>2
<1> HIDE DEF C
<1>8. PairForm(ApplyBlock(pr, x), late)  BY <1>4, <1>5, <1>6, <1>7 DEF PairForm
<1> QED  BY <1>3, <1>4, <1>7, <1>8

\* While cache and table are the same, ApplyBlock makes of the transactions what TxsAfter says.
LEMMA ApplyTxs ==
    ASSUME NEW pr, pr.cache = pr.table, NEW p, TxsRight(pr.table.txs, p), NEW x
    PROVE  Override(pr.table.txs, Confirmed(pr.table.txs, x), LAMBDA t : [TxRecord(pr, t) EXCEPT !.conf = Height[x]])
             = TxsAfter(pr.table.txs, x)
<1> DEFINE T == pr.table.txs
           C == Confirmed(T, x)
           V(t) == [TxRecord(pr, t) EXCEPT !.conf = Height[x]]
<1>1. C \subseteq DOMAIN T  BY DEF Confirmed
<1>2. ASSUME NEW t \in C PROVE V(t) = [conf |-> Height[x], sent |-> T[t].sent]
  <2> DEFINE r == T[t]
  <2>1. TxRecord(pr, t) = r  BY <1>1 DEF TxRecord
  <2>2. r = [conf |-> r.conf, sent |-> r.sent]  BY <1>1 DEF TxsRight, IsTx
  <2> HIDE DEF r
  <2>3. [r EXCEPT !.conf = Height[x]] = [conf |-> Height[x], sent |-> r.sent]  BY <2>2
  <2> QED  BY <2>1, <2>3 DEF r
<1>3. Override(T, C, V) = [t \in DOMAIN T \cup C |-> IF t \in C THEN V(t) ELSE T[t]]  BY DEF Override
<1>4. DOMAIN T \cup C = DOMAIN T  BY <1>1
<1> HIDE DEF V
<1>5. Override(T, C, V) = [t \in DOMAIN T |-> IF t \in C THEN [conf |-> Height[x], sent |-> T[t].sent] ELSE T[t]]
  BY <1>2, <1>3, <1>4
<1> QED  BY <1>5 DEF TxsAfter, V

\* A block on top of the chain leaves cache and table right for it.
LEMMA PairMoves ==
    ASSUME NEW late, NEW x \in Blocks, Prev[x] # NoBlock, Stored(x), NEW pr, PairRight(pr, Prev[x], late)
    PROVE  PairRight(ApplyBlock(pr, x), x, late)
<1> DEFINE q == ApplyBlock(pr, x)
<1>1. PairForm(pr, late) /\ CoinsRight(pr.table.coins, Prev[x])  BY DEF PairRight
<1>2. PairForm(q, late) /\ q.table.coins = MoveCoins(pr.table.coins, Added(x), Removed(x), Height[x])
      /\ q.table.txs = Override(pr.table.txs, Confirmed(pr.table.txs, x), LAMBDA t : [TxRecord(pr, t) EXCEPT !.conf = Height[x]])
  BY <1>1, ApplyForm
<1>3. CoinsRight(q.table.coins, x)  BY <1>1, <1>2, BlockMoves
<1>4. ASSUME ~late PROVE TxsRight(q.table.txs, x)
  <2>1. pr.cache = pr.table /\ TxsRight(pr.table.txs, Prev[x])  BY <1>4 DEF PairRight, PairForm
  <2>2. q.table.txs = TxsAfter(pr.table.txs, x)  BY <1>2, <2>1, ApplyTxs
  <2> QED  BY <2>1, <2>2, TxsMove
<1> QED  BY <1>2, <1>3, <1>4 DEF PairRight

\* A block of the chain applied again, in cache and table.
LEMMA PairGoesOn ==
    ASSUME NEW late, NEW p \in Blocks, NEW h \in Nat, NEW x \in Path[p], h < Height[x], Stored(x),
           NEW pr, PairAgain(pr, p, h, Height[x] - 1, late)
    PROVE  PairAgain(ApplyBlock(pr, x), p, h, Height[x], late)
<1> DEFINE q == ApplyBlock(pr, x)
<1>1. PairForm(pr, late) /\ CoinsAgain(pr.table.coins, p, h, Height[x] - 1)  BY DEF PairAgain
<1>2. PairForm(q, late) /\ q.table.coins = MoveCoins(pr.table.coins, Added(x), Removed(x), Height[x])
      /\ q.table.txs = Override(pr.table.txs, Confirmed(pr.table.txs, x), LAMBDA t : [TxRecord(pr, t) EXCEPT !.conf = Height[x]])
  BY <1>1, ApplyForm
<1>3. CoinsAgain(q.table.coins, p, h, Height[x])  BY <1>1, <1>2, AgainGoesOn
<1>4. ASSUME ~late PROVE TxsRight(q.table.txs, p)
  <2>1. pr.cache = pr.table /\ TxsRight(pr.table.txs, p)  BY <1>4 DEF PairAgain, PairForm
  <2>2. q.table.txs = TxsAfter(pr.table.txs, x)  BY <1>2, <2>1, ApplyTxs
  <2> QED  BY <2>1, <2>2, TxsStay
<1> QED  BY <1>2, <1>3, <1>4 DEF PairAgain

\* The rollback.
LEMMA PairBack ==
    ASSUME NEW late, NEW p \in Blocks, NEW a \in Path[p], NEW pr, PairRight(pr, p, late)
    PROVE  PairRight(ReorgRollback(pr, Height[a]), a, late)
<1> DEFINE h == Height[a]
           q == ReorgRollback(pr, h)
           Re == {t \in DOMAIN pr.table.txs : pr.table.txs[t].conf > h}
           B(l) == [coins |-> RollbackCoins(l.coins, h),
                    txs |-> Override(RollbackTxs(l.txs, h), Re, LAMBDA t : [conf |-> 0, sent |-> {}])]
<1>1. q.cache = B(pr.cache) /\ q.table = B(pr.table)  BY DEF ReorgRollback
<1>2. B(pr.table).coins = RollbackCoins(pr.table.coins, h) /\ B(pr.cache).coins = RollbackCoins(pr.cache.coins, h)
      /\ B(pr.table).txs = Override(RollbackTxs(pr.table.txs, h), Re, LAMBDA t : [conf |-> 0, sent |-> {}])
  OBVIOUS
<1>3. IsLedger(B(pr.table)) /\ IsLedger(B(pr.cache))  BY DEF IsLedger
<1>4. pr.cache = pr.table => B(pr.cache) = B(pr.table)  OBVIOUS
<1>5. PairForm(pr, late) /\ CoinsRight(pr.table.coins, p)  BY DEF PairRight
<1> HIDE DEF B
<1>6. PairForm(q, late)
  <2> HIDE DEF q
  <2> QED  BY <1>1, <1>2, <1>3, <1>4, <1>5 DEF PairForm
<1>7. CoinsRight(q.table.coins, a)
  <2>1. CoinsRight(RollbackCoins(pr.table.coins, h), a)  BY <1>5, CoinsBack
  <2> HIDE DEF q, h
  <2> QED  BY <1>1, <1>2, <2>1
<1>8. ASSUME ~late PROVE TxsRight(q.table.txs, a)
  <2> DEFINE T == pr.table.txs
  <2>1. TxsRight(T, p)  BY <1>8 DEF PairRight
  <2>2. \A t \in DOMAIN T : T[t].conf \in Nat
    <3> SUFFICES ASSUME NEW t \in DOMAIN T PROVE T[t].conf \in Nat  OBVIOUS
    <3>1. TxRight(T[t].conf, t, p)  BY <2>1 DEF TxsRight
    <3> QED  BY <3>1, OnPath DEF TxRight
  <2>3. h \in Nat  BY OnPath
  <2> HIDE DEF T, h
  <2>4. {u \in DOMAIN T : T[u].conf <= h} \cup {t \in DOMAIN T : T[t].conf > h} = DOMAIN T  BY <2>2, <2>3
  <2>5. RollbackTxs(T, h) = [t \in {u \in DOMAIN T : T[u].conf <= h} |-> T[t]]  BY DEF RollbackTxs
  <2>6. Override(RollbackTxs(T, h), Re, LAMBDA t : [conf |-> 0, sent |-> {}])
          = [t \in DOMAIN T |-> IF t \in Re THEN [conf |-> 0, sent |-> {}] ELSE RollbackTxs(T, h)[t]]
    BY <2>4, <2>5 DEF Override, T
  <2>7. ASSUME NEW t \in DOMAIN T
        PROVE  (IF t \in Re THEN [conf |-> 0, sent |-> {}] ELSE RollbackTxs(T, h)[t])
                 = (IF T[t].conf > h THEN [conf |-> 0, sent |-> {}] ELSE T[t])
    <3>1. t \in Re <=> T[t].conf > h  BY DEF T
    <3>2. ~(T[t].conf > h) => RollbackTxs(T, h)[t] = T[t]  BY <2>2, <2>3, <2>5
    <3> QED  BY <3>1, <3>2
  <2>8. Override(RollbackTxs(T, h), Re, LAMBDA t : [conf |-> 0, sent |-> {}]) = TxsBack(T, h)
    BY <2>6, <2>7 DEF TxsBack
  <2>9. q.table.txs = TxsBack(T, h)  BY <1>1, <1>2, <2>8 DEF T
  <2> QED  BY <2>1, <2>9, TxsRollBack DEF h
<1> HIDE DEF q
<1>9. PairRight(q, a, late)  BY <1>6, <1>7, <1>8 DEF PairRight
<1> QED  BY <1>9 DEF q

\* The loop of _reconsider_peak.
AddLoop(b, h, n, start, f) == f = [i \in h .. n |-> IF i = h THEN start ELSE ApplyBlock(f[i - 1], BlockAt(b, i))]

\* The loop runs to any height.
LEMMA LoopRuns ==
    ASSUME NEW b, NEW h \in Nat, NEW start
    PROVE  \A n \in Nat : \E f : AddLoop(b, h, n, start, f)
<1> DEFINE Bad == {n \in Nat : ~\E f : AddLoop(b, h, n, start, f)}
<1> SUFFICES ASSUME Bad # {} PROVE FALSE  OBVIOUS
<1>1. PICK n \in Bad : \A k \in Bad : n <= k
  <2>1. Bad \subseteq Nat  OBVIOUS
  <2> HIDE DEF Bad
  <2> QED  BY <2>1, LeastHeight
<1>2. CASE n <= h
  <2> DEFINE f == [i \in h .. n |-> start]
  <2>1. \A i \in h .. n : i = h  BY <1>2
  <2>2. AddLoop(b, h, n, start, f)  BY <2>1 DEF AddLoop
  <2> QED  BY <1>1, <2>2
<1>3. CASE ~(n <= h)
  <2>1. n - 1 \in Nat /\ n \in Nat /\ ~(n <= n - 1) /\ h < n  BY <1>3
  <2>2. PICK f : AddLoop(b, h, n - 1, start, f)  BY <1>1, <2>1
  <2> DEFINE g == [i \in h .. n |-> IF i = n THEN ApplyBlock(f[n - 1], BlockAt(b, n)) ELSE f[i]]
  <2>3. ASSUME NEW i \in h .. n PROVE g[i] = IF i = h THEN start ELSE ApplyBlock(g[i - 1], BlockAt(b, i))
    <3>1. CASE i = n
      <4>1. g[i] = ApplyBlock(f[n - 1], BlockAt(b, n))  BY <3>1
      <4>2. i - 1 \in h .. n /\ i - 1 # n  BY <2>1, <3>1
      <4>3. g[i - 1] = f[n - 1]  BY <3>1, <4>2
      <4> QED  BY <2>1, <3>1, <4>1, <4>3
    <3>2. CASE i # n
      <4>1. g[i] = f[i] /\ i \in h .. n - 1  BY <2>1, <3>2
      <4>2. f[i] = IF i = h THEN start ELSE ApplyBlock(f[i - 1], BlockAt(b, i))
        <5>1. f = [j \in h .. n - 1 |-> IF j = h THEN start ELSE ApplyBlock(f[j - 1], BlockAt(b, j))]
          BY <2>2 DEF AddLoop
        <5> QED  BY <4>1, <5>1
      <4>3. i # h => i - 1 \in h .. n /\ i - 1 # n  BY <2>1, <4>1
      <4>4. i # h => g[i - 1] = f[i - 1]  BY <4>3
      <4> QED  BY <4>1, <4>2, <4>4
    <3> QED  BY <3>1, <3>2
  <2>4. AddLoop(b, h, n, start, g)
    <3>1. g = [i \in h .. n |-> g[i]]  OBVIOUS
    <3> HIDE DEF g
    <3>2. g = [i \in h .. n |-> IF i = h THEN start ELSE ApplyBlock(g[i - 1], BlockAt(b, i))]  BY <2>3, <3>1
    <3> QED  BY <3>2 DEF AddLoop
  <2> QED  BY <1>1, <2>4
<1> QED  BY <1>2, <1>3

AddStart(b, h) == LET now == [cache |-> cache, table |-> db.ledger]
               IN  IF Prev[b] = GetPeak THEN now ELSE ReorgRollback(now, h)

\* What the loop of _reconsider_peak makes, above a height.
Loop(b, h, below) ==
    CHOOSE f : f = [i \in below .. Height[b] |->
                       IF i = below THEN IF Prev[b] = GetPeak THEN [cache |-> cache, table |-> db.ledger]
                                         ELSE ReorgRollback([cache |-> cache, table |-> db.ledger], h)
                       ELSE ApplyBlock(f[i - 1], BlockAt(b, i))]

\* Advance is what the loop ends with.
LEMMA AdvanceIsLoop ==
    ASSUME NEW b \in Blocks, NEW h \in Nat, AddedFrom(b, h) = h + 1
    PROVE  \E f : AddLoop(b, h, Height[b], AddStart(b, h), f) /\ Advance(b, h) = f[Height[b]]
<1> DEFINE now == [cache |-> cache, table |-> db.ledger]
           Is(f) == f = [i \in h .. Height[b] |->
                           IF i = h THEN IF Prev[b] = GetPeak THEN now ELSE ReorgRollback(now, h)
                           ELSE ApplyBlock(f[i - 1], BlockAt(b, i))]
           g == CHOOSE f : Is(f)
<1>1. Advance(b, h) = g[Height[b]]
  <2>1. Advance(b, h) = Loop(b, h, AddedFrom(b, h) - 1)[Height[b]]  BY DEF Advance, Loop
  <2>2. AddedFrom(b, h) - 1 = h  OBVIOUS
  <2>3. Loop(b, h, h) = g  BY DEF Loop
  <2> QED  BY <2>1, <2>2, <2>3
<1>2. \E f : Is(f)
  <2>1. PICK f : AddLoop(b, h, Height[b], AddStart(b, h), f)  BY LoopRuns, HeightNat
  <2>2. Is(f)  BY <2>1 DEF AddLoop, AddStart
  <2> QED  BY <2>2
<1>3. Is(g)
  <2> HIDE DEF Is
  <2> QED  BY <1>2
<1>4. AddLoop(b, h, Height[b], AddStart(b, h), g)  BY <1>3 DEF AddLoop, AddStart
<1> QED  BY <1>1, <1>4

\* One round of the loop.
LEMMA LoopStep ==
    ASSUME NEW b, NEW h \in Nat, NEW n \in Nat, NEW start, NEW f, AddLoop(b, h, n, start, f), NEW i \in h .. n
    PROVE  /\ i = h => f[i] = start
           /\ i # h => f[i] = ApplyBlock(f[i - 1], BlockAt(b, i)) /\ i - 1 \in h .. n
<1>1. f[i] = IF i = h THEN start ELSE ApplyBlock(f[i - 1], BlockAt(b, i))  BY DEF AddLoop
<1>2. i # h => i - 1 \in h .. n  OBVIOUS
<1> QED  BY <1>1, <1>2

\* The block does not hang from the part of the chain below the fork only: it is above it.
LEMMA ForkBelow ==
    ASSUME NEW a \in Blocks, NEW b \in Blocks, b \notin Path[a]
    PROVE  ForkHeight(a, b) \in Nat /\ ForkHeight(a, b) < Height[b]
<1> DEFINE k == ForkHeight(a, b)
<1>1. k \in 0 .. Height[a] /\ k \in 0 .. Height[b] /\ BlockAt(a, k) = BlockAt(b, k)
  <2>1. k \in 0 .. Height[a] /\ k \in 0 .. Height[b]  BY Forks
  <2>2. k \in 0 .. k  BY <2>1, HeightNat
  <2> QED  BY <2>1, <2>2, Forks
<1>2. BlockAt(a, k) \in Path[a]  BY <1>1, AtHeight
<1>3. k # Height[b]  BY <1>1, <1>2, AtTop
<1> HIDE DEF k
<1>4. k \in Nat /\ k < Height[b]  BY <1>1, <1>3, HeightNat
<1> QED  BY <1>4 DEF k

\* What _reconsider_peak makes of the stores is what the new chain makes them, wherever
\* at or below the fork it starts.
LEMMA Advanced ==
    ASSUME NEW late, NEW b \in Blocks, NEW H \in Blocks, GetPeak = H, Prev[b] # NoBlock, b \notin Path[H],
           NEW h \in 0 .. ForkHeight(H, b), AddedFrom(b, h) = h + 1,
           \A x \in Path[b] : Stored(x), PairRight([cache |-> cache, table |-> db.ledger], H, late)
    PROVE  PairRight(Advance(b, h), b, late)
<1> DEFINE now == [cache |-> cache, table |-> db.ledger]
           n == Height[b]
<1>0. h \in Nat /\ h < n /\ n \in Nat /\ h \in 0 .. Height[H] /\ h \in 0 .. n /\ BlockAt(H, h) = BlockAt(b, h)
      /\ Height[H] \in Nat
  <2>1. ForkHeight(H, b) \in Nat /\ ForkHeight(H, b) < n /\ n \in Nat /\ Height[H] \in Nat  BY ForkBelow, HeightNat
  <2>2. h \in 0 .. Height[H] /\ h \in 0 .. n /\ BlockAt(H, h) = BlockAt(b, h)  BY Forks
  <2> HIDE DEF n
  <2> QED  BY <2>1, <2>2
<1>1. PICK f : AddLoop(b, h, n, AddStart(b, h), f) /\ Advance(b, h) = f[n]  BY <1>0, AdvanceIsLoop
<1>2. \A i \in h .. n : /\ i = h => f[i] = AddStart(b, h)
                        /\ i # h => f[i] = ApplyBlock(f[i - 1], BlockAt(b, i)) /\ i - 1 \in h .. n
  BY <1>0, <1>1, LoopStep
<1>3. CASE Prev[b] = H
  <2>1. n = Height[H] + 1 /\ Path[b] = Path[H] \cup {b}  BY <1>3, LedgerAssumption
  <2>2. AddStart(b, h) = now  BY <1>3 DEF AddStart
  <2> DEFINE Bad == {i \in h .. Height[H] : ~PairAgain(f[i], H, h, i, late)}
  <2>3. ASSUME Bad # {} PROVE FALSE
    <3>1. PICK i \in Bad : \A k \in Bad : i <= k
      <4>1. Bad \subseteq Nat  BY <1>0
      <4> HIDE DEF Bad
      <4> QED  BY <2>3, <4>1, LeastHeight
    <3>2. i \in h .. Height[H] /\ i \in h .. n /\ i \in Nat /\ i \in 0 .. Height[H] /\ ~PairAgain(f[i], H, h, i, late)
      BY <1>0, <2>1
    <3>3. CASE i = h
      <4>1. f[i] = now  BY <1>2, <2>2, <3>2, <3>3
      <4>2. PairForm(now, late) /\ CoinsRight(now.table.coins, H) /\ (late \/ TxsRight(now.table.txs, H))
        BY DEF PairRight
      <4> HIDE DEF now
      <4>3. CoinsAgain(now.table.coins, H, h, h)  BY <1>0, <4>2, AgainStarts
      <4>4. PairAgain(now, H, h, h, late)  BY <4>2, <4>3 DEF PairAgain
      <4> QED  BY <3>2, <3>3, <4>1, <4>4
    <3>4. CASE i # h
      <4> DEFINE x == BlockAt(b, i)
      <4>1. f[i] = ApplyBlock(f[i - 1], x)  BY <1>2, <3>2, <3>4
      <4>2. i - 1 \in h .. Height[H] /\ ~(i <= i - 1) /\ h < i  BY <1>0, <3>2, <3>4
      <4>3. PairAgain(f[i - 1], H, h, i - 1, late)  BY <3>1, <4>2
      <4>4. H \in Path[b]  BY <2>1, OnPath
      <4>5. BlockAt(H, i) = x  BY <3>2, <4>4, AtSame
      <4>6. x \in Path[H] /\ Height[x] = i  BY <3>2, <4>5, AtHeight
      <4>7. Stored(x)  BY <2>1, <4>6
      <4> HIDE DEF x
      <4>8. PairAgain(ApplyBlock(f[i - 1], x), H, h, i, late)
        BY <1>0, <4>2, <4>3, <4>6, <4>7, PairGoesOn
      <4> QED  BY <3>2, <4>1, <4>8
    <3> QED  BY <3>3, <3>4
  <2>4. PairAgain(f[Height[H]], H, h, Height[H], late)
    <3>1. Height[H] \in h .. Height[H]  BY <1>0
    <3> QED  BY <2>3, <3>1
  <2>5. PairRight(f[Height[H]], H, late)
    <3>1. CoinsRight(f[Height[H]].table.coins, H)  BY <1>0, <2>4, AgainEnds DEF PairAgain
    <3> QED  BY <2>4, <3>1 DEF PairAgain, PairRight
  <2>6. f[n] = ApplyBlock(f[Height[H]], b)
    <3>1. n \in h .. n /\ n # h /\ n - 1 = Height[H]  BY <1>0, <2>1
    <3>2. BlockAt(b, n) = b  BY AtTop
    <3> QED  BY <1>2, <3>1, <3>2
  <2>7. Stored(b)  BY OnPath
  <2>8. PairRight(ApplyBlock(f[Height[H]], b), b, late)  BY <1>3, <2>5, <2>7, PairMoves
  <2> QED  BY <1>1, <2>6, <2>8
<1>4. CASE Prev[b] # H
  <2> DEFINE a == BlockAt(b, h)
  <2>1. a \in Path[H] /\ Height[a] = h  BY <1>0, AtHeight
  <2>2. AddStart(b, h) = ReorgRollback(now, h)  BY <1>4 DEF AddStart
  <2>3. PairRight(AddStart(b, h), a, late)
    <3> HIDE DEF a, now
    <3>1. PairRight(now, H, late)  BY DEF now
    <3>2. PairRight(ReorgRollback(now, Height[a]), a, late)  BY <2>1, <3>1, PairBack
    <3> QED  BY <2>1, <2>2, <3>2
  <2> DEFINE Bad == {i \in h .. n : ~PairRight(f[i], BlockAt(b, i), late)}
  <2>4. ASSUME Bad # {} PROVE FALSE
    <3>1. PICK i \in Bad : \A k \in Bad : i <= k
      <4>1. Bad \subseteq Nat  BY <1>0
      <4> HIDE DEF Bad
      <4> QED  BY <2>4, <4>1, LeastHeight
    <3>2. i \in h .. n /\ i \in Nat /\ ~PairRight(f[i], BlockAt(b, i), late)  BY <1>0
    <3>3. CASE i = h  BY <1>2, <2>3, <3>2, <3>3
    <3>4. CASE i # h
      <4> DEFINE x == BlockAt(b, i)
      <4>1. f[i] = ApplyBlock(f[i - 1], x) /\ i - 1 \in h .. n /\ ~(i <= i - 1) /\ i \in 1 .. n
        <5>1. ~(i <= i - 1) /\ i \in 1 .. n  BY <1>0, <3>2, <3>4
        <5> QED  BY <1>2, <3>2, <3>4, <5>1
      <4>2. PairRight(f[i - 1], BlockAt(b, i - 1), late)  BY <3>1, <4>1
      <4>3. x \in Blocks /\ Prev[x] # NoBlock /\ Prev[x] = BlockAt(b, i - 1)  BY <4>1, Below
      <4>4. Stored(x)
        <5>1. i \in 0 .. n  BY <1>0, <3>2
        <5> QED  BY <5>1, AtHeight
      <4> HIDE DEF x
      <4>5. PairRight(ApplyBlock(f[i - 1], x), x, late)  BY <4>2, <4>3, <4>4, PairMoves
      <4> QED  BY <3>2, <4>1, <4>5 DEF x
    <3> QED  BY <3>3, <3>4
  <2>5. PairRight(f[n], BlockAt(b, n), late)
    <3>1. n \in h .. n  BY <1>0
    <3> QED  BY <2>4, <3>1
  <2> QED  BY <1>1, <2>5, AtTop
<1> QED  BY <1>3, <1>4

-----------------------------------------------------------------------------
(* The invariant of the wallet's ledger, while no commit fails and no fork *)
(* point is too high.                                                      *)

LateAcks == "late_ack" \in upsets

\* The chain whose coins a database holds.  The genesis block has none, and is never
\* stored as the peak.
FirstBlock == CHOOSE g \in Blocks : Prev[g] = NoBlock
ChainOf(d) == IF d.peak = NoBlock THEN FirstBlock ELSE d.peak

\* The database: every block it holds as the chain has it, with the blocks below it, and the
\* coins and transactions of the chain of its peak.
IsDb(d) == d = [ledger |-> d.ledger, blocks |-> d.blocks, peak |-> d.peak] /\ IsLedger(d.ledger)
BlocksRight(d) ==
    /\ d.blocks = [x \in DOMAIN d.blocks |-> [adds |-> Added(x), rems |-> Removed(x)]]
    /\ DOMAIN d.blocks \subseteq Blocks
    /\ \A x \in DOMAIN d.blocks : Path[x] \subseteq DOMAIN d.blocks
    /\ d.peak \in DOMAIN d.blocks \cup {NoBlock}
LedgerRight(d, late) == CoinsRight(d.ledger.coins, ChainOf(d)) /\ (late \/ TxsRight(d.ledger.txs, ChainOf(d)))
DbRight(d, late) == IsDb(d) /\ BlocksRight(d) /\ LedgerRight(d, late)
Heaviest(d) == \A x \in DOMAIN d.blocks : Weight[x] <= Weight[ChainOf(d)]

\* The chain in memory is that of a database.  Above its peak height_to_hash may still have
\* the blocks of a longer, lighter chain.
IsMem(m) == m = [held |-> m.held, main |-> m.main, top |-> m.top]
MemEmpty(m, d) == m.held = {} /\ m.main = <<>> /\ m.top = NoHeight /\ d.peak = NoBlock
MemOn(m, d) ==
    /\ ChainOf(d) \in m.held /\ m.held \subseteq DOMAIN d.blocks
    /\ \A x \in m.held : Path[x] \subseteq m.held
    /\ m.top = Height[ChainOf(d)]
    /\ m.main = [i \in DOMAIN m.main |-> m.main[i]]
    /\ \A i \in DOMAIN m.main : m.main[i] \in m.held
    /\ \A i \in 0 .. Height[ChainOf(d)] : i \in DOMAIN m.main /\ m.main[i] = BlockAt(ChainOf(d), i)
MemRight(m, d) == IsMem(m) /\ (MemEmpty(m, d) \/ MemOn(m, d))

\* What an Abort leaves of the memory, and what the last assignment of _reconsider_peak makes
\* of it.
Undone == [held |-> mem.held \ {job.block}, main |-> job.main, top |-> mem.top]
Peaked == [mem EXCEPT !.top = Height[job.block]]

\* A block is being applied: where it hangs, and the database with it.
IsJob ==
    /\ job = [at |-> job.at, block |-> job.block, fork |-> job.fork, main |-> job.main]
    /\ job.block \in Blocks /\ job.block \in mem.held
    /\ Path[job.block] \subseteq mem.held
    /\ DOMAIN db.blocks = DOMAIN disk.blocks \cup {job.block}
    /\ IsMem(mem)
    /\ \/ job.fork = NoFork
       \/ job.fork \in 0 .. ForkHeight(ChainOf(disk), job.block)

Begun == job.at = "begun" /\ IsJob /\ MemRight(Undone, disk) /\ mem.main = job.main /\ db.peak = disk.peak
Applied == /\ job.at = "applied" /\ IsJob /\ MemRight(Undone, disk) /\ Heaviest(db)
           /\ IF mem.main = job.main THEN MemRight(mem, db) ELSE MemRight(Peaked, db)
Finished == job.at = "done" /\ IsJob /\ Heaviest(db) /\ MemRight(mem, db)
Between == job = Idle /\ db = disk /\ MemRight(mem, disk)

StoresRight ==
    /\ DbRight(disk, LateAcks) /\ Heaviest(disk) /\ DbRight(db, LateAcks)
    /\ IsLedger(cache) /\ cache.coins = db.ledger.coins
    /\ LateAcks \/ (cache = db.ledger /\ inflight = {})

WalletInv ==
    /\ upsets \subseteq {"late_ack"} /\ StoresRight
    /\ Begun \/ Applied \/ Finished \/ Between

\* The first block: it moves no coins, and it is on every path.
LEMMA GenesisIs ==
    /\ FirstBlock \in Blocks /\ Prev[FirstBlock] = NoBlock /\ Height[FirstBlock] = 0 /\ Path[FirstBlock] = {FirstBlock}
    /\ Added(FirstBlock) = {} /\ Removed(FirstBlock) = {} /\ Made(FirstBlock) = {}
    /\ \A b \in Blocks : Prev[b] = NoBlock => b = FirstBlock
    /\ \A b \in Blocks : FirstBlock \in Path[b]
<1>1. PICK g \in Blocks : \A b \in Blocks : Prev[b] = NoBlock <=> b = g  BY LedgerAssumption
<1>2. FirstBlock \in Blocks /\ Prev[FirstBlock] = NoBlock  BY <1>1 DEF FirstBlock
<1>3. \A b \in Blocks : Prev[b] = NoBlock => b = FirstBlock  BY <1>1, <1>2
<1>4. Height[FirstBlock] = 0 /\ Path[FirstBlock] = {FirstBlock} /\ Added(FirstBlock) \cup Removed(FirstBlock) = {}
  BY <1>2, LedgerAssumption
<1>5. Made(FirstBlock) = {}  BY <1>4 DEF Made
<1>6. ASSUME NEW b \in Blocks PROVE FirstBlock \in Path[b]
  <2>1. 0 \in 0 .. Height[b] /\ 0 \in 0 .. Height[FirstBlock]  BY <1>2, HeightNat
  <2>2. BlockAt(b, 0) \in Path[b] /\ Height[BlockAt(b, 0)] = 0 /\ BlockAt(b, 0) \in Blocks  BY <2>1, AtHeight, OnPath
  <2>3. Prev[BlockAt(b, 0)] = NoBlock
    <3> DEFINE x == BlockAt(b, 0)
    <3> SUFFICES ASSUME Prev[x] # NoBlock PROVE FALSE  OBVIOUS
    <3>1. x \in Blocks /\ Height[x] = 0  BY <2>2
    <3> HIDE DEF x
    <3>2. Prev[x] \in Blocks /\ Height[x] = Height[Prev[x]] + 1  BY <3>1, LedgerAssumption
    <3>3. Height[Prev[x]] \in Nat  BY <3>2, HeightNat
    <3> QED  BY <3>1, <3>2, <3>3
  <2> QED  BY <1>3, <2>2, <2>3
<1> QED  BY <1>2, <1>3, <1>4, <1>5, <1>6

\* The chain of a database ends in a block.
LEMMA ChainIs ==
    ASSUME NEW d, BlocksRight(d)
    PROVE  ChainOf(d) \in Blocks /\ Height[ChainOf(d)] \in Nat
<1>1. ChainOf(d) \in Blocks  BY GenesisIs DEF ChainOf, BlocksRight
<1> QED  BY <1>1, HeightNat

\* get_peak().
PeakOf(m) == IF m.top = NoHeight THEN NoBlock ELSE m.main[m.top]
\* When the memory has the chain of a database, get_peak() finds its last block.
LEMMA PeakIs ==
    ASSUME NEW m, NEW d, BlocksRight(d), MemOn(m, d)
    PROVE  /\ PeakOf(m) = ChainOf(d) /\ m.top # NoHeight /\ m.top \in DOMAIN m.main
           /\ ChainOf(d) \in Blocks /\ ChainOf(d) # NoBlock
<1> DEFINE H == ChainOf(d)
<1>1. H \in Blocks /\ Height[H] \in Nat /\ m.top = Height[H]  BY ChainIs DEF MemOn
<1>2. Height[H] \in 0 .. Height[H] /\ BlockAt(H, Height[H]) = H  BY <1>1, AtTop
<1>3. m.top \in DOMAIN m.main /\ m.main[m.top] = H  BY <1>1, <1>2 DEF MemOn
<1>4. m.top # NoHeight  BY <1>1 DEF NoHeight
<1> QED  BY <1>1, <1>3, <1>4, LedgerAssumption DEF PeakOf

\* GetPeak is get_peak() of the memory as it is.
LEMMA GetPeakIs == GetPeak = PeakOf(mem)
  BY DEF GetPeak, PeakOf

\* What the memory, the weights and the blocks need of a database.
LEMMA SameBlocks ==
    ASSUME NEW d, NEW e, d.blocks = e.blocks, d.peak = e.peak
    PROVE  /\ ChainOf(d) = ChainOf(e)
           /\ BlocksRight(d) => BlocksRight(e)
           /\ Heaviest(d) => Heaviest(e)
           /\ \A m : MemRight(m, d) => MemRight(m, e)
<1>1. ChainOf(d) = ChainOf(e)  BY DEF ChainOf
<1>2. BlocksRight(d) => BlocksRight(e)  BY DEF BlocksRight
<1>3. Heaviest(d) => Heaviest(e)  BY <1>1 DEF Heaviest
<1>4. ASSUME NEW m, MemRight(m, d) PROVE MemRight(m, e)
  <2>1. MemEmpty(m, d) => MemEmpty(m, e)  BY DEF MemEmpty
  <2>2. MemOn(m, d) => MemOn(m, e)  BY <1>1 DEF MemOn
  <2> QED  BY <1>4, <2>1, <2>2 DEF MemRight
<1> QED  BY <1>1, <1>2, <1>3, <1>4

-----------------------------------------------------------------------------
(* The first state.                                                        *)

\* Empty stores are right for the first block.
LEMMA NothingRight == CoinsRight(<<>>, FirstBlock) /\ TxsRight(<<>>, FirstBlock)
<1>1. DOMAIN <<>> = {}  OBVIOUS
<1>2. <<>> = [c \in {} |-> <<>>[c]]  OBVIOUS
<1>3. Made(FirstBlock) = {}  BY GenesisIs
<1>4. CoinsRight(<<>>, FirstBlock)  BY <1>2, <1>3 DEF CoinsRight
<1>5. TxsRight(<<>>, FirstBlock)  BY <1>1, <1>2 DEF TxsRight
<1> QED  BY <1>4, <1>5

\* A wallet that has just been created.
LEMMA WalletStarts == LedgerInit /\ upsets \subseteq {"late_ack"} => WalletInv
<1> SUFFICES ASSUME LedgerInit, upsets \subseteq {"late_ack"} PROVE WalletInv  OBVIOUS
<1> DEFINE e == [ledger |-> [coins |-> <<>>, txs |-> <<>>], blocks |-> <<>>, peak |-> NoBlock]
           m == [held |-> {}, main |-> <<>>, top |-> NoHeight]
<1>1. disk = e /\ db = e /\ cache = e.ledger /\ mem = m /\ job = Idle /\ inflight = {}  BY DEF LedgerInit
<1>2. IsDb(e) /\ IsLedger(e.ledger)  BY DEF IsDb, IsLedger
<1>3. BlocksRight(e)
  <2>1. e.blocks = <<>> /\ DOMAIN e.blocks = {} /\ e.peak = NoBlock  OBVIOUS
  <2>2. <<>> = [x \in {} |-> [adds |-> Added(x), rems |-> Removed(x)]]  OBVIOUS
  <2> HIDE DEF e
  <2> QED  BY <2>1, <2>2 DEF BlocksRight
<1>4. ChainOf(e) = FirstBlock  BY DEF ChainOf
<1>5. LedgerRight(e, LateAcks)  BY <1>4, NothingRight DEF LedgerRight
<1>6. Heaviest(e)
  <2>1. DOMAIN e.blocks = {}  OBVIOUS
  <2> QED  BY <2>1 DEF Heaviest
<1>7. MemRight(m, e)  BY DEF MemRight, IsMem, MemEmpty
<1> HIDE DEF e, m
<1>8. StoresRight  BY <1>1, <1>2, <1>3, <1>5, <1>6 DEF StoresRight, DbRight
<1> QED  BY <1>1, <1>7, <1>8 DEF WalletInv, Between

-----------------------------------------------------------------------------
(* Transactions made, acknowledged and deleted between two blocks.         *)

\* A write outside a block's transaction.
Wrote(d, T) == [d EXCEPT !.ledger.txs = T]
\* A write changes the table of transactions and nothing else.
LEMMA WriteIs ==
    ASSUME NEW T, NEW d, IsDb(d), NEW e, e = Wrote(d, T)
    PROVE  /\ IsDb(e) /\ e.blocks = d.blocks /\ e.peak = d.peak
           /\ e.ledger = [coins |-> d.ledger.coins, txs |-> T]
<1> DEFINE l == d.ledger
           k == d.blocks
           p == d.peak
           n == [coins |-> l.coins, txs |-> T]
<1>1. d = [ledger |-> l, blocks |-> k, peak |-> p] /\ l = [coins |-> l.coins, txs |-> l.txs]  BY DEF IsDb, IsLedger
<1>2. e = [d EXCEPT !.ledger = [@ EXCEPT !.txs = T]]  BY DEF Wrote
<1> HIDE DEF l, k, p
<1>3. [l EXCEPT !.txs = T] = n  BY <1>1
<1>4. e = [d EXCEPT !.ledger = [l EXCEPT !.txs = T]]  BY <1>2 DEF l
<1> HIDE DEF n
<1>5. e = [ledger |-> n, blocks |-> k, peak |-> p]  BY <1>1, <1>3, <1>4
<1>6. e.ledger = n /\ e.blocks = k /\ e.peak = p  BY <1>5
<1>7. IsLedger(n)  BY DEF IsLedger, n
<1>8. IsDb(e)  BY <1>5, <1>6, <1>7 DEF IsDb
<1> QED  BY <1>6, <1>8 DEF n, k, p, l

\* A write between two blocks keeps the invariant if cache and table stay the same, and right.
LEMMA TxsWritten ==
    ASSUME WalletInv, Free, UNCHANGED <<upsets, mem, job>>, NEW T, NEW U, Write(T), cache' = [cache EXCEPT !.txs = U],
           LateAcks \/ (U = T /\ TxsRight(T, ChainOf(disk)) /\ inflight' = {})
    PROVE  WalletInv'
<1>1. Between
  <2>1. job.at = "idle"  BY DEF Free
  <2> QED  BY <2>1 DEF WalletInv, Begun, Applied, Finished
<1>2. StoresRight /\ upsets \subseteq {"late_ack"}  BY DEF WalletInv
<1>3. IsDb(disk) /\ BlocksRight(disk) /\ LedgerRight(disk, LateAcks) /\ Heaviest(disk) /\ db = disk /\ job = Idle
      /\ MemRight(mem, disk) /\ IsLedger(cache) /\ cache.coins = db.ledger.coins
  BY <1>1, <1>2 DEF StoresRight, DbRight, Between
<1>4. db' = Wrote(db, T) /\ disk' = Wrote(disk, T)  BY DEF Write, Wrote
<1>5. IsDb(disk') /\ disk'.blocks = disk.blocks /\ disk'.peak = disk.peak
      /\ disk'.ledger = [coins |-> disk.ledger.coins, txs |-> T]
  BY <1>3, <1>4, WriteIs
<1>6. db' = disk'  BY <1>3, <1>4
<1>7. cache' = [coins |-> cache.coins, txs |-> U]
  <2>1. cache = [coins |-> cache.coins, txs |-> cache.txs]  BY <1>3 DEF IsLedger
  <2> QED  BY <2>1
<1>8. ChainOf(disk') = ChainOf(disk) /\ BlocksRight(disk') /\ Heaviest(disk') /\ MemRight(mem, disk')
  BY <1>3, <1>5, SameBlocks
<1>9. LateAcks' = LateAcks  BY DEF LateAcks
<1>10. LedgerRight(disk', LateAcks)
  <2>1. disk'.ledger.coins = disk.ledger.coins /\ disk'.ledger.txs = T  BY <1>5
  <2> QED  BY <1>3, <1>8, <2>1 DEF LedgerRight
<1>11. DbRight(disk', LateAcks)  BY <1>5, <1>8, <1>10 DEF DbRight
<1>12. IsLedger(cache') /\ cache'.coins = disk'.ledger.coins
  <2>1. cache'.coins = cache.coins /\ cache'.txs = U  BY <1>7
  <2>2. disk'.ledger.coins = disk.ledger.coins  BY <1>5
  <2> QED  BY <1>3, <1>7, <2>1, <2>2 DEF IsLedger
<1>13. LateAcks \/ (cache' = db'.ledger /\ inflight' = {})  BY <1>3, <1>5, <1>6, <1>7
<1>14. StoresRight'  BY <1>6, <1>8, <1>9, <1>11, <1>12, <1>13 DEF StoresRight
<1>15. Between'  BY <1>3, <1>6, <1>8 DEF Between
<1> QED  BY <1>2, <1>14, <1>15 DEF WalletInv

\* One row more, or changed.
LEMMA OneMore ==
    ASSUME NEW T, NEW p, TxsRight(T, p), NEW t \in Txs, NEW r, IsTx(r), TxRight(r.conf, t, p)
    PROVE  TxsRight(One(T, t, r), p)
<1> DEFINE U == One(T, t, r)
<1>1. U = [x \in DOMAIN T \cup {t} |-> IF x \in {t} THEN r ELSE T[x]]  BY DEF One, Override
<1>2. DOMAIN U = DOMAIN T \cup {t} /\ \A x \in DOMAIN U : U[x] = IF x = t THEN r ELSE T[x]  BY <1>1
<1>3. U = [x \in DOMAIN U |-> U[x]]  BY <1>1
<1> HIDE DEF U
<1>4. TxsRight(U, p)  BY <1>2, <1>3 DEF TxsRight
<1> QED  BY <1>4 DEF U

\* Between two blocks.
LEMMA WhileFree ==
    ASSUME WalletInv, Free
    PROVE  /\ Between /\ IsDb(disk) /\ BlocksRight(disk) /\ LedgerRight(disk, LateAcks) /\ Heaviest(disk) /\ db = disk
           /\ MemRight(mem, disk) /\ IsLedger(cache) /\ cache.coins = disk.ledger.coins
           /\ CoinsRight(cache.coins, ChainOf(disk)) /\ ChainOf(disk) \in Blocks
           /\ ~LateAcks => cache = disk.ledger /\ inflight = {} /\ TxsRight(cache.txs, ChainOf(disk))
<1>1. Between
  <2>1. job.at = "idle"  BY DEF Free
  <2> QED  BY <2>1 DEF WalletInv, Begun, Applied, Finished
<1>2. StoresRight  BY DEF WalletInv
<1>3. db = disk /\ MemRight(mem, disk)  BY <1>1 DEF Between
<1>4. IsDb(disk) /\ BlocksRight(disk) /\ LedgerRight(disk, LateAcks) /\ Heaviest(disk) /\ IsLedger(cache)
      /\ cache.coins = disk.ledger.coins /\ (LateAcks \/ (cache = disk.ledger /\ inflight = {}))
  BY <1>2, <1>3 DEF StoresRight, DbRight
<1>5. CoinsRight(cache.coins, ChainOf(disk)) /\ ChainOf(disk) \in Blocks  BY <1>4, ChainIs DEF LedgerRight
<1>6. ~LateAcks => TxsRight(cache.txs, ChainOf(disk))  BY <1>4 DEF LedgerRight
<1> QED  BY <1>1, <1>3, <1>4, <1>5, <1>6

\* A transaction that is sent spends coins that no block of the chain has spent.
LEMMA SendKeeps ==
    ASSUME WalletInv, UNCHANGED upsets, NEW t \in Txs, SendTransaction(t)
    PROVE  WalletInv'
<1> DEFINE new == [conf |-> 0, sent |-> {}]
           H == ChainOf(disk)
           T == One(db.ledger.txs, t, new)
           U == One(cache.txs, t, new)
<1>1. Free /\ UNCHANGED <<mem, job, inflight>> /\ Spends[t] \subseteq SpendableCoins
      /\ cache' = [cache EXCEPT !.txs = U] /\ Write(T)
  BY DEF SendTransaction
<1>2. db = disk /\ CoinsRight(cache.coins, H) /\ H \in Blocks
      /\ (~LateAcks => cache = disk.ledger /\ inflight = {} /\ TxsRight(cache.txs, H))
  BY <1>1, WhileFree
<1>3. ASSUME ~LateAcks PROVE U = T /\ TxsRight(T, H) /\ inflight' = {}
  <2>1. U = T /\ inflight' = {}  BY <1>1, <1>2, <1>3
  <2>2. ASSUME NEW y \in Path[H], Hits(t, y) PROVE FALSE
    <3>1. PICK c : c \in Spends[t] /\ c \in Removed(y)  BY <2>2 DEF Hits
    <3>2. c \in DOMAIN cache.coins /\ cache.coins[c].spent = 0  BY <1>1, <3>1 DEF SpendableCoins
    <3>3. c \in Made(H)  BY <1>2, <3>1, CoinOnce DEF Made
    <3>4. CoinRight(cache.coins[c], H, c)  BY <1>2, <3>3 DEF CoinsRight
    <3>5. PICK z \in Path[H] : c \in Removed(z) /\ cache.coins[c].spent = Height[z]  BY <3>1, <3>4 DEF CoinRight
    <3>6. Height[z] # 0  BY <1>2, <3>1, <3>5, HitsAbove DEF Hits
    <3> QED  BY <3>2, <3>5, <3>6
  <2>3. IsTx(new) /\ TxRight(new.conf, t, H)  BY <2>2 DEF IsTx, TxRight
  <2> HIDE DEF new, H
  <2>4. TxsRight(U, H)  BY <1>2, <1>3, <2>3, OneMore
  <2> QED  BY <2>1, <2>4
<1> HIDE DEF T, U, H, new
<1>4. LateAcks \/ (U = T /\ TxsRight(T, ChainOf(disk)) /\ inflight' = {})  BY <1>3 DEF H
<1> QED  BY <1>1, <1>4, TxsWritten

\* delete_unconfirmed_transactions takes rows away and changes none.
LEMMA DeleteKeeps ==
    ASSUME WalletInv, UNCHANGED upsets, DeleteUnconfirmed
    PROVE  WalletInv'
<1> DEFINE D == DOMAIN db.ledger.txs \ Pending(db.ledger)
           T == [t \in D |-> db.ledger.txs[t]]
           H == ChainOf(disk)
<1>1. Free /\ UNCHANGED <<mem, job, inflight>> /\ cache' = [cache EXCEPT !.txs = T] /\ Write(T)
  BY DEF DeleteUnconfirmed
<1>2. db = disk /\ (~LateAcks => cache = disk.ledger /\ inflight = {} /\ TxsRight(cache.txs, H))
  BY <1>1, WhileFree
<1>3. ASSUME ~LateAcks PROVE TxsRight(T, H) /\ inflight' = {}
  <2>1. TxsRight(db.ledger.txs, H)  BY <1>2, <1>3
  <2>2. DOMAIN T = D /\ \A t \in D : T[t] = db.ledger.txs[t] /\ t \in DOMAIN db.ledger.txs  OBVIOUS
  <2>3. T = [t \in DOMAIN T |-> T[t]]  OBVIOUS
  <2> HIDE DEF T, D
  <2>4. TxsRight(T, H)  BY <2>1, <2>2, <2>3 DEF TxsRight
  <2> QED  BY <1>1, <1>2, <1>3, <2>4
<1> HIDE DEF T, H
<1>4. LateAcks \/ (T = T /\ TxsRight(T, ChainOf(disk)) /\ inflight' = {})  BY <1>3 DEF H
<1> QED  BY <1>1, <1>4, TxsWritten

\* A row waits only where acknowledgements come late, where nothing is asked of the transactions.
LEMMA WrittenKeeps ==
    ASSUME WalletInv, UNCHANGED upsets, NEW r \in inflight, AckWritten(r)
    PROVE  WalletInv'
<1> DEFINE T == One(db.ledger.txs, r.tx, r.record)
<1>1. Free /\ UNCHANGED <<cache, mem, job>> /\ Write(T)  BY DEF AckWritten
<1>2. IsLedger(cache) /\ (~LateAcks => inflight = {})  BY <1>1, WhileFree
<1>3. LateAcks  BY <1>2
<1>4. cache' = [cache EXCEPT !.txs = cache.txs]
  <2>1. cache = [coins |-> cache.coins, txs |-> cache.txs]  BY <1>2 DEF IsLedger
  <2> QED  BY <1>1, <2>1
<1> HIDE DEF T
<1> QED  BY <1>1, <1>3, <1>4, TxsWritten

\* An acknowledgement while a block is applied changes the cached transactions only.
LEMMA LateAckKeeps ==
    ASSUME WalletInv, UNCHANGED <<upsets, disk, db, mem, job>>, LateAcks, NEW U, cache' = [cache EXCEPT !.txs = U]
    PROVE  WalletInv'
<1>1. StoresRight /\ upsets \subseteq {"late_ack"}  BY DEF WalletInv
<1>2. IsLedger(cache) /\ cache.coins = db.ledger.coins  BY <1>1 DEF StoresRight
<1>3. cache' = [coins |-> cache.coins, txs |-> U]
  <2>1. cache = [coins |-> cache.coins, txs |-> cache.txs]  BY <1>2 DEF IsLedger
  <2> QED  BY <2>1
<1>4. IsLedger(cache') /\ cache'.coins = db.ledger.coins
  <2>1. cache'.coins = cache.coins /\ cache'.txs = U  BY <1>3
  <2> QED  BY <1>2, <1>3, <2>1 DEF IsLedger
<1>5. LateAcks'  BY DEF LateAcks
<1>6. DbRight(disk', LateAcks') /\ Heaviest(disk') /\ DbRight(db', LateAcks')  BY <1>1 DEF StoresRight, LateAcks
<1>7. StoresRight'  BY <1>4, <1>5, <1>6 DEF StoresRight
<1>8. (Begun \/ Applied \/ Finished \/ Between)'
  <2>1. Begun \/ Applied \/ Finished \/ Between  BY DEF WalletInv
  <2>2. Undone' = Undone /\ Peaked' = Peaked  BY DEF Undone, Peaked
  <2>3. IsJob => IsJob'  BY DEF IsJob
  <2>4. Begun => Begun'  BY <2>2, <2>3 DEF Begun
  <2>5. Applied => Applied'  BY <2>2, <2>3 DEF Applied
  <2>6. Finished => Finished'  BY <2>3 DEF Finished
  <2>7. Between => Between'  BY DEF Between
  <2> QED  BY <2>1, <2>4, <2>5, <2>6, <2>7
<1> QED  BY <1>1, <1>7, <1>8 DEF WalletInv

\* An acknowledgement changes no confirmation.
LEMMA AckKeeps ==
    ASSUME WalletInv, UNCHANGED upsets, NEW t \in Txs, NEW p \in Peers, TransactionAck(t, p)
    PROVE  WalletInv'
<1> DEFINE pair == [cache |-> cache, table |-> db.ledger]
           record == [TxRecord(pair, t) EXCEPT !.sent = @ \cup {p}]
           U == One(cache.txs, t, record)
           T == One(db.ledger.txs, t, record)
           H == ChainOf(disk)
<1>1. UNCHANGED <<mem, job>> /\ cache' = [cache EXCEPT !.txs = U] /\ t \in DOMAIN cache.txs \cup DOMAIN db.ledger.txs
      /\ (Free => Write(T) /\ UNCHANGED inflight) /\ (~Free => LateAcks /\ UNCHANGED <<disk, db>>)
  BY DEF TransactionAck, LateAcks
<1>2. CASE ~Free
  <2> HIDE DEF U
  <2> QED  BY <1>1, <1>2, LateAckKeeps
<1>3. CASE Free
  <2>1. db = disk /\ (~LateAcks => cache = disk.ledger /\ inflight = {} /\ TxsRight(cache.txs, H))
    BY <1>3, WhileFree
  <2>2. ASSUME ~LateAcks PROVE U = T /\ TxsRight(T, H) /\ inflight' = {}
    <3>1. U = T /\ inflight' = {}  BY <1>1, <1>3, <2>1, <2>2
    <3> DEFINE r == cache.txs[t]
    <3>2. t \in DOMAIN cache.txs  BY <1>1, <2>1, <2>2
    <3>3. TxRecord(pair, t) = r  BY <3>2 DEF TxRecord
    <3>4. IsTx(r) /\ TxRight(r.conf, t, H)  BY <2>1, <2>2, <3>2 DEF TxsRight
    <3> HIDE DEF r, pair
    <3>5. record = [conf |-> r.conf, sent |-> r.sent \cup {p}]
      <4>1. r = [conf |-> r.conf, sent |-> r.sent]  BY <3>4 DEF IsTx
      <4>2. record = [r EXCEPT !.sent = r.sent \cup {p}]  BY <3>3
      <4> QED  BY <4>1, <4>2
    <3> HIDE DEF record
    <3>6. IsTx(record) /\ record.conf = r.conf  BY <3>5 DEF IsTx
    <3> HIDE DEF H
    <3>7. TxRight(record.conf, t, H)  BY <3>4, <3>6
    <3>8. TxsRight(U, H)  BY <2>1, <2>2, <3>6, <3>7, OneMore
    <3> QED  BY <3>1, <3>8
  <2> HIDE DEF T, U, H
  <2>3. LateAcks \/ (U = T /\ TxsRight(T, ChainOf(disk)) /\ inflight' = {})  BY <2>2 DEF H
  <2> QED  BY <1>1, <1>3, <2>3, TxsWritten
<1> QED  BY <1>2, <1>3

-----------------------------------------------------------------------------
(* A block.                                                                *)

\* The coins a block spends are unspent where its chain leaves the wallet's, so that the
\* filter finds them all.
LEMMA RemovedFound ==
    ASSUME WalletInv, Free, NEW b \in Blocks, Prev[b] # NoBlock, b \notin mem.held, MemOn(mem, disk),
           Path[b] \ {b} \subseteq mem.held, NEW fork \in ForkPoints(b)
    PROVE  Removed(b) \subseteq UnspentAt(b, fork)
<1> DEFINE H == ChainOf(disk)
           h == IF fork # NoFork THEN fork ELSE IF GetPeak # NoBlock THEN ForkHeight(GetPeak, b) ELSE 0
           known == {c \in DOMAIN cache.coins :
                       cache.coins[c].conf <= h /\ (cache.coins[c].spent = 0 \/ cache.coins[c].spent > h)}
           later == UNION {db.blocks[x].adds : x \in {y \in Path[b] \ {b} : Height[y] > h}}
<1>1. db = disk /\ BlocksRight(disk) /\ CoinsRight(cache.coins, H) /\ H \in Blocks  BY WhileFree
<1>2. GetPeak = H /\ H # NoBlock  BY <1>1, PeakIs, GetPeakIs
<1>3. b \notin Path[H]  BY DEF MemOn
<1>4. h \in 0 .. ForkHeight(H, b) /\ h \in Nat
  <2>1. ForkHeight(H, b) \in Nat  BY <1>1, <1>3, ForkBelow
  <2>2. fork # NoFork => fork \in 0 .. ForkHeight(H, b)  BY <1>2 DEF ForkPoints, WalletInv
  <2>3. h = IF fork # NoFork THEN fork ELSE ForkHeight(H, b)  BY <1>2
  <2> HIDE DEF h, H
  <2> QED  BY <2>1, <2>2, <2>3
<1>5. UnspentAt(b, fork) = known \cup later  BY DEF UnspentAt
<1> SUFFICES ASSUME NEW c \in Removed(b) PROVE c \in known \cup later  BY <1>5
<1> HIDE DEF h, H
<1>6. PICK a \in Path[b] \ {b} : c \in Added(a)  BY CoinAssumption
<1>7. Height[a] \in Nat /\ a \in Blocks  BY <1>6, OnPath
<1>8. CASE Height[a] > h
  <2>1. a \in DOMAIN disk.blocks  BY <1>6 DEF MemOn
  <2>2. db.blocks[a].adds = Added(a)  BY <1>1, <2>1 DEF BlocksRight
  <2> QED  BY <1>6, <1>8, <2>2
<1>9. CASE ~(Height[a] > h)
  <2> DEFINE r == cache.coins[c]
  <2>1. Height[a] <= h  BY <1>4, <1>7, <1>9
  <2>2. \A y : y \in Path[b] /\ Height[y] <= h => y \in Path[H]
    <3> SUFFICES ASSUME NEW y \in Path[b], Height[y] <= h PROVE y \in Path[H]  OBVIOUS
    <3>1. Height[y] \in Nat /\ ForkHeight(H, b) \in Nat  BY <1>1, <1>3, OnPath, ForkBelow
    <3>2. Height[y] \in 0 .. ForkHeight(H, b)  BY <1>4, <3>1
    <3>3. Height[y] \in 0 .. Height[H] /\ Height[y] \in 0 .. Height[b] /\ BlockAt(H, Height[y]) = BlockAt(b, Height[y])
      BY <1>1, <3>2, Forks
    <3>4. y = BlockAt(b, Height[y])  BY <3>3, AtHeight
    <3> QED  BY <1>1, <3>3, <3>4, AtHeight
  <2>3. \A y : y \in Path[H] /\ Height[y] <= h => y \in Path[b]
    <3> SUFFICES ASSUME NEW y \in Path[H], Height[y] <= h PROVE y \in Path[b]  OBVIOUS
    <3>1. Height[y] \in Nat /\ ForkHeight(H, b) \in Nat  BY <1>1, <1>3, OnPath, ForkBelow
    <3>2. Height[y] \in 0 .. ForkHeight(H, b)  BY <1>4, <3>1
    <3>3. Height[y] \in 0 .. Height[H] /\ Height[y] \in 0 .. Height[b] /\ BlockAt(H, Height[y]) = BlockAt(b, Height[y])
      BY <1>1, <3>2, Forks
    <3>4. y = BlockAt(H, Height[y])  BY <1>1, <3>3, AtHeight
    <3> QED  BY <3>3, <3>4, AtHeight
  <2>4. a \in Path[H] /\ c \in Made(H)  BY <1>6, <2>1, <2>2 DEF Made
  <2>5. DOMAIN cache.coins = Made(H) /\ CoinRight(r, H, c)
    <3>1. DOMAIN [d \in Made(H) |-> cache.coins[d]] = Made(H)  OBVIOUS
    <3> QED  BY <1>1, <2>4, <3>1 DEF CoinsRight
  <2>6. r.conf = Height[a]
    <3>1. PICK x \in Path[H] : c \in Added(x) /\ r.conf = Height[x]  BY <2>5 DEF CoinRight
    <3> QED  BY <1>1, <1>6, <2>4, <3>1, CoinOnce
  <2>7. r.spent = 0 \/ r.spent > h
    <3> SUFFICES ASSUME r.spent # 0, ~(r.spent > h) PROVE FALSE  OBVIOUS
    <3>1. PICK y \in Path[H] : c \in Removed(y) /\ r.spent = Height[y]  BY <2>5 DEF CoinRight
    <3>2. Height[y] <= h  BY <1>1, <1>4, <3>1, OnPath
    <3>3. y \in Path[b] /\ b \in Path[b]  BY <2>3, <3>1, <3>2, OnPath
    <3>4. y = b  BY <3>1, <3>3, CoinOnce
    <3> QED  BY <1>3, <3>1, <3>4 DEF H
  <2>8. c \in known  BY <2>1, <2>4, <2>5, <2>6, <2>7
  <2> QED  BY <2>8
<1> QED  BY <1>8, <1>9

\* Where a new block hangs.
LEMMA Hangs ==
    ASSUME WalletInv, Free, NEW b \in Blocks, b \notin mem.held, Prev[b] = NoBlock \/ Prev[b] \in mem.held
    PROVE  /\ Path[b] \ {b} \subseteq mem.held
           /\ \/ MemEmpty(mem, disk) /\ Prev[b] = NoBlock
              \/ MemOn(mem, disk) /\ Prev[b] # NoBlock
<1>1. MemRight(mem, disk) /\ BlocksRight(disk) /\ ChainOf(disk) \in Blocks  BY WhileFree
<1>2. CASE Prev[b] = NoBlock
  <2>1. Path[b] = {b} /\ b = FirstBlock  BY <1>2, LedgerAssumption, GenesisIs
  <2>2. ~MemOn(mem, disk)
    <3> SUFFICES ASSUME MemOn(mem, disk) PROVE FALSE  OBVIOUS
    <3>1. b \in Path[ChainOf(disk)]  BY <1>1, <2>1, GenesisIs
    <3> QED  BY <3>1 DEF MemOn
  <2> QED  BY <1>1, <1>2, <2>1, <2>2 DEF MemRight
<1>3. CASE Prev[b] # NoBlock
  <2>1. Prev[b] \in mem.held /\ Path[b] = Path[Prev[b]] \cup {b}  BY <1>3, LedgerAssumption
  <2>2. ~MemEmpty(mem, disk)  BY <2>1 DEF MemEmpty
  <2>3. MemOn(mem, disk)  BY <1>1, <2>2 DEF MemRight
  <2>4. Path[Prev[b]] \subseteq mem.held  BY <2>1, <2>3 DEF MemOn
  <2> QED  BY <1>3, <2>1, <2>3, <2>4
<1> QED  BY <1>2, <1>3

\* A block that is stored: with it come the coins it moves, and memory can be put back.
LEMMA ReceiveKeeps ==
    ASSUME WalletInv, UNCHANGED upsets, NEW b \in Blocks, NEW fork, ReceiveBlock(b, fork)
    PROVE  WalletInv'
<1> DEFINE new == [adds |-> Added(b), rems |-> Removed(b)]
           N == Override(disk.blocks, {b}, LAMBDA x : [adds |-> Added(b), rems |-> Removed(b) \cap UnspentAt(b, fork)])
           M == mem.held \cup {b}
<1>1. Free /\ b \notin mem.held /\ (Prev[b] = NoBlock \/ Prev[b] \in mem.held) /\ fork \in ForkPoints(b)
      /\ UNCHANGED <<disk, cache, inflight>>
      /\ job' = [at |-> "begun", block |-> b, fork |-> fork, main |-> mem.main]
      /\ mem' = [mem EXCEPT !.held = @ \cup {b}]
  BY DEF ReceiveBlock
<1>2. IsDb(disk) /\ BlocksRight(disk) /\ LedgerRight(disk, LateAcks) /\ Heaviest(disk) /\ db = disk
      /\ MemRight(mem, disk) /\ IsLedger(cache) /\ cache.coins = disk.ledger.coins
      /\ (~LateAcks => cache = disk.ledger /\ inflight = {})
  BY <1>1, WhileFree
<1>3. /\ Path[b] \ {b} \subseteq mem.held
      /\ \/ MemEmpty(mem, disk) /\ Prev[b] = NoBlock
         \/ MemOn(mem, disk) /\ Prev[b] # NoBlock
  BY <1>1, Hangs
<1>4. Removed(b) \cap UnspentAt(b, fork) = Removed(b)
  <2>1. CASE Prev[b] = NoBlock
    <3>1. Removed(b) = {}  BY <2>1, LedgerAssumption
    <3> QED  BY <3>1
  <2>2. CASE Prev[b] # NoBlock
    <3>1. Removed(b) \subseteq UnspentAt(b, fork)  BY <1>1, <1>3, <2>2, RemovedFound
    <3> QED  BY <3>1
  <2> QED  BY <2>1, <2>2
<1>5. db' = [db EXCEPT !.blocks = N]  BY <1>2 DEF ReceiveBlock
<1>6. N = [x \in DOMAIN disk.blocks \cup {b} |-> IF x \in {b} THEN new ELSE disk.blocks[x]]  BY <1>4 DEF Override
<1> HIDE DEF N
<1>7. db' = [ledger |-> disk.ledger, blocks |-> N, peak |-> disk.peak]
  <2>1. disk = [ledger |-> disk.ledger, blocks |-> disk.blocks, peak |-> disk.peak]  BY <1>2 DEF IsDb
  <2> QED  BY <1>2, <1>5, <2>1
<1>8. db'.ledger = disk.ledger /\ db'.blocks = N /\ db'.peak = disk.peak  BY <1>7
<1>9. IsDb(db')  BY <1>2, <1>7, <1>8 DEF IsDb
<1>10. DOMAIN N = DOMAIN disk.blocks \cup {b} /\ \A x \in DOMAIN N : N[x] = [adds |-> Added(x), rems |-> Removed(x)]
  <2>1. DOMAIN N = DOMAIN disk.blocks \cup {b}  BY <1>6
  <2>2. \A x \in DOMAIN disk.blocks : disk.blocks[x] = [adds |-> Added(x), rems |-> Removed(x)]
    BY <1>2 DEF BlocksRight
  <2>3. \A x \in DOMAIN N : N[x] = IF x \in {b} THEN new ELSE disk.blocks[x]  BY <1>6
  <2> QED  BY <2>1, <2>2, <2>3
<1>11. N = [x \in DOMAIN N |-> [adds |-> Added(x), rems |-> Removed(x)]]
  <2>1. N = [x \in DOMAIN N |-> N[x]]  BY <1>6
  <2> QED  BY <1>10, <2>1
<1>12. Path[b] \subseteq DOMAIN N
  <2>1. mem.held \subseteq DOMAIN disk.blocks  BY <1>2 DEF MemRight, MemEmpty, MemOn
  <2> QED  BY <1>3, <1>10, <2>1
<1>13. BlocksRight(db')
  <2>1. DOMAIN N \subseteq Blocks /\ disk.peak \in DOMAIN N \cup {NoBlock}  BY <1>2, <1>10 DEF BlocksRight
  <2>2. \A x \in DOMAIN N : Path[x] \subseteq DOMAIN N  BY <1>2, <1>10, <1>12 DEF BlocksRight
  <2> QED  BY <1>8, <1>11, <2>1, <2>2 DEF BlocksRight
<1>14. ChainOf(db') = ChainOf(disk)  BY <1>8 DEF ChainOf
<1>15. LedgerRight(db', LateAcks)  BY <1>2, <1>8, <1>14 DEF LedgerRight
<1>16. LateAcks' = LateAcks  BY DEF LateAcks
<1>17. StoresRight'
  <2>1. DbRight(disk, LateAcks) /\ DbRight(db', LateAcks)  BY <1>2, <1>9, <1>13, <1>15 DEF DbRight
  <2> QED  BY <1>1, <1>2, <1>8, <1>16, <2>1 DEF StoresRight
<1>18. mem' = [held |-> M, main |-> mem.main, top |-> mem.top]
  <2>1. mem = [held |-> mem.held, main |-> mem.main, top |-> mem.top]  BY <1>2 DEF MemRight, IsMem
  <2> QED  BY <1>1, <2>1
<1>19. mem'.held = M /\ mem'.main = mem.main /\ mem'.top = mem.top /\ IsMem(mem')  BY <1>18 DEF IsMem
<1>20. job'.at = "begun" /\ job'.block = b /\ job'.fork = fork /\ job'.main = mem.main  BY <1>1
<1>21. Undone' = mem
  <2>1. Undone' = [held |-> M \ {b}, main |-> mem.main, top |-> mem.top]  BY <1>19, <1>20 DEF Undone
  <2>2. M \ {b} = mem.held  BY <1>1
  <2>3. mem = [held |-> mem.held, main |-> mem.main, top |-> mem.top]  BY <1>2 DEF MemRight, IsMem
  <2> QED  BY <2>1, <2>2, <2>3
<1>22. fork = NoFork \/ fork \in 0 .. ForkHeight(ChainOf(disk), b)
  <2>1. CASE MemEmpty(mem, disk)
    <3>1. GetPeak = NoBlock  BY <2>1 DEF MemEmpty, GetPeak
    <3> QED  BY <1>1, <3>1 DEF ForkPoints
  <2>2. CASE MemOn(mem, disk)
    <3>1. GetPeak = ChainOf(disk)  BY <1>2, <2>2, PeakIs, GetPeakIs
    <3> QED  BY <1>1, <3>1 DEF ForkPoints, WalletInv
  <2> QED  BY <1>3, <2>1, <2>2
<1>23. IsJob'
  <2>1. Path[b] \subseteq M /\ b \in M  BY <1>3
  <2>2. job' = [at |-> job'.at, block |-> job'.block, fork |-> job'.fork, main |-> job'.main]  BY <1>1, <1>20
  <2>3. DOMAIN db'.blocks = DOMAIN disk'.blocks \cup {b}  BY <1>1, <1>8, <1>10
  <2>4. job'.fork = NoFork \/ job'.fork \in 0 .. ForkHeight(ChainOf(disk'), job'.block)  BY <1>1, <1>20, <1>22
  <2> QED  BY <1>19, <1>20, <2>1, <2>2, <2>3, <2>4 DEF IsJob
<1>24. Begun'
  <2>1. MemRight(Undone', disk')  BY <1>1, <1>2, <1>21
  <2>2. mem'.main = job'.main /\ db'.peak = disk'.peak  BY <1>1, <1>8, <1>19, <1>20
  <2> QED  BY <1>20, <1>23, <2>1, <2>2 DEF Begun
<1> QED  BY <1>17, <1>24 DEF WalletInv

\* What is known when a block has been stored.
LEMMA WhenBegun ==
    ASSUME WalletInv, job.at = "begun"
    PROVE  /\ Begun /\ IsJob /\ MemRight(Undone, disk) /\ mem.main = job.main /\ db.peak = disk.peak
           /\ DbRight(disk, LateAcks) /\ DbRight(db, LateAcks) /\ Heaviest(disk) /\ ChainOf(db) = ChainOf(disk)
           /\ PairRight([cache |-> cache, table |-> db.ledger], ChainOf(disk), LateAcks)
           /\ (~LateAcks => inflight = {})
           /\ PeakOf(Undone) = GetPeak
<1>1. Begun  BY DEF WalletInv, Applied, Finished, Between, Idle
<1>2. IsJob /\ MemRight(Undone, disk) /\ mem.main = job.main /\ db.peak = disk.peak  BY <1>1 DEF Begun
<1>3. DbRight(disk, LateAcks) /\ DbRight(db, LateAcks) /\ Heaviest(disk) /\ IsLedger(cache) /\ cache.coins = db.ledger.coins
      /\ (LateAcks \/ (cache = db.ledger /\ inflight = {}))
  BY DEF WalletInv, StoresRight
<1>4. ChainOf(db) = ChainOf(disk)  BY <1>2 DEF ChainOf
<1>5. PairRight([cache |-> cache, table |-> db.ledger], ChainOf(disk), LateAcks)
  <2> DEFINE pr == [cache |-> cache, table |-> db.ledger]
  <2>1. pr.cache = cache /\ pr.table = db.ledger  OBVIOUS
  <2>2. IsLedger(db.ledger) /\ LedgerRight(db, LateAcks)  BY <1>3 DEF DbRight, IsDb
  <2> HIDE DEF pr
  <2>3. PairForm(pr, LateAcks)  BY <1>3, <2>1, <2>2 DEF PairForm
  <2>4. PairRight(pr, ChainOf(disk), LateAcks)  BY <1>4, <2>1, <2>2, <2>3 DEF PairRight, LedgerRight
  <2> QED  BY <2>4 DEF pr
<1>6. PeakOf(Undone) = GetPeak
  <2>1. Undone.top = mem.top /\ Undone.main = mem.main  BY <1>2 DEF Undone
  <2> QED  BY <2>1 DEF PeakOf, GetPeak
<1> QED  BY <1>1, <1>2, <1>3, <1>4, <1>5, <1>6

\* Where the block hangs, again: the first block, or one on the wallet's tree.
LEMMA HangsStill ==
    ASSUME WalletInv, job.at = "begun"
    PROVE  \/ MemEmpty(Undone, disk) /\ job.block = FirstBlock /\ mem.held = {FirstBlock} /\ GetPeak = NoBlock
           \/ MemOn(Undone, disk) /\ Prev[job.block] # NoBlock /\ GetPeak = ChainOf(disk)
              /\ job.block \notin Path[ChainOf(disk)]
<1> DEFINE b == job.block
           H == ChainOf(disk)
<1>1. IsJob /\ MemRight(Undone, disk) /\ BlocksRight(disk) /\ PeakOf(Undone) = GetPeak  BY WhenBegun DEF DbRight
<1>2. b \in Blocks /\ b \in mem.held /\ Path[b] \subseteq mem.held  BY <1>1 DEF IsJob
<1>3. Undone.held = mem.held \ {b} /\ Undone.top = mem.top  BY DEF Undone
<1> HIDE DEF b, H
<1>4. CASE MemEmpty(Undone, disk)
  <2>1. mem.held = {b} /\ mem.top = NoHeight  BY <1>2, <1>3, <1>4 DEF MemEmpty
  <2>2. FirstBlock \in Path[b]  BY <1>2, GenesisIs
  <2>3. b = FirstBlock  BY <1>2, <2>1, <2>2
  <2>4. GetPeak = NoBlock  BY <2>1 DEF GetPeak
  <2> QED  BY <1>4, <2>1, <2>3, <2>4 DEF b
<1>5. CASE MemOn(Undone, disk)
  <2>1. PeakOf(Undone) = H /\ H \in Blocks  BY <1>1, <1>5, PeakIs DEF H
  <2>2. Path[H] \subseteq mem.held \ {b}  BY <1>3, <1>5 DEF MemOn, H
  <2>3. Prev[b] # NoBlock  BY <1>2, <2>1, <2>2, GenesisIs
  <2> QED  BY <1>1, <1>5, <2>1, <2>2, <2>3 DEF b, H
<1> QED  BY <1>1, <1>4, <1>5 DEF MemRight

\* What Reconsider leaves of the stores and the memory, whatever it decides.
LEMMA Reconsidered ==
    ASSUME WalletInv, UNCHANGED <<upsets, disk, inflight>>, job.at = "begun",
           job' = [job EXCEPT !.at = "applied"], NEW main, mem' = [mem EXCEPT !.main = main],
           IsDb(db'), db'.blocks = db.blocks, BlocksRight(db'), LedgerRight(db', LateAcks), Heaviest(db'),
           IsLedger(cache'), cache'.coins = db'.ledger.coins, LateAcks \/ cache' = db'.ledger,
           IF main = job.main THEN MemRight([held |-> mem.held, main |-> main, top |-> mem.top], db')
           ELSE MemRight([held |-> mem.held, main |-> main, top |-> Height[job.block]], db')
    PROVE  WalletInv'
<1>1. IsJob /\ MemRight(Undone, disk) /\ DbRight(disk, LateAcks) /\ Heaviest(disk) /\ (~LateAcks => inflight = {})
  BY WhenBegun
<1>2. job' = [at |-> "applied", block |-> job.block, fork |-> job.fork, main |-> job.main]
  <2>1. job = [at |-> job.at, block |-> job.block, fork |-> job.fork, main |-> job.main]  BY <1>1 DEF IsJob
  <2> QED  BY <2>1
<1>3. job'.at = "applied" /\ job'.block = job.block /\ job'.fork = job.fork /\ job'.main = job.main  BY <1>2
<1>4. mem' = [held |-> mem.held, main |-> main, top |-> mem.top]
  <2>1. mem = [held |-> mem.held, main |-> mem.main, top |-> mem.top]  BY <1>1 DEF IsJob, IsMem
  <2> QED  BY <2>1
<1>5. mem'.held = mem.held /\ mem'.main = main /\ mem'.top = mem.top /\ IsMem(mem')  BY <1>4 DEF IsMem
<1>6. Undone' = Undone  BY <1>3, <1>5 DEF Undone
<1>7. Peaked' = [held |-> mem.held, main |-> main, top |-> Height[job.block]]
  <2>1. Peaked' = [mem' EXCEPT !.top = Height[job.block]]  BY <1>3 DEF Peaked
  <2> QED  BY <1>4, <2>1
<1>8. LateAcks' = LateAcks  BY DEF LateAcks
<1>9. StoresRight'
  <2>1. DbRight(db', LateAcks)  BY DEF DbRight
  <2>2. LateAcks \/ (cache' = db'.ledger /\ inflight' = {})  BY <1>1
  <2> QED  BY <1>1, <1>8, <2>1, <2>2 DEF StoresRight
<1>10. IsJob'
  <2>1. job' = [at |-> job'.at, block |-> job'.block, fork |-> job'.fork, main |-> job'.main]  BY <1>2, <1>3
  <2>2. job.block \in Blocks /\ job.block \in mem.held /\ Path[job.block] \subseteq mem.held
        /\ DOMAIN db.blocks = DOMAIN disk.blocks \cup {job.block}
        /\ (job.fork = NoFork \/ job.fork \in 0 .. ForkHeight(ChainOf(disk), job.block))
    BY <1>1 DEF IsJob
  <2>3. job'.fork = NoFork \/ job'.fork \in 0 .. ForkHeight(ChainOf(disk'), job'.block)  BY <1>3, <2>2
  <2>4. DOMAIN db'.blocks = DOMAIN disk'.blocks \cup {job'.block}  BY <1>3, <2>2
  <2> QED  BY <1>3, <1>5, <2>1, <2>2, <2>3, <2>4 DEF IsJob
<1>11. MemRight(Undone', disk')  BY <1>1, <1>6
<1>12. IF mem'.main = job'.main THEN MemRight(mem', db') ELSE MemRight(Peaked', db')  BY <1>3, <1>4, <1>5, <1>7
<1>13. Applied'  BY <1>3, <1>10, <1>11, <1>12 DEF Applied
<1> QED  BY <1>9, <1>13 DEF WalletInv

\* The first block.
LEMMA GenesisKeeps ==
    ASSUME WalletInv, UNCHANGED upsets, Reconsider, MemEmpty(Undone, disk), job.block = FirstBlock, mem.held = {FirstBlock},
           GetPeak = NoBlock
    PROVE  WalletInv'
<1> DEFINE main == Override(mem.main, {0}, LAMBDA i : job.block)
           m == [held |-> mem.held, main |-> main, top |-> Height[job.block]]
<1>1. job.at = "begun" /\ job' = [job EXCEPT !.at = "applied"] /\ UNCHANGED <<disk, inflight, db, cache>>
      /\ mem' = [mem EXCEPT !.main = main]
  <2>1. Prev[job.block] = NoBlock  BY GenesisIs
  <2>2. ~Heavier(job.block)  BY <2>1 DEF Heavier
  <2> QED  BY <2>1, <2>2 DEF Reconsider
<1>2. DbRight(db, LateAcks) /\ Heaviest(disk) /\ db.peak = disk.peak /\ ChainOf(db) = ChainOf(disk)
      /\ mem.main = job.main /\ IsJob
  BY <1>1, WhenBegun
<1>3. mem.main = <<>> /\ disk.peak = NoBlock
  <2>1. Undone.main = job.main  BY DEF Undone
  <2> QED  BY <1>2, <2>1 DEF MemEmpty
<1>4. main = [i \in {0} |-> FirstBlock]
  <2>1. DOMAIN mem.main \cup {0} = {0}  BY <1>3
  <2>2. main = [i \in DOMAIN mem.main \cup {0} |-> IF i \in {0} THEN FirstBlock ELSE mem.main[i]]  BY DEF Override
  <2> QED  BY <2>1, <2>2
<1>5. DOMAIN main = {0} /\ main[0] = FirstBlock /\ main = [i \in DOMAIN main |-> main[i]]  BY <1>4
<1> HIDE DEF main
<1>6. main # job.main
  <2>1. DOMAIN <<>> = {}  OBVIOUS
  <2> QED  BY <1>2, <1>3, <1>5, <2>1
<1>7. ChainOf(db) = FirstBlock  BY <1>2, <1>3 DEF ChainOf
<1>8. DOMAIN db.blocks = DOMAIN disk.blocks \cup {FirstBlock}  BY <1>2 DEF IsJob
<1>9. Heaviest(db)
  <2>1. Weight[FirstBlock] \in Nat  BY GenesisIs, LedgerAssumption
  <2>2. \A x \in DOMAIN disk.blocks : Weight[x] <= Weight[FirstBlock]  BY <1>2, <1>7 DEF Heaviest
  <2>3. Weight[FirstBlock] <= Weight[FirstBlock]  BY <2>1
  <2> QED  BY <1>7, <1>8, <2>2, <2>3 DEF Heaviest
<1>10. MemRight(m, db)
  <2>1. m.held = {FirstBlock} /\ m.main = main /\ m.top = 0 /\ IsMem(m)  BY GenesisIs DEF IsMem
  <2>2. \A i \in 0 .. 0 : i = 0  OBVIOUS
  <2>3. BlockAt(FirstBlock, 0) = FirstBlock  BY GenesisIs, AtTop
  <2> HIDE DEF m
  <2>4. MemOn(m, db)  BY <1>5, <1>7, <1>8, <2>1, <2>2, <2>3, GenesisIs DEF MemOn
  <2> QED  BY <2>1, <2>4 DEF MemRight
<1>11. IsLedger(cache) /\ cache.coins = db.ledger.coins /\ (LateAcks \/ cache = db.ledger)  BY DEF WalletInv, StoresRight
<1>12. /\ IsDb(db') /\ db'.blocks = db.blocks /\ BlocksRight(db') /\ LedgerRight(db', LateAcks) /\ Heaviest(db')
       /\ IsLedger(cache') /\ cache'.coins = db'.ledger.coins /\ (LateAcks \/ cache' = db'.ledger)
  BY <1>1, <1>2, <1>9, <1>11 DEF DbRight
<1>13. MemRight([held |-> mem.held, main |-> main, top |-> Height[job.block]], db')  BY <1>1, <1>10
<1> QED  BY <1>1, <1>6, <1>12, <1>13, Reconsidered

\* A block that is not heavier than the peak.
LEMMA LighterKeeps ==
    ASSUME WalletInv, UNCHANGED upsets, Reconsider, MemOn(Undone, disk), Prev[job.block] # NoBlock,
           GetPeak = ChainOf(disk), ~Heavier(job.block)
    PROVE  WalletInv'
<1> DEFINE b == job.block
           H == ChainOf(disk)
           m == [held |-> mem.held, main |-> mem.main, top |-> mem.top]
<1>1. job.at = "begun" /\ job' = [job EXCEPT !.at = "applied"] /\ UNCHANGED <<disk, inflight, db, cache, mem>>
  BY DEF Reconsider
<1>2. DbRight(db, LateAcks) /\ DbRight(disk, LateAcks) /\ Heaviest(disk) /\ db.peak = disk.peak /\ ChainOf(db) = H
      /\ mem.main = job.main /\ IsJob
  BY <1>1, WhenBegun
<1>3. b \in Blocks /\ b \in mem.held /\ Path[b] \subseteq mem.held /\ DOMAIN db.blocks = DOMAIN disk.blocks \cup {b} /\ IsMem(mem)
  BY <1>2 DEF IsJob
<1>4. H \in Blocks  BY <1>2, ChainIs DEF DbRight
<1>5. Weight[b] \in Nat /\ Weight[H] \in Nat  BY <1>3, <1>4, LedgerAssumption
<1>6. Weight[b] <= Weight[H]
  <2>1. ~(Weight[b] > Weight[H])  BY DEF Heavier
  <2> QED  BY <1>5, <2>1
<1>7. Heaviest(db)  BY <1>2, <1>3, <1>6 DEF Heaviest
<1>8. mem = m  BY <1>3 DEF IsMem
<1>9. MemRight(m, db)
  <2>1. Undone.held = mem.held \ {b} /\ Undone.main = mem.main /\ Undone.top = mem.top  BY <1>2 DEF Undone
  <2>2. H \in mem.held /\ mem.held \subseteq DOMAIN db.blocks /\ \A x \in mem.held : Path[x] \subseteq mem.held
    BY <1>3, <2>1 DEF MemOn
  <2>3. mem.top = Height[H] /\ mem.main = [i \in DOMAIN mem.main |-> mem.main[i]]
        /\ (\A i \in DOMAIN mem.main : mem.main[i] \in mem.held)
        /\ (\A i \in 0 .. Height[H] : i \in DOMAIN mem.main /\ mem.main[i] = BlockAt(H, i))
    BY <2>1 DEF MemOn
  <2>4. MemOn(mem, db)  BY <1>2, <2>2, <2>3 DEF MemOn
  <2> QED  BY <1>3, <1>8, <2>4 DEF MemRight
<1>10. mem' = [mem EXCEPT !.main = mem.main]
  <2>1. mem = [held |-> mem.held, main |-> mem.main, top |-> mem.top]  BY <1>8
  <2> QED  BY <1>1, <2>1
<1>11. IsLedger(cache) /\ cache.coins = db.ledger.coins /\ (LateAcks \/ cache = db.ledger)  BY DEF WalletInv, StoresRight
<1>12. /\ IsDb(db') /\ db'.blocks = db.blocks /\ BlocksRight(db') /\ LedgerRight(db', LateAcks) /\ Heaviest(db')
       /\ IsLedger(cache') /\ cache'.coins = db'.ledger.coins /\ (LateAcks \/ cache' = db'.ledger)
  BY <1>1, <1>2, <1>7, <1>11 DEF DbRight
<1>13. MemRight([held |-> mem.held, main |-> mem.main, top |-> mem.top], db')  BY <1>1, <1>9
<1> QED  BY <1>1, <1>2, <1>10, <1>12, <1>13, Reconsidered

\* The memory after a heavier block.
MainAfter(main, b, h) == Override(main, (h + 1) .. Height[b], LAMBDA i : BlockAt(b, i))
\* height_to_hash has the new chain up to the block, and has changed.
LEMMA HeavierMem ==
    ASSUME NEW b \in Blocks, NEW d, BlocksRight(d), NEW u, MemOn(u, d), NEW held, held = u.held \cup {b}, b \notin u.held,
           Path[b] \subseteq held, NEW h \in 0 .. ForkHeight(ChainOf(d), b), NEW e, e.peak = b,
           DOMAIN e.blocks = DOMAIN d.blocks \cup {b}, NEW main,
           main = MainAfter(u.main, b, h)
    PROVE  main # u.main /\ MemRight([held |-> held, main |-> main, top |-> Height[b]], e)
<1> DEFINE H == ChainOf(d)
           n == Height[b]
           m == [held |-> held, main |-> main, top |-> n]
           R == (h + 1) .. n
<1>1. H \in Blocks /\ n \in Nat /\ b # NoBlock  BY ChainIs, HeightNat, LedgerAssumption
<1>2. b \notin Path[H]  BY DEF MemOn
<1>3. h \in Nat /\ h < n
  <2>1. ForkHeight(H, b) \in Nat /\ ForkHeight(H, b) < n  BY <1>1, <1>2, ForkBelow
  <2> HIDE DEF H, n
  <2> QED  BY <1>1, <2>1 DEF H
<1>4. main = [i \in DOMAIN u.main \cup R |-> IF i \in R THEN BlockAt(b, i) ELSE u.main[i]]
  BY DEF MainAfter, Override
<1>5. DOMAIN main = DOMAIN u.main \cup R /\ main = [i \in DOMAIN main |-> main[i]]
      /\ \A i \in DOMAIN main : main[i] = IF i \in R THEN BlockAt(b, i) ELSE u.main[i]
  BY <1>4
<1>6. \A i \in R : i \in 0 .. n  BY <1>1, <1>3
<1>7. ASSUME NEW i \in 0 .. n PROVE i \in DOMAIN main /\ main[i] = BlockAt(b, i)
  <2>1. CASE i \in R  BY <1>5, <2>1
  <2>2. CASE i \notin R
    <3>1. i \in 0 .. h  BY <1>1, <1>3, <2>2
    <3>2. i \in 0 .. ForkHeight(H, b)
      <4>1. ForkHeight(H, b) \in Nat  BY <1>1, <1>2, ForkBelow
      <4> QED  BY <1>3, <3>1, <4>1
    <3>3. i \in 0 .. Height[H] /\ BlockAt(H, i) = BlockAt(b, i)  BY <1>1, <3>2, Forks
    <3>4. i \in DOMAIN u.main /\ u.main[i] = BlockAt(H, i)  BY <3>3 DEF MemOn
    <3> QED  BY <1>5, <2>2, <3>3, <3>4
  <2> QED  BY <2>1, <2>2
<1>8. \A i \in DOMAIN main : main[i] \in held
  <2> SUFFICES ASSUME NEW i \in DOMAIN main PROVE main[i] \in held  OBVIOUS
  <2>1. CASE i \in R
    <3>1. BlockAt(b, i) \in Path[b]  BY <1>6, <2>1, AtHeight
    <3> QED  BY <1>5, <2>1, <3>1
  <2>2. CASE i \notin R
    <3>1. i \in DOMAIN u.main /\ main[i] = u.main[i]  BY <1>5, <2>2
    <3> QED  BY <3>1 DEF MemOn
  <2> QED  BY <2>1, <2>2
<1>9. n \in 0 .. n /\ BlockAt(b, n) = b  BY AtTop
<1>10. main # u.main
  <2> SUFFICES ASSUME main = u.main PROVE FALSE  OBVIOUS
  <2>1. n \in DOMAIN u.main /\ u.main[n] = b  BY <1>7, <1>9
  <2> QED  BY <2>1 DEF MemOn
<1>11. ChainOf(e) = b  BY <1>1 DEF ChainOf
<1>12. held \subseteq DOMAIN e.blocks /\ b \in held /\ \A x \in held : Path[x] \subseteq held  BY DEF MemOn
<1>13. m.held = held /\ m.main = main /\ m.top = n /\ IsMem(m)  BY DEF IsMem
<1> HIDE DEF m
<1>14. MemOn(m, e)
  <2>1. \A i \in 0 .. Height[ChainOf(e)] : i \in DOMAIN m.main /\ m.main[i] = BlockAt(ChainOf(e), i)
    BY <1>7, <1>11, <1>13
  <2>2. m.top = Height[ChainOf(e)] /\ ChainOf(e) \in m.held  BY <1>11, <1>12, <1>13
  <2>3. m.main = [i \in DOMAIN m.main |-> m.main[i]] /\ \A i \in DOMAIN m.main : m.main[i] \in m.held
    BY <1>5, <1>8, <1>13
  <2>4. m.held \subseteq DOMAIN e.blocks /\ \A x \in m.held : Path[x] \subseteq m.held  BY <1>12, <1>13
  <2> QED  BY <2>1, <2>2, <2>3, <2>4 DEF MemOn
<1> QED  BY <1>10, <1>13, <1>14 DEF MemRight, m

\* A heavier block: the stores are those of its chain.
LEMMA HeavierKeeps ==
    ASSUME WalletInv, UNCHANGED upsets, Reconsider, MemOn(Undone, disk), Prev[job.block] # NoBlock,
           GetPeak = ChainOf(disk), job.block \notin Path[ChainOf(disk)], Heavier(job.block)
    PROVE  WalletInv'
<1> DEFINE b == job.block
           H == ChainOf(disk)
           h == IF job.fork # NoFork THEN job.fork ELSE ForkHeight(b, GetPeak)
           A == Advance(b, h)
           main == Override(mem.main, AddedFrom(b, h) .. Height[b], LAMBDA i : BlockAt(b, i))
<1>1. job.at = "begun" /\ job' = [job EXCEPT !.at = "applied"] /\ UNCHANGED <<disk, inflight>>
      /\ db' = [db EXCEPT !.ledger = A.table, !.peak = b] /\ cache' = A.cache /\ mem' = [mem EXCEPT !.main = main]
  BY DEF Reconsider
<1>2. DbRight(db, LateAcks) /\ DbRight(disk, LateAcks) /\ Heaviest(disk) /\ db.peak = disk.peak /\ ChainOf(db) = H
      /\ mem.main = job.main /\ IsJob /\ PairRight([cache |-> cache, table |-> db.ledger], H, LateAcks)
  BY <1>1, WhenBegun
<1>3. b \in Blocks /\ b \in mem.held /\ Path[b] \subseteq mem.held /\ DOMAIN db.blocks = DOMAIN disk.blocks \cup {b} /\ IsMem(mem)
      /\ (job.fork = NoFork \/ job.fork \in 0 .. ForkHeight(H, b))
  BY <1>2 DEF IsJob
<1>4. H \in Blocks /\ BlocksRight(disk) /\ BlocksRight(db)  BY <1>2, ChainIs DEF DbRight
<1>5. h \in 0 .. ForkHeight(H, b)
  <2>1. ForkHeight(H, b) \in Nat /\ ForkHeight(b, H) = ForkHeight(H, b)  BY <1>3, <1>4, ForkBelow, Forks
  <2>2. h = IF job.fork # NoFork THEN job.fork ELSE ForkHeight(H, b)  BY <2>1
  <2> HIDE DEF h, b, H
  <2> QED  BY <1>3, <2>1, <2>2
<1>6. Undone.held = mem.held \ {b} /\ Undone.main = mem.main /\ Undone.top = mem.top  BY <1>2 DEF Undone
<1>7. \A x \in Path[b] : Stored(x)
  <2> SUFFICES ASSUME NEW x \in Path[b] PROVE Stored(x)  OBVIOUS
  <2>1. x \in DOMAIN db.blocks  BY <1>3, <1>6 DEF MemOn
  <2> QED  BY <1>4, <2>1 DEF BlocksRight, Stored
<1>7a. AddedFrom(b, h) = h + 1
  <2>1. h \in 0 .. Height[H] /\ h \in 0 .. Height[b] /\ BlockAt(H, h) = BlockAt(b, h)
    <3> HIDE DEF h
    <3> QED  BY <1>3, <1>4, <1>5, Forks
  <2>2. mem.main[h] = BlockAt(H, h)
    <3> HIDE DEF h
    <3> QED  BY <1>6, <2>1 DEF MemOn
  <2>3. h <= Height[b]
    <3> HIDE DEF h
    <3> QED  BY <2>1
  <2> QED  BY <2>1, <2>2, <2>3 DEF AddedFrom
<1>8. PairRight(A, b, LateAcks)
  <2> HIDE DEF h
  <2> QED  BY <1>2, <1>3, <1>4, <1>5, <1>7, <1>7a, Advanced
<1> HIDE DEF A
<1>9. db' = [ledger |-> A.table, blocks |-> db.blocks, peak |-> b]
  <2>1. db = [ledger |-> db.ledger, blocks |-> db.blocks, peak |-> db.peak]  BY <1>2 DEF DbRight, IsDb
  <2> QED  BY <1>1, <2>1
<1>10. db'.ledger = A.table /\ db'.blocks = db.blocks /\ db'.peak = b  BY <1>9
<1>11. IsLedger(A.cache) /\ IsLedger(A.table) /\ A.cache.coins = A.table.coins /\ (LateAcks \/ A.cache = A.table)
       /\ CoinsRight(A.table.coins, b) /\ (LateAcks \/ TxsRight(A.table.txs, b))
  BY <1>8 DEF PairRight, PairForm
<1>12. ChainOf(db') = b
  <2>1. b # NoBlock  BY <1>3, LedgerAssumption
  <2> QED  BY <1>10, <2>1 DEF ChainOf
<1>13. IsDb(db')  BY <1>9, <1>10, <1>11 DEF IsDb
<1>14. BlocksRight(db')  BY <1>3, <1>4, <1>10 DEF BlocksRight
<1>15. LedgerRight(db', LateAcks)  BY <1>10, <1>11, <1>12 DEF LedgerRight
<1>16. Heaviest(db')
  <2>1. Weight[b] > Weight[H]  BY DEF Heavier
  <2> SUFFICES ASSUME NEW x \in DOMAIN disk.blocks \cup {b} PROVE Weight[x] <= Weight[b]  BY <1>3, <1>10, <1>12 DEF Heaviest
  <2>2. x \in Blocks /\ Weight[x] \in Nat /\ Weight[b] \in Nat /\ Weight[H] \in Nat
    <3>1. x \in Blocks  BY <1>3, <1>4 DEF BlocksRight
    <3> QED  BY <1>3, <1>4, <3>1, LedgerAssumption
  <2>3. CASE x = b  BY <2>2, <2>3
  <2>4. CASE x \in DOMAIN disk.blocks
    <3>1. Weight[x] <= Weight[H]  BY <1>2, <2>4 DEF Heaviest
    <3> QED  BY <2>1, <2>2, <3>1
  <2> QED  BY <2>3, <2>4
<1>17. main # mem.main /\ MemRight([held |-> mem.held, main |-> main, top |-> Height[b]], db')
  <2>1. mem.held = Undone.held \cup {b} /\ b \notin Undone.held  BY <1>3, <1>6
  <2>2. main = MainAfter(Undone.main, b, h)  BY <1>6, <1>7a DEF MainAfter
  <2>3. DOMAIN db'.blocks = DOMAIN disk.blocks \cup {b} /\ db'.peak = b  BY <1>3, <1>10
  <2>4. b \in Blocks /\ Path[b] \subseteq mem.held /\ BlocksRight(disk)  BY <1>3, <1>4
  <2>5. h \in 0 .. ForkHeight(ChainOf(disk), b)  BY <1>5
  <2> HIDE DEF main, h, b
  <2>6. main # Undone.main /\ MemRight([held |-> mem.held, main |-> main, top |-> Height[b]], db')
    BY <2>1, <2>2, <2>3, <2>4, <2>5, HeavierMem, SMTT(40)
  <2> QED  BY <1>6, <2>6
<1> HIDE DEF main
<1>18. /\ IsDb(db') /\ db'.blocks = db.blocks /\ BlocksRight(db') /\ LedgerRight(db', LateAcks) /\ Heaviest(db')
       /\ IsLedger(cache') /\ cache'.coins = db'.ledger.coins /\ (LateAcks \/ cache' = db'.ledger)
  BY <1>1, <1>10, <1>11, <1>13, <1>14, <1>15, <1>16
<1>19. main # job.main /\ MemRight([held |-> mem.held, main |-> main, top |-> Height[job.block]], db')  BY <1>2, <1>17
<1> QED  BY <1>1, <1>18, <1>19, Reconsidered

\* _reconsider_peak.
LEMMA ReconsiderKeeps ==
    ASSUME WalletInv, UNCHANGED upsets, Reconsider
    PROVE  WalletInv'
<1>1. job.at = "begun"  BY DEF Reconsider
<1>2. CASE MemEmpty(Undone, disk) /\ job.block = FirstBlock /\ mem.held = {FirstBlock} /\ GetPeak = NoBlock
  BY <1>2, GenesisKeeps
<1>3. CASE MemOn(Undone, disk) /\ Prev[job.block] # NoBlock /\ GetPeak = ChainOf(disk)
           /\ job.block \notin Path[ChainOf(disk)]
  BY <1>3, LighterKeeps, HeavierKeeps
<1> QED  BY <1>1, <1>2, <1>3, HangsStill

\* The last assignment makes the memory right for the open transaction.
LEMMA SetPeakKeeps ==
    ASSUME WalletInv, UNCHANGED upsets, SetPeakHeight
    PROVE  WalletInv'
<1>1. job.at = "applied" /\ job' = [job EXCEPT !.at = "done"] /\ UNCHANGED <<disk, db, cache, inflight>>
      /\ mem' = IF mem.main = job.main THEN mem ELSE [mem EXCEPT !.top = Height[job.block]]
  BY DEF SetPeakHeight
<1>2. Applied  BY <1>1 DEF WalletInv, Begun, Finished, Between, Idle
<1>3. IsJob /\ Heaviest(db) /\ IF mem.main = job.main THEN MemRight(mem, db) ELSE MemRight(Peaked, db)  BY <1>2 DEF Applied
<1>4. MemRight(mem', db)  BY <1>1, <1>3 DEF Peaked
<1>5. job' = [at |-> "done", block |-> job.block, fork |-> job.fork, main |-> job.main]
  <2>1. job = [at |-> job.at, block |-> job.block, fork |-> job.fork, main |-> job.main]  BY <1>3 DEF IsJob
  <2> QED  BY <1>1, <2>1
<1>6. job'.at = "done" /\ job'.block = job.block /\ job'.fork = job.fork /\ job'.main = job.main  BY <1>5
<1>7. mem'.held = mem.held /\ IsMem(mem')
  <2>1. mem = [held |-> mem.held, main |-> mem.main, top |-> mem.top]  BY <1>3 DEF IsJob, IsMem
  <2>2. [mem EXCEPT !.top = Height[job.block]].held = mem.held  BY <2>1
  <2> QED  BY <1>1, <1>4, <2>2 DEF MemRight
<1>8. IsJob'
  <2>1. job' = [at |-> job'.at, block |-> job'.block, fork |-> job'.fork, main |-> job'.main]  BY <1>5, <1>6
  <2>2. job.block \in Blocks /\ job.block \in mem.held /\ Path[job.block] \subseteq mem.held
        /\ DOMAIN db.blocks = DOMAIN disk.blocks \cup {job.block}
        /\ (job.fork = NoFork \/ job.fork \in 0 .. ForkHeight(ChainOf(disk), job.block))
    BY <1>3 DEF IsJob
  <2>3. job'.fork = NoFork \/ job'.fork \in 0 .. ForkHeight(ChainOf(disk'), job'.block)  BY <1>1, <1>6, <2>2
  <2>4. DOMAIN db'.blocks = DOMAIN disk'.blocks \cup {job'.block}  BY <1>1, <1>6, <2>2
  <2> QED  BY <1>6, <1>7, <2>1, <2>2, <2>3, <2>4 DEF IsJob
<1>9. Finished'  BY <1>1, <1>3, <1>4, <1>6, <1>8 DEF Finished
<1>10. StoresRight'  BY <1>1 DEF WalletInv, StoresRight, LateAcks
<1> QED  BY <1>9, <1>10 DEF WalletInv

\* The commit makes that the database.
LEMMA CommitKeeps ==
    ASSUME WalletInv, UNCHANGED upsets, Commit
    PROVE  WalletInv'
<1>1. job.at = "done" /\ disk' = db /\ job' = Idle /\ UNCHANGED <<db, cache, mem, inflight>>  BY DEF Commit
<1>2. Finished  BY <1>1 DEF WalletInv, Begun, Applied, Between, Idle
<1>3. Heaviest(db) /\ MemRight(mem, db)  BY <1>2 DEF Finished
<1>4. LateAcks' = LateAcks  BY DEF LateAcks
<1>5. StoresRight'  BY <1>1, <1>3, <1>4 DEF WalletInv, StoresRight
<1>6. Between'  BY <1>1, <1>3 DEF Between
<1> QED  BY <1>5, <1>6 DEF WalletInv

\* A transaction that is rolled back, with the memory right for the database.
LEMMA BackKeeps ==
    ASSUME WalletInv, UNCHANGED <<upsets, disk>>, db' = disk, cache' = disk.ledger, job' = Idle, MemRight(mem', disk),
           ~LateAcks => inflight' = {}
    PROVE  WalletInv'
<1>1. DbRight(disk, LateAcks) /\ Heaviest(disk)  BY DEF WalletInv, StoresRight
<1>2. IsLedger(disk.ledger)  BY <1>1 DEF DbRight, IsDb
<1>3. LateAcks' = LateAcks  BY DEF LateAcks
<1>4. StoresRight'  BY <1>1, <1>2, <1>3 DEF StoresRight
<1>5. Between'  BY DEF Between
<1> QED  BY <1>4, <1>5 DEF WalletInv

\* The except clause leaves what Undone says.
LEMMA AbortKeeps ==
    ASSUME WalletInv, UNCHANGED upsets, Abort
    PROVE  WalletInv'
<1>1. job.at \in {"begun", "applied"} /\ db' = disk /\ cache' = disk.ledger /\ job' = Idle /\ UNCHANGED <<disk, inflight>>
      /\ mem' = [mem EXCEPT !.held = @ \ {job.block}, !.main = job.main]
  BY DEF Abort, WalletInv
<1>2. IsJob /\ MemRight(Undone, disk)  BY <1>1 DEF WalletInv, Begun, Applied, Finished, Between, Idle
<1>3. mem' = Undone
  <2>1. mem = [held |-> mem.held, main |-> mem.main, top |-> mem.top]  BY <1>2 DEF IsJob, IsMem
  <2> QED  BY <1>1, <2>1 DEF Undone
<1>4. ~LateAcks => inflight' = {}  BY <1>1 DEF WalletInv, StoresRight
<1> QED  BY <1>1, <1>2, <1>3, <1>4, BackKeeps

\* A restart reads back the chain of the stored peak.
LEMMA RestartKeeps ==
    ASSUME WalletInv, UNCHANGED upsets, Restart
    PROVE  WalletInv'
<1> DEFINE p == disk.peak
           m == [held |-> DOMAIN disk.blocks, main |-> [i \in 0 .. Height[p] |-> BlockAt(p, i)], top |-> Height[p]]
<1>1. db' = disk /\ cache' = disk.ledger /\ job' = Idle /\ inflight' = {} /\ UNCHANGED disk
      /\ mem' = IF p = NoBlock THEN [held |-> {}, main |-> <<>>, top |-> NoHeight] ELSE m
  BY DEF Restart
<1>2. BlocksRight(disk)  BY DEF WalletInv, StoresRight, DbRight
<1>3. MemRight(mem', disk)
  <2>1. CASE p = NoBlock  BY <1>1, <2>1 DEF MemRight, IsMem, MemEmpty
  <2>2. CASE p # NoBlock
    <3>1. ChainOf(disk) = p /\ p \in DOMAIN disk.blocks /\ p \in Blocks
          /\ \A x \in DOMAIN disk.blocks : Path[x] \subseteq DOMAIN disk.blocks
      BY <1>2, <2>2 DEF ChainOf, BlocksRight
    <3>2. IsMem(m) /\ m.held = DOMAIN disk.blocks /\ m.top = Height[p] /\ DOMAIN m.main = 0 .. Height[p]
          /\ m.main = [i \in DOMAIN m.main |-> m.main[i]] /\ \A i \in 0 .. Height[p] : m.main[i] = BlockAt(p, i)
      BY DEF IsMem
    <3> HIDE DEF m
    <3>3. \A i \in 0 .. Height[p] : m.main[i] \in m.held
      <4> SUFFICES ASSUME NEW i \in 0 .. Height[p] PROVE m.main[i] \in m.held  OBVIOUS
      <4>1. BlockAt(p, i) \in Path[p]  BY <3>1, AtHeight
      <4> QED  BY <3>1, <3>2, <4>1
    <3>4. MemOn(m, disk)  BY <3>1, <3>2, <3>3 DEF MemOn
    <3> QED  BY <1>1, <2>2, <3>2, <3>4 DEF MemRight
  <2> QED  BY <2>1, <2>2
<1> QED  BY <1>1, <1>3, BackKeeps

-----------------------------------------------------------------------------
\* Every step keeps the invariant.
LEMMA WalletStep == WalletInv /\ [LedgerNext]_ledgerVars => WalletInv'
<1> SUFFICES ASSUME WalletInv, [LedgerNext]_ledgerVars PROVE WalletInv'  OBVIOUS
<1>1. CASE UNCHANGED ledgerVars
  <2>1. UNCHANGED <<disk, db, cache, mem, job, inflight, upsets>>  BY <1>1 DEF ledgerVars
  <2>2. Undone' = Undone /\ Peaked' = Peaked /\ LateAcks' = LateAcks  BY <2>1 DEF Undone, Peaked, LateAcks
  <2>3. StoresRight'  BY <2>1, <2>2 DEF WalletInv, StoresRight
  <2>4. IsJob => IsJob'  BY <2>1 DEF IsJob
  <2>5. (Begun => Begun') /\ (Applied => Applied') /\ (Finished => Finished') /\ (Between => Between')
    BY <2>1, <2>2, <2>4 DEF Begun, Applied, Finished, Between
  <2> QED  BY <2>1, <2>3, <2>5 DEF WalletInv
<1>2. CASE LedgerNext
  <2>1. UNCHANGED upsets  BY <1>2 DEF LedgerNext
  <2>2. ASSUME NEW b \in Blocks, NEW fork \in {NoFork} \cup 0 .. Height[b] \cup {mem.top}, ReceiveBlock(b, fork) PROVE WalletInv'
    BY <2>1, <2>2, ReceiveKeeps
  <2>3. CASE Reconsider  BY <2>1, <2>3, ReconsiderKeeps
  <2>4. CASE SetPeakHeight  BY <2>1, <2>4, SetPeakKeeps
  <2>5. CASE Commit  BY <2>1, <2>5, CommitKeeps
  <2>6. CASE Abort  BY <2>1, <2>6, AbortKeeps
  <2>7. CASE Restart  BY <2>1, <2>7, RestartKeeps
  <2>8. ASSUME NEW t \in Txs, SendTransaction(t) PROVE WalletInv'  BY <2>1, <2>8, SendKeeps
  <2>9. ASSUME NEW t \in Txs, NEW p \in Peers, TransactionAck(t, p) PROVE WalletInv'  BY <2>1, <2>9, AckKeeps
  <2>10. ASSUME NEW r \in inflight, AckWritten(r) PROVE WalletInv'  BY <2>1, <2>10, WrittenKeeps
  <2>11. CASE DeleteUnconfirmed  BY <2>1, <2>11, DeleteKeeps
  <2> QED  BY <1>2, <2>2, <2>3, <2>4, <2>5, <2>6, <2>7, <2>8, <2>9, <2>10, <2>11 DEF LedgerNext
<1> QED  BY <1>1, <1>2

\* The coins of no block are those of the first one: none.
LEMMA CoinsOfPeak ==
    ASSUME NEW d, BlocksRight(d), CoinsRight(d.ledger.coins, ChainOf(d))
    PROVE  d.ledger.coins = CoinsOn(d.peak)
<1> DEFINE K == d.ledger.coins
<1>1. CASE d.peak # NoBlock
  <2>1. ChainOf(d) = d.peak /\ ChainOf(d) \in Blocks  BY <1>1, ChainIs DEF ChainOf
  <2> QED  BY <2>1, CoinsOnRight
<1>2. CASE d.peak = NoBlock
  <2>1. K = [c \in {} |-> K[c]]  BY <1>2, GenesisIs DEF ChainOf, CoinsRight
  <2>2. UNION {Added(b) : b \in {}} = {}  OBVIOUS
  <2>3. DOMAIN CoinsOn(NoBlock) = {}  BY <2>2 DEF CoinsOn
  <2>4. CoinsOn(NoBlock) = [c \in DOMAIN CoinsOn(NoBlock) |-> CoinsOn(NoBlock)[c]]  BY DEF CoinsOn
  <2> QED  BY <1>2, <2>1, <2>3, <2>4
<1> QED  BY <1>1, <1>2

\* The invariant implies the property.
LEMMA WalletImplies == WalletInv => WalletFollowsChain
<1> SUFFICES ASSUME WalletInv PROVE WalletFollowsChain  OBVIOUS
<1> DEFINE H == ChainOf(disk)
<1>1. CASE ~Free
  BY <1>1 DEF WalletFollowsChain, CoinsMatchChain, TxsMatchChain, TxCacheMatchesTable, WalletAtPeak
<1>2. CASE Free
  <2>1. BlocksRight(disk) /\ Heaviest(disk) /\ db = disk /\ MemRight(mem, disk) /\ cache.coins = disk.ledger.coins
        /\ CoinsRight(disk.ledger.coins, H) /\ H \in Blocks
        /\ (~LateAcks => cache = disk.ledger /\ TxsRight(disk.ledger.txs, H))
    BY <1>2, WhileFree
  <2>2. disk.ledger.coins = CoinsOn(disk.peak)  BY <2>1, CoinsOfPeak
  <2>3. CoinsMatchChain  BY <2>1, <2>2 DEF CoinsMatchChain
  <2>4. TxsMatchChain
    <3> SUFFICES ASSUME ~LateAcks, NEW t \in DOMAIN disk.ledger.txs
                 PROVE  LET coins == CoinsOn(disk.peak)
                            hs == {coins[c].spent : c \in Spends[t] \cap DOMAIN coins} \ {0}
                        IN  disk.ledger.txs[t].conf = IF hs = {} THEN 0 ELSE Min(hs)
      BY DEF TxsMatchChain, LateAcks
    <3>1. TxRight(disk.ledger.txs[t].conf, t, H)  BY <2>1 DEF TxsRight
    <3> HIDE DEF H
    <3> QED  BY <2>1, <2>2, <3>1, TxHeight
  <2>5. TxCacheMatchesTable  BY <2>1 DEF TxCacheMatchesTable, LateAcks
  <2>6. WalletAtPeak
    <3>1. CASE MemEmpty(mem, disk)
      <4>1. mem.held = {} /\ mem.top = NoHeight /\ disk.peak = NoBlock  BY <3>1 DEF MemEmpty
      <4>2. ~PeakLost /\ GetPeak = NoBlock  BY <4>1 DEF PeakLost, GetPeak
      <4> QED  BY <4>1, <4>2 DEF WalletAtPeak
    <3>2. CASE MemOn(mem, disk)
      <4>1. GetPeak = H /\ mem.top \in DOMAIN mem.main  BY <2>1, <3>2, PeakIs, GetPeakIs
      <4>2. ~PeakLost  BY <4>1 DEF PeakLost
      <4>3. disk.peak # NoBlock => GetPeak = disk.peak  BY <4>1 DEF ChainOf
      <4>4. disk.peak = NoBlock => Prev[GetPeak] = NoBlock  BY <4>1, GenesisIs DEF ChainOf
      <4>5. \A b \in mem.held : Weight[b] <= Weight[GetPeak]  BY <2>1, <3>2, <4>1 DEF MemOn, Heaviest
      <4> QED  BY <4>2, <4>3, <4>4, <4>5 DEF WalletAtPeak
    <3> QED  BY <2>1, <3>1, <3>2 DEF MemRight
  <2> QED  BY <2>3, <2>4, <2>5, <2>6 DEF WalletFollowsChain
<1> QED  BY <1>1, <1>2

\* As long as no commit fails and no fork point is above where the new chain leaves the
\* wallet's, what the wallet shows is what its chain says, in memory and on disk: whatever
\* blocks arrive, in whatever order and with whatever fork points that low, wherever their
\* transactions fail and the wallet is stopped, with acknowledgements at any time
\* (WalletBlockchain.receive_block, WalletStateManager, the two stores).
THEOREM WalletFollows == LedgerSpec /\ upsets \subseteq {"late_ack"} => []WalletFollowsChain
<1>1. LedgerInit /\ upsets \subseteq {"late_ack"} => WalletInv  BY WalletStarts
<1>2. WalletInv /\ [LedgerNext]_ledgerVars => WalletInv'  BY WalletStep
<1>3. WalletInv => WalletFollowsChain  BY WalletImplies
<1> QED  BY <1>1, <1>2, <1>3, PTL DEF LedgerSpec
=============================================================================
