--------------------------- MODULE FullNodeStore ---------------------------
(***************************************************************************)
(* What a full node keeps of the chain beyond its peak, and how it makes   *)
(* blocks of it (full_node_store.py and the handlers of full_node.py and   *)
(* full_node_api.py that timelords, farmers and peers call).               *)
(*                                                                         *)
(* Time is counted in iterations.  A sub slot has SlotIters of them and    *)
(* NUM_SPS_SUB_SLOT signage points.  The challenge chain runs on whatever  *)
(* is infused, so a sub slot is known by its number.  The reward chain     *)
(* does not: a signage point, an end of sub slot and an infusion point     *)
(* each name the last thing infused before them, their reward chain        *)
(* challenge, which is a block, an end of sub slot or Genesis.  All of     *)
(* them can be honest and still belong to different chains, because a      *)
(* timelord makes them from the blocks it has seen.                        *)
(*                                                                         *)
(* They come in any order, again and again.  The two steps of a new peak,  *)
(* the block chain's and the store's, interleave with the other handlers;  *)
(* every other handler runs without giving way: the blocks it awaits are   *)
(* in the block store's cache.                                             *)
(*                                                                         *)
(* Abstracted: VDF and plot proofs, the infused challenge chain, a change  *)
(* of SlotIters at an epoch, and sync mode, in which handlers do nothing.  *)
(***************************************************************************)
EXTENDS Integers, FiniteSets, SequencesExt

CONSTANTS
    Blocks, NoBlock,
    Prev, Height, Weight, Path,  \* the tree of blocks; Path[b] is b and its ancestors
    Iters,                       \* total_iters: where the block was infused
    Finished,                    \* finished_sub_slots: the ends of slot a block includes
    BlockSp,                     \* its signage point
    Eos,                         \* ends of sub slots
    EosNumber,                   \* the number of the sub slot that it opens
    EosRc,                       \* its reward chain challenge
    Genesis, NoSp,
    SlotIters, NUM_SPS_SUB_SLOT,
    InfusionDelay,               \* iterations from a signage point to the infusion
    SpMessages, EosMessages, IpMessages, BlockMessages, UnfinishedMessages,
                                 \* what timelords and peers may send
    PeerSlots,                   \* the ends of slot of a peer's chain
    FarmedSps,                   \* signage points the farmer has a proof for
    KeepDepth,                   \* 50: how far below the peak candidates are kept
    ClearInterval,               \* 1000: heights at which caches are cleared
    LookBack,                    \* 10: how far a previous block is looked for
    Unknown                      \* None, where <<>> is an answer

VARIABLES
    known, peak,                 \* the block chain
    posting,                     \* a new peak the store has not been told of
    slots,                       \* finished_sub_slots
    future_eos, future_sp, future_ip,
    candidates, unfinished, validating, seen, requesting,
    replay,                      \* infusion points an end of slot has released
    infused,                     \* the last block made of an infusion point
    collected                    \* ends of slot fetched from a peer, to be applied

chainVars == <<known, peak, posting>>
futureVars == <<future_eos, future_sp, future_ip>>
candidateVars == <<candidates, unfinished, validating, seen, requesting>>
farmVars == <<candidateVars, replay, infused>>
storeVars == <<chainVars, slots, futureVars, farmVars, collected>>

Interval == SlotIters \div NUM_SPS_SUB_SLOT
IpSlot(b) == Iters[b] \div SlotIters
SpIters(sp) == sp.slot * SlotIters + sp.index * Interval
IsOverflow(b) == BlockSp[b].slot < IpSlot(b)
FirstInSubSlot(b) == Finished[b] # <<>> \/ Prev[b] = NoBlock
EosOn(b) == UNION {{Finished[x][i] : i \in DOMAIN Finished[x]} : x \in Path[b]}

\* Signage points; an unfinished block has one, and what it is to follow.
Sps == [slot : Nat, index : 0 .. NUM_SPS_SUB_SLOT - 1, rc : Blocks \cup Eos \cup {Genesis}]
Unfinished == [sp : Sps, prev : Blocks \cup {NoBlock}, finished : Seq(Eos)]

\* What header validation asks of an unfinished block, or of an infusion: the
\* ends of slot fs follow block p and each other, and rc comes last.
ChainSlot(p) == IF p = NoBlock THEN 0 ELSE IpSlot(p)
LastInfusion(p, fs) == IF fs # <<>> THEN Last(fs) ELSE IF p = NoBlock THEN Genesis ELSE p
Linked(p, fs) ==
    \A i \in DOMAIN fs :
        /\ EosRc[fs[i]] = LastInfusion(p, SubSeq(fs, 1, i - 1))
        /\ EosNumber[fs[i]] = ChainSlot(p) + i
Follows(p, fs, rc) == Linked(p, fs) /\ rc = LastInfusion(p, fs)

\* The slot a challenge lies in.
SlotOf(rc) == IF rc = Genesis THEN 0 ELSE IF rc \in Eos THEN EosNumber[rc] ELSE IpSlot(rc)

ASSUME StoreAssumption ==
    /\ Iters \in [Blocks -> Nat] /\ EosNumber \in [Eos -> Nat \ {0}]
    /\ EosRc \in [Eos -> Blocks \cup Eos \cup {Genesis}]
    /\ SlotIters \in Nat \ {0} /\ NUM_SPS_SUB_SLOT \in Nat \ {0}
    /\ SlotIters % NUM_SPS_SUB_SLOT = 0 /\ LookBack \in Nat
    /\ Blocks \cap Eos = {} /\ NoBlock \notin Blocks /\ Genesis \notin Blocks \cup Eos
    /\ NoSp \notin Blocks \cup Eos \cup {Genesis}
    /\ NoBlock \notin [block : Blocks, from : Blocks \cup {NoBlock}]
    \* An end of slot closes the slot its challenge lies in.
    /\ \A e \in Eos : EosNumber[e] = SlotOf(EosRc[e]) + 1

\* What is sent names things there are; an infusion point, the slot it lies in.
ASSUME MessageAssumption ==
    /\ EosMessages \cup PeerSlots \subseteq Eos /\ BlockMessages \subseteq Blocks
    /\ SpMessages \cup FarmedSps \subseteq Sps /\ UnfinishedMessages \subseteq Unfinished
    /\ \A ip \in IpMessages : ip.rc \in Blocks \cup Eos \cup {Genesis} /\ ip.slot = SlotOf(ip.rc)

\* The tree of blocks.  Blocks are infused one after the other, each after its
\* signage point, in its slot or the next, and never where a slot ends.  A block
\* includes the ends of slot since its parent.
ASSUME StoreTreeAssumption ==
    /\ Prev \in [Blocks -> Blocks \cup {NoBlock}] /\ Height \in [Blocks -> Nat] /\ Weight \in [Blocks -> Nat]
    /\ BlockSp \in [Blocks -> Sps] /\ Finished \in [Blocks -> Seq(Eos)]
    /\ \A b \in Blocks :
          /\ IF Prev[b] = NoBlock THEN Path[b] = {b}
             ELSE /\ Path[b] = {b} \cup Path[Prev[b]] /\ Height[b] = Height[Prev[b]] + 1
                  /\ Iters[b] > Iters[Prev[b]]
          /\ Iters[b] = SpIters(BlockSp[b]) + InfusionDelay /\ Iters[b] % SlotIters # 0
          /\ IpSlot(b) \in {BlockSp[b].slot, BlockSp[b].slot + 1}
          /\ Linked(Prev[b], Finished[b]) /\ Len(Finished[b]) = IpSlot(b) - ChainSlot(Prev[b])
    /\ \A b, c \in Blocks : Path[b] \cap Path[c] # {}

-----------------------------------------------------------------------------
\* The store's slots: an entry is an end of slot (Genesis for the first slot)
\* and, for each signage point after it, its reward chain challenge or NoSp.
Number(e) == IF e = Genesis THEN 0 ELSE EosNumber[e]
NoSps == [i \in 1 .. NUM_SPS_SUB_SLOT - 1 |-> NoSp]
Entry(e, sps) == [eos |-> e, sps |-> sps]

\* get_sub_slot; the genesis slot is not one.
SubSlot(S, n) == {i \in DOMAIN S : S[i].eos # Genesis /\ Number(S[i].eos) = n}

\* get_signage_point: the signage points that are in the slots.
InSlots(S, sp) ==
    \E i \in DOMAIN S :
        /\ Number(S[i].eos) = sp.slot
        /\ IF sp.index = 0 THEN sp.rc = S[i].eos ELSE S[i].sps[sp.index] = sp.rc

\* have_newer_signage_point: an earlier point of the slot has that challenge and
\* this one has another.
HaveNewer(S, sp) ==
    \E i \in DOMAIN S :
        /\ Number(S[i].eos) = sp.slot /\ sp.index > 0
        /\ \E j \in 1 .. sp.index - 1 : S[i].sps[j] = sp.rc
        /\ S[i].sps[sp.index] \notin {NoSp, sp.rc}

\* new_signage_point: the challenge a signage point must have after peak p, when
\* its slot is the one that e opens.
ExpectedRc(sp, e, p) ==
    IF \/ p = NoBlock \/ sp.slot * SlotIters > Iters[p]
       \/ \E c \in Path[p] : Iters[c] > SpIters(sp) /\ FirstInSubSlot(c)
    THEN e
    ELSE CHOOSE c \in Path[p] :
            /\ Iters[c] <= SpIters(sp)
            /\ \A x \in Path[p] : Iters[x] <= SpIters(sp) => Iters[x] <= Iters[c]

Fits(S, sp, p) ==
    {i \in DOMAIN S : Number(S[i].eos) = sp.slot /\ ExpectedRc(sp, S[i].eos, p) = sp.rc}

\* The slots after new_signage_point has taken the points of Q, and whether it
\* keeps sp for later instead.
TakeSps(S, Q, p) ==
    [i \in DOMAIN S |->
        Entry(S[i].eos,
              [j \in DOMAIN NoSps |->
                  LET new == {sp \in Q : sp.index = j /\ i \in Fits(S, sp, p)}
                  IN  IF new = {} THEN S[i].sps[j] ELSE (CHOOSE sp \in new : TRUE).rc])]
KeepForLater(S, sp, p) == sp.index > 0 /\ Fits(S, sp, p) = {}

\* new_finished_sub_slot with peak p: taken, kept for later, or refused.
Closes(S, e) == EosNumber[e] = Number(Last(S).eos) + 1
PeakInSlot(S, p) == p # NoBlock /\ Iters[p] > Number(Last(S).eos) * SlotIters
Present(S, e) == \E i \in DOMAIN S : S[i].eos = e
TakesEos(S, e, p) ==
    /\ ~Present(S, e) /\ Closes(S, e)
    /\ EosRc[e] = IF PeakInSlot(S, p) THEN p ELSE Last(S).eos
KeepsEos(S, e, p) ==
    ~Present(S, e) /\ Closes(S, e) /\ PeakInSlot(S, p) /\ EosRc[e] # p
TakeEos(S, E, p) ==
    IF \E e \in E : TakesEos(S, e, p)
    THEN Append(S, Entry(CHOOSE e \in E : TakesEos(S, e, p), NoSps)) ELSE S

-----------------------------------------------------------------------------
\* get_sp_and_ip_sub_slots: the ends of slot b's chain has for its two slots.
SlotOn(b, n) ==
    IF \E e \in EosOn(b) : EosNumber[e] = n THEN CHOOSE e \in EosOn(b) : EosNumber[e] = n
    ELSE Genesis

\* new_peak: keep the signage points before the fork (before the peak itself if
\* it extends the last one), in the slots of the peak's signage and infusion
\* points; then take what was waiting for this peak.
KeptSps(S, e, bound) ==
    LET have == {i \in DOMAIN S : S[i].eos = e /\ e # Genesis}
    IN  IF have = {} THEN NoSps
        ELSE [j \in DOMAIN NoSps |->
                IF Number(e) * SlotIters + j * Interval < bound
                THEN S[CHOOSE i \in have : TRUE].sps[j] ELSE NoSp]

\* Mutant: signage points after the fork are kept.
PeakSlotsIgnoringFork(S, p, fork) ==
    LET ip == SlotOn(p, IpSlot(p))
        sp == SlotOn(p, BlockSp[p].slot)
    IN  IF ip = Genesis THEN <<Entry(Genesis, NoSps)>>
        ELSE (IF IsOverflow(p) THEN <<Entry(sp, KeptSps(S, sp, Iters[p]))>> ELSE <<>>)
             \o <<Entry(ip, KeptSps(S, ip, Iters[p]))>>

PeakSlots(S, p, fork) ==
    LET bound == IF fork = NoBlock THEN Iters[p] ELSE Iters[fork]
        ip == SlotOn(p, IpSlot(p))
        sp == SlotOn(p, BlockSp[p].slot)
    IN  IF ip = Genesis THEN <<Entry(Genesis, NoSps)>>
        ELSE (IF IsOverflow(p) THEN <<Entry(sp, KeptSps(S, sp, bound))>> ELSE <<>>)
             \o <<Entry(ip, KeptSps(S, ip, bound))>>

\* Mutant: the caches are dropped without being used.
AfterPeakForgetful(S, p, fork) ==
    IF BlockSp[p].index = 0 THEN PeakSlots(S, p, fork)
    ELSE TakeSps(PeakSlots(S, p, fork), {BlockSp[p]}, p)

AfterPeak(S, p, fork) ==
    LET s1 == TakeEos(PeakSlots(S, p, fork), {e \in future_eos : EosRc[e] = p}, p)
        s2 == TakeSps(s1, {sp \in future_sp : sp.rc = p}, p)
    IN  IF BlockSp[p].index = 0 THEN s2 ELSE TakeSps(s2, {BlockSp[p]}, p)

\* receive_block: the block chain has a new peak.
AddBlock(b) ==
    /\ posting = NoBlock /\ b \notin known
    /\ Prev[b] = NoBlock \/ Prev[b] \in known
    /\ known' = known \cup {b}
    /\ IF peak = NoBlock \/ Weight[b] > Weight[peak]
       THEN peak' = b /\ posting' = [block |-> b, from |-> peak]
       ELSE UNCHANGED <<peak, posting>>

\* The fork block, when it is not the peak's parent.
ForkOf(p, from) ==
    IF from = NoBlock \/ Prev[p] = from THEN NoBlock
    ELSE CHOOSE x \in Path[p] \cap Path[from] :
            \A y \in Path[p] \cap Path[from] : Height[y] <= Height[x]

\* clear_old_cache_entries: the challenges that were cached more than an hour
\* ago.  An infusion point alone does not put its challenge among them.
CachedChallenges == {EosRc[e] : e \in future_eos} \cup {sp.rc : sp \in future_sp}
Expiring(p) == IF Height[p] % ClearInterval = 0 THEN SUBSET CachedChallenges ELSE {{}}

\* peak_post_processing: tell the store, with the block's own signage point.
\* The infusion points that were waiting for this block are dropped.  Then the
\* end of respond_block: forget what was made for blocks far below the peak.
CandidateHeight(u) == IF u.prev = NoBlock THEN 0 ELSE Height[u.prev] + 1
PeakPostProcessing ==
    /\ posting # NoBlock
    /\ LET p == posting.block
           after == AfterPeak(slots, p, ForkOf(p, posting.from))
           RecentOnly(U) == {u \in U : CandidateHeight(u) >= Height[p] - KeepDepth}
       IN  /\ slots' = after
           /\ \E old \in Expiring(p) :
                /\ future_eos' = {e \in future_eos : EosRc[e] \notin old \cup {p}}
                /\ future_sp' = {sp \in future_sp : sp.rc \notin old \cup {p}} \cup
                                 IF KeepForLater(after, BlockSp[p], p) THEN {BlockSp[p]} ELSE {}
                /\ future_ip' = {ip \in future_ip : ip.rc \notin old \cup {p}}
           /\ candidates' = RecentOnly(candidates) /\ unfinished' = RecentOnly(unfinished)
           /\ seen' = IF Height[p] % ClearInterval = 0 THEN {} ELSE seen
    /\ posting' = NoBlock
    /\ UNCHANGED <<known, peak, validating, requesting, replay, infused, collected>>

\* respond_block from a peer.
RespondBlock(b) ==
    /\ b \in BlockMessages
    /\ AddBlock(b)
    /\ UNCHANGED <<slots, futureVars, farmVars, collected>>

-----------------------------------------------------------------------------
\* timelord_lock is held while released infusion points are tried.
TimelordLockFree == replay = {}

\* respond_signage_point (and new_signage_point_vdf of a timelord).
RespondSignagePoint(sp) ==
    /\ TimelordLockFree /\ sp \in SpMessages
    /\ ~HaveNewer(slots, sp) /\ ~InSlots(slots, sp)
    /\ slots' = TakeSps(slots, {sp}, peak)
    /\ future_sp' = future_sp \cup IF KeepForLater(slots, sp, peak) THEN {sp} ELSE {}
    /\ UNCHANGED <<chainVars, future_eos, future_ip, farmVars, collected>>

\* get_finished_sub_slots: the ends of slot that lead from block p to slot n, or
\* Unknown if the store does not have them all after its first entry.
FinishedSubSlots(S, p, n) ==
    LET inner == {i \in DOMAIN S \ {1} : Number(S[i].eos) \in ChainSlot(p) + 1 .. n}
        first == Min(inner)
    IN  IF n = ChainSlot(p) THEN <<>>
        ELSE IF Cardinality(inner) # n - ChainSlot(p) THEN Unknown
        ELSE [k \in 1 .. Cardinality(inner) |-> S[first + k - 1].eos]

\* The block of a chain that c stands for, seen through empty slots.
BacktrackOnce(S, c) ==
    LET chain[i \in 0 .. Len(S)] ==
          IF i = 0 THEN c
          ELSE LET e == S[Len(S) - i + 1].eos
               IN  IF e # Genesis /\ e = chain[i - 1] THEN EosRc[e] ELSE chain[i - 1]
    IN  chain[Len(S)]

\* The blocks found by walking back from the peak.
Recent(n) == {b \in Path[peak] : Height[peak] - Height[b] < n}

\* new_infusion_point_vdf: make the block that the unfinished block becomes here,
\* and add it if it is valid (a block of the tree); respond_block takes the lock.
InfusionPoint(ip) ==
    LET target == BacktrackOnce(slots, ip.rc)
        found == target = Genesis \/ (peak # NoBlock /\ target \in Recent(LookBack))
        prev_b == IF target = Genesis THEN NoBlock ELSE target
        fs == FinishedSubSlots(slots, prev_b, ip.slot)
        made == [prev |-> prev_b, finished |-> fs, rc |-> ip.rc]
        same == {b \in Blocks : /\ Prev[b] = prev_b /\ Finished[b] = fs
                                /\ BlockSp[b] = ip.trunk}
    IN  IF ~found
        THEN future_ip' = future_ip \cup {ip} /\ UNCHANGED <<chainVars, infused>>
        ELSE /\ UNCHANGED future_ip
             /\ IF \/ fs = Unknown
                   \/ (ip.trunk.slot # 0 /\ SubSlot(slots, ip.trunk.slot) = {})
                THEN UNCHANGED <<chainVars, infused>>
                ELSE /\ infused' = made
                     /\ IF same = {} \/ same \subseteq known THEN UNCHANGED chainVars
                        ELSE AddBlock(CHOOSE b \in same : TRUE)

NewInfusionPoint(ip) ==
    /\ TimelordLockFree
    /\ ip \in IpMessages /\ \E u \in unfinished : u.sp = ip.trunk
    /\ InfusionPoint(ip)
    /\ UNCHANGED <<slots, future_eos, future_sp, replay, candidateVars, collected>>

\* respond_end_of_sub_slot: the infusion points that waited for it follow, under
\* the same lock.  They stay in the cache.
EndOfSubSlot(e) ==
    /\ slots' = TakeEos(slots, {e}, peak)
    /\ future_eos' = future_eos \cup IF KeepsEos(slots, e, peak) THEN {e} ELSE {}
    /\ replay' = IF TakesEos(slots, e, peak) THEN {ip \in future_ip : ip.rc = e} ELSE {}
    /\ UNCHANGED <<chainVars, future_sp, future_ip, candidateVars, infused>>

ReplayInfusion(ip) ==
    /\ ip \in replay
    /\ replay' = replay \ {ip}
    /\ IF \E u \in unfinished : u.sp = ip.trunk THEN InfusionPoint(ip)
       ELSE UNCHANGED <<chainVars, infused, future_ip>>
    /\ UNCHANGED <<slots, future_eos, future_sp, candidateVars, collected>>

\* Without the slot before it, that one is asked for instead.
HasSlotBefore(e) == EosNumber[e] = 1 \/ SubSlot(slots, EosNumber[e] - 1) # {}

RespondEndOfSubSlot(e) ==
    /\ TimelordLockFree
    /\ e \in EosMessages /\ SubSlot(slots, EosNumber[e]) = {}
    /\ HasSlotBefore(e)
    /\ EndOfSubSlot(e)
    /\ UNCHANGED collected

\* new_signage_point_or_end_of_sub_slot, when a peer announces the end of a slot
\* and the one before it is missing: ask the peer for one end of slot after the
\* other, back to a slot in the store, giving up after three slots with blocks.
CollectSlots(e) ==
    LET start == Max({n \in 1 .. EosNumber[e] : n = 1 \/ SubSlot(slots, n - 1) # {}})
        need == {x \in PeerSlots : EosNumber[x] \in start .. EosNumber[e]}
        withBlocks == {x \in need : EosNumber[x] # start /\ EosRc[x] \in Blocks}
    IN  /\ e \in PeerSlots /\ collected = <<>>
        /\ EosNumber[e] > 1 /\ SubSlot(slots, EosNumber[e] - 1) = {}
        /\ SubSlot(slots, EosNumber[e]) = {}
        /\ \A n \in start .. EosNumber[e] : \E x \in need : EosNumber[x] = n
        /\ Cardinality(withBlocks) < 3
        /\ collected' = [k \in 1 .. EosNumber[e] - start + 1 |-> CHOOSE x \in need : EosNumber[x] = start + k - 1]
        /\ UNCHANGED <<chainVars, slots, futureVars, candidateVars, infused, replay>>

\* Each of them goes to respond_end_of_sub_slot, which may refuse it.
ApplyCollected ==
    /\ collected # <<>> /\ TimelordLockFree
    /\ collected' = Tail(collected)
    /\ LET e == Head(collected)
       IN  IF SubSlot(slots, EosNumber[e]) = {} /\ HasSlotBefore(e) THEN EndOfSubSlot(e)
           ELSE UNCHANGED <<chainVars, slots, futureVars, candidateVars, infused, replay>>

-----------------------------------------------------------------------------
\* declare_proof_of_space: a farmer has a proof for signage point sp.  Find the
\* block before it on the peak's chain and the ends of slot in between.
PrevOf(sp) ==
    LET rc == BacktrackOnce(slots, IF sp.index = 0 THEN EosRc[sp.rc] ELSE sp.rc)
        exact == {b \in Recent(LookBack) : b = rc}
        over == {b \in Recent(LookBack) : Finished[b] # <<>> /\ Last(Finished[b]) = rc}
    IN  IF exact # {} THEN exact ELSE {Prev[b] : b \in over}

Candidate(sp, p, fs) == [sp |-> sp, prev |-> p, finished |-> fs]

DeclareProofOfSpace(sp) ==
    /\ TimelordLockFree /\ posting = NoBlock
    /\ sp \in FarmedSps /\ InSlots(slots, sp)
    /\ sp.index = 0 => sp.rc # Genesis \/ peak = NoBlock
    /\ \E p \in (IF peak = NoBlock THEN {NoBlock} ELSE PrevOf(sp)) :
         LET fs == FinishedSubSlots(slots, p, sp.slot)
         IN  /\ fs # Unknown
             /\ fs # <<>> /\ sp.slot # 0 =>
                   \E i \in SubSlot(slots, sp.slot) : Last(fs) = slots[i].eos
             /\ candidates' = {c \in candidates : c.sp # sp} \cup {Candidate(sp, p, fs)}
    /\ UNCHANGED <<chainVars, slots, futureVars, unfinished, validating, seen, requesting,
                   infused, replay, collected>>

\* respond_unfinished_block up to the lock: the exact block is marked as seen
\* whatever becomes of it, and one for the same trunk is not looked at.
HasTrunk(u) == \E x \in unfinished : x.sp = u.sp
FarBehind(u) == peak # NoBlock /\ SpIters(u.sp) + InfusionDelay < SpIters(BlockSp[peak])
AcceptUnfinished(u) ==
    /\ u \notin seen /\ (u.prev = NoBlock \/ u.prev \in known)
    /\ seen' = seen \cup {u}
    /\ validating' = IF HasTrunk(u) \/ FarBehind(u) THEN validating ELSE validating \cup {u}

\* signed_values, and respond_unfinished_block from a peer, who was asked for it
\* after new_unfinished_block.
SignedValues(u) ==
    /\ u \in candidates
    /\ AcceptUnfinished(u)
    /\ UNCHANGED <<chainVars, slots, futureVars, candidates, unfinished, requesting, infused,
                   replay, collected>>

NewUnfinishedBlock(u) ==
    /\ u \in UnfinishedMessages /\ ~HasTrunk(u) /\ u.sp \notin requesting
    /\ requesting' = requesting \cup {u.sp}
    /\ UNCHANGED <<chainVars, slots, futureVars, candidates, unfinished, validating, seen,
                   infused, replay, collected>>

RespondUnfinishedBlock(u) ==
    /\ u \in UnfinishedMessages /\ u.sp \in requesting
    /\ AcceptUnfinished(u)
    /\ UNCHANGED <<chainVars, slots, futureVars, candidates, unfinished, requesting, infused,
                   replay, collected>>

\* eventually_clear, five seconds later.
EventuallyClear(sp) ==
    /\ sp \in requesting
    /\ requesting' = requesting \ {sp}
    /\ UNCHANGED <<chainVars, slots, futureVars, candidates, unfinished, validating, seen,
                   infused, replay, collected>>

\* Under the block chain's lock the block is validated; then, unless another one
\* for its trunk was faster, it is added.
AddUnfinishedBlock(u) ==
    /\ u \in validating /\ posting = NoBlock
    /\ validating' = validating \ {u}
    /\ unfinished' = unfinished \cup
          IF HasTrunk(u) \/ ~Follows(u.prev, u.finished, u.sp.rc) THEN {} ELSE {u}
    /\ UNCHANGED <<chainVars, slots, futureVars, candidates, seen, requesting, infused,
                   replay, collected>>

-----------------------------------------------------------------------------
StoreInit ==
    /\ known = {} /\ peak = NoBlock /\ posting = NoBlock
    /\ slots = <<Entry(Genesis, NoSps)>>
    /\ future_eos = {} /\ future_sp = {} /\ future_ip = {} /\ replay = {}
    /\ candidates = {} /\ unfinished = {} /\ validating = {} /\ seen = {} /\ requesting = {}
    /\ infused = Unknown /\ collected = <<>>

StoreNext ==
    \/ PeakPostProcessing \/ ApplyCollected
    \/ \E b \in BlockMessages : RespondBlock(b)
    \/ \E sp \in SpMessages : RespondSignagePoint(sp)
    \/ \E e \in EosMessages : RespondEndOfSubSlot(e)
    \/ \E e \in PeerSlots : CollectSlots(e)
    \/ \E ip \in IpMessages : NewInfusionPoint(ip) \/ ReplayInfusion(ip)
    \/ \E sp \in FarmedSps : DeclareProofOfSpace(sp)
    \/ \E u \in candidates : SignedValues(u)
    \/ \E u \in UnfinishedMessages : NewUnfinishedBlock(u) \/ RespondUnfinishedBlock(u)
    \/ \E u \in validating : AddUnfinishedBlock(u)
    \/ \E sp \in requesting : EventuallyClear(sp)

StoreSpec == StoreInit /\ [][StoreNext]_storeVars

-----------------------------------------------------------------------------
StoreTypeOK ==
    /\ known \subseteq Blocks /\ peak \in known \cup {NoBlock}
    /\ posting # NoBlock => posting.block = peak
    /\ \A i \in DOMAIN slots : slots[i].eos \in Eos \cup {Genesis}
    /\ future_eos \subseteq Eos /\ future_sp \subseteq Sps
    /\ future_ip \subseteq IpMessages /\ replay \subseteq IpMessages
    /\ candidates \subseteq Unfinished /\ unfinished \subseteq Unfinished
    /\ validating \subseteq Unfinished /\ seen \subseteq Unfinished /\ requesting \subseteq Sps
    /\ collected \in Seq(Eos)

\* Once the store has been told of the peak, its slots are those of the peak's
\* chain: one is the slot the peak was infused in, and each later one was made
\* by a timelord that had seen the peak and nothing after it.
SlotsFollowPeak ==
    posting = NoBlock =>
        \E i \in DOMAIN slots :
            /\ slots[i].eos = IF peak = NoBlock THEN Genesis ELSE SlotOn(peak, IpSlot(peak))
            /\ \A j \in i + 1 .. Len(slots) :
                  /\ EosRc[slots[j].eos] = IF j = i + 1 /\ peak # NoBlock THEN peak
                                           ELSE slots[j - 1].eos
                  /\ Number(slots[j].eos) = Number(slots[j - 1].eos) + 1

\* The signage points the store has from the peak's slot on, which is what
\* farmers are told to farm on, have seen every block of the peak's chain that
\* was infused before them, and no other.
InfusedBefore(n, j) ==
    {b \in Path[peak] : IpSlot(b) = n /\ Iters[b] <= n * SlotIters + j * Interval}
SignagePointsFollowPeak ==
    posting = NoBlock =>
        \A i \in DOMAIN slots : \A j \in DOMAIN NoSps :
            LET n == Number(slots[i].eos)
                before == IF peak = NoBlock THEN {} ELSE InfusedBefore(n, j)
            IN  slots[i].sps[j] # NoSp /\ (peak # NoBlock => n >= IpSlot(peak)) =>
                    IF before = {} THEN slots[i].sps[j] = slots[i].eos
                    ELSE /\ slots[i].sps[j] \in before
                         /\ \A b \in before : Height[b] <= Height[slots[i].sps[j]]

\* What came too early and waited for this peak is in the slots once the store
\* has been told of it, unless it does not belong there.
EarlyArrivalsAreUsed ==
    [][posting # NoBlock /\ posting' = NoBlock =>
        /\ \A e \in future_eos \ future_eos' :
              EosRc[e] = peak => Present(slots', e) \/ ~TakesEos(slots', e, peak)
        /\ \A sp \in future_sp \ future_sp' :
              sp.rc = peak => InSlots(slots', sp) \/ Fits(slots', sp, peak) = {}]_storeVars

\* A block the node makes for a farmer follows its signage point, and a block it
\* makes from a timelord's infusion point follows that, whatever the store has
\* been through since they were made.
BlocksMadeFollow ==
    /\ \A c \in candidates : Follows(c.prev, c.finished, c.sp.rc)
    /\ infused # Unknown => Follows(infused.prev, infused.finished, infused.rc)

\* The store is of the peak's chain and so is everything made from it, in whatever
\* order blocks, sub-slots, signage points and infusion points came (new_peak,
\* new_finished_sub_slot, new_signage_point, declare_proof_of_space,
\* new_infusion_point_vdf).
StoreFollowsChain ==
    StoreTypeOK /\ SlotsFollowPeak /\ SignagePointsFollowPeak /\ BlocksMadeFollow
=============================================================================
