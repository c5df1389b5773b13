--------------------------- MODULE CompactProofs ---------------------------
(***************************************************************************)
(* Replacing the VDF proofs of stored blocks by compact ones (full_node.py *)
(* from _needs_compact_proof to broadcast_uncompact_blocks).  A scan asks  *)
(* bluebox timelords for the proofs that are not compact; their answers,   *)
(* and those of peers, rewrite the block under compact_proof_lock: the     *)
(* block is read, changed and written in separate steps, while the chain   *)
(* grows and is reorganised.                                               *)
(*                                                                         *)
(* A proof is known by its VDF, which blocks of the same height may share. *)
(* Every answer is a valid compact proof.                                  *)
(***************************************************************************)
EXTENDS Integers, FiniteSets, FiniteSetsExt

CONSTANTS
    CBlocks, NoCBlock, CHeight, CWeight, CPath,   \* the tree of blocks
    Vdfs,                  \* Vdfs[b]: the proofs of b that can be compact
    Wanted,                \* those the scan asks for (sanitize_weight_proof_only)
    CTasks, NoCTask,       \* the answers being processed
    ReorgWindow,           \* 1000: how deep a reorganisation the scan allows for
    ScanBatch              \* 100: the heights of one batch of the scan

VARIABLES
    stored,                \* full_blocks
    tip,                   \* the peak
    compact,               \* compact[b]: which proofs of b on disk are compact
    ctask,                 \* the answers being processed
    compact_lock,          \* compact_proof_lock
    seen_proofs,           \* _seen_compact_proofs: what peers have sent
    min_height,            \* where the next scan starts
    scanning,              \* is broadcast_uncompact_blocks still running?
    peak_mark,             \* the row of block_records with is_peak
    skipped                \* the blocks that lacked a proof when the scan passed them (history)

compactVars == <<stored, tip, compact, ctask, compact_lock, seen_proofs, min_height,
                 scanning, peak_mark, skipped>>

ASSUME CompactAssumption ==
    /\ CHeight \in [CBlocks -> Nat] /\ CWeight \in [CBlocks -> Nat]
    /\ \A b \in CBlocks : Wanted[b] \subseteq Vdfs[b]
    /\ NoCBlock \notin CBlocks
    /\ CPath \in [CBlocks -> SUBSET CBlocks] /\ \A b \in CBlocks : b \in CPath[b]
    /\ \A b \in CBlocks : \A x \in CPath[b] :
          CPath[x] = {y \in CPath[b] : CHeight[y] <= CHeight[x]}
    /\ NoCTask \notin CTasks /\ ReorgWindow \in Nat /\ ScanBatch \in Nat \ {0}

OnChain(b) == tip # NoCBlock /\ b \in CPath[tip]
TipHeight == CHeight[tip]
FullyCompact(b) == compact[b] = Vdfs[b]
NoAnswer == [stage |-> "idle", block |-> NoCBlock, vdf |-> "none", peer |-> FALSE, read |-> {}]

\* Where the scan's window starts when the peak has height h.
WindowFrom(h) == IF h > ReorgWindow THEN h - ReorgWindow ELSE 0

\* The reorganisations the scan is made for: the chains part no lower than
\* ScanBatch - 2 heights above the window of the highest block so far.  (The scan
\* compares the first height of a batch with the window, and starts the next time
\* from a block further up in that batch.)
InWindow(x) == \A y \in stored : CHeight[x] + 2 >= WindowFrom(CHeight[y]) + ScanBatch

\* A new peak: the block is stored with the proofs it came with.
NewTip(b) ==
    /\ b \notin stored /\ \A x \in CPath[b] : x = b \/ x \in stored
    /\ tip # NoCBlock => /\ CWeight[b] > CWeight[tip]
                         /\ \E x \in CPath[b] \cap CPath[tip] : x = tip \/ InWindow(x)
    /\ stored' = stored \cup {b}
    /\ tip' = b /\ peak_mark' = b
    /\ UNCHANGED <<compact, ctask, compact_lock, seen_proofs, min_height, scanning, skipped>>

\* _needs_compact_proof and _can_accept_compact_proof.
NeedsCompactProof(b, v) == v \in Vdfs[b] /\ v \notin compact[b]
CanAcceptCompactProof(b, v) ==
    b \in stored /\ ~FullyCompact(b) /\ OnChain(b) /\ NeedsCompactProof(b, v)

\* respond_compact_proof_of_time from a timelord: the scan asked for it.
RespondCompactProofOfTime(k, b, v) ==
    /\ ctask[k] = NoAnswer /\ v \in Wanted[b]
    /\ CanAcceptCompactProof(b, v)
    /\ ctask' = [ctask EXCEPT ![k] = [NoAnswer EXCEPT !.stage = "lock", !.block = b, !.vdf = v]]
    /\ UNCHANGED <<stored, tip, compact, compact_lock, seen_proofs, min_height, scanning, peak_mark, skipped>>

\* new_compact_vdf: a peer announces it, is asked, and answers (request_compact_vdf).
NewCompactVdf(k, b, v) ==
    /\ ctask[k] = NoAnswer
    /\ CanAcceptCompactProof(b, v)
    /\ ctask' = [ctask EXCEPT ![k] = [stage |-> "lock", block |-> b, vdf |-> v,
                                      peer |-> TRUE, read |-> {}]]
    /\ UNCHANGED <<stored, tip, compact, compact_lock, seen_proofs, min_height, scanning, peak_mark, skipped>>

\* _replace_proof, the read: the block of the chain at that height, if it has the
\* VDF.  A peer's proof counts as seen from here on.
AtHeight(h) == {b \in CPath[tip] : CHeight[b] = h}
ReadBlock(k) ==
    LET t == ctask[k]
        h == CHeight[t.block]
        known == t.peer /\ <<t.vdf, h>> \in seen_proofs
        target == {b \in AtHeight(h) : t.vdf \in Vdfs[b]}
    IN  /\ seen_proofs' = IF t.peer THEN seen_proofs \cup {<<t.vdf, h>>} ELSE seen_proofs
        /\ IF known \/ target = {}
           THEN ctask' = [ctask EXCEPT ![k] = NoAnswer] /\ UNCHANGED compact_lock
           ELSE \E b \in target :
                  /\ ctask' = [ctask EXCEPT ![k] = [t EXCEPT !.stage = "write", !.block = b,
                                                             !.read = compact[b]]]
                  /\ compact_lock' = k

\* Mutant: the lock is not taken.
LockAndReadUnlocked(k) ==
    /\ ctask[k].stage = "lock"
    /\ ReadBlock(k)
    /\ UNCHANGED <<stored, tip, compact, min_height, scanning, peak_mark, skipped>>

LockAndRead(k) ==
    /\ ctask[k].stage = "lock" /\ compact_lock = NoCTask
    /\ ReadBlock(k)
    /\ UNCHANGED <<stored, tip, compact, min_height, scanning, peak_mark, skipped>>

\* The write (add_full_block, which replaces the row of block_records too, with
\* is_peak False), and the release of the lock.
WriteBlock(k) ==
    LET t == ctask[k]
    IN  /\ t.stage = "write"
        /\ compact' = [compact EXCEPT ![t.block] = t.read \cup {t.vdf}]
        /\ ctask' = [ctask EXCEPT ![k] = NoAnswer]
        /\ compact_lock' = NoCTask
        /\ peak_mark' = IF peak_mark = t.block THEN NoCBlock ELSE peak_mark
        /\ UNCHANGED <<stored, tip, seen_proofs, min_height, scanning, skipped>>

-----------------------------------------------------------------------------
Uncompact == {b \in stored : ~FullyCompact(b)}

\* get_first_not_compactified: the heights it takes the least of, on any branch.
NotCompactifiedFrom(h) == {CHeight[b] : b \in {x \in Uncompact : CHeight[x] >= h}}

Least(S) == CHOOSE x \in S : \A y \in S : x <= y
WindowStart == WindowFrom(TipHeight)

\* One round of broadcast_uncompact_blocks.  The blocks of a batch come in the order of
\* get_header_blocks_in_range, those in block_cache before those from disk, so that any of
\* them that lacks a proof may be the first: the next round starts from its height.  With
\* nothing left to do, the database answers NULL and the loop ends in an exception.
ScanRound ==
    LET from == Least({WindowStart} \cup NotCompactifiedFrom(min_height))
        missing == {b \in CPath[tip] : CHeight[b] >= from /\ ~(Wanted[b] \subseteq compact[b])}
        batch == from + ScanBatch * ((Least({CHeight[b] : b \in missing}) - from) \div ScanBatch)
    IN  /\ scanning /\ tip # NoCBlock
        /\ IF NotCompactifiedFrom(min_height) = {}
           THEN scanning' = FALSE /\ UNCHANGED <<min_height, skipped>>
           ELSE /\ IF missing # {} /\ batch <= WindowStart /\ batch < TipHeight
                   THEN \E b \in missing :
                          /\ CHeight[b] < batch + ScanBatch
                          /\ min_height' = CHeight[b]
                          /\ skipped' = skipped \cup {x \in missing : CHeight[x] < CHeight[b]}
                   ELSE min_height' = WindowStart /\ UNCHANGED skipped
                /\ UNCHANGED scanning
        /\ UNCHANGED <<stored, tip, compact, ctask, compact_lock, seen_proofs, peak_mark>>

-----------------------------------------------------------------------------
CompactInit ==
    /\ stored = {} /\ tip = NoCBlock
    /\ compact = [b \in CBlocks |-> {}]
    /\ ctask = [k \in CTasks |-> NoAnswer] /\ compact_lock = NoCTask /\ seen_proofs = {}
    /\ min_height = 0 /\ scanning = TRUE /\ peak_mark = NoCBlock
    /\ skipped = {}

CompactNext ==
    \/ \E b \in CBlocks : NewTip(b)
    \/ \E k \in CTasks : LockAndRead(k) \/ WriteBlock(k)
    \/ \E k \in CTasks, b \in CBlocks : \E v \in Vdfs[b] :
          RespondCompactProofOfTime(k, b, v) \/ NewCompactVdf(k, b, v)
    \/ ScanRound

CompactSpec == CompactInit /\ [][CompactNext]_compactVars

\* Every block of the chain below the height the scan will start from has the compact
\* proofs that were wanted, reorganisations included, as long as they are no deeper than
\* the scan is made for, unless a block higher up in its batch came before it from the
\* cache: such a block is not looked at again before the node restarts.
NothingBelowTheScan ==
    tip # NoCBlock =>
        \A b \in CPath[tip] \ skipped :
            CHeight[b] < min_height /\ CHeight[b] < WindowStart => Wanted[b] \subseteq compact[b]

\* A block never loses a compact proof it had, two answers for one block do not
\* overwrite each other's (_replace_proof), and the scan for blocks that lack one
\* leaves no others behind than those it skipped (broadcast_uncompact_blocks).
CompactionOnlyAdds ==
    [][(\A b \in CBlocks : compact[b] \subseteq compact'[b]) /\ NothingBelowTheScan']_compactVars
=============================================================================
