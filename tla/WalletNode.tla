----------------------------- MODULE WalletNode -----------------------------
(***************************************************************************)
(* How a wallet follows the chain (wallet_node.py): the handler of         *)
(* new_peak_wallet, with its short, batch and long ways to catch up, and   *)
(* the sync_job task that does the long one.                               *)
(*                                                                         *)
(* The full node's chain grows and every new peak is announced; a block is *)
(* its height, and the wallet's chain is its height too: what the wallet   *)
(* makes of the blocks is the subject of WalletLedger.                     *)
(***************************************************************************)
EXTENDS Integers, Sequences, FiniteSetsExt

CONSTANTS
    RecentBlocks,     \* WEIGHT_PROOF_RECENT_BLOCKS
    NearBlocks,       \* the 200 blocks within which no weight proof is asked for
    ShortSyncBlocks,  \* short_sync_blocks_behind_threshold
    BatchSize,        \* MAX_BLOCK_COUNT_PER_REQUESTS
    TipBound, FaultBound

ASSUME WalletNodeAssumption ==
    /\ {RecentBlocks, NearBlocks, ShortSyncBlocks, BatchSize} \subseteq Nat \ {0}
    /\ TipBound >= RecentBlocks

VARIABLES
    tip,            \* the height of the full node's chain
    wallet_height,  \* the height of the wallet's peak, 0 when it has none
    sync_mode,
    sync_event,
    last_message,   \* last_new_peak_messages: the peer's last peak, 0 for none
    replayed,       \* the peaks of the new_peak_wallet tasks syncs left to run
    waiting,        \* those that wait for new_peak_lock, first come first served
    handler,        \* the one that holds it
    potential,      \* potential_peaks
    sync_job,       \* where the sync_job task is
    sleeping,       \* a check_new_peak task is about to set the event
    faults,
    overwritten     \* history: the highest peak an older one took the place of in
                    \* last_new_peak_messages

walletVars == <<tip, wallet_height, sync_mode, sync_event, last_message, replayed, waiting,
                handler, potential, sync_job, sleeping, faults, overwritten>>

NoHandler == [at |-> "none"]

\* Requests that get no answer.  The last peak's are answered: until then a
\* later announcement follows.
Fault == tip < TipBound /\ faults < FaultBound /\ faults' = faults + 1

-----------------------------------------------------------------------------
(* new_peak_wallet. *)

\* Before the lock: a peak the wallet has is ignored, and one that arrives
\* during a sync is kept for its end.
Before(h) ==
    /\ last_message' = IF h > wallet_height /\ sync_mode THEN h ELSE last_message
    /\ waiting' = IF h > wallet_height /\ ~sync_mode THEN Append(waiting, h)
                  ELSE waiting
    /\ overwritten' = IF last_message' < last_message THEN Max({overwritten, last_message})
                      ELSE overwritten

\* The chain grows and the announcement is handled.  Tasks run in the order they
\* were made: this one may come before those a sync left to run, and after
\* sync_job, which does not wait when the event is set, has begun the next sync.
Announce ==
    /\ sync_job # "off" /\ tip < TipBound
    /\ tip' = tip + 1
    /\ Before(tip + 1)
    /\ UNCHANGED <<wallet_height, sync_mode, sync_event, replayed, handler,
                   potential, sync_job, sleeping, faults>>

\* The task sync_job made for the peak it kept.
Replay ==
    /\ replayed # <<>>
    /\ replayed' = Tail(replayed)
    /\ Before(Head(replayed))
    /\ UNCHANGED <<tip, wallet_height, sync_mode, sync_event, handler, potential,
                   sync_job, sleeping, faults>>

\* With the lock: the peak is compared again, and its header asked for.
LockHandler ==
    /\ handler = NoHandler /\ waiting # <<>>
    /\ waiting' = Tail(waiting)
    /\ handler' = IF wallet_height >= Head(waiting) THEN NoHandler
                  ELSE [at |-> "header", peak |-> Head(waiting),
                        curr |-> wallet_height]
    /\ UNCHANGED <<tip, wallet_height, sync_mode, sync_event, last_message,
                   replayed, potential, sync_job, sleeping, faults, overwritten>>

IsNear(h, curr) == (curr = 0 /\ h < RecentBlocks) \/ curr > h - NearBlocks

\* Which way to catch up.  A peak that is neither near nor high enough for a
\* weight proof is dropped.
Way(h, curr) ==
    IF IsNear(h, curr)
    THEN IF h <= curr + ShortSyncBlocks THEN "backtrack" ELSE "batch"
    ELSE IF h >= RecentBlocks THEN "proof" ELSE "none"

HeaderAnswered ==
    /\ handler.at = "header"
    /\ handler' = IF Way(handler.peak, handler.curr) = "none" THEN NoHandler
                  ELSE [handler EXCEPT !.at = Way(handler.peak, handler.curr)]
    /\ UNCHANGED <<tip, wallet_height, sync_mode, sync_event, last_message,
                   replayed, waiting, potential, sync_job, sleeping, faults, overwritten>>

\* wallet_short_sync_backtrack: the headers back to a block the wallet has,
\* added together under the blockchain's lock, which a sync holds too.
Backtrack ==
    /\ handler.at = "backtrack" /\ sync_job # "syncing"
    /\ wallet_height' = Max({wallet_height, handler.peak})
    /\ handler' = NoHandler
    /\ UNCHANGED <<tip, sync_mode, sync_event, last_message, replayed, waiting,
                   potential, sync_job, sleeping, faults, overwritten>>

\* batch_sync_to_peak, a batch at a time, from the height read at the start.
AfterBatch(from, to) == Min({to, from + BatchSize})

Batch ==
    LET end == AfterBatch(handler.curr, handler.peak)
    IN  /\ handler.at = "batch"
        /\ wallet_height' = Max({wallet_height, end})
        /\ handler' = IF end = handler.peak THEN NoHandler
                      ELSE [handler EXCEPT !.curr = end]
        /\ UNCHANGED <<tip, sync_mode, sync_event, last_message, replayed,
                       waiting, potential, sync_job, sleeping, faults, overwritten>>

\* A valid weight proof: the peak becomes one to sync to.
ProofValid ==
    /\ handler.at = "proof"
    /\ potential' = potential \cup {handler.peak}
    /\ sync_event' = TRUE
    /\ handler' = NoHandler
    /\ UNCHANGED <<tip, wallet_height, sync_mode, last_message, replayed, waiting,
                   sync_job, sleeping, faults, overwritten>>

\* A request of the handler fails: it returns, or raises and the lock is freed.
HandlerFails ==
    /\ handler # NoHandler
    /\ handler' = NoHandler
    /\ Fault
    /\ UNCHANGED <<tip, wallet_height, sync_mode, sync_event, last_message,
                   replayed, waiting, potential, sync_job, sleeping, overwritten>>

-----------------------------------------------------------------------------
(* sync_job. *)

\* The top of the loop: check_new_peak runs in a task of its own, and sleeps
\* if a potential peak is still ahead.
LoopStart ==
    /\ sync_job = "loop"
    /\ sleeping' = (sleeping \/ (wallet_height > 0 /\
                                 \E h \in potential : h > wallet_height))
    /\ sync_job' = "wait"
    /\ UNCHANGED <<tip, wallet_height, sync_mode, sync_event, last_message,
                   replayed, waiting, handler, potential, faults, overwritten>>

CheckNewPeak ==
    /\ sleeping
    /\ sleeping' = FALSE
    /\ sync_event' = TRUE
    /\ UNCHANGED <<tip, wallet_height, sync_mode, last_message, replayed, waiting,
                   handler, potential, sync_job, faults, overwritten>>

BeginSync ==
    /\ sync_job = "wait" /\ sync_event
    /\ sync_event' = FALSE
    /\ last_message' = 0
    /\ sync_mode' = TRUE
    /\ sync_job' = "syncing"
    /\ UNCHANGED <<tip, wallet_height, replayed, waiting, handler, potential,
                   sleeping, faults, overwritten>>

\* The peak _sync goes for: the heaviest of the potential ones.
SyncTarget == Max(potential \cup {0})

\* One batch of _sync.
SyncBatch ==
    /\ sync_job = "syncing" /\ SyncTarget > wallet_height
    /\ wallet_height' = AfterBatch(wallet_height, SyncTarget)
    /\ UNCHANGED <<tip, sync_mode, sync_event, last_message, replayed, waiting,
                   handler, potential, sync_job, sleeping, faults, overwritten>>

SyncEndsForgetting ==
    /\ sync_mode' = FALSE
    /\ sync_job' = "loop"
    /\ UNCHANGED <<tip, wallet_height, sync_event, last_message, replayed, waiting,
                   handler, potential, sleeping, overwritten>>

\* The finally clause: the last peak announced meanwhile is handled again.
SyncEnds ==
    /\ sync_mode' = FALSE
    /\ replayed' = IF last_message = 0 THEN replayed
                   ELSE Append(replayed, last_message)
    /\ sync_job' = "loop"
    /\ UNCHANGED <<tip, wallet_height, sync_event, last_message, waiting, handler,
                   potential, sleeping, overwritten>>

EndSync ==
    /\ sync_job = "syncing" /\ SyncTarget <= wallet_height
    /\ SyncEnds
    /\ UNCHANGED faults

SyncFails == sync_job = "syncing" /\ SyncEnds /\ Fault

-----------------------------------------------------------------------------
WalletNodeInit ==
    /\ tip = 0 /\ wallet_height = 0
    /\ sync_mode = FALSE /\ sync_event = FALSE
    /\ last_message = 0
    /\ replayed = <<>> /\ waiting = <<>> /\ handler = NoHandler
    /\ potential = {} /\ sync_job = "off" /\ sleeping = FALSE
    /\ faults = 0 /\ overwritten = 0

\* _start, once there is a key to log in with.
StartWallet ==
    /\ sync_job = "off"
    /\ sync_job' = "loop"
    /\ UNCHANGED <<tip, wallet_height, sync_mode, sync_event, last_message, replayed,
                   waiting, handler, potential, sleeping, faults, overwritten>>

HandlerSteps ==
    Replay \/ LockHandler \/ HeaderAnswered \/ Backtrack \/ Batch \/ ProofValid

SyncSteps ==
    LoopStart \/ CheckNewPeak \/ BeginSync \/ SyncBatch \/ EndSync

WalletNodeNext ==
    \/ StartWallet \/ Announce
    \/ HandlerSteps \/ HandlerFails
    \/ SyncSteps \/ SyncFails

\* The event loop runs every task that can run, and requests are answered or
\* time out.
WalletNodeFairness ==
    /\ WF_walletVars(Replay)
    /\ WF_walletVars(LockHandler \/ HeaderAnswered \/ Batch \/ ProofValid)
    /\ SF_walletVars(Backtrack)
    /\ WF_walletVars(LoopStart \/ BeginSync \/ SyncBatch \/ EndSync)
    /\ WF_walletVars(CheckNewPeak)

WalletNodeSpec ==
    WalletNodeInit /\ [][WalletNodeNext]_walletVars /\ WalletNodeFairness

-----------------------------------------------------------------------------
\* When the full node's chain stops growing the wallet reaches its tip, however
\* the announcements fell: before, during or after a sync, behind another
\* handler, with earlier requests and syncs failing.  It does not when the replay of
\* an older peak takes the place of the last one announced (new_peak_wallet's put).
WalletCatchesUp == (tip = TipBound) ~> (wallet_height = TipBound \/ overwritten = TipBound)
=============================================================================
