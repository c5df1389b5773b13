------------------------------ MODULE Timelord ------------------------------
(***************************************************************************)
(* A timelord (timelord.py, timelord_state.py, timelord_api.py): the main  *)
(* loop that keeps one VDF process per chain running on top of the last    *)
(* state, a block or the end of a sub-slot, collects the proofs they       *)
(* deliver and builds signage points, infusion points and ends of          *)
(* sub-slots from them.                                                    *)
(*                                                                         *)
(* A round of the loop is a step: it gives the lock up between its parts,  *)
(* but nothing that happens there is read by the parts that follow.  It    *)
(* also gives the lock up in _stop_chain, to wait for a process that has   *)
(* not answered yet, and there the handlers and the processes' tasks run.  *)
(* A state is known by a number; iterations are counted from it.  The      *)
(* difficulty and the number of iterations of a sub-slot do not change,    *)
(* and summaries are left out.                                             *)
(***************************************************************************)
EXTENDS Integers, Sequences, FiniteSets, FiniteSetsExt, SequencesExt

CONSTANTS
    SubSlotIters,     \* sub_slot_iters
    NumSps,           \* NUM_SPS_SUB_SLOT
    MinBlocks,        \* MIN_BLOCKS_PER_CHALLENGE_BLOCK
    MaxSlotBlocks,    \* MAX_SUB_SLOT_BLOCKS
    TBlocks,          \* unfinished blocks
    SpOf, IpOf,       \* iters_from_block of each; an overflow block has SpOf > IpOf
    Clients,          \* VDF processes the launcher keeps running
    OtherPeaks,       \* the blocks other timelords make: infusion point, and whether past the first
    CrashKinds,       \* how a process may crash: in the "handshake", "running", or running
                      \* with its connection "reset", so that writing to it raises
    StateBound, PeakBound, CrashBound,
    ResetBound,       \* of resets while a connection is reset, which have no end
    EventBound        \* of peaks, unfinished blocks and crashes together

ASSUME TimelordAssumption ==
    /\ SubSlotIters \in Nat \ {0} /\ NumSps \in Nat \ {0} /\ MinBlocks \in Nat \ {0}
    /\ SpOf \in [TBlocks -> 0 .. SubSlotIters - 1] /\ IpOf \in [TBlocks -> 0 .. SubSlotIters - 1]
    /\ OtherPeaks \subseteq (1 .. SubSlotIters - 1) \X BOOLEAN /\ CrashKinds \subseteq {"handshake", "running", "reset"}
    /\ {MaxSlotBlocks, Clients, StateBound, PeakBound, CrashBound, ResetBound, EventBound} \subseteq Nat

TChains == {"cc", "rc", "icc"}

VARIABLES
    last,             \* last_state
    newPeak,          \* new_peak
    unfinished_blocks,       \* unfinished_blocks, with the state each one's rc_prev names
    overflow,         \* overflow_blocks
    sps,              \* signage_point_iters
    toSubmit,         \* iters_to_submit, iters_submitted
    kinds,            \* iteration_to_proof_type
    itersFinished,    \* iters_finished
    proofs,           \* proofs_finished
    resets,           \* num_resets
    stream,           \* chain_type_to_stream: the process of each chain
    order,            \* and its keys, in the order they were inserted
    allows,           \* allows_iters
    unspawned,        \* unspawned_chains
    failures,         \* vdf_failures: their labels
    orphans,          \* processes told to stop that have not ended
    free,             \* the number of free_clients
    main,             \* where the main loop is: at the top or stopping the chains
    budget            \* peaks, unfinished blocks and crashes so far (bounds)

tlStore == <<last, newPeak, unfinished_blocks, overflow, sps, toSubmit, kinds, itersFinished, proofs, resets>>
tlProcs == <<stream, order, allows, unspawned, failures, orphans, free>>
timelordVars == <<tlStore, tlProcs, main, budget>>

InBudget == budget.peaks + budget.blocks + budget.crashes < EventBound

NoPeak == [none |-> TRUE]
NoVdf == [st |-> "none"]

-----------------------------------------------------------------------------
\* LastState: get_challenge of the infused challenge chain exists once a challenge
\* block is in the slot.
HasIcc(s) == s.deficit < MinBlocks
Needs(s) == IF HasIcc(s) THEN TChains ELSE {"cc", "rc"}
SlotStart(s) == s.total - s.ip

Cached(cache, entry) ==
    LET c == Append(cache, entry)
    IN  IF Len(c) > 2 * MaxSlotBlocks THEN Tail(c) ELSE c

\* set_state with a peak p, or with the end of the sub-slot.
PeakState(p) ==
    [id |-> last.id + 1, kind |-> "peak", ip |-> p.ip, total |-> p.total, deficit |-> p.deficit,
     weight |-> p.weight, height |-> p.height, newSlot |-> FALSE,
     lastTx |-> IF p.tx THEN p.total ELSE last.lastTx,
     cache |-> Cached(p.cache, [rc |-> last.id + 1, at |-> p.total])]
EosDeficit(d) == IF d > 0 THEN d ELSE MinBlocks
EosState ==
    LET total == SlotStart(last) + SubSlotIters
    IN  [last EXCEPT !.id = @ + 1, !.kind = "eos", !.ip = 0, !.total = total,
                     !.deficit = EosDeficit(last.deficit), !.newSlot = last.deficit = 0,
                     !.cache = Cached(@, [rc |-> last.id + 1, at |-> total])]

CanInfuseBlock(s) ==
    \/ s.kind # "peak"
    \/ Cardinality({k \in DOMAIN s.cache : s.cache[k].at > SlotStart(s)}) < MaxSlotBlocks

OverflowSp(b) == SpOf[b] > IpOf[b]

\* _can_infuse_unfinished_block: the iterations from the state, 0 for None.
InfuseIters(s, u) ==
    LET spTotal == SlotStart(s) + SpOf[u.b] - (IF OverflowSp(u.b) THEN SubSlotIters ELSE 0)
        found == {k \in DOMAIN s.cache : s.cache[k].rc = u.prev}
        k == Min(found)
    IN  IF \/ found = {}
           \/ s.ip > IpOf[u.b]
           \/ k < Len(s.cache) /\ (s.cache[k + 1].at < spTotal \/ s.cache[k].at > spTotal)
        THEN 0
        ELSE IpOf[u.b] - s.ip

-----------------------------------------------------------------------------
\* _reset_chains once the chains are stopped, on top of the state s.
NewLabel(n) == n + 1

SpsAfter(s) == {k * (SubSlotIters \div NumSps) - s.ip : k \in 1 .. NumSps - 1} \cap 1 .. SubSlotIters
FirstSps(pts) == {i \in pts : Cardinality({j \in pts : j < i}) < 3}

Reset(s, onlyEos, us) ==
    LET left == SubSlotIters - s.ip
        kept == IF onlyEos THEN {} ELSE {u \in us : InfuseIters(s, u) > 0}
        ips == {InfuseIters(s, u) : u \in kept}
        pts == IF onlyEos THEN {} ELSE FirstSps(SpsAfter(s))
        iters == [cc |-> ips \cup pts \cup {left}, rc |-> ips \cup pts \cup {left},
                  icc |-> IF HasIcc(s) THEN ips \cup {left} ELSE {}]
    IN  /\ sps' = SpsAfter(s)
        /\ unfinished_blocks' = kept
        /\ toSubmit' = iters
        /\ kinds' = [i \in ips \cup pts \cup {left} |->
                        IF i = left THEN "eos" ELSE IF i \in pts THEN "sp" ELSE "ip"]
        /\ itersFinished' = {} /\ proofs' = {} /\ resets' = NewLabel(resets)

\* The proof of i iterations a process delivers; a process that was told to stop may
\* still deliver the one it works on.
ProofOf(p, i) == [chain |-> p.chain, iters |-> i, label |-> p.label, state |-> p.state, of |-> p.of]
Orphan(p) == [chain |-> p.chain, label |-> p.label,
              late |-> IF p.st = "running" /\ p.todo # {} THEN {ProofOf(p, Min(p.todo))} ELSE {}]

\* _stop_chain of every chain: it waits for the ones that do not accept iterations
\* yet, then they go to the end of the unspawned ones, but for one whose connection
\* is reset: drain raises before that, and the chain stays mapped.  Mutant: none goes.
Stopped == SelectSeq(order, LAMBDA c : stream[c].st # "reset")
UnspawnedLost == unspawned
Unspawned == unspawned \o Stopped
Stopping(onlyEos) == [pc |-> "stop", onlyEos |-> onlyEos]
StopChains ==
    /\ main.pc = "stop" /\ Range(order) \subseteq allows
    /\ orphans' = orphans \cup {Orphan(stream[c]) : c \in {x \in Range(order) : stream[x].st = "running"}}
    /\ allows' = allows \ Range(Stopped) /\ unspawned' = Unspawned
    /\ stream' = [c \in TChains |-> IF stream[c].st = "reset"
                                    THEN [stream[c] EXCEPT !.todo = {}, !.sent = {}] ELSE NoVdf]
    /\ order' = SelectSeq(order, LAMBDA c : stream[c].st = "reset")
    /\ Reset(last, main.onlyEos, unfinished_blocks \cup overflow)
    /\ main' = [pc |-> "top"]
    /\ UNCHANGED <<last, newPeak, overflow, failures, free, budget>>

-----------------------------------------------------------------------------
\* _handle_failures: only the first failure's label is looked at.  Without one, a
\* reset after a time without activity, which a dead process causes.
FailureToHandle == failures # <<>> /\ Head(failures) = resets
HandleFailures ==
    /\ main.pc = "top" /\ FailureToHandle
    /\ main' = Stopping(TRUE) /\ failures' = <<>>
    /\ UNCHANGED <<tlStore, stream, order, allows, unspawned, orphans, free, budget>>
IdleReset ==
    /\ main.pc = "top" /\ failures = <<>>
    /\ \E c \in TChains :
          \/ stream[c].st = "dead"
          \/ stream[c].st = "reset" /\ resets < ResetBound
    /\ main' = Stopping(FALSE)
    /\ UNCHANGED <<tlStore, tlProcs, budget>>

\* _handle_new_peak: the state is set, the block is forgotten, and then the reset.
HandlePeak(p) ==
    /\ last' = PeakState(p)
    /\ unfinished_blocks' = {u \in unfinished_blocks : u.b # p.b} /\ overflow' = {u \in overflow : u.b # p.b}
    /\ newPeak' = NoPeak
PeakToHandle == newPeak # NoPeak
TakeNewPeak ==
    /\ main.pc = "top" /\ last.id < StateBound /\ ~FailureToHandle /\ PeakToHandle
    /\ HandlePeak(newPeak) /\ main' = Stopping(FALSE) /\ failures' = <<>>
    /\ UNCHANGED <<sps, toSubmit, kinds, itersFinished, proofs, resets, stream, order, allows, unspawned,
                   orphans, free, budget>>

\* _map_chains_with_vdf_clients, one client: some unspawned chain must have a
\* challenge; the first one is spawned, with the challenge that was found.
Able == {k \in DOMAIN unspawned : unspawned[k] \in Needs(last)}
MapChain ==
    /\ main.pc = "top" /\ last.id < StateBound /\ ~FailureToHandle /\ ~PeakToHandle
    /\ free > 0 /\ Able # {}
    /\ stream' = [stream EXCEPT ![Head(unspawned)] =
                     [st |-> "starting", chain |-> Head(unspawned), label |-> resets, state |-> last.id,
                      of |-> unspawned[Min(Able)], todo |-> {}, sent |-> {}]]
    /\ order' = Append(order, Head(unspawned))
    /\ unspawned' = Tail(unspawned) /\ free' = free - 1 /\ failures' = <<>>
    /\ UNCHANGED <<tlStore, allows, orphans, main, budget>>

\* _submit_iterations, and the proofs of the smallest iteration that is not finished.
ProofsAt(i) == {p \in proofs : p.iters = i /\ p.label = resets}
SubmitAll ==
    [c \in TChains |-> IF c \in allows THEN [stream[c] EXCEPT !.todo = @ \cup (toSubmit[c] \ stream[c].sent)]
                       ELSE stream[c]]
OnRc == IF "rc" \in allows THEN toSubmit["rc"] ELSE {}
Chosen == Min(OnRc \ itersFinished)
\* The loop comes to the submission, which raises at the first chain whose connection
\* is reset and which has something to submit, and the checks are left out.
Submission == main.pc = "top" /\ last.id < StateBound /\ ~FailureToHandle /\ ~PeakToHandle /\ (free = 0 \/ Able = {})
Raising == {c \in allows : stream[c].st = "reset" /\ toSubmit[c] \ (stream[c].todo \cup stream[c].sent) # {}}
EarlierChains(c) == CASE c = "cc" -> {} [] c = "rc" -> {"cc"} [] c = "icc" -> {"cc", "rc"}
SubmitRaises ==
    /\ Submission /\ Raising # {}
    /\ stream' = [c \in TChains |-> IF \A r \in Raising : c \in EarlierChains(r) THEN SubmitAll[c]
                                    ELSE stream[c]]
    /\ failures' = <<>>
    /\ UNCHANGED <<tlStore, order, allows, unspawned, orphans, free, main, budget>>

\* The loop comes to the checks, and one proof per chain is there.
AtChecks == Submission /\ Raising = {}
Collected(n) ==
    /\ OnRc \ itersFinished # {}
    /\ Cardinality(ProofsAt(Chosen)) = n

\* _check_for_new_ip: the infusion is sent, and a peak built on the spot when the
\* chain is known well enough.
NewDeficit(b) ==
    IF last.kind = "first" THEN MinBlocks - 1
    ELSE IF OverflowSp(b) /\ last.deficit = MinBlocks
    THEN IF last.kind = "peak" \/ last.newSlot THEN MinBlocks ELSE MinBlocks - 1
    ELSE Max({last.deficit - 1, 0})
BuiltPeak(u) ==
    LET total == last.total + Chosen
        spTotal == total - IpOf[u.b] + SpOf[u.b] - (IF OverflowSp(u.b) THEN SubSlotIters ELSE 0)
    IN  [b |-> u.b, ip |-> IpOf[u.b], total |-> total, deficit |-> NewDeficit(u.b), weight |-> last.weight + 1,
         height |-> last.height + 1, tx |-> last.lastTx < spTotal, cache |-> last.cache]
CheckForNewIp(u) ==
    /\ AtChecks /\ Collected(Cardinality(Needs(last))) /\ kinds[Chosen] = "ip"
    /\ u \in unfinished_blocks /\ IpOf[u.b] - last.ip = Chosen
    /\ stream' = SubmitAll /\ failures' = <<>>
    /\ itersFinished' = itersFinished \cup {Chosen}
    /\ proofs' = IF CanInfuseBlock(last) THEN {p \in proofs : p.iters # Chosen} ELSE proofs
    /\ IF CanInfuseBlock(last) /\ last.lastTx # -1 /\ last.height + 1 >= 5 
       THEN HandlePeak(BuiltPeak(u)) /\ main' = Stopping(FALSE)
       ELSE UNCHANGED <<last, newPeak, unfinished_blocks, overflow, main>>
    /\ UNCHANGED <<sps, toSubmit, kinds, resets, order, allows, unspawned, orphans, free, budget>>

\* _check_for_new_sp, and the next ones are submitted.
CheckForNewSp ==
    /\ AtChecks /\ Collected(2) /\ kinds[Chosen] = "sp"
    /\ stream' = SubmitAll /\ failures' = <<>>
    /\ itersFinished' = itersFinished \cup {Chosen}
    /\ sps' = sps \ {Chosen} /\ proofs' = {p \in proofs : p.iters # Chosen}
    /\ LET more == FirstSps(sps)
       IN  /\ toSubmit' = [toSubmit EXCEPT !["cc"] = @ \cup more, !["rc"] = @ \cup more]
           /\ kinds' = [i \in DOMAIN kinds \cup more |-> IF i \in more THEN "sp" ELSE kinds[i]]
    /\ UNCHANGED <<last, newPeak, unfinished_blocks, overflow, resets, order, allows, unspawned, orphans, free, main,
                   budget>>

\* _check_for_end_of_subslot and _handle_subslot_end: the overflow blocks become the
\* unfinished_blocks ones.
CheckForEndOfSubSlot ==
    /\ AtChecks /\ Collected(Cardinality(Needs(last))) /\ kinds[Chosen] = "eos"
    /\ stream' = SubmitAll /\ failures' = <<>>
    /\ last' = EosState
    /\ itersFinished' = itersFinished \cup {Chosen}
    /\ unfinished_blocks' = overflow /\ overflow' = {}
    /\ main' = Stopping(FALSE)
    /\ UNCHANGED <<newPeak, sps, toSubmit, kinds, proofs, resets, order, allows, unspawned, orphans, free,
                   budget>>

\* Nothing is complete yet; the iterations are submitted all the same.
NothingNew ==
    /\ AtChecks
    /\ OnRc \ itersFinished # {} =>
         ~ CASE kinds[Chosen] = "sp" -> Collected(2)
             [] kinds[Chosen] = "ip" -> /\ Collected(Cardinality(Needs(last)))
                                        /\ \E u \in unfinished_blocks : IpOf[u.b] - last.ip = Chosen
             [] OTHER -> Collected(Cardinality(Needs(last)))
    /\ stream' = SubmitAll /\ failures' = <<>>
    /\ UNCHANGED <<tlStore, order, allows, unspawned, orphans, free, main, budget>>

-----------------------------------------------------------------------------
\* The handlers and the processes' tasks, whenever the loop does not hold the lock.
\* The run ends at the last state.
Unlocked == last.id < StateBound /\ (main.pc = "top" \/ ~ Range(order) \subseteq allows)

\* new_peak_timelord: one more block of the sub-slot, made by another timelord: one of
\* the first, or a transaction block past them, on which peaks can be built.
NewPeakTimelord(ip, high) ==
    /\ Unlocked /\ budget.peaks < PeakBound /\ InBudget /\ ip > last.ip
    /\ budget' = [budget EXCEPT !.peaks = @ + 1]
    /\ newPeak' = [b |-> "other", ip |-> ip, total |-> SlotStart(last) + ip,
                   deficit |-> Max({last.deficit - 1, 0}), weight |-> last.weight + 1,
                   height |-> IF high THEN 4 ELSE last.height + 1, tx |-> high, cache |-> last.cache]
    /\ UNCHANGED <<last, unfinished_blocks, overflow, sps, toSubmit, kinds, itersFinished, proofs, resets, tlProcs,
                   main>>

\* new_unfinished_block_timelord.
NewUnfinishedBlockTimelord(b, prev) ==
    /\ Unlocked /\ InBudget
    /\ budget' = [budget EXCEPT !.blocks = @ + 1]
    /\ LET u == [b |-> b, prev |-> prev]
           iters == InfuseIters(last, u)
       IN  /\ u \notin unfinished_blocks \cup overflow
           /\ IF OverflowSp(b)
              THEN /\ overflow' = overflow \cup {u}
                   /\ UNCHANGED <<unfinished_blocks, toSubmit, kinds>>
              ELSE /\ IpOf[b] > last.ip /\ iters > 0
                   /\ unfinished_blocks' = unfinished_blocks \cup {u}
                   /\ toSubmit' = [c \in TChains |-> IF c \in Needs(last) THEN toSubmit[c] \cup {iters}
                                                     ELSE toSubmit[c]]
                   /\ kinds' = [i \in DOMAIN kinds \cup {iters} |-> IF i = iters THEN "ip" ELSE kinds[i]]
                   /\ UNCHANGED overflow
    /\ UNCHANGED <<last, newPeak, sps, itersFinished, proofs, resets, tlProcs, main>>

\* _do_process_communication: the handshake, a proof, a crash.
Handshake(c) ==
    /\ Unlocked /\ stream[c].st = "starting"
    /\ stream' = [stream EXCEPT ![c].st = "running"] /\ allows' = allows \cup {c}
    /\ UNCHANGED <<tlStore, order, unspawned, failures, orphans, free, main, budget>>
Deliver(c) ==
    /\ Unlocked /\ stream[c].st = "running" /\ stream[c].todo # {}
    /\ LET i == Min(stream[c].todo)
       IN  /\ stream' = [stream EXCEPT ![c].todo = @ \ {i}, ![c].sent = @ \cup {i}]
           /\ proofs' = proofs \cup {ProofOf(stream[c], i)}
    /\ UNCHANGED <<last, newPeak, unfinished_blocks, overflow, sps, toSubmit, kinds, itersFinished, resets, order, allows,
                   unspawned, failures, orphans, free, main, budget>>
Crash(c) ==
    /\ Unlocked /\ budget.crashes < CrashBound /\ InBudget
    /\ \E kind \in CrashKinds :
          /\ stream[c].st = IF kind = "handshake" THEN "starting" ELSE "running"
          /\ stream' = [stream EXCEPT ![c].st = IF kind = "reset" THEN "reset" ELSE "dead"]
    /\ failures' = Append(failures, stream[c].label)
    /\ orphans' = orphans \cup {[chain |-> c, label |-> stream[c].label, late |-> {}]}
    /\ budget' = [budget EXCEPT !.crashes = @ + 1]
    /\ UNCHANGED <<tlStore, order, allows, unspawned, free, main>>

\* The last proof of a process told to stop; its end frees the client, which connects
\* again, as a crashed one does once the launcher has started it again.
LateProof(p) ==
    /\ Unlocked /\ p.late # {}
    /\ orphans' = (orphans \ {p}) \cup {[p EXCEPT !.late = {}]}
    /\ proofs' = proofs \cup p.late
    /\ UNCHANGED <<last, newPeak, unfinished_blocks, overflow, sps, toSubmit, kinds, itersFinished, resets, stream, order,
                   allows, unspawned, failures, free, main, budget>>
ProcessStops(p) ==
    /\ Unlocked
    /\ orphans' = orphans \ {p} /\ free' = free + 1
    /\ UNCHANGED <<tlStore, stream, order, allows, unspawned, failures, main, budget>>

-----------------------------------------------------------------------------
TimelordInit ==
    /\ last = [id |-> 0, kind |-> "first", ip |-> 0, total |-> 0, deficit |-> MinBlocks, weight |-> 0,
               height |-> 0, newSlot |-> FALSE, lastTx |-> -1, cache |-> <<[rc |-> 0, at |-> 0]>>]
    /\ newPeak = NoPeak /\ unfinished_blocks = {} /\ overflow = {} /\ sps = {}
    /\ toSubmit = [c \in TChains |-> {}] /\ kinds = [i \in {} |-> "eos"] /\ itersFinished = {}
    /\ proofs = {} /\ resets = 0
    /\ stream = [c \in TChains |-> NoVdf] /\ order = <<>> /\ allows = {} /\ unspawned = <<"cc", "rc", "icc">>
    /\ failures = <<>> /\ orphans = {} /\ free = Clients
    /\ main = [pc |-> "off"] /\ budget = [peaks |-> 0, blocks |-> 0, crashes |-> 0]

\* _start
StartTimelord ==
    /\ main.pc = "off" /\ main' = Stopping(FALSE)
    /\ UNCHANGED <<tlStore, tlProcs, budget>>

MainLoop ==
    \/ StopChains \/ HandleFailures \/ TakeNewPeak \/ MapChain
    \/ \E u \in unfinished_blocks : CheckForNewIp(u)
    \/ SubmitRaises \/ CheckForNewSp \/ CheckForEndOfSubSlot \/ NothingNew

TimelordNext ==
    \/ StartTimelord \/ MainLoop \/ IdleReset
    \/ \E p \in OtherPeaks : NewPeakTimelord(p[1], p[2])
    \/ \E b \in TBlocks, k \in DOMAIN last.cache : NewUnfinishedBlockTimelord(b, last.cache[k].rc)
    \/ \E c \in TChains : Handshake(c) \/ Deliver(c) \/ Crash(c)
    \/ \E p \in orphans : LateProof(p) \/ ProcessStops(p)

\* The loop goes on, processes answer, deliver and stop, and the time without
\* activity runs out when nothing else moves.
TimelordFairness ==
    /\ WF_timelordVars(MainLoop) /\ WF_timelordVars(IdleReset)
    /\ WF_timelordVars(\E c \in TChains : Handshake(c) \/ Deliver(c))
    /\ WF_timelordVars(\E p \in orphans : ProcessStops(p))

-----------------------------------------------------------------------------
\* Whatever a message is built from was computed on top of the current state, one
\* proof of each chain on that chain's challenge, although processes of earlier
\* states still deliver (the labels of proofs_finished).
ProofsOfOneState ==
    main.pc = "top" =>
        \A i \in DOMAIN kinds :
            /\ \A p \in ProofsAt(i) : p.state = last.id /\ p.of = p.chain
            /\ \A p, q \in ProofsAt(i) : p.chain = q.chain => p = q

\* The timelord goes from state to state to the last one of the run, through every
\* crash and every reset (_handle_failures: "this reset should bring the timelord
\* back to a running state"), unless the connection of a process was reset: then
\* _stop_chain leaves the chain mapped to it.
TimelordAdvances ==
    (main.pc # "off") ~> (last.id = StateBound \/ \E c \in TChains : stream[c].st = "reset")

\* The timelord makes every state, from proofs of the state before it only.
TimelordSound == []ProofsOfOneState /\ TimelordAdvances
=============================================================================
