------------------------------ MODULE Farming ------------------------------
(***************************************************************************)
(* A farmer between full nodes and a harvester (farmer_api.py, farmer.py,  *)
(* harvester_api.py).  A node announces a signage point; the harvester     *)
(* looks its plots up and sends proofs; the farmer asks it for signatures, *)
(* declares the proof to the nodes, is asked to sign the block, and asks   *)
(* the harvester again.  What ties the messages together is four caches    *)
(* whose entries expire, some under the signage point's key and some under *)
(* the proof's.                                                            *)
(*                                                                         *)
(* Messages between farmer and harvester are handled in any order, since   *)
(* each is a task of its own, and are lost with the connection.  Time is   *)
(* counted in periods of the farmer's cleaning task.                       *)
(*                                                                         *)
(* A proof is known by its quality; plot identifiers contain it.  Partials *)
(* for a pool are in PoolFarming: here a pooled plot only means that the   *)
(* farmer looks at one signage point and not at all with the same hash.    *)
(***************************************************************************)
EXTENDS Integers, FiniteSets, Sequences

CONSTANTS
    FSps,                  \* signage points: [cc, rc, limit], limit for required_iters
    Qualities,             \* the proofs the harvester's plots hold
    ProofSp,               \* ProofSp[q]: the challenge chain signage point of q
    ProofIters,            \* its required_iters
    ProofPlot,             \* its plot
    PooledPlots,
    MaxPosPerSp,           \* max_pos_per_sp
    KeepTime,              \* 3: periods an entry is kept
    TimeBound,             \* bound on the clock
    UnplugBound            \* bound on lost plots and connections

VARIABLES
    f_now,                 \* the clock
    f_sps,                 \* sps: the signage points, by their cc hash
    f_responses,           \* number_of_responses
    f_proofs,              \* proofs_of_space: the proofs kept under a cc hash
    f_quality,             \* quality_str_to_identifiers
    f_time,                \* cache_add_time
    provers,               \* the harvester's plots
    handshaken,            \* connected, and the harvester has the farmer's keys
    f_net,                 \* messages between farmer and harvester
    f_faults,
    declared               \* the proofs declared to the nodes

cacheVars == <<f_sps, f_responses, f_proofs, f_quality, f_time>>
linkVars == <<provers, handshaken, f_net, f_faults>>
farmingVars == <<f_now, cacheVars, linkVars, declared>>

CcHashes == {sp.cc : sp \in FSps}

ASSUME FarmingAssumption ==
    /\ IsFiniteSet(FSps) /\ ProofSp \in [Qualities -> CcHashes]
    /\ ProofIters \in [Qualities -> Nat]
    /\ CcHashes \cap Qualities = {}
    /\ MaxPosPerSp \in Nat /\ KeepTime \in Nat /\ TimeBound \in Nat /\ UnplugBound \in Nat

Has(f, x) == x \in DOMAIN f
Put(f, x, v) == [y \in DOMAIN f \cup {x} |-> IF y = x THEN v ELSE f[y]]
Drop(f, S) == [y \in DOMAIN f \ S |-> f[y]]
Empty == [x \in {} |-> 0]
Pooled(q) == ProofPlot[q] \in PooledPlots
GoodFor(q, sp) == ProofIters[q] < sp.limit
ToHarvester(M) == IF handshaken THEN M ELSE {}

ChallengeMsg(sp) == [kind |-> "challenge", sp |-> sp]
ProofMsg(q) == [kind |-> "proof", quality |-> q]
SignMsg(q, what) == [kind |-> "sign", quality |-> q, what |-> what]
SignedMsg(q, what) == [kind |-> "signed", quality |-> q, what |-> what]
SpHashes(sp) == [cc |-> sp.cc, rc |-> sp.rc]
Foliage == [cc |-> "foliage", rc |-> "foliage"]

-----------------------------------------------------------------------------
\* new_signage_point: sent to the harvester again even if it is known.
NewSignagePoint(sp) ==
    LET have == IF Has(f_sps, sp.cc) THEN f_sps[sp.cc] ELSE <<>>
        known == sp \in {have[i] : i \in DOMAIN have}
    IN  /\ f_net' = f_net \cup ToHarvester({ChallengeMsg(sp)})
        /\ f_sps' = IF known THEN f_sps ELSE Put(f_sps, sp.cc, Append(have, sp))
        /\ f_time' = IF known THEN f_time ELSE Put(f_time, sp.cc, f_now)
        /\ UNCHANGED <<f_now, f_responses, f_proofs, f_quality, provers, handshaken, f_faults,
                       declared>>

\* new_signage_point_harvester: the proofs of its plots that are good enough for
\* the signage point's difficulty; for a pooled plot the pool's replaces it.
HarvestChallenge(m) ==
    \E goodForPool \in SUBSET {q \in Qualities : Pooled(q)} :
        LET found == {q \in Qualities : /\ ProofPlot[q] \in provers /\ ProofSp[q] = m.sp.cc
                                        /\ IF Pooled(q) THEN q \in goodForPool ELSE GoodFor(q, m.sp)}
        IN  /\ m.kind = "challenge"
            /\ f_net' = (f_net \ {m}) \cup {ProofMsg(q) : q \in found}
            /\ UNCHANGED <<f_now, cacheVars, provers, handshaken, f_faults, declared>>

\* new_proof_of_space: for each signage point with that hash (for a pooled plot
\* the first one), count it, and if the proof is good enough keep it and ask for
\* the signatures.
Considered(q) ==
    LET all == f_sps[ProofSp[q]]
    IN  {all[i] : i \in IF Pooled(q) THEN {1} ELSE DOMAIN all}

GoodSps(q) == {sp \in Considered(q) : GoodFor(q, sp)}

Count(q) == IF Has(f_responses, ProofSp[q]) THEN f_responses[ProofSp[q]] ELSE 0

TooMany(q) == Count(q) > MaxPosPerSp

\* Mutant: the signage point's entry is not kept alive with the proof's.
KeepProofAlone(q, times) == Put(times, q, f_now)
KeepProof(q, times) == Put(Put(times, ProofSp[q], f_now), q, f_now)

NewProofOfSpace(m) ==
    LET q == m.quality
        cc == ProofSp[q]
        times == IF Has(f_responses, cc) THEN f_time ELSE Put(f_time, cc, f_now)
        good == GoodSps(q)
    IN  /\ m.kind = "proof"
        /\ IF TooMany(q) \/ ~Has(f_sps, cc)
           THEN /\ f_responses' = Put(f_responses, cc, Count(q))
                /\ f_time' = times
                /\ f_net' = f_net \ {m}
                /\ UNCHANGED <<f_proofs, f_quality>>
           ELSE /\ f_responses' = Put(f_responses, cc, Count(q) + Cardinality(Considered(q)))
                /\ f_net' = (f_net \ {m}) \cup {SignMsg(q, SpHashes(sp)) : sp \in good}
                /\ f_proofs' = IF good = {} THEN f_proofs ELSE f_proofs \cup {q}
                /\ f_quality' = IF good = {} THEN f_quality ELSE f_quality \cup {q}
                /\ f_time' = IF good = {} THEN times ELSE KeepProof(q, times)
        /\ UNCHANGED <<f_now, f_sps, provers, handshaken, f_faults, declared>>

\* request_signatures at the harvester; without the plot there is no answer.
HarvesterSigns(m) ==
    /\ m.kind = "sign"
    /\ f_net' = (f_net \ {m}) \cup
          IF ProofPlot[m.quality] \in provers THEN {SignedMsg(m.quality, m.what)} ELSE {}
    /\ UNCHANGED <<f_now, cacheVars, provers, handshaken, f_faults, declared>>

\* An exception in a handler closes the connection to the harvester.
LoseLink == handshaken' = FALSE /\ f_net' = {}

\* respond_signatures: signatures of a signage point if the first message is its
\* hash, and then the second must be its reward chain hash; otherwise of a block.
Announced(what) ==
    \/ what = Foliage
    \/ \E i \in DOMAIN f_sps[what.cc] : f_sps[what.cc][i].rc = what.rc

RespondSignatures(m) ==
    LET q == m.quality
        cc == ProofSp[q]
    IN  /\ m.kind = "signed"
        /\ IF ~Has(f_sps, cc)
           THEN /\ f_net' = f_net \ {m}
                /\ UNCHANGED <<handshaken, declared>>
           ELSE IF ~Announced(m.what) \/ q \notin f_proofs
           THEN LoseLink /\ UNCHANGED declared
           ELSE /\ f_net' = f_net \ {m}
                /\ declared' = declared \cup
                      IF m.what = Foliage THEN {} ELSE {[quality |-> q, sp |-> m.what]}
                /\ UNCHANGED handshaken
        /\ UNCHANGED <<f_now, cacheVars, provers, f_faults>>

\* request_signed_values: a node wants to make a block of a declared proof.
RequestSignedValues(q) ==
    /\ q \in {d.quality : d \in declared} /\ q \in f_quality
    /\ f_net' = f_net \cup ToHarvester({SignMsg(q, Foliage)})
    /\ UNCHANGED <<f_now, cacheVars, provers, handshaken, f_faults, declared>>

\* _periodically_clear_cache_and_refresh_task, once a period.
Expired == {x \in DOMAIN f_time : f_now + 1 - f_time[x] > KeepTime}
ClearCache ==
    /\ f_now < TimeBound
    /\ f_now' = f_now + 1
    /\ f_sps' = Drop(f_sps, Expired) /\ f_responses' = Drop(f_responses, Expired)
    /\ f_proofs' = {q \in f_proofs : ProofSp[q] \notin Expired}
    /\ f_quality' = f_quality \ Expired
    /\ f_time' = Drop(f_time, Expired)
    /\ UNCHANGED <<linkVars, declared>>

\* The harvester loses a plot (refresh_plots) or its connection, and comes back:
\* on_connect sends it the keys (harvester_handshake).
LosePlot(p) ==
    /\ p \in provers /\ f_faults > 0
    /\ provers' = provers \ {p} /\ f_faults' = f_faults - 1
    /\ UNCHANGED <<f_now, cacheVars, handshaken, f_net, declared>>
Unplug ==
    /\ handshaken /\ f_faults > 0
    /\ f_faults' = f_faults - 1 /\ LoseLink
    /\ UNCHANGED <<f_now, cacheVars, provers, declared>>
HarvesterHandshake ==
    /\ ~handshaken
    /\ handshaken' = TRUE
    /\ UNCHANGED <<f_now, cacheVars, provers, f_net, f_faults, declared>>

-----------------------------------------------------------------------------
FarmingInit ==
    /\ f_now = 0 /\ f_sps = Empty /\ f_responses = Empty /\ f_proofs = {} /\ f_quality = {}
    /\ f_time = Empty
    /\ provers = {ProofPlot[q] : q \in Qualities} /\ handshaken = TRUE /\ f_net = {}
    /\ f_faults = UnplugBound
    /\ declared = {}

FarmingNext ==
    \/ \E sp \in FSps : NewSignagePoint(sp)
    \/ \E m \in f_net : HarvestChallenge(m) \/ NewProofOfSpace(m) \/ HarvesterSigns(m)
                        \/ RespondSignatures(m)
    \/ \E q \in Qualities : RequestSignedValues(q)
    \/ \E p \in provers : LosePlot(p)
    \/ ClearCache \/ Unplug \/ HarvesterHandshake

FarmingSpec == FarmingInit /\ [][FarmingNext]_farmingVars

\* Whatever expires when, a proof the farmer would sign a block for still has its
\* signage point and its proof in the other caches, so that the harvester's
\* answer can be used and does not end in an exception.
SignableProofsAreComplete ==
    \A q \in f_quality : Has(f_sps, ProofSp[q]) /\ q \in f_proofs

\* A proof is only declared for a signage point it is good enough for, though
\* several with the same challenge chain hash and different difficulties may be
\* known, and the answer with the signatures only names their hashes.
DeclaredAreGood ==
    \A d \in declared : \E sp \in FSps : d.sp = SpHashes(sp) /\ GoodFor(d.quality, sp)

\* However often signage points are announced again, the farmer counts no more
\* than max_pos_per_sp + 1 answers to one, per signage point with that hash.
ProofsPerSpBounded ==
    \A cc \in DOMAIN f_responses :
        f_responses[cc] <= MaxPosPerSp + Cardinality({sp \in FSps : sp.cc = cc})

\* Caches that expire on their own, repeated signage points and lost plots leave the
\* farmer with proofs it can use, and it uses them where they are good.
ProofsCanBeUsed == SignableProofsAreComplete /\ DeclaredAreGood /\ ProofsPerSpBounded
=============================================================================
