--------------------------- MODULE ServiceProofs ---------------------------
(***************************************************************************)
(* Proofs about the farmer's caches (Farming), the server's table of       *)
(* connections (Connections), the compaction of stored blocks              *)
(* (CompactProofs), the tables of known peers (AddressManager) and the     *)
(* trades of a wallet (TradeManager), for any number of signage points,    *)
(* proofs, connections, peers, blocks and coins, any slots and any expiry  *)
(* times: a proof that can still be signed for has everything the answer   *)
(* needs, a connection is closed once, whoever closes it, compaction only  *)
(* adds proofs and passes over no block of the chain, the tables of peers  *)
(* agree with one another through every operation and a restart, and a     *)
(* trade is confirmed exactly if its bundle is on the chain.               *)
(***************************************************************************)
EXTENDS Farming, Connections, CompactProofs, AddressManager, TradeManager, FiniteSetTheorems, WellFoundedInduction, TLAPS

-----------------------------------------------------------------------------
(* Connections.                                                            *)

\* One close() of a connection at a time: before it the connection is not marked
\* and was not reported, after it nothing is left to be reported.
CloseInv ==
    /\ c_closed \in [Conns -> BOOLEAN] /\ c_closing \in [Conns -> SUBSET Nat]
    /\ c_callbacks \in [Conns -> Nat]
    /\ \A c \in Conns :
          /\ ~c_closed[c] => c_closing[c] = {} /\ c_callbacks[c] = 0
          /\ c_closing[c] # {} => c_callbacks[c] = 0
          /\ \A x, y \in c_closing[c] : x = y
          /\ c_callbacks[c] <= 1

BanInv == banned_until \in [Peers -> Nat] /\ c_clock \in Nat

BansHold == \A p \in Peers : c_clock' < banned_until[p] => banned_until'[p] >= banned_until[p]

\* close() of a connection that is not marked yet leaves one close under way.
LEMMA CloseMarks ==
    ASSUME CloseInv, NEW c \in Conns, ~c_closed[c], NEW ban \in Nat, Close(c, ban),
           UNCHANGED c_callbacks
    PROVE  CloseInv'
BY DEF CloseInv, Close, MarkClosed

\* connection_closed reports the connection, and there is no other close() that
\* could do so again; those that waited for it go on, or are closed themselves.
LEMMA FinishReports ==
    ASSUME CloseInv, NEW c \in Conns, NEW ban \in c_closing[c], NEW raised \in BOOLEAN,
           FinishClose(c, ban, raised)
    PROVE  CloseInv'
<1> DEFINE waiting == {d \in Conns : c_state[d] = "adding" /\ c_waits[d] = c}
<1>1. /\ c_closed[c] /\ c_callbacks[c] = 0 /\ c_closing[c] \ {ban} = {}
      /\ c_callbacks' = [c_callbacks EXCEPT ![c] = @ + 1]
  BY DEF CloseInv, FinishClose
<1>2. /\ c_callbacks' \in [Conns -> Nat] /\ c_callbacks'[c] = 1
      /\ \A d \in Conns \ {c} : c_callbacks'[d] = c_callbacks[d]
  BY <1>1 DEF CloseInv
<1>3. CASE /\ c_closing' = [d \in Conns |->
                    IF d = c THEN c_closing[c] \ {ban}
                    ELSE IF d \in waiting /\ ~c_closed[d]
                    THEN {IF Outbound(d) THEN InvalidProtocolBan ELSE 0}
                    ELSE c_closing[d]]
           /\ c_closed' = [d \in Conns |-> c_closed[d] \/ d = c \/ d \in waiting]
  <2> HIDE DEF waiting
  <2>1. c_closing' \in [Conns -> SUBSET Nat] /\ c_closed' \in [Conns -> BOOLEAN]
    BY <1>3, ConnectionsAssumption DEF CloseInv
  <2>2. ASSUME NEW d \in Conns
        PROVE  /\ ~c_closed'[d] => c_closing'[d] = {} /\ c_callbacks'[d] = 0
               /\ c_closing'[d] # {} => c_callbacks'[d] = 0
               /\ \A x, y \in c_closing'[d] : x = y
               /\ c_callbacks'[d] <= 1
    <3>1. CASE d = c
      <4>1. c_closed'[c] = TRUE  BY <1>3
      <4>2. c_closing'[c] = {}  BY <1>1, <1>3
      <4> QED  BY <3>1, <4>1, <4>2, <1>2
    <3>2. CASE d # c /\ d \in waiting /\ ~c_closed[d]
      BY <3>2, <1>2, <1>3 DEF CloseInv
    <3>3. CASE d # c /\ ~(d \in waiting /\ ~c_closed[d])
      BY <3>3, <1>2, <1>3 DEF CloseInv
    <3> QED  BY <3>1, <3>2, <3>3
  <2> QED  BY <2>1, <2>2, <1>2 DEF CloseInv
<1>4. CASE /\ c_closing' = [c_closing EXCEPT ![c] = @ \ {ban}]
           /\ c_closed' = [c_closed EXCEPT ![c] = TRUE]
  BY <1>1, <1>2, <1>4 DEF CloseInv
<1> QED  BY <1>3, <1>4 DEF FinishClose

\* Every step keeps to one close() of a connection at a time.
LEMMA CloseStep == CloseInv /\ [ConnNext]_connVars => CloseInv'
<1> SUFFICES ASSUME CloseInv, [ConnNext]_connVars PROVE CloseInv'  OBVIOUS
<1> USE ConnectionsAssumption
<1>1. ASSUME NEW c \in Conns, Connect(c) PROVE CloseInv'
  BY <1>1 DEF Connect, CloseInv
<1>2. ASSUME NEW c \in Conns, HandshakeFails(c) PROVE CloseInv'
  BY <1>2, CloseMarks DEF HandshakeFails
<1>3. ASSUME NEW c \in Conns, HandshakeDone(c) PROVE CloseInv'
  <2> DEFINE old == all_connections[PeerOf[c]]
  <2>1. CASE Close(c, 0)
    BY <1>3, <2>1, CloseMarks DEF HandshakeDone
  <2>2. CASE old \in OpenConns /\ Close(old, 0)
    <3> HIDE DEF old
    <3> QED  BY <1>3, <2>2, CloseMarks DEF HandshakeDone, OpenConns
  <2>3. CASE UNCHANGED <<c_closed, c_closing, c_waits>>
    BY <1>3, <2>3 DEF HandshakeDone, CloseInv
  <2> QED  BY <1>3, <2>1, <2>2, <2>3 DEF HandshakeDone
<1>4. ASSUME NEW c \in Conns, NEW ban \in BanTimes, BeginClose(c, ban) PROVE CloseInv'
  BY <1>4, CloseMarks DEF BeginClose
<1>5. ASSUME NEW c \in Conns, NEW ban \in c_closing[c], NEW raised \in BOOLEAN,
             FinishClose(c, ban, raised)
      PROVE  CloseInv'
  BY <1>5, FinishReports
<1>6. CASE ClockTick  BY <1>6 DEF ClockTick, CloseInv
<1>7. CASE UNCHANGED connVars  BY <1>7 DEF connVars, CloseInv
<1> QED  BY <1>1, <1>2, <1>3, <1>4, <1>5, <1>6, <1>7 DEF ConnNext

\* Every step leaves a ban that is not over as long as it was.
LEMMA BanStep ==
    ASSUME BanInv, CloseInv, [ConnNext]_connVars
    PROVE  BanInv' /\ BansHold
<1> USE ConnectionsAssumption
<1>1. CASE UNCHANGED <<banned_until, c_clock>>  BY <1>1 DEF BanInv, BansHold
<1>2. ASSUME NEW c \in Conns, NEW ban \in c_closing[c], NEW raised \in BOOLEAN,
             FinishClose(c, ban, raised)
      PROVE  BanInv' /\ BansHold
  <2>1. /\ banned_until' = [banned_until EXCEPT ![PeerOf[c]] = BannedUntil(PeerOf[c], ban)]
        /\ c_clock' = c_clock /\ ban \in Nat /\ PeerOf[c] \in Peers
    BY <1>2 DEF FinishClose, CloseInv
  <2>2. /\ BannedUntil(PeerOf[c], ban) \in Nat
        /\ BannedUntil(PeerOf[c], ban) >= banned_until[PeerOf[c]]
    BY <2>1 DEF BannedUntil, Later, BanInv
  <2> QED  BY <2>1, <2>2 DEF BanInv, BansHold
<1>3. CASE ClockTick  BY <1>3 DEF ClockTick, BanInv, BansHold
<1> QED
  BY <1>1, <1>2, <1>3 DEF ConnNext, connVars, Connect, HandshakeFails, HandshakeDone, BeginClose

\* A connection is taken off the table and its peer reported as gone once, and a
\* ban that is not over is never shortened, for any connections, peers and ban
\* times (close, connection_closed).
THEOREM ClosesOnce == ConnSpec => ConnectionsCloseOnce
<1>1. ConnInit => CloseInv /\ BanInv
  BY ConnectionsAssumption DEF ConnInit, CloseInv, BanInv
<1>2. CloseInv /\ BanInv /\ [ConnNext]_connVars => CloseInv' /\ BanInv' /\ BansHold
  BY CloseStep, BanStep
<1>3. CloseInv' => ClosedOnce'
  BY DEF CloseInv, ClosedOnce
<1>4. CloseInv /\ BanInv /\ [ConnNext]_connVars
      => [ /\ ClosedOnce'
           /\ \A p \in Peers : c_clock' < banned_until[p] => banned_until'[p] >= banned_until[p]
         ]_connVars
  BY <1>2, <1>3 DEF BansHold
<1> QED  BY <1>1, <1>2, <1>4, PTL DEF ConnSpec, ConnectionsCloseOnce

-----------------------------------------------------------------------------
(* The farmer.                                                             *)

SpsAt(cc) == {sp \in FSps : sp.cc = cc}

\* The times of a cache's entries, and an entry of a proof with that of its point.
InTime(times, now) == \A x \in DOMAIN times : times[x] \in Nat /\ times[x] <= now
Together(times, q) ==
    Has(times, q) /\ Has(times, ProofSp[q]) /\ times[q] <= times[ProofSp[q]]

\* The signage points kept under a hash have that hash, and there is one.
CachesTyped ==
    /\ f_now \in Nat
    /\ InTime(f_time, f_now)
    /\ \A cc \in DOMAIN f_sps : f_sps[cc] \in Seq(SpsAt(cc)) /\ f_sps[cc] # <<>>

\* Why a signable proof is complete: its signage point never expires before it.
KeptTogether ==
    \A q \in f_quality :
        q \in Qualities /\ q \in f_proofs /\ Has(f_sps, ProofSp[q]) /\ Together(f_time, q)

CountsBounded ==
    \A cc \in DOMAIN f_responses :
        f_responses[cc] \in Nat /\ f_responses[cc] <= MaxPosPerSp + Cardinality(SpsAt(cc))

\* What a signature is asked for and given: a block, or a signage point the proof
\* is good enough for.
ForGoodSp(q, what) == \E sp \in FSps : what = SpHashes(sp) /\ GoodFor(q, sp)

MessageGood(m) ==
    /\ m.kind = "challenge" => m.sp \in FSps
    /\ m.kind = "proof" => m.quality \in Qualities
    /\ m.kind \in {"sign", "signed"} =>
          m.quality \in Qualities /\ (m.what = Foliage \/ ForGoodSp(m.quality, m.what))

NetGood == \A m \in f_net : MessageGood(m)

DeclaredGood == \A d \in declared : d.quality \in Qualities /\ ForGoodSp(d.quality, d.sp)

FarmingInv == CachesTyped /\ KeptTogether /\ CountsBounded /\ NetGood /\ DeclaredGood

\* There are finitely many signage points of a hash, and those looked at for a
\* proof are among them.
LEMMA ConsideredFew ==
    ASSUME CachesTyped, NEW q \in Qualities, Has(f_sps, ProofSp[q])
    PROVE  /\ Considered(q) \subseteq SpsAt(ProofSp[q])
           /\ Cardinality(Considered(q)) \in Nat
           /\ Cardinality(Considered(q)) <= Cardinality(SpsAt(ProofSp[q]))
<1> DEFINE cc == ProofSp[q]
           all == f_sps[cc]
<1>1. all \in Seq(SpsAt(cc)) /\ all # <<>>  BY DEF CachesTyped, Has
<1> HIDE DEF all
<1>2. 1 \in DOMAIN all /\ \A i \in DOMAIN all : all[i] \in SpsAt(cc)
  <2> HIDE DEF cc
  <2> QED  BY <1>1
<1>3. Considered(q) = {all[i] : i \in IF Pooled(q) THEN {1} ELSE DOMAIN all}
  BY DEF Considered, all
<1>4. Considered(q) \subseteq SpsAt(cc)
  <2> HIDE DEF cc
  <2> QED  BY <1>2, <1>3
<1>5. IsFiniteSet(SpsAt(cc))
  BY FarmingAssumption, FS_Subset DEF SpsAt
<1>6. IsFiniteSet(Considered(q)) /\ Cardinality(Considered(q)) <= Cardinality(SpsAt(cc))
  BY <1>4, <1>5, FS_Subset
<1> QED  BY <1>4, <1>6, FS_CardinalityType

\* A proof's quality is no hash of a signage point.
LEMMA KeysApart ==
    ASSUME NEW q \in Qualities
    PROVE  /\ ProofSp[q] \in CcHashes
           /\ \A r \in Qualities : ProofSp[q] # r
BY FarmingAssumption
\* A signage point's entry can be renewed at any time.
LEMMA RenewPoint ==
    ASSUME NEW times, NEW now \in Nat, InTime(times, now), NEW cc \in CcHashes
    PROVE  /\ InTime(Put(times, cc, now), now)
           /\ \A r \in Qualities : Together(times, r) => Together(Put(times, cc, now), r)
<1> DEFINE t == Put(times, cc, now)
<1>1. /\ DOMAIN t = DOMAIN times \cup {cc} /\ t[cc] = now
      /\ \A y \in DOMAIN times : y # cc => t[y] = times[y]
  BY DEF Put
<1> HIDE DEF t
<1>2. InTime(t, now)  BY <1>1 DEF InTime
<1>3. ASSUME NEW r \in Qualities, Together(times, r) PROVE Together(t, r)
  <2>1. r # cc  BY FarmingAssumption
  <2>2. t[r] = times[r] /\ times[r] \in Nat /\ times[r] <= now /\ Has(t, r) /\ Has(t, ProofSp[r])
    BY <1>1, <1>3, <2>1 DEF Together, Has, InTime
  <2>3. CASE ProofSp[r] = cc  BY <1>1, <2>2, <2>3 DEF Together
  <2>4. CASE ProofSp[r] # cc  BY <1>1, <1>3, <2>2, <2>4 DEF Together, Has
  <2> QED  BY <2>3, <2>4
<1> QED  BY <1>2, <1>3 DEF t

\* A proof's entry is renewed with its signage point's.
LEMMA RenewProof ==
    ASSUME NEW times, InTime(times, f_now), f_now \in Nat, NEW q \in Qualities
    PROVE  /\ InTime(KeepProof(q, times), f_now)
           /\ Together(KeepProof(q, times), q)
           /\ \A r \in Qualities : Together(times, r) => Together(KeepProof(q, times), r)
<1> DEFINE t == Put(times, ProofSp[q], f_now)
           u == Put(t, q, f_now)
<1>1. /\ InTime(t, f_now)
      /\ \A r \in Qualities : Together(times, r) => Together(t, r)
  BY RenewPoint, KeysApart
<1>2. ProofSp[q] \in DOMAIN t /\ t[ProofSp[q]] = f_now
  BY DEF Put
<1> HIDE DEF t
<1>3. /\ DOMAIN u = DOMAIN t \cup {q} /\ u[q] = f_now
      /\ \A y \in DOMAIN t : y # q => u[y] = t[y]
  BY DEF Put
<1>4. KeepProof(q, times) = u  BY DEF KeepProof, t
<1> HIDE DEF u
<1>5. InTime(u, f_now)  BY <1>1, <1>3 DEF InTime
<1>6. Together(u, q)
  BY <1>2, <1>3, KeysApart DEF Together, Has
<1>7. ASSUME NEW r \in Qualities, Together(times, r) PROVE Together(u, r)
  <2>1. Together(t, r) /\ ProofSp[r] # q  BY <1>1, <1>7, KeysApart
  <2>2. CASE r = q  BY <2>2, <1>6
  <2>3. CASE r # q  BY <2>1, <2>3, <1>3 DEF Together, Has
  <2> QED  BY <2>2, <2>3
<1> QED  BY <1>4, <1>5, <1>6, <1>7

\* new_signage_point adds a point under its hash.
LEMMA PointStep ==
    ASSUME FarmingInv, NEW sp \in FSps, NewSignagePoint(sp)
    PROVE  FarmingInv'
<1> DEFINE have == IF Has(f_sps, sp.cc) THEN f_sps[sp.cc] ELSE <<>>
           known == sp \in {have[i] : i \in DOMAIN have}
           S == SpsAt(sp.cc)
           longer == Append(have, sp)
           sps == Put(f_sps, sp.cc, longer)
           times == Put(f_time, sp.cc, f_now)
<1>1. /\ f_net' = f_net \cup ToHarvester({ChallengeMsg(sp)})
      /\ f_sps' = IF known THEN f_sps ELSE sps
      /\ f_time' = IF known THEN f_time ELSE times
      /\ UNCHANGED <<f_now, f_responses, f_proofs, f_quality, declared>>
  BY DEF NewSignagePoint
<1>2. sp.cc \in CcHashes  BY DEF CcHashes
<1>3. /\ InTime(times, f_now)
      /\ \A r \in Qualities : Together(f_time, r) => Together(times, r)
  BY <1>2, RenewPoint DEF FarmingInv, CachesTyped
<1>4. longer \in Seq(S) /\ longer # <<>>
  <2>1. have \in Seq(S)
    <3>1. CASE Has(f_sps, sp.cc)  BY <3>1 DEF FarmingInv, CachesTyped, Has
    <3>2. CASE ~Has(f_sps, sp.cc)
      <4> HIDE DEF S
      <4> QED  BY <3>2
    <3> QED  BY <3>1, <3>2
  <2>2. sp \in S  BY DEF SpsAt
  <2> HIDE DEF have, S
  <2>3. longer \in Seq(S)  BY <2>1, <2>2
  <2>4. Len(longer) = Len(have) + 1 /\ Len(have) \in Nat  BY <2>1, <2>2
  <2>5. longer # <<>>
    <3> HIDE DEF longer
    <3> QED  BY <2>4
  <2> QED  BY <2>3, <2>5
<1> HIDE DEF longer
<1>5. /\ DOMAIN sps = DOMAIN f_sps \cup {sp.cc} /\ sps[sp.cc] = longer
      /\ \A y \in DOMAIN f_sps : y # sp.cc => sps[y] = f_sps[y]
  BY DEF Put
<1> HIDE DEF known, sps, times
<1>6. \A cc \in DOMAIN sps : sps[cc] \in Seq(SpsAt(cc)) /\ sps[cc] # <<>>
  <2> SUFFICES ASSUME NEW cc \in DOMAIN sps
               PROVE  sps[cc] \in Seq(SpsAt(cc)) /\ sps[cc] # <<>>
    OBVIOUS
  <2>1. CASE cc = sp.cc  BY <2>1, <1>4, <1>5
  <2>2. CASE cc # sp.cc  BY <2>2, <1>5 DEF FarmingInv, CachesTyped
  <2> QED  BY <2>1, <2>2
<1>7. CachesTyped'
  <2>1. CASE known  BY <2>1, <1>1 DEF FarmingInv, CachesTyped, InTime
  <2>2. CASE ~known
    <3>1. f_sps' = sps /\ f_time' = times /\ f_now' = f_now  BY <2>2, <1>1
    <3> QED  BY <3>1, <1>3, <1>6 DEF FarmingInv, CachesTyped
  <2> QED  BY <2>1, <2>2
<1>8. KeptTogether'
  <2>1. CASE known  BY <2>1, <1>1 DEF FarmingInv, KeptTogether, Has, Together
  <2>2. CASE ~known
    <3>1. f_sps' = sps /\ f_time' = times /\ f_proofs' = f_proofs /\ f_quality' = f_quality
      BY <2>2, <1>1
    <3> QED  BY <3>1, <1>3, <1>5 DEF FarmingInv, KeptTogether, Has
  <2> QED  BY <2>1, <2>2
<1>9. NetGood'
  BY <1>1 DEF FarmingInv, NetGood, ToHarvester, ChallengeMsg, MessageGood
<1> QED  BY <1>1, <1>7, <1>8, <1>9 DEF FarmingInv, CountsBounded, DeclaredGood

\* new_proof_of_space counts the answer, and a proof that is good enough is kept
\* with its signage point.
LEMMA ProofStep ==
    ASSUME FarmingInv, NEW m \in f_net, NewProofOfSpace(m)
    PROVE  FarmingInv'
<1> DEFINE q == m.quality
           cc == ProofSp[q]
           times == IF Has(f_responses, cc) THEN f_time ELSE Put(f_time, cc, f_now)
           good == GoodSps(q)
           kept == KeepProof(q, times)
           counts(n) == Put(f_responses, cc, n)
<1>1. m.kind = "proof" /\ UNCHANGED <<f_now, f_sps, declared>>  BY DEF NewProofOfSpace
<1>2. q \in Qualities  BY <1>1 DEF FarmingInv, NetGood, MessageGood
<1>3. f_now \in Nat /\ InTime(f_time, f_now) /\ cc \in CcHashes
  BY <1>2, KeysApart DEF FarmingInv, CachesTyped
<1>4. /\ InTime(times, f_now)
      /\ \A r \in Qualities : Together(f_time, r) => Together(times, r)
  <2>1. CASE Has(f_responses, cc)  BY <1>3, <2>1
  <2>2. CASE ~Has(f_responses, cc)  BY <1>3, <2>2, RenewPoint
  <2> QED  BY <2>1, <2>2
<1>5. DeclaredGood'  BY <1>1 DEF FarmingInv, DeclaredGood
<1>6. /\ Count(q) \in Nat /\ Count(q) <= MaxPosPerSp + Cardinality(SpsAt(cc))
      /\ Cardinality(SpsAt(cc)) \in Nat
  <2>1. Cardinality(SpsAt(cc)) \in Nat
    BY FarmingAssumption, FS_Subset, FS_CardinalityType DEF SpsAt
  <2> QED  BY <2>1, FarmingAssumption DEF FarmingInv, CountsBounded, Count, Has
<1>7. ASSUME NEW n \in Nat, n <= MaxPosPerSp + Cardinality(SpsAt(cc)), f_responses' = counts(n)
      PROVE  CountsBounded'
  <2>1. /\ DOMAIN f_responses' = DOMAIN f_responses \cup {cc} /\ f_responses'[cc] = n
        /\ \A y \in DOMAIN f_responses : y # cc => f_responses'[y] = f_responses[y]
    BY <1>7 DEF Put
  <2> HIDE DEF cc
  <2> QED  BY <2>1, <1>7 DEF FarmingInv, CountsBounded
<1>8. CASE TooMany(q) \/ ~Has(f_sps, cc)
  <2>1. /\ f_responses' = counts(Count(q)) /\ f_time' = times
        /\ f_net' = f_net \ {m} /\ UNCHANGED <<f_proofs, f_quality>>
    BY <1>8 DEF NewProofOfSpace
  <2>2. CountsBounded'  BY <2>1, <1>6, <1>7
  <2> HIDE DEF times, q, cc
  <2>3. CachesTyped'  BY <1>1, <1>4, <2>1 DEF FarmingInv, CachesTyped
  <2>4. KeptTogether'  BY <1>1, <1>4, <2>1 DEF FarmingInv, KeptTogether
  <2>5. NetGood'  BY <2>1 DEF FarmingInv, NetGood
  <2> QED  BY <1>5, <2>2, <2>3, <2>4, <2>5 DEF FarmingInv
<1>9. CASE ~(TooMany(q) \/ ~Has(f_sps, cc))
  <2>1. /\ f_responses' = counts(Count(q) + Cardinality(Considered(q)))
        /\ f_net' = (f_net \ {m}) \cup {SignMsg(q, SpHashes(sp)) : sp \in good}
        /\ f_proofs' = IF good = {} THEN f_proofs ELSE f_proofs \cup {q}
        /\ f_quality' = IF good = {} THEN f_quality ELSE f_quality \cup {q}
        /\ f_time' = IF good = {} THEN times ELSE kept
    BY <1>9 DEF NewProofOfSpace
  <2>2. /\ Considered(q) \subseteq SpsAt(cc) /\ Cardinality(Considered(q)) \in Nat
        /\ Cardinality(Considered(q)) <= Cardinality(SpsAt(cc))
    BY <1>2, <1>9, ConsideredFew DEF FarmingInv
  <2>3. CountsBounded'
    <3> DEFINE n == Count(q) + Cardinality(Considered(q))
    <3>1. n \in Nat /\ n <= MaxPosPerSp + Cardinality(SpsAt(cc))
      BY <1>6, <1>9, <2>2, FarmingAssumption DEF TooMany
    <3> HIDE DEF n
    <3> QED  BY <3>1, <2>1, <1>7 DEF n
  <2>4. /\ InTime(kept, f_now) /\ Together(kept, q)
        /\ \A r \in Qualities : Together(times, r) => Together(kept, r)
    BY <1>2, <1>3, <1>4, RenewProof
  <2>5. \A sp \in good : sp \in FSps /\ GoodFor(q, sp)
    BY <2>2 DEF GoodSps, SpsAt
  <2> HIDE DEF kept, times, good
  <2>6. CachesTyped'
    BY <1>1, <1>4, <2>1, <2>4 DEF FarmingInv, CachesTyped
  <2>7. KeptTogether'
    <3>1. ASSUME NEW r \in f_quality'
          PROVE  r \in Qualities /\ r \in f_proofs' /\ Has(f_sps', ProofSp[r])
      BY <1>1, <1>2, <1>9, <2>1 DEF FarmingInv, KeptTogether
    <3>2. ASSUME NEW r \in f_quality' PROVE Together(f_time', r)
      BY <1>4, <2>1, <2>4 DEF FarmingInv, KeptTogether
    <3> QED  BY <3>1, <3>2 DEF KeptTogether
  <2>8. NetGood'
    <3>1. ASSUME NEW sp \in good PROVE MessageGood(SignMsg(q, SpHashes(sp)))
      BY <1>2, <2>5 DEF MessageGood, SignMsg, ForGoodSp
    <3> QED  BY <2>1, <3>1 DEF FarmingInv, NetGood
  <2> QED  BY <1>5, <2>3, <2>6, <2>7, <2>8 DEF FarmingInv
<1> QED  BY <1>8, <1>9

\* The cleaning task: a proof whose signage point expires expires with it.
LEMMA ClearStep == ASSUME FarmingInv, ClearCache PROVE FarmingInv'
<1>1. /\ f_now' = f_now + 1
      /\ f_sps' = Drop(f_sps, Expired) /\ f_responses' = Drop(f_responses, Expired)
      /\ f_proofs' = {q \in f_proofs : ProofSp[q] \notin Expired}
      /\ f_quality' = f_quality \ Expired /\ f_time' = Drop(f_time, Expired)
      /\ UNCHANGED <<f_net, declared>>
  BY DEF ClearCache, linkVars
<1>2. /\ DOMAIN f_sps' = DOMAIN f_sps \ Expired
      /\ \A y \in DOMAIN f_sps' : f_sps'[y] = f_sps[y]
  BY <1>1 DEF Drop
<1>3. /\ DOMAIN f_responses' = DOMAIN f_responses \ Expired
      /\ \A y \in DOMAIN f_responses' : f_responses'[y] = f_responses[y]
  BY <1>1 DEF Drop
<1>4. /\ DOMAIN f_time' = DOMAIN f_time \ Expired
      /\ \A y \in DOMAIN f_time' : f_time'[y] = f_time[y]
  BY <1>1 DEF Drop
<1>5. CachesTyped'
  <2>1. f_now' \in Nat /\ InTime(f_time', f_now')
    BY <1>1, <1>4 DEF FarmingInv, CachesTyped, InTime
  <2> QED  BY <2>1, <1>2 DEF FarmingInv, CachesTyped
<1>6. KeptTogether'
  <2> SUFFICES ASSUME NEW q \in f_quality'
               PROVE  /\ q \in Qualities /\ q \in f_proofs' /\ Has(f_sps', ProofSp[q])
                      /\ Together(f_time', q)
    BY DEF KeptTogether
  <2>1. /\ q \in Qualities /\ q \in f_proofs /\ Has(f_sps, ProofSp[q])
        /\ Together(f_time, q) /\ q \notin Expired
    BY <1>1 DEF FarmingInv, KeptTogether
  <2>2. ProofSp[q] \notin Expired
    <3>1. /\ q \in DOMAIN f_time /\ ProofSp[q] \in DOMAIN f_time
          /\ f_time[q] <= f_time[ProofSp[q]]
          /\ f_time[q] \in Nat /\ f_time[ProofSp[q]] \in Nat /\ f_now \in Nat
      BY <2>1 DEF Together, Has, FarmingInv, CachesTyped, InTime
    <3>2. ~(f_now + 1 - f_time[q] > KeepTime)  BY <2>1, <3>1 DEF Expired
    <3>3. ~(f_now + 1 - f_time[ProofSp[q]] > KeepTime)
      BY <3>1, <3>2, FarmingAssumption
    <3> QED  BY <3>3 DEF Expired
  <2> QED  BY <1>1, <1>2, <1>4, <2>1, <2>2 DEF Together, Has
<1>7. CountsBounded'  BY <1>3 DEF FarmingInv, CountsBounded
<1> QED  BY <1>1, <1>5, <1>6, <1>7 DEF FarmingInv, NetGood, DeclaredGood

\* The steps that only send and answer messages ask for and give signatures for
\* what the proof is good for, and declare nothing else.
LEMMA MessageStep ==
    ASSUME FarmingInv, UNCHANGED <<f_now, cacheVars>>, NetGood', DeclaredGood'
    PROVE  FarmingInv'
BY DEF FarmingInv, cacheVars, CachesTyped, KeptTogether, CountsBounded

\* Every step of farmer, harvester and nodes.
LEMMA FarmingStep == FarmingInv /\ [FarmingNext]_farmingVars => FarmingInv'
<1> SUFFICES ASSUME FarmingInv, [FarmingNext]_farmingVars PROVE FarmingInv'  OBVIOUS
<1> USE DEF FarmingInv
<1>1. ASSUME NEW sp \in FSps, NewSignagePoint(sp) PROVE FarmingInv'
  BY <1>1, PointStep
<1>2. ASSUME NEW m \in f_net, HarvestChallenge(m) PROVE FarmingInv'
  <2>1. /\ UNCHANGED <<f_now, cacheVars, declared>>
        /\ \A n \in f_net' : n \in f_net \/ \E q \in Qualities : n = ProofMsg(q)
    BY <1>2 DEF HarvestChallenge
  <2>2. NetGood'  BY <2>1 DEF NetGood, ProofMsg, MessageGood
  <2>3. DeclaredGood'  BY <2>1 DEF DeclaredGood
  <2> QED  BY <2>1, <2>2, <2>3, MessageStep
<1>3. ASSUME NEW m \in f_net, NewProofOfSpace(m) PROVE FarmingInv'
  BY <1>3, ProofStep
<1>4. ASSUME NEW m \in f_net, HarvesterSigns(m) PROVE FarmingInv'
  <2>1. /\ m.kind = "sign" /\ UNCHANGED <<f_now, cacheVars, declared>>
        /\ \A n \in f_net' : n \in f_net \/ n = SignedMsg(m.quality, m.what)
    BY <1>4 DEF HarvesterSigns
  <2>2. MessageGood(SignedMsg(m.quality, m.what))
    BY <2>1 DEF NetGood, MessageGood, SignedMsg
  <2>3. NetGood'  BY <2>1, <2>2 DEF NetGood
  <2>4. DeclaredGood'  BY <2>1 DEF DeclaredGood
  <2> QED  BY <2>1, <2>3, <2>4, MessageStep
<1>5. ASSUME NEW m \in f_net, RespondSignatures(m) PROVE FarmingInv'
  <2>1. /\ m.kind = "signed" /\ UNCHANGED <<f_now, cacheVars>> /\ f_net' \subseteq f_net
        /\ \A d \in declared' :
              d \in declared \/ (m.what # Foliage /\ d = [quality |-> m.quality, sp |-> m.what])
    BY <1>5 DEF RespondSignatures, LoseLink
  <2>2. m.quality \in Qualities /\ (m.what = Foliage \/ ForGoodSp(m.quality, m.what))
    BY <2>1 DEF NetGood, MessageGood
  <2>3. NetGood'  BY <2>1 DEF NetGood
  <2>4. DeclaredGood'  BY <2>1, <2>2 DEF DeclaredGood
  <2> QED  BY <2>1, <2>3, <2>4, MessageStep
<1>6. ASSUME NEW q \in Qualities, RequestSignedValues(q) PROVE FarmingInv'
  <2>1. /\ UNCHANGED <<f_now, cacheVars, declared>>
        /\ \A n \in f_net' : n \in f_net \/ n = SignMsg(q, Foliage)
    BY <1>6 DEF RequestSignedValues, ToHarvester
  <2>2. NetGood'  BY <2>1 DEF NetGood, SignMsg, MessageGood
  <2>3. DeclaredGood'  BY <2>1 DEF DeclaredGood
  <2> QED  BY <2>1, <2>2, <2>3, MessageStep
<1>7. CASE ClearCache  BY <1>7, ClearStep
<1>8. CASE /\ UNCHANGED <<f_now, cacheVars, declared>> /\ f_net' \subseteq f_net
  <2>1. NetGood' /\ DeclaredGood'  BY <1>8 DEF NetGood, DeclaredGood
  <2> QED  BY <1>8, <2>1, MessageStep
<1>9. CASE (\E p \in provers : LosePlot(p)) \/ Unplug \/ HarvesterHandshake
           \/ UNCHANGED farmingVars
  BY <1>8, <1>9 DEF LosePlot, Unplug, LoseLink, HarvesterHandshake, farmingVars, linkVars
<1> QED  BY <1>1, <1>2, <1>3, <1>4, <1>5, <1>6, <1>7, <1>9 DEF FarmingNext

\* Whatever expires when, however often signage points are announced and whatever
\* is lost, a proof the farmer would sign for has what the answer needs, is
\* declared only where it is good enough, and answers are counted up to the limit
\* (new_proof_of_space, respond_signatures, the cleaning task).
THEOREM ProofsUsable == FarmingSpec => []ProofsCanBeUsed
<1>1. FarmingInit => FarmingInv
  BY FarmingAssumption DEF FarmingInit, FarmingInv, CachesTyped, KeptTogether, CountsBounded,
     NetGood, DeclaredGood, Empty, InTime
<1>2. FarmingInv => ProofsCanBeUsed
  <2> SUFFICES ASSUME FarmingInv PROVE ProofsCanBeUsed  OBVIOUS
  <2>1. SignableProofsAreComplete
    BY DEF FarmingInv, KeptTogether, SignableProofsAreComplete
  <2>2. DeclaredAreGood  BY DEF FarmingInv, DeclaredGood, ForGoodSp, DeclaredAreGood
  <2>3. ProofsPerSpBounded  BY DEF FarmingInv, CountsBounded, SpsAt, ProofsPerSpBounded
  <2> QED  BY <2>1, <2>2, <2>3 DEF ProofsCanBeUsed
<1> QED  BY <1>1, <1>2, FarmingStep, PTL DEF FarmingSpec

-----------------------------------------------------------------------------
(* Compact proofs.                                                         *)

VdfNames == UNION {Vdfs[b] : b \in CBlocks}
Answers == [stage : {"idle", "lock", "write"}, block : CBlocks \cup {NoCBlock},
            vdf : VdfNames \cup {"none"}, peer : BOOLEAN, read : SUBSET VdfNames]

\* Whoever is about to write a block holds the lock, and the block on disk is still
\* as it was read.
ReadsCurrent ==
    /\ compact \in [CBlocks -> SUBSET VdfNames] /\ ctask \in [CTasks -> Answers]
    /\ tip \in CBlocks \cup {NoCBlock}
    /\ \A k \in CTasks :
          /\ ctask[k].stage # "idle" => tip # NoCBlock /\ ctask[k].vdf \in VdfNames
          /\ ctask[k].stage = "write" =>
                compact_lock = k /\ ctask[k].block \in CBlocks /\ ctask[k].read = compact[ctask[k].block]

\* What the scan has passed stays passed: it starts at most ScanBatch - 1 above the
\* window of some block that was the peak, and never above the peak.
ScanInv ==
    /\ stored \subseteq CBlocks /\ min_height \in Nat
    /\ tip = NoCBlock => min_height = 0
    /\ tip # NoCBlock =>
          /\ CPath[tip] \subseteq stored /\ min_height <= TipHeight
          /\ \E y \in stored : min_height + 1 <= WindowFrom(CHeight[y]) + ScanBatch
          /\ \A b \in CPath[tip] \ skipped : CHeight[b] < min_height => Wanted[b] \subseteq compact[b]

CompactGrows == \A b \in CBlocks : compact[b] \subseteq compact'[b]

\* A set of naturals has a least element.
LEMMA LeastNatural ==
    ASSUME NEW S, S \subseteq Nat, S # {}
    PROVE  Least(S) \in S /\ \A y \in S : Least(S) <= y
<1> DEFINE R == OpToRel(<, Nat)
<1>1. IsWellFoundedOn(R, Nat)  BY NatLessThanWellFounded
<1>2. PICK x \in S : \A y \in S : ~(<<y, x>> \in R)
  <2> HIDE DEF R
  <2> QED  BY <1>1, WFMin
<1>3. \A y \in S : <<y, x>> \in R <=> y < x  BY DEF OpToRel
<1> HIDE DEF R
<1>4. \A y \in S : ~(y < x)  BY <1>2, <1>3
<1>5. \A y \in S : x <= y  BY <1>4
<1> QED  BY <1>5 DEF Least

\* Answers are taken up, read and written: the lock keeps what was read current, so
\* that the write adds to it.
LEMMA CompactStep ==
    ASSUME ReadsCurrent, [CompactNext]_compactVars
    PROVE  ReadsCurrent' /\ CompactGrows
<1> USE CompactAssumption
<1>1. ASSUME NEW k \in CTasks, NEW b \in CBlocks, NEW v \in Vdfs[b],
             RespondCompactProofOfTime(k, b, v) \/ NewCompactVdf(k, b, v)
      PROVE  ReadsCurrent' /\ CompactGrows
  <2>1. v \in VdfNames  BY DEF VdfNames
  <2>2. PICK a \in Answers : ctask' = [ctask EXCEPT ![k] = a] /\ a.stage = "lock" /\ a.vdf = v
    <3>1. CASE RespondCompactProofOfTime(k, b, v)
      <4> DEFINE e == [NoAnswer EXCEPT !.stage = "lock"]
                 f == [e EXCEPT !.block = b]
                 g == [f EXCEPT !.vdf = v]
      <4>1. NoAnswer \in Answers  BY DEF NoAnswer, Answers
      <4>2. e \in Answers /\ e.stage = "lock"  BY <4>1 DEF Answers
      <4> HIDE DEF e
      <4>3. f \in Answers /\ f.stage = "lock"  BY <4>2 DEF Answers
      <4> HIDE DEF f
      <4>4. g \in Answers /\ g.stage = "lock" /\ g.vdf = v  BY <2>1, <4>3 DEF Answers
      <4>5. ctask' = [ctask EXCEPT ![k] = g]  BY <3>1 DEF RespondCompactProofOfTime, e, f
      <4> HIDE DEF g
      <4> QED  BY <4>4, <4>5
    <3>2. CASE NewCompactVdf(k, b, v)
      <4> DEFINE g == [stage |-> "lock", block |-> b, vdf |-> v, peer |-> TRUE, read |-> {}]
      <4>1. g \in Answers /\ g.stage = "lock" /\ g.vdf = v  BY <2>1 DEF Answers
      <4>2. ctask' = [ctask EXCEPT ![k] = g]  BY <3>2 DEF NewCompactVdf
      <4> HIDE DEF g
      <4> QED  BY <4>1, <4>2
    <3> QED  BY <1>1, <3>1, <3>2
  <2>3. UNCHANGED <<compact, compact_lock, tip>> /\ tip # NoCBlock
    BY <1>1 DEF RespondCompactProofOfTime, NewCompactVdf, CanAcceptCompactProof, OnChain
  <2> QED  BY <2>1, <2>2, <2>3 DEF ReadsCurrent, CompactGrows
<1>2. ASSUME NEW k \in CTasks, LockAndRead(k) PROVE ReadsCurrent' /\ CompactGrows
  <2> DEFINE t == ctask[k]
  <2>1. /\ t.stage = "lock" /\ compact_lock = NoCTask /\ UNCHANGED <<compact, tip>>
        /\ ReadBlock(k)
    BY <1>2 DEF LockAndRead
  <2>2. /\ t \in Answers /\ t.vdf \in VdfNames /\ tip \in CBlocks
        /\ \A j \in CTasks : ctask[j].stage # "write"
    BY <2>1 DEF ReadsCurrent
  <2>3. CASE ctask' = [ctask EXCEPT ![k] = NoAnswer] /\ UNCHANGED compact_lock
    BY <2>1, <2>2, <2>3 DEF ReadsCurrent, Answers, NoAnswer, CompactGrows
  <2>4. ASSUME NEW b \in CBlocks,
               ctask' = [ctask EXCEPT ![k] = [t EXCEPT !.stage = "write", !.block = b,
                                                      !.read = compact[b]]],
               compact_lock' = k
        PROVE  ReadsCurrent' /\ CompactGrows
    <3> DEFINE e == [t EXCEPT !.stage = "write"]
               f == [e EXCEPT !.block = b]
               g == [f EXCEPT !.read = compact[b]]
    <3>1. e \in Answers /\ e.stage = "write" /\ e.vdf = t.vdf  BY <2>2 DEF Answers
    <3> HIDE DEF e
    <3>2. f \in Answers /\ f.stage = "write" /\ f.vdf = t.vdf /\ f.block = b
      BY <3>1 DEF Answers
    <3> HIDE DEF f
    <3>3. /\ g \in Answers /\ g.stage = "write" /\ g.vdf = t.vdf /\ g.block = b
          /\ g.read = compact[b]
      BY <3>2 DEF Answers, ReadsCurrent
    <3>4. ctask' = [ctask EXCEPT ![k] = g]  BY <2>4 DEF e, f
    <3> HIDE DEF g
    <3> QED  BY <2>1, <2>2, <2>4, <3>3, <3>4 DEF ReadsCurrent, CompactGrows
  <2>5. AtHeight(CHeight[t.block]) \subseteq CBlocks
    BY <2>2 DEF AtHeight
  <2> QED  BY <2>1, <2>3, <2>4, <2>5 DEF ReadBlock
<1>3. ASSUME NEW k \in CTasks, WriteBlock(k) PROVE ReadsCurrent' /\ CompactGrows
  <2> DEFINE t == ctask[k]
  <2>1. /\ t.stage = "write" /\ UNCHANGED tip
        /\ compact' = [compact EXCEPT ![t.block] = t.read \cup {t.vdf}]
        /\ ctask' = [ctask EXCEPT ![k] = NoAnswer]
    BY <1>3 DEF WriteBlock
  <2>2. /\ t.block \in CBlocks /\ t.read = compact[t.block] /\ t.vdf \in VdfNames
        /\ \A j \in CTasks : ctask[j].stage = "write" => j = k
    BY <2>1 DEF ReadsCurrent
  <2>3. CompactGrows  BY <2>1, <2>2 DEF CompactGrows, ReadsCurrent
  <2>4. ReadsCurrent'
    <3>1. compact' \in [CBlocks -> SUBSET VdfNames]  BY <2>1, <2>2 DEF ReadsCurrent
    <3>2. ctask' \in [CTasks -> Answers] /\ \A j \in CTasks : ctask'[j].stage # "write"
      BY <2>1, <2>2 DEF ReadsCurrent, Answers, NoAnswer
    <3>3. \A j \in CTasks :
             ctask'[j].stage # "idle" => tip # NoCBlock /\ ctask'[j].vdf \in VdfNames
      BY <2>1 DEF ReadsCurrent, NoAnswer
    <3> QED  BY <2>1, <3>1, <3>2, <3>3 DEF ReadsCurrent
  <2> QED  BY <2>3, <2>4
<1>4. ASSUME NEW b \in CBlocks, NewTip(b) PROVE ReadsCurrent' /\ CompactGrows
  BY <1>4 DEF NewTip, ReadsCurrent, CompactGrows
<1>5. CASE ScanRound  BY <1>5 DEF ScanRound, ReadsCurrent, CompactGrows
<1>6. CASE UNCHANGED compactVars  BY <1>6 DEF compactVars, ReadsCurrent, CompactGrows
<1> QED  BY <1>1, <1>2, <1>3, <1>4, <1>5, <1>6 DEF CompactNext

\* Where the window starts.
LEMMA WindowFacts ==
    ASSUME NEW h \in Nat
    PROVE  WindowFrom(h) \in Nat /\ WindowFrom(h) <= h
BY CompactAssumption DEF WindowFrom

\* A new peak: what is not of the old chain is above what the scan has passed.
LEMMA TipStep ==
    ASSUME ReadsCurrent, ScanInv, NEW b \in CBlocks, NewTip(b)
    PROVE  ScanInv'
<1> USE CompactAssumption
<1>1. /\ tip' = b /\ stored' = stored \cup {b} /\ UNCHANGED <<compact, min_height, skipped>>
      /\ \A x \in CPath[b] : x = b \/ x \in stored
  BY DEF NewTip
<1>2. stored' \subseteq CBlocks /\ CPath[tip'] \subseteq stored' /\ b # NoCBlock
  BY <1>1 DEF ScanInv
<1>3. CASE tip = NoCBlock
  <2>1. min_height = 0 /\ CHeight[b] \in Nat  BY <1>3 DEF ScanInv
  <2>2. min_height + 1 <= WindowFrom(CHeight[b]) + ScanBatch
    BY <2>1, WindowFacts
  <2>3. \A x \in CPath[b] : ~(CHeight[x] < min_height)  BY <2>1
  <2> QED  BY <1>1, <1>2, <2>1, <2>2, <2>3 DEF ScanInv, TipHeight
<1>4. CASE tip # NoCBlock
  <2>1. /\ tip \in CBlocks /\ min_height \in Nat /\ min_height <= CHeight[tip]
        /\ stored \subseteq CBlocks
    BY <1>4 DEF ScanInv, ReadsCurrent, TipHeight
  <2>2. PICK y \in stored : min_height + 1 <= WindowFrom(CHeight[y]) + ScanBatch
    BY <1>4 DEF ScanInv
  <2>3. PICK x \in CPath[b] \cap CPath[tip] : x = tip \/ InWindow(x)
    BY <1>4 DEF NewTip
  <2>4. CHeight[x] \in Nat /\ CHeight[y] \in Nat /\ WindowFrom(CHeight[y]) \in Nat
    BY <2>1, <2>2, <2>3, WindowFacts
  <2>5. min_height <= CHeight[x] + 1
    BY <2>1, <2>2, <2>3, <2>4 DEF InWindow
  <2>6. ASSUME NEW z \in CPath[b], z \notin CPath[tip]
        PROVE  CHeight[z] \in Nat /\ CHeight[z] > CHeight[x]
    <3>1. CPath[x] = {w \in CPath[b] : CHeight[w] <= CHeight[x]}  BY <2>3
    <3>2. CPath[x] = {w \in CPath[tip] : CHeight[w] <= CHeight[x]}  BY <2>1, <2>3
    <3>3. ~(CHeight[z] <= CHeight[x])  BY <2>6, <3>1, <3>2
    <3>4. z \in CBlocks  OBVIOUS
    <3> QED  BY <2>4, <3>3, <3>4
  <2>7. ASSUME NEW z \in CPath[b] \ skipped, CHeight[z] < min_height PROVE Wanted[z] \subseteq compact'[z]
    <3>1. z \in CPath[tip]  BY <2>1, <2>4, <2>5, <2>6, <2>7
    <3> QED  BY <1>1, <1>4, <2>7, <3>1 DEF ScanInv
  <2>8. min_height <= CHeight[b]
    <3>1. b \notin CPath[tip]  BY <1>4 DEF ScanInv, NewTip
    <3>2. b \in CPath[b]  OBVIOUS
    <3>3. CHeight[b] \in Nat /\ CHeight[b] > CHeight[x]  BY <2>6, <3>1, <3>2
    <3> QED  BY <2>1, <2>4, <2>5, <3>3
  <2> QED  BY <1>1, <1>2, <2>1, <2>2, <2>7, <2>8 DEF ScanInv, TipHeight
<1> QED  BY <1>3, <1>4

\* A round of the scan passes only blocks that have what is wanted, and those it skips.
LEMMA ScanStep == ASSUME ReadsCurrent, ScanInv, ScanRound PROVE ScanInv'
<1> USE CompactAssumption
<1> DEFINE unfinishedFrom == NotCompactifiedFrom(min_height)
           from == Least({WindowStart} \cup unfinishedFrom)
           missing == {b \in CPath[tip] : CHeight[b] >= from /\ ~(Wanted[b] \subseteq compact[b])}
           first == Least({CHeight[b] : b \in missing})
           batch == from + ScanBatch * ((first - from) \div ScanBatch)
           ahead == missing # {} /\ batch <= WindowStart /\ batch < TipHeight
<1>1. /\ tip # NoCBlock /\ UNCHANGED <<stored, tip, compact>>
      /\ \/ min_height' = min_height /\ skipped' = skipped
         \/ ahead /\ \E b \in missing :
               /\ CHeight[b] < batch + ScanBatch /\ min_height' = CHeight[b]
               /\ skipped' = skipped \cup {x \in missing : CHeight[x] < CHeight[b]}
         \/ ~ahead /\ min_height' = WindowStart /\ skipped' = skipped
  BY DEF ScanRound
<1>2. /\ tip \in CBlocks /\ CPath[tip] \subseteq CBlocks /\ CPath[tip] \subseteq stored
      /\ stored \subseteq CBlocks /\ TipHeight \in Nat /\ min_height \in Nat
      /\ tip \in stored
  BY <1>1 DEF ReadsCurrent, ScanInv, TipHeight
<1>3. WindowStart \in Nat /\ WindowStart <= TipHeight
  BY <1>2, WindowFacts DEF WindowStart
<1>4. unfinishedFrom \subseteq Nat  BY <1>2 DEF NotCompactifiedFrom, Uncompact
<1>5. from \in Nat /\ from <= WindowStart /\ \A h \in unfinishedFrom : from <= h
  <2> DEFINE S == {WindowStart} \cup unfinishedFrom
  <2>1. S \subseteq Nat /\ S # {}  BY <1>3, <1>4
  <2>2. WindowStart \in S /\ \A h \in unfinishedFrom : h \in S  OBVIOUS
  <2> HIDE DEF S
  <2>3. Least(S) \in S /\ \A h \in S : Least(S) <= h  BY <2>1, LeastNatural
  <2>4. from = Least(S)  BY DEF S
  <2> QED  BY <2>1, <2>2, <2>3, <2>4
<1> HIDE DEF from
<1>6. missing # {} =>
         /\ first \in Nat /\ first <= TipHeight /\ from <= first
         /\ \A b \in missing : first <= CHeight[b]
  <2> SUFFICES ASSUME missing # {}
               PROVE  /\ first \in Nat /\ first <= TipHeight /\ from <= first
                      /\ \A b \in missing : first <= CHeight[b]
    OBVIOUS
  <2> DEFINE S == {CHeight[b] : b \in missing}
  <2>1. S \subseteq Nat /\ S # {}  BY <1>2
  <2>2. Least(S) \in S /\ \A h \in S : Least(S) <= h
    <3> HIDE DEF S
    <3> QED  BY <2>1, LeastNatural
  <2>3. PICK b \in missing : first = CHeight[b]  BY <2>2
  <2>4. b \in CPath[tip] /\ CHeight[b] >= from /\ CHeight[b] <= CHeight[tip]
    <3>1. CPath[tip] = {y \in CPath[tip] : CHeight[y] <= CHeight[tip]}  BY <1>2
    <3> QED  BY <3>1
  <2>5. \A c \in missing : first <= CHeight[c]  BY <2>2
  <2> HIDE DEF first, missing
  <2> QED  BY <1>2, <1>5, <2>3, <2>4, <2>5 DEF TipHeight
<1>7. missing # {} => /\ batch \in Int /\ batch <= first /\ first < batch + ScanBatch
  <2> SUFFICES ASSUME missing # {}
               PROVE  batch \in Int /\ batch <= first /\ first < batch + ScanBatch
    OBVIOUS
  <2>1. first \in Nat /\ from \in Nat  BY <1>5, <1>6
  <2> HIDE DEF first
  <2> DEFINE d == first - from
             q == d \div ScanBatch
  <2>2. /\ q \in Int /\ ScanBatch * q <= first - from
        /\ first - from < ScanBatch * q + ScanBatch
    <3>1. d \in Int  BY <2>1
    <3> HIDE DEF d
    <3>2. q \in Int /\ ScanBatch * q <= d /\ d < ScanBatch * q + ScanBatch  BY <3>1
    <3> HIDE DEF q
    <3> QED  BY <3>2 DEF d
  <2> HIDE DEF q
  <2>3. ScanBatch * q \in Int  BY <2>2
  <2>4. batch = from + ScanBatch * q  BY DEF q
  <2> QED  BY <2>1, <2>2, <2>3, <2>4
<1> HIDE DEF first, batch
<1>8. CASE min_height' = min_height /\ skipped' = skipped
  BY <1>1, <1>2, <1>8 DEF ScanInv, TipHeight
<1>9. ASSUME NEW b \in CPath[tip] \ skipped, CHeight[b] < min_height \/ b \notin missing
      PROVE  Wanted[b] \subseteq compact[b]
  <2>0. b \in stored /\ b \in CBlocks /\ CHeight[b] \in Nat  BY <1>2
  <2>1. CASE CHeight[b] < min_height  BY <1>1, <2>1 DEF ScanInv
  <2>2. CASE CHeight[b] >= min_height /\ b \notin missing
    <3>1. CASE CHeight[b] < from
      <4>1. CHeight[b] \notin unfinishedFrom  BY <1>5, <2>0, <3>1
      <4>2. FullyCompact(b)
        BY <2>0, <2>2, <4>1 DEF NotCompactifiedFrom, Uncompact
      <4> QED  BY <2>0, <4>2 DEF FullyCompact
    <3>2. CASE CHeight[b] >= from  BY <2>2, <3>2
    <3> QED  BY <1>5, <2>0, <3>1, <3>2
  <2> QED  BY <1>2, <1>9, <2>0, <2>1, <2>2
<1>10. ASSUME NEW e \in missing, ahead, CHeight[e] < batch + ScanBatch, min_height' = CHeight[e],
              skipped' = skipped \cup {x \in missing : CHeight[x] < CHeight[e]}
       PROVE  ScanInv'
  <2>1. CHeight[e] \in Nat /\ CHeight[e] <= TipHeight /\ e \in CPath[tip]
    <3>1. CPath[tip] = {y \in CPath[tip] : CHeight[y] <= CHeight[tip]}  BY <1>2
    <3> QED  BY <1>2, <3>1 DEF TipHeight
  <2>2. batch \in Int /\ batch <= WindowStart  BY <1>7, <1>10
  <2>3. /\ min_height' \in Nat /\ min_height' <= TipHeight
        /\ min_height' + 1 <= WindowFrom(CHeight[tip]) + ScanBatch
    BY <1>3, <1>10, <2>1, <2>2 DEF WindowStart, TipHeight
  <2>4. \A b \in CPath[tip] \ skipped' : CHeight[b] < min_height' => Wanted[b] \subseteq compact[b]
    <3> SUFFICES ASSUME NEW b \in CPath[tip] \ skipped', CHeight[b] < min_height'
                 PROVE  Wanted[b] \subseteq compact[b]
      OBVIOUS
    <3> HIDE DEF missing
    <3>1. b \notin missing /\ b \notin skipped  BY <1>10
    <3> QED  BY <1>9, <3>1
  <2> QED  BY <1>1, <1>2, <2>3, <2>4 DEF ScanInv, TipHeight
<1>11. CASE ~ahead /\ min_height' = WindowStart /\ skipped' = skipped
  <2>1. /\ min_height' \in Nat /\ min_height' <= TipHeight
        /\ min_height' + 1 <= WindowFrom(CHeight[tip]) + ScanBatch
    BY <1>3, <1>11 DEF WindowStart, TipHeight
  <2>2. \A b \in CPath[tip] \ skipped : CHeight[b] < min_height' => Wanted[b] \subseteq compact[b]
    <3> SUFFICES ASSUME NEW b \in CPath[tip] \ skipped, CHeight[b] < WindowStart
                 PROVE  Wanted[b] \subseteq compact[b]
      BY <1>11
    <3>1. b \notin missing
      <4>1. missing # {} => batch > WindowStart \/ batch >= TipHeight
        <5> HIDE DEF missing
        <5> QED  BY <1>2, <1>3, <1>7, <1>11
      <4> HIDE DEF missing
      <4>2. missing # {} => first >= WindowStart  BY <1>2, <1>3, <1>6, <1>7, <4>1
      <4>3. CHeight[b] \in Nat  BY <1>2
      <4> QED  BY <1>3, <1>6, <4>2, <4>3
    <3> QED  BY <1>9, <3>1
  <2> QED  BY <1>1, <1>2, <2>1, <2>2 DEF ScanInv, TipHeight
<1> HIDE DEF ahead, missing
<1> QED  BY <1>1, <1>8, <1>10, <1>11

\* No block loses a compact proof, and the scan leaves nothing behind but what it skips
\* for a cached block, for any tree of blocks, any number of answers and any window and
\* batch (_replace_proof, broadcast_uncompact_blocks).
THEOREM CompactionAdds == CompactSpec => CompactionOnlyAdds
<1> DEFINE Inv == ReadsCurrent /\ ScanInv
<1>1. CompactInit => Inv
  <2> SUFFICES ASSUME CompactInit PROVE Inv  OBVIOUS
  <2>1. ReadsCurrent
    BY CompactAssumption DEF CompactInit, ReadsCurrent, Answers, NoAnswer
  <2>2. ScanInv  BY DEF CompactInit, ScanInv
  <2> QED  BY <2>1, <2>2
<1>2. Inv /\ [CompactNext]_compactVars => Inv' /\ CompactGrows
  <2> SUFFICES ASSUME Inv, [CompactNext]_compactVars PROVE Inv' /\ CompactGrows  OBVIOUS
  <2>1. ReadsCurrent' /\ CompactGrows  BY CompactStep
  <2>2. CASE \E b \in CBlocks : NewTip(b)  BY <2>1, <2>2, TipStep
  <2>3. CASE ScanRound  BY <2>1, <2>3, ScanStep
  <2>4. CASE UNCHANGED <<stored, tip, min_height, skipped>>
    <3>1. \A b \in CBlocks : Wanted[b] \subseteq compact[b] => Wanted[b] \subseteq compact'[b]
      BY <2>1 DEF CompactGrows
    <3>2. tip # NoCBlock => CPath[tip] \subseteq CBlocks
      BY CompactAssumption DEF ReadsCurrent
    <3>3. ScanInv'  BY <2>4, <3>1, <3>2 DEF ScanInv, TipHeight
    <3> QED  BY <2>1, <3>3
  <2>5. CASE (\E k \in CTasks : LockAndRead(k) \/ WriteBlock(k)
                \/ \E b \in CBlocks : \E v \in Vdfs[b] :
                       RespondCompactProofOfTime(k, b, v) \/ NewCompactVdf(k, b, v))
             \/ UNCHANGED compactVars
    BY <2>4, <2>5 DEF LockAndRead, WriteBlock, RespondCompactProofOfTime, NewCompactVdf,
       compactVars
  <2> QED  BY <2>1, <2>2, <2>3, <2>5 DEF CompactNext
<1>3. Inv' => NothingBelowTheScan'
  BY DEF ScanInv, NothingBelowTheScan
<1>4. Inv /\ [CompactNext]_compactVars
      => [(\A b \in CBlocks : compact[b] \subseteq compact'[b]) /\ NothingBelowTheScan']_compactVars
  BY <1>2, <1>3 DEF CompactGrows
<1> HIDE DEF Inv
<1> QED  BY <1>1, <1>2, <1>4, PTL DEF CompactSpec, CompactionOnlyAdds

-----------------------------------------------------------------------------
(* Addresses.                                                              *)

\* The tables are a record of nine parts.
PartNames ==
    {"info", "addr", "random", "newTable", "tried", "newCount", "triedCount", "idCount", "collisions"}
IsTables(t) == DOMAIN t = PartNames
HasParts(t, info, addr, random, newTable, tried, newCount, triedCount, idCount, collisions) ==
    /\ IsTables(t)
    /\ t.info = info /\ t.addr = addr /\ t.random = random /\ t.newTable = newTable /\ t.tried = tried
    /\ t.newCount = newCount /\ t.triedCount = triedCount /\ t.idCount = idCount
    /\ t.collisions = collisions

Infos == [host : Hosts, port : Ports, src : Sources, tried : BOOLEAN, refs : Nat, pos : Nat]

EntriesTyped(t) ==
    /\ t.idCount \in Nat /\ Entries(t) \subseteq 0 .. t.idCount /\ IsFiniteSet(Entries(t))
    /\ t.info \in [Entries(t) -> Infos]
    /\ t.collisions \subseteq 0 .. t.idCount

\* The index has each entry under its host, and nothing else.
Indexed(t) ==
    /\ \A i \in Entries(t) : t.addr[t.info[i].host] = i
    /\ DOMAIN t.addr = {t.info[i].host : i \in Entries(t)}

\* The list has each entry once, where the entry says.
Shuffled(t) ==
    /\ t.random \in Seq(Nat) /\ Len(t.random) = Cardinality(Entries(t))
    /\ \A i \in Entries(t) : t.info[i].pos \in 1 .. Len(t.random) /\ t.random[t.info[i].pos] = i
    /\ \A p \in 1 .. Len(t.random) : t.random[p] \in Entries(t) /\ t.info[t.random[p]].pos = p

References(t) ==
    /\ t.newTable \in [NewSlots -> Entries(t) \cup {Free}]
    /\ \A i \in Entries(t) : /\ t.info[i].refs = Cardinality(RefsOf(t, i))
                             /\ t.info[i].refs <= NewBucketsPerAddress

TriedPlaces(t) ==
    /\ t.tried \in [TriedSlots -> Entries(t) \cup {Free}]
    /\ \A i \in Entries(t) : t.info[i].tried <=> t.tried[TriedSlotOf[t.info[i].host]] = i
    /\ \A s \in TriedSlots : t.tried[s] # Free => TriedSlotOf[t.info[t.tried[s]].host] = s

\* Entries are in one of the tables; those of loose, while an operation moves them,
\* in none.
InOneTable(t, loose) ==
    \A i \in Entries(t) : /\ i \in loose => t.info[i].refs = 0 /\ ~t.info[i].tried
                          /\ i \notin loose => (t.info[i].tried <=> t.info[i].refs = 0)

NewOnes(t) == {i \in Entries(t) : ~t.info[i].tried}
TriedOnes(t) == {i \in Entries(t) : t.info[i].tried}

\* The counts; uncounted is how many entries left one table and are not yet counted
\* in the other, less those counted that are lost.
Counted(t, uncounted) ==
    /\ t.newCount = Cardinality(NewOnes(t)) - uncounted
    /\ t.triedCount = Cardinality(TriedOnes(t))

TablesInv(t, loose, uncounted) ==
    /\ IsTables(t) /\ EntriesTyped(t) /\ Indexed(t) /\ Shuffled(t) /\ References(t)
    /\ TriedPlaces(t) /\ InOneTable(t, loose) /\ Counted(t, uncounted)

AddressInv == lost \in Nat /\ TablesInv(am, {}, 0 - lost) /\ CollisionsHaveOwners

\* What is left alone when entries go.
Shrinks(t, u) ==
    /\ Entries(u) \subseteq Entries(t)
    /\ \A k \in Entries(u) :
          u.info[k].host = t.info[k].host /\ u.info[k].src = t.info[k].src /\ u.info[k].port = t.info[k].port
    /\ u.tried = t.tried /\ u.collisions = t.collisions /\ u.idCount = t.idCount

\* The parts of the tables after each of the primitive operations.
LEMMA CreateParts ==
    ASSUME NEW t, IsTables(t), NEW h, NEW port, NEW src
    PROVE  HasParts(Create(t, h, port, src),
               Adding(t.info, t.idCount + 1,
                      [host |-> h, port |-> port, src |-> src, tried |-> FALSE, refs |-> 0,
                       pos |-> Len(t.random) + 1]),
               Adding(t.addr, h, t.idCount + 1), Append(t.random, t.idCount + 1),
               t.newTable, t.tried, t.newCount + 1, t.triedCount, t.idCount + 1, t.collisions)
BY DEF IsTables, HasParts, PartNames, Create

\* swap_random_ changes two places of the list and what their entries say of them.
LEMMA SwapParts ==
    ASSUME NEW t, IsTables(t), NEW p, NEW q
    PROVE  HasParts(Swap(t, p, q),
               [k \in Entries(t) |->
                  [t.info[k] EXCEPT !.pos = IF k = t.random[q] THEN p
                                            ELSE IF k = t.random[p] THEN q ELSE t.info[k].pos]],
               t.addr, [t.random EXCEPT ![p] = t.random[q], ![q] = t.random[p]],
               t.newTable, t.tried, t.newCount, t.triedCount, t.idCount, t.collisions)
BY DEF IsTables, HasParts, PartNames, Swap, Entries

\* delete_new_entry_ takes the entry out of the index, the list and the map.
LEMMA DeleteParts ==
    ASSUME NEW t, IsTables(t), NEW i
    PROVE  LET u == Swap(t, t.info[i].pos, Len(t.random))
           IN  HasParts(DeleteNewEntry(t, i),
                   Except(u.info, i), Except(u.addr, t.info[i].host), Front(u.random),
                   u.newTable, u.tried, u.newCount - 1, u.triedCount, u.idCount, u.collisions)
<1> DEFINE u == Swap(t, t.info[i].pos, Len(t.random))
<1>1. IsTables(u)  BY SwapParts DEF HasParts
<1>2. DeleteNewEntry(t, i) = [u EXCEPT !.random = Front(u.random), !.addr = Except(u.addr, t.info[i].host),
                                       !.info = Except(u.info, i), !.newCount = u.newCount - 1]
  BY DEF DeleteNewEntry
<1> HIDE DEF u
<1> QED  BY <1>1, <1>2 DEF IsTables, HasParts, PartNames, u

WithTried(entry, b) == [entry EXCEPT !.tried = b]

\* One reference to the entry in a slot is dropped, and one is made.
Unreferenced(t, s) == [t EXCEPT !.newTable[s] = Free, !.info[t.newTable[s]].refs = @ - 1]
Referenced(t, i, s) == [t EXCEPT !.info[i].refs = @ + 1, !.newTable[s] = i]

\* A slot of the new table is freed.
LEMMA UnreferencedParts ==
    ASSUME NEW t, IsTables(t), NEW s
    PROVE  HasParts(Unreferenced(t, s),
               [t.info EXCEPT ![t.newTable[s]] =
                  [t.info[t.newTable[s]] EXCEPT !.refs = t.info[t.newTable[s]].refs - 1]],
               t.addr, t.random, [t.newTable EXCEPT ![s] = Free], t.tried, t.newCount, t.triedCount,
               t.idCount, t.collisions)
BY DEF IsTables, HasParts, PartNames, Unreferenced

\* A slot of the new table is given to an entry.
LEMMA ReferencedParts ==
    ASSUME NEW t, IsTables(t), NEW s, NEW i
    PROVE  HasParts(Referenced(t, i, s),
               [t.info EXCEPT ![i] = [t.info[i] EXCEPT !.refs = t.info[i].refs + 1]],
               t.addr, t.random, [t.newTable EXCEPT ![s] = i], t.tried, t.newCount, t.triedCount,
               t.idCount, t.collisions)
BY DEF IsTables, HasParts, PartNames, Referenced

\* The steps of make_tried_: out of the new table, out of the tried table, into it.
OutOfNew(t, i) ==
    [t EXCEPT !.newTable = [s \in NewSlots |-> IF @[s] = i THEN Free ELSE @[s]],
              !.info[i].refs = @ - Cardinality(RefsOf(t, i)),
              !.newCount = @ - 1]
OutOfTried(t, i) ==
    [t EXCEPT !.info[i].tried = FALSE, !.triedCount = @ - 1,
              !.tried[TriedSlotOf[t.info[i].host]] = Free]
BackIn(t, i, s) == [t EXCEPT !.info[i].refs = 1, !.newTable[s] = i, !.newCount = @ + 1]
IntoTried(t, i, slot) == [t EXCEPT !.tried[slot] = i, !.triedCount = @ + 1, !.info[i].tried = TRUE]

\* make_tried_ takes an entry out of all slots of the new table.
LEMMA OutOfNewParts ==
    ASSUME NEW t, IsTables(t), NEW i
    PROVE  HasParts(OutOfNew(t, i),
               [t.info EXCEPT ![i] =
                  [t.info[i] EXCEPT !.refs = t.info[i].refs - Cardinality(RefsOf(t, i))]],
               t.addr, t.random, [s \in NewSlots |-> IF t.newTable[s] = i THEN Free ELSE t.newTable[s]],
               t.tried, t.newCount - 1, t.triedCount, t.idCount, t.collisions)
BY DEF IsTables, HasParts, PartNames, OutOfNew

\* It takes the owner of the slot out of the tried table.
LEMMA OutOfTriedParts ==
    ASSUME NEW t, IsTables(t), NEW i
    PROVE  HasParts(OutOfTried(t, i), [t.info EXCEPT ![i] = WithTried(t.info[i], FALSE)],
               t.addr, t.random, t.newTable, [t.tried EXCEPT ![TriedSlotOf[t.info[i].host]] = Free],
               t.newCount, t.triedCount - 1, t.idCount, t.collisions)
BY DEF IsTables, HasParts, PartNames, OutOfTried, WithTried

\* It puts that one into a slot of the new table.
LEMMA BackInParts ==
    ASSUME NEW t, IsTables(t), NEW i, NEW s
    PROVE  HasParts(BackIn(t, i, s), [t.info EXCEPT ![i] = [t.info[i] EXCEPT !.refs = 1]],
               t.addr, t.random, [t.newTable EXCEPT ![s] = i], t.tried,
               t.newCount + 1, t.triedCount, t.idCount, t.collisions)
BY DEF IsTables, HasParts, PartNames, BackIn

\* It puts the first one into the slot of the tried table.
LEMMA IntoTriedParts ==
    ASSUME NEW t, IsTables(t), NEW i, NEW slot
    PROVE  HasParts(IntoTried(t, i, slot), [t.info EXCEPT ![i] = WithTried(t.info[i], TRUE)],
               t.addr, t.random, t.newTable, [t.tried EXCEPT ![slot] = i],
               t.newCount, t.triedCount + 1, t.idCount, t.collisions)
BY DEF IsTables, HasParts, PartNames, IntoTried, WithTried
-----------------------------------------------------------------------------
\* What a change of one entry leaves of all of them.
SameBut(t, u, i) ==
    /\ Entries(u) = Entries(t) /\ u.info \in [Entries(t) -> Infos]
    /\ \A k \in Entries(t) :
          /\ u.info[k].host = t.info[k].host /\ u.info[k].port = t.info[k].port
          /\ u.info[k].src = t.info[k].src /\ u.info[k].pos = t.info[k].pos
          /\ k # i => u.info[k] = t.info[k]

\* A record with another number of references.
LEMMA NewRefs ==
    ASSUME NEW t, EntriesTyped(t), NEW i \in Entries(t), NEW r \in Nat, NEW u,
           u.info = [t.info EXCEPT ![i] = [t.info[i] EXCEPT !.refs = r]]
    PROVE  SameBut(t, u, i) /\ u.info[i].refs = r /\ u.info[i].tried = t.info[i].tried
BY DEF EntriesTyped, Entries, Infos, SameBut

\* A record marked as tried or as not.
LEMMA NewTried ==
    ASSUME NEW t, EntriesTyped(t), NEW i \in Entries(t), NEW b \in BOOLEAN, NEW u,
           u.info = [t.info EXCEPT ![i] = WithTried(t.info[i], b)]
    PROVE  SameBut(t, u, i) /\ u.info[i].refs = t.info[i].refs /\ u.info[i].tried = b
BY DEF EntriesTyped, Entries, Infos, SameBut, WithTried

\* A record marked as not tried.
LEMMA NotTried ==
    ASSUME NEW t, EntriesTyped(t), NEW i \in Entries(t), NEW u,
           u.info = [t.info EXCEPT ![i] = WithTried(t.info[i], FALSE)]
    PROVE  SameBut(t, u, i) /\ u.info[i].refs = t.info[i].refs /\ ~u.info[i].tried
<1>1. WithTried(t.info[i], FALSE) \in Infos /\ WithTried(t.info[i], FALSE).tried = FALSE
      /\ WithTried(t.info[i], FALSE).host = t.info[i].host
      /\ WithTried(t.info[i], FALSE).port = t.info[i].port
      /\ WithTried(t.info[i], FALSE).src = t.info[i].src
      /\ WithTried(t.info[i], FALSE).pos = t.info[i].pos
      /\ WithTried(t.info[i], FALSE).refs = t.info[i].refs
  BY DEF EntriesTyped, Infos, WithTried
<1> QED  BY <1>1 DEF EntriesTyped, Entries, SameBut

\* A change of one entry's references or of its being tried leaves the index, the
\* list and the identifiers as they were.
LEMMA SameButKeeps ==
    ASSUME NEW t, NEW u, NEW i, SameBut(t, u, i), EntriesTyped(t), Indexed(t), Shuffled(t),
           u.addr = t.addr, u.random = t.random, u.idCount = t.idCount, u.collisions = t.collisions
    PROVE  EntriesTyped(u) /\ Indexed(u) /\ Shuffled(u)
<1>1. EntriesTyped(u)  BY DEF SameBut, EntriesTyped
<1>2. Indexed(u)  BY DEF SameBut, Indexed
<1>3. Shuffled(u)  BY DEF SameBut, Shuffled
<1> QED  BY <1>1, <1>2, <1>3

\* The slots of the tried table keep their owners if the entries keep their hosts and marks.
LEMMA TriedKept ==
    ASSUME NEW t, NEW u, NEW i, SameBut(t, u, i), u.info[i].tried = t.info[i].tried, TriedPlaces(t),
           u.tried = t.tried
    PROVE  TriedPlaces(u)
<1>1. ASSUME NEW k \in Entries(t)
      PROVE  u.info[k].tried = t.info[k].tried /\ u.info[k].host = t.info[k].host
  BY DEF SameBut
<1>2. u.tried \in [TriedSlots -> Entries(u) \cup {Free}]  BY DEF SameBut, TriedPlaces
<1>3. \A k \in Entries(u) : u.info[k].tried <=> u.tried[TriedSlotOf[u.info[k].host]] = k
  BY <1>1, ZenonT(30) DEF SameBut, TriedPlaces
<1>4. \A s \in TriedSlots : u.tried[s] # Free => TriedSlotOf[u.info[u.tried[s]].host] = s
  BY <1>1 DEF SameBut, TriedPlaces
<1> QED  BY <1>2, <1>3, <1>4 DEF TriedPlaces

\* The slots that refer to an entry are finitely many, and none exactly if the
\* entry has no reference.
LEMMA RefsCount ==
    ASSUME NEW t, NEW i
    PROVE  /\ IsFiniteSet(RefsOf(t, i)) /\ Cardinality(RefsOf(t, i)) \in Nat
           /\ Cardinality(RefsOf(t, i)) = 0 <=> RefsOf(t, i) = {}
<1>1. RefsOf(t, i) \in SUBSET NewSlots  BY DEF RefsOf
<1>2. IsFiniteSet(RefsOf(t, i))  BY <1>1, FS_Subset, AddressAssumption
<1> QED  BY <1>2, FS_CardinalityType, FS_EmptySet

\* The entries of each table can be counted.
LEMMA OnesFinite ==
    ASSUME NEW t, EntriesTyped(t)
    PROVE  /\ IsFiniteSet(NewOnes(t)) /\ Cardinality(NewOnes(t)) \in Nat
           /\ IsFiniteSet(TriedOnes(t)) /\ Cardinality(TriedOnes(t)) \in Nat
<1>1. NewOnes(t) \in SUBSET Entries(t) /\ TriedOnes(t) \in SUBSET Entries(t)
  BY DEF NewOnes, TriedOnes
<1>2. IsFiniteSet(NewOnes(t)) /\ IsFiniteSet(TriedOnes(t))  BY <1>1, FS_Subset DEF EntriesTyped
<1> QED  BY <1>2, FS_CardinalityType

\* The entry in a slot of the new table is in neither of the other states.
LEMMA SlotOwner ==
    ASSUME NEW t, NEW loose, NEW n, TablesInv(t, loose, n), NEW s \in NewSlots, t.newTable[s] # Free
    PROVE  LET i == t.newTable[s]
           IN  /\ i \in Entries(t) /\ i \notin loose /\ ~t.info[i].tried
               /\ s \in RefsOf(t, i) /\ t.info[i].refs >= 1
<1> DEFINE i == t.newTable[s]
<1>1. i \in Entries(t)  BY DEF TablesInv, References
<1>2. s \in RefsOf(t, i)  BY DEF RefsOf
<1>3. t.info[i].refs = Cardinality(RefsOf(t, i))  BY <1>1 DEF TablesInv, References
<1>4. t.info[i].refs \in Nat /\ t.info[i].refs # 0  BY <1>2, <1>3, RefsCount
<1> QED  BY <1>1, <1>2, <1>4 DEF TablesInv, InOneTable

\* clear_new_ up to the test of the references: the entry is loose if it was the last.
LEMMA UnreferencedKeeps ==
    ASSUME NEW t, NEW loose, NEW n, TablesInv(t, loose, n), NEW s \in NewSlots, t.newTable[s] # Free
    PROVE  LET u == Unreferenced(t, s)
               i == t.newTable[s]
           IN  /\ TablesInv(u, IF u.info[i].refs = 0 THEN loose \cup {i} ELSE loose, n)
               /\ SameBut(t, u, i) /\ u.info[i].refs = t.info[i].refs - 1 /\ ~u.info[i].tried
               /\ u.newTable = [t.newTable EXCEPT ![s] = Free] /\ u.tried = t.tried
               /\ u.idCount = t.idCount /\ u.collisions = t.collisions
<1> DEFINE i == t.newTable[s]
           r == t.info[i].refs - 1
           u == Unreferenced(t, s)
<1>1. /\ i \in Entries(t) /\ i \notin loose /\ ~t.info[i].tried
      /\ s \in RefsOf(t, i) /\ t.info[i].refs >= 1
  BY SlotOwner
<1>2. HasParts(u, [t.info EXCEPT ![i] = [t.info[i] EXCEPT !.refs = r]],
               t.addr, t.random, [t.newTable EXCEPT ![s] = Free], t.tried, t.newCount, t.triedCount,
               t.idCount, t.collisions)
  BY UnreferencedParts DEF TablesInv
<1>3. t.info[i].refs \in Nat /\ r \in Nat
  BY <1>1 DEF TablesInv, EntriesTyped, Infos
<1> HIDE DEF r, u
<1>4. SameBut(t, u, i) /\ u.info[i].refs = r /\ u.info[i].tried = t.info[i].tried
  BY <1>1, <1>2, <1>3, NewRefs DEF HasParts, TablesInv
<1>5. EntriesTyped(u) /\ Indexed(u) /\ Shuffled(u)
  BY <1>2, <1>4, SameButKeeps DEF HasParts, TablesInv
<1>6. References(u)
  <2>1. u.newTable \in [NewSlots -> Entries(u) \cup {Free}]
    BY <1>2, <1>4 DEF HasParts, TablesInv, References, SameBut
  <2>2. RefsOf(u, i) = RefsOf(t, i) \ {s}
    BY <1>1, <1>2 DEF HasParts, RefsOf, TablesInv, References, EntriesTyped, Free
  <2>3. \A k \in Entries(t) : k # i => RefsOf(u, k) = RefsOf(t, k)
    BY <1>1, <1>2 DEF HasParts, RefsOf, TablesInv, References, EntriesTyped, Free
  <2>4. Cardinality(RefsOf(u, i)) = t.info[i].refs - 1
    <3>1. Cardinality(RefsOf(t, i) \ {s}) = Cardinality(RefsOf(t, i)) - 1
      BY <1>1, RefsCount, FS_RemoveElement
    <3>2. t.info[i].refs = Cardinality(RefsOf(t, i))  BY <1>1 DEF TablesInv, References
    <3> QED  BY <2>2, <3>1, <3>2
  <2>5. ASSUME NEW k \in Entries(u)
        PROVE  u.info[k].refs = Cardinality(RefsOf(u, k)) /\ u.info[k].refs <= NewBucketsPerAddress
    <3>1. CASE k = i
      BY <1>1, <1>3, <1>4, <2>4, <3>1, AddressAssumption DEF r, TablesInv, References
    <3>2. CASE k # i  BY <1>4, <2>3, <3>2 DEF SameBut, TablesInv, References
    <3> QED  BY <3>1, <3>2
  <2> QED  BY <2>1, <2>5 DEF References
<1>7. TriedPlaces(u)
  BY <1>2, <1>4, TriedKept DEF HasParts, TablesInv
<1>8. InOneTable(u, IF u.info[i].refs = 0 THEN loose \cup {i} ELSE loose)
  BY <1>1, <1>4 DEF SameBut, InOneTable, TablesInv
<1>9. NewOnes(u) = NewOnes(t) /\ TriedOnes(u) = TriedOnes(t)
  BY <1>4 DEF SameBut, NewOnes, TriedOnes
<1>10. Counted(u, n)
  BY <1>2, <1>9 DEF HasParts, Counted, TablesInv
<1>11. TablesInv(u, IF u.info[i].refs = 0 THEN loose \cup {i} ELSE loose, n)
  BY <1>2, <1>5, <1>6, <1>7, <1>8, <1>10 DEF HasParts, TablesInv
<1> QED  BY <1>1, <1>2, <1>4, <1>11 DEF HasParts, r, u

\* An entry that is not tried gets a free slot of the new table; x is what the count
\* of new entries grows by.
LEMMA ReferencedKeeps ==
    ASSUME NEW t, NEW loose, NEW n \in Int, TablesInv(t, loose, n), NEW s \in NewSlots, t.newTable[s] = Free,
           NEW i \in Entries(t), ~t.info[i].tried, t.info[i].refs < NewBucketsPerAddress,
           NEW x \in Int, NEW u,
           HasParts(u, [t.info EXCEPT ![i] = [t.info[i] EXCEPT !.refs = t.info[i].refs + 1]],
               t.addr, t.random, [t.newTable EXCEPT ![s] = i], t.tried, t.newCount + x, t.triedCount,
               t.idCount, t.collisions)
    PROVE  TablesInv(u, loose \ {i}, n - x) /\ SameBut(t, u, i)
<1> DEFINE r == t.info[i].refs + 1
<1>1. t.info[i].refs \in Nat /\ r \in Nat /\ i \in Nat /\ i # Free
  BY DEF TablesInv, EntriesTyped, Infos, Free
<1> HIDE DEF r
<1>2. u.info = [t.info EXCEPT ![i] = [t.info[i] EXCEPT !.refs = r]]  BY DEF HasParts, r
<1>3. SameBut(t, u, i) /\ u.info[i].refs = r /\ u.info[i].tried = t.info[i].tried
  <2>1. EntriesTyped(t)  BY DEF TablesInv
  <2> QED  BY <1>1, <1>2, <2>1, NewRefs, SMTT(30)
<1>4. EntriesTyped(u) /\ Indexed(u) /\ Shuffled(u)
  BY <1>3, SameButKeeps DEF HasParts, TablesInv
<1>5. References(u)
  <2>1. u.newTable \in [NewSlots -> Entries(u) \cup {Free}]
    BY <1>3 DEF HasParts, TablesInv, References, SameBut
  <2>2. RefsOf(u, i) = RefsOf(t, i) \cup {s}
    BY <1>1 DEF HasParts, RefsOf, TablesInv, References
  <2>3. \A k \in Entries(t) : k # i => RefsOf(u, k) = RefsOf(t, k)
    BY <1>1 DEF HasParts, RefsOf, TablesInv, References, EntriesTyped, Free
  <2>4. Cardinality(RefsOf(u, i)) = r
    <3>1. s \notin RefsOf(t, i)  BY <1>1 DEF RefsOf
    <3>2. Cardinality(RefsOf(t, i) \cup {s}) = Cardinality(RefsOf(t, i)) + 1
      BY <3>1, RefsCount, FS_AddElement
    <3>3. t.info[i].refs = Cardinality(RefsOf(t, i))  BY DEF TablesInv, References
    <3> QED  BY <2>2, <3>2, <3>3 DEF r
  <2>5. ASSUME NEW k \in Entries(u)
        PROVE  u.info[k].refs = Cardinality(RefsOf(u, k)) /\ u.info[k].refs <= NewBucketsPerAddress
    <3>1. CASE k = i
      BY <1>1, <1>3, <2>4, <3>1, AddressAssumption DEF r
    <3>2. CASE k # i  BY <1>3, <2>3, <3>2 DEF SameBut, TablesInv, References
    <3> QED  BY <3>1, <3>2
  <2> QED  BY <2>1, <2>5 DEF References
<1>6. TriedPlaces(u)
  BY <1>3, TriedKept DEF HasParts, TablesInv
<1>7. InOneTable(u, loose \ {i})
  <2>1. r # 0  BY <1>1 DEF r
  <2> QED  BY <1>3, <2>1 DEF SameBut, InOneTable, TablesInv
<1>8. NewOnes(u) = NewOnes(t) /\ TriedOnes(u) = TriedOnes(t)
  BY <1>3 DEF SameBut, NewOnes, TriedOnes
<1>9. Counted(u, n - x)
  <2>1. Cardinality(NewOnes(t)) \in Nat  BY OnesFinite DEF TablesInv
  <2> QED  BY <1>8, <2>1 DEF HasParts, Counted, TablesInv
<1> QED  BY <1>3, <1>4, <1>5, <1>6, <1>7, <1>9 DEF HasParts, TablesInv

\* make_tried_: the entry leaves all its slots, and is not counted for the moment.
LEMMA OutOfNewKeeps ==
    ASSUME NEW t, NEW loose, NEW n \in Int, TablesInv(t, loose, n), NEW i \in Entries(t), ~t.info[i].tried
    PROVE  LET u == OutOfNew(t, i)
           IN  /\ TablesInv(u, loose \cup {i}, n + 1) /\ SameBut(t, u, i)
               /\ u.tried = t.tried /\ u.idCount = t.idCount /\ u.collisions = t.collisions
               /\ u.info[i].refs = 0 /\ ~u.info[i].tried
<1> DEFINE u == OutOfNew(t, i)
<1>1. t.info[i].refs \in Nat /\ t.info[i].refs = Cardinality(RefsOf(t, i)) /\ i \in Nat /\ i # Free
  BY DEF TablesInv, EntriesTyped, Infos, Free, References
<1>2. HasParts(u, [t.info EXCEPT ![i] = [t.info[i] EXCEPT !.refs = 0]],
               t.addr, t.random, [s \in NewSlots |-> IF t.newTable[s] = i THEN Free ELSE t.newTable[s]],
               t.tried, t.newCount - 1, t.triedCount, t.idCount, t.collisions)
  <2>1. t.info[i].refs - Cardinality(RefsOf(t, i)) = 0  BY <1>1
  <2> QED  BY <2>1, OutOfNewParts DEF TablesInv
<1> HIDE DEF u
<1>3. SameBut(t, u, i) /\ u.info[i].refs = 0 /\ u.info[i].tried = t.info[i].tried
  <2>1. u.info = [t.info EXCEPT ![i] = [t.info[i] EXCEPT !.refs = 0]]  BY <1>2 DEF HasParts
  <2>2. EntriesTyped(t) /\ 0 \in Nat  BY DEF TablesInv
  <2> QED  BY <2>1, <2>2, NewRefs
<1>4. EntriesTyped(u) /\ Indexed(u) /\ Shuffled(u)
  BY <1>2, <1>3, SameButKeeps DEF HasParts, TablesInv
<1>5. References(u)
  <2>1. u.newTable \in [NewSlots -> Entries(u) \cup {Free}]
    BY <1>2, <1>3 DEF HasParts, TablesInv, References, SameBut
  <2>2. RefsOf(u, i) = {}
    BY <1>1, <1>2 DEF HasParts, RefsOf
  <2>3. \A k \in Entries(t) : k # i => RefsOf(u, k) = RefsOf(t, k)
    BY <1>1, <1>2 DEF HasParts, RefsOf, TablesInv, EntriesTyped, Free
  <2>5. ASSUME NEW k \in Entries(u)
        PROVE  u.info[k].refs = Cardinality(RefsOf(u, k)) /\ u.info[k].refs <= NewBucketsPerAddress
    <3>1. CASE k = i
      <4>1. Cardinality({}) = 0 /\ 0 <= NewBucketsPerAddress  BY FS_EmptySet, AddressAssumption
      <4> QED  BY <1>3, <2>2, <3>1, <4>1
    <3>2. CASE k # i  BY <1>3, <2>3, <3>2 DEF SameBut, TablesInv, References
    <3> QED  BY <3>1, <3>2
  <2> QED  BY <2>1, <2>5 DEF References
<1>6. TriedPlaces(u)
  BY <1>2, <1>3, TriedKept DEF HasParts, TablesInv
<1>7. InOneTable(u, loose \cup {i})
  BY <1>3 DEF SameBut, InOneTable, TablesInv
<1>8. NewOnes(u) = NewOnes(t) /\ TriedOnes(u) = TriedOnes(t)
  BY <1>3 DEF SameBut, NewOnes, TriedOnes
<1>9. Counted(u, n + 1)
  <2>1. Cardinality(NewOnes(t)) \in Nat  BY OnesFinite DEF TablesInv
  <2> QED  BY <1>2, <1>8, <2>1 DEF HasParts, Counted, TablesInv
<1>10. TablesInv(u, loose \cup {i}, n + 1)
  BY <1>2, <1>4, <1>5, <1>6, <1>7, <1>9 DEF HasParts, TablesInv
<1> QED  BY <1>2, <1>3, <1>10 DEF HasParts, u

\* make_tried_: the owner of the slot leaves the tried table, and is not counted
\* for the moment.
LEMMA OutOfTriedKeeps ==
    ASSUME NEW t, NEW loose, NEW n \in Int, TablesInv(t, loose, n), NEW i \in TriedOnes(t)
    PROVE  LET u == OutOfTried(t, i)
               slot == TriedSlotOf[t.info[i].host]
           IN  /\ TablesInv(u, loose \cup {i}, n + 1) /\ SameBut(t, u, i)
               /\ u.newTable = t.newTable /\ u.tried = [t.tried EXCEPT ![slot] = Free]
               /\ u.idCount = t.idCount /\ u.collisions = t.collisions
               /\ u.info[i].refs = 0 /\ ~u.info[i].tried /\ slot \in TriedSlots
<1> DEFINE u == OutOfTried(t, i)
           slot == TriedSlotOf[t.info[i].host]
<1>0. i \in Entries(t)  BY DEF TriedOnes
<1>1. /\ t.info[i].refs = 0 /\ i \in Nat /\ i # Free /\ t.tried[slot] = i /\ slot \in TriedSlots
      /\ t.tried \in [TriedSlots -> Entries(t) \cup {Free}] /\ i \notin loose
  BY AddressAssumption DEF TriedOnes, TablesInv, EntriesTyped, Infos, Free, InOneTable, TriedPlaces
<1>2. HasParts(u, [t.info EXCEPT ![i] = WithTried(t.info[i], FALSE)],
               t.addr, t.random, t.newTable, [t.tried EXCEPT ![slot] = Free],
               t.newCount, t.triedCount - 1, t.idCount, t.collisions)
  BY OutOfTriedParts DEF TablesInv
<1>3. SameBut(t, u, i) /\ u.info[i].refs = 0 /\ ~u.info[i].tried
  <2>1. u.info = [t.info EXCEPT ![i] = WithTried(t.info[i], FALSE)]  BY <1>2 DEF HasParts
  <2>2. EntriesTyped(t)  BY DEF TablesInv
  <2> HIDE DEF u
  <2>3. SameBut(t, u, i) /\ u.info[i].refs = t.info[i].refs /\ ~u.info[i].tried
    BY <1>0, <2>1, <2>2, NotTried
  <2> QED  BY <1>1, <2>3
<1> HIDE DEF u, slot
<1>4. EntriesTyped(u) /\ Indexed(u) /\ Shuffled(u)
  BY <1>2, <1>3, SameButKeeps DEF HasParts, TablesInv
<1>5. References(u)
  <2>1. u.newTable = t.newTable /\ \A k \in Entries(t) : RefsOf(u, k) = RefsOf(t, k)
    BY <1>2 DEF HasParts, RefsOf
  <2>2. \A k \in Entries(t) : u.info[k].refs = t.info[k].refs
    BY <1>1, <1>3 DEF SameBut
  <2> QED  BY <1>3, <2>1, <2>2 DEF SameBut, References, TablesInv
<1>6. TriedPlaces(u)
  <2>1. u.tried \in [TriedSlots -> Entries(u) \cup {Free}]
    BY <1>1, <1>2, <1>3 DEF HasParts, SameBut
  <2>2. u.tried[slot] = Free /\ \A s \in TriedSlots : s # slot => u.tried[s] = t.tried[s]
    BY <1>1, <1>2 DEF HasParts
  <2>3. ASSUME NEW k \in Entries(u)
        PROVE  u.info[k].tried <=> u.tried[TriedSlotOf[u.info[k].host]] = k
    <3>1. k \in Entries(t) /\ k \in Nat /\ k # Free /\ u.info[k].host = t.info[k].host
      BY <1>3 DEF SameBut, TablesInv, EntriesTyped, Free
    <3>2. TriedSlotOf[t.info[k].host] \in TriedSlots
      BY <3>1, AddressAssumption DEF TablesInv, EntriesTyped, Infos
    <3>3. CASE k = i  BY <1>3, <2>2, <3>1, <3>3 DEF slot
    <3>4. CASE k # i
      <4>1. u.info[k].tried = t.info[k].tried  BY <1>3, <3>1, <3>4 DEF SameBut
      <4>2. t.info[k].tried <=> t.tried[TriedSlotOf[t.info[k].host]] = k
        BY <3>1 DEF TablesInv, TriedPlaces
      <4>3. CASE TriedSlotOf[t.info[k].host] = slot  BY <1>1, <2>2, <3>1, <3>4, <4>1, <4>2, <4>3
      <4>4. CASE TriedSlotOf[t.info[k].host] # slot  BY <2>2, <3>1, <3>2, <4>1, <4>2, <4>4
      <4> QED  BY <4>3, <4>4
    <3> QED  BY <3>3, <3>4
  <2>4. ASSUME NEW s \in TriedSlots, u.tried[s] # Free PROVE TriedSlotOf[u.info[u.tried[s]].host] = s
    <3>1. s # slot /\ u.tried[s] = t.tried[s]  BY <2>2, <2>4
    <3>2. t.tried[s] \in Entries(t)  BY <1>1, <2>4, <3>1
    <3> QED  BY <1>3, <2>4, <3>1, <3>2 DEF SameBut, TablesInv, TriedPlaces
  <2> QED  BY <2>1, <2>3, <2>4 DEF TriedPlaces
<1>7. InOneTable(u, loose \cup {i})
  BY <1>3 DEF SameBut, InOneTable, TablesInv
<1>8. NewOnes(u) = NewOnes(t) \cup {i} /\ TriedOnes(u) = TriedOnes(t) \ {i}
      /\ i \notin NewOnes(t) /\ i \in TriedOnes(t)
  BY <1>3 DEF SameBut, NewOnes, TriedOnes
<1>9. Counted(u, n + 1)
  <2>1. /\ IsFiniteSet(NewOnes(t)) /\ Cardinality(NewOnes(t)) \in Nat
        /\ IsFiniteSet(TriedOnes(t)) /\ Cardinality(TriedOnes(t)) \in Nat
    BY OnesFinite DEF TablesInv
  <2>2. Cardinality(NewOnes(u)) = Cardinality(NewOnes(t)) + 1
    BY <1>8, <2>1, FS_AddElement
  <2>3. Cardinality(TriedOnes(u)) = Cardinality(TriedOnes(t)) - 1
    BY <1>8, <2>1, FS_RemoveElement
  <2> QED  BY <1>2, <2>1, <2>2, <2>3 DEF HasParts, Counted, TablesInv
<1>10. TablesInv(u, loose \cup {i}, n + 1)
  BY <1>2, <1>4, <1>5, <1>6, <1>7, <1>9 DEF HasParts, TablesInv
<1> QED  BY <1>1, <1>2, <1>3, <1>10 DEF HasParts, u, slot

\* make_tried_: the entry gets its free slot of the tried table.
LEMMA IntoTriedKeeps ==
    ASSUME NEW t, NEW loose, NEW n \in Int, TablesInv(t, loose, n), NEW i \in Entries(t), i \in loose,
           t.tried[TriedSlotOf[t.info[i].host]] = Free
    PROVE  LET slot == TriedSlotOf[t.info[i].host]
               u == IntoTried(t, i, slot)
           IN  /\ TablesInv(u, loose \ {i}, n - 1) /\ SameBut(t, u, i)
               /\ u.tried = [t.tried EXCEPT ![slot] = i]
               /\ u.idCount = t.idCount /\ u.collisions = t.collisions
<1> DEFINE slot == TriedSlotOf[t.info[i].host]
           u == IntoTried(t, i, slot)
<1>1. /\ t.info[i].refs = 0 /\ t.info[i].tried = FALSE /\ i \in Nat /\ i # Free /\ t.tried[slot] = Free
      /\ slot \in TriedSlots /\ t.tried \in [TriedSlots -> Entries(t) \cup {Free}]
  BY AddressAssumption DEF TablesInv, EntriesTyped, Infos, Free, InOneTable, TriedPlaces
<1>2. HasParts(u, [t.info EXCEPT ![i] = WithTried(t.info[i], TRUE)],
               t.addr, t.random, t.newTable, [t.tried EXCEPT ![slot] = i],
               t.newCount, t.triedCount + 1, t.idCount, t.collisions)
  BY IntoTriedParts DEF TablesInv
<1>3. SameBut(t, u, i) /\ u.info[i].refs = 0 /\ u.info[i].tried = TRUE
  <2>1. u.info = [t.info EXCEPT ![i] = WithTried(t.info[i], TRUE)]  BY <1>2 DEF HasParts
  <2>2. EntriesTyped(t) /\ TRUE \in BOOLEAN  BY DEF TablesInv
  <2> HIDE DEF u
  <2>3. SameBut(t, u, i) /\ u.info[i].refs = t.info[i].refs /\ u.info[i].tried = TRUE
    BY <2>1, <2>2, NewTried
  <2> QED  BY <1>1, <2>3
<1> HIDE DEF u, slot
<1>4. EntriesTyped(u) /\ Indexed(u) /\ Shuffled(u)
  BY <1>2, <1>3, SameButKeeps DEF HasParts, TablesInv
<1>5. References(u)
  <2>1. u.newTable = t.newTable /\ \A k \in Entries(t) : RefsOf(u, k) = RefsOf(t, k)
    BY <1>2 DEF HasParts, RefsOf
  <2>2. \A k \in Entries(t) : u.info[k].refs = t.info[k].refs
    BY <1>1, <1>3 DEF SameBut
  <2> QED  BY <1>3, <2>1, <2>2 DEF SameBut, References, TablesInv
<1>6. TriedPlaces(u)
  <2>1. u.tried \in [TriedSlots -> Entries(u) \cup {Free}]
    BY <1>1, <1>2, <1>3 DEF HasParts, SameBut
  <2>2. u.tried[slot] = i /\ \A s \in TriedSlots : s # slot => u.tried[s] = t.tried[s]
    BY <1>1, <1>2 DEF HasParts
  <2>3. ASSUME NEW k \in Entries(u)
        PROVE  u.info[k].tried <=> u.tried[TriedSlotOf[u.info[k].host]] = k
    <3>1. k \in Entries(t) /\ k \in Nat /\ k # Free /\ u.info[k].host = t.info[k].host
      BY <1>3 DEF SameBut, TablesInv, EntriesTyped, Free
    <3>2. TriedSlotOf[t.info[k].host] \in TriedSlots
      BY <3>1, AddressAssumption DEF TablesInv, EntriesTyped, Infos
    <3>3. CASE k = i  BY <1>3, <2>2, <3>1, <3>3 DEF slot
    <3>4. CASE k # i
      <4>1. u.info[k].tried = t.info[k].tried  BY <1>3, <3>1, <3>4 DEF SameBut
      <4>2. t.info[k].tried <=> t.tried[TriedSlotOf[t.info[k].host]] = k
        BY <3>1 DEF TablesInv, TriedPlaces
      <4>3. CASE TriedSlotOf[t.info[k].host] = slot  BY <1>1, <2>2, <3>1, <3>4, <4>1, <4>2, <4>3
      <4>4. CASE TriedSlotOf[t.info[k].host] # slot  BY <2>2, <3>1, <3>2, <4>1, <4>2, <4>4
      <4> QED  BY <4>3, <4>4
    <3> QED  BY <3>3, <3>4
  <2>4. ASSUME NEW s \in TriedSlots, u.tried[s] # Free PROVE TriedSlotOf[u.info[u.tried[s]].host] = s
    <3>1. CASE s = slot  BY <1>3, <2>2, <3>1, ZenonT(40) DEF SameBut, slot
    <3>2. CASE s # slot
      <4>1. u.tried[s] = t.tried[s] /\ t.tried[s] \in Entries(t)  BY <1>1, <2>2, <2>4, <3>2
      <4> QED  BY <1>3, <2>4, <4>1 DEF SameBut, TablesInv, TriedPlaces
    <3> QED  BY <3>1, <3>2
  <2> QED  BY <2>1, <2>3, <2>4 DEF TriedPlaces
<1>7. InOneTable(u, loose \ {i})
  BY <1>3 DEF SameBut, InOneTable, TablesInv
<1>8. NewOnes(u) = NewOnes(t) \ {i} /\ TriedOnes(u) = TriedOnes(t) \cup {i}
      /\ i \in NewOnes(t) /\ i \notin TriedOnes(t)
  BY <1>1, <1>3 DEF SameBut, NewOnes, TriedOnes
<1>9. Counted(u, n - 1)
  <2>1. /\ IsFiniteSet(NewOnes(t)) /\ Cardinality(NewOnes(t)) \in Nat
        /\ IsFiniteSet(TriedOnes(t)) /\ Cardinality(TriedOnes(t)) \in Nat
    BY OnesFinite DEF TablesInv
  <2>2. Cardinality(NewOnes(u)) = Cardinality(NewOnes(t)) - 1
    BY <1>8, <2>1, FS_RemoveElement
  <2>3. Cardinality(TriedOnes(u)) = Cardinality(TriedOnes(t)) + 1
    BY <1>8, <2>1, FS_AddElement
  <2> QED  BY <1>2, <2>1, <2>2, <2>3 DEF HasParts, Counted, TablesInv
<1>10. TablesInv(u, loose \ {i}, n - 1)
  BY <1>2, <1>4, <1>5, <1>6, <1>7, <1>9 DEF HasParts, TablesInv
<1> QED  BY <1>1, <1>2, <1>3, <1>10 DEF HasParts, u, slot

-----------------------------------------------------------------------------
\* swap_random_
LEMMA SwapKeeps ==
    ASSUME NEW t, NEW loose, NEW n, TablesInv(t, loose, n),
           NEW p \in 1 .. Len(t.random), NEW q \in 1 .. Len(t.random)
    PROVE  LET u == Swap(t, p, q)
           IN  /\ TablesInv(u, loose, n)
               /\ Entries(u) = Entries(t)
               /\ \A k \in Entries(t) :
                     /\ u.info[k].host = t.info[k].host /\ u.info[k].port = t.info[k].port
                     /\ u.info[k].src = t.info[k].src /\ u.info[k].refs = t.info[k].refs
                     /\ u.info[k].tried = t.info[k].tried
               /\ u.random[q] = t.random[p] /\ Len(u.random) = Len(t.random)
               /\ u.newTable = t.newTable /\ u.tried = t.tried /\ u.addr = t.addr
               /\ u.idCount = t.idCount /\ u.collisions = t.collisions
               /\ u.newCount = t.newCount /\ u.triedCount = t.triedCount
<1> DEFINE u == Swap(t, p, q)
           i == t.random[p]
           j == t.random[q]
           at(k) == IF k = j THEN p ELSE IF k = i THEN q ELSE t.info[k].pos
<1>1. HasParts(u, [k \in Entries(t) |-> [t.info[k] EXCEPT !.pos = at(k)]],
               t.addr, [t.random EXCEPT ![p] = j, ![q] = i],
               t.newTable, t.tried, t.newCount, t.triedCount, t.idCount, t.collisions)
  BY SwapParts DEF TablesInv
<1>2. i \in Entries(t) /\ j \in Entries(t) /\ t.info[i].pos = p /\ t.info[j].pos = q
  BY DEF TablesInv, Shuffled
<1>3. \A k \in Entries(t) : at(k) \in 1 .. Len(t.random) /\ at(k) \in Nat
  BY DEF TablesInv, Shuffled
<1> HIDE DEF u, at
<1>4. /\ Entries(u) = Entries(t) /\ u.info \in [Entries(t) -> Infos]
      /\ \A k \in Entries(t) :
            /\ u.info[k].host = t.info[k].host /\ u.info[k].port = t.info[k].port
            /\ u.info[k].src = t.info[k].src /\ u.info[k].refs = t.info[k].refs
            /\ u.info[k].tried = t.info[k].tried /\ u.info[k].pos = at(k)
  <2>1. u.info = [k \in Entries(t) |-> [t.info[k] EXCEPT !.pos = at(k)]]  BY <1>1 DEF HasParts
  <2>2. ASSUME NEW k \in Entries(t), NEW r \in Nat
        PROVE  LET e == [t.info[k] EXCEPT !.pos = r]
               IN  /\ e \in Infos /\ e.pos = r /\ e.host = t.info[k].host /\ e.port = t.info[k].port
                   /\ e.src = t.info[k].src /\ e.refs = t.info[k].refs /\ e.tried = t.info[k].tried
    <3>1. t.info[k] \in Infos  BY DEF TablesInv, EntriesTyped
    <3> QED  BY <3>1 DEF Infos
  <2> QED  BY <1>3, <2>1, <2>2 DEF Entries
<1> HIDE DEF i, j
<1>5. /\ u.random \in Seq(Nat) /\ Len(u.random) = Len(t.random) /\ u.random[q] = i
      /\ u.random[p] = j /\ \A r \in 1 .. Len(t.random) : r # p /\ r # q => u.random[r] = t.random[r]
  <2>1. t.random \in Seq(Nat)  BY DEF TablesInv, Shuffled
  <2>2. i \in Nat /\ j \in Nat /\ (p = q => i = j)  BY <1>2 DEF TablesInv, EntriesTyped, i, j
  <2>3. u.random = [t.random EXCEPT ![p] = j, ![q] = i]  BY <1>1 DEF HasParts
  <2> QED  BY <2>1, <2>2, <2>3
<1>6. EntriesTyped(u)  BY <1>1, <1>4 DEF HasParts, TablesInv, EntriesTyped
<1>7. Indexed(u)
  <2>1. {u.info[k].host : k \in Entries(u)} = {t.info[k].host : k \in Entries(t)}  BY <1>4
  <2>2. u.addr = t.addr  BY <1>1 DEF HasParts
  <2> QED  BY <1>4, <2>1, <2>2 DEF TablesInv, Indexed
<1>8. Shuffled(u)
  <2>1. ASSUME NEW k \in Entries(u)
        PROVE  u.info[k].pos \in 1 .. Len(u.random) /\ u.random[u.info[k].pos] = k
    <3>1. k \in Entries(t) /\ u.info[k].pos = at(k)  BY <1>4
    <3>2. t.info[k].pos \in 1 .. Len(t.random) /\ t.random[t.info[k].pos] = k
      BY <3>1 DEF TablesInv, Shuffled
    <3>3. CASE k = j  BY <1>5, <3>1, <3>3 DEF at
    <3>4. CASE k # j /\ k = i  BY <1>5, <3>1, <3>4 DEF at
    <3>5. CASE k # j /\ k # i
      <4>1. t.info[k].pos # p /\ t.info[k].pos # q  BY <3>2, <3>5 DEF i, j
      <4> QED  BY <1>5, <3>1, <3>2, <3>5, <4>1 DEF at
    <3> QED  BY <3>3, <3>4, <3>5
  <2>2. ASSUME NEW r \in 1 .. Len(u.random)
        PROVE  u.random[r] \in Entries(u) /\ u.info[u.random[r]].pos = r
    <3>1. r \in 1 .. Len(t.random) /\ t.random[r] \in Entries(t) /\ t.info[t.random[r]].pos = r
      BY <1>5 DEF TablesInv, Shuffled
    <3>2. CASE r = p  BY <1>2, <1>4, <1>5, <3>2 DEF at
    <3>3. CASE r # p /\ r = q
      <4>1. i # j  BY <1>2, <3>3
      <4> QED  BY <1>2, <1>4, <1>5, <3>3, <4>1 DEF at
    <3>4. CASE r # p /\ r # q
      <4>1. t.random[r] # i /\ t.random[r] # j  BY <1>2, <3>1, <3>4
      <4> QED  BY <1>4, <1>5, <3>1, <3>4, <4>1, SMTT(30) DEF at
    <3> QED  BY <3>2, <3>3, <3>4
  <2> QED  BY <1>4, <1>5, <2>1, <2>2 DEF Shuffled, TablesInv
<1>9. References(u)
  <2>1. \A k \in Entries(t) : RefsOf(u, k) = RefsOf(t, k)  BY <1>1 DEF HasParts, RefsOf
  <2> QED  BY <1>1, <1>4, <2>1 DEF HasParts, TablesInv, References
<1>10. TriedPlaces(u)
  <2>1. TriedPlaces(t) /\ u.tried = t.tried /\ Entries(u) = Entries(t)  BY <1>1, <1>4 DEF HasParts, TablesInv
  <2>2. \A k \in Entries(t) : u.info[k].host = t.info[k].host /\ u.info[k].tried = t.info[k].tried
    BY <1>4
  <2>3. \A k \in Entries(u) : u.info[k].tried <=> u.tried[TriedSlotOf[u.info[k].host]] = k
    BY <2>1, <2>2, ZenonT(30) DEF TriedPlaces
  <2>4. \A s \in TriedSlots : u.tried[s] # Free => TriedSlotOf[u.info[u.tried[s]].host] = s
    BY <2>1, <2>2 DEF TriedPlaces
  <2> QED  BY <2>1, <2>3, <2>4 DEF TriedPlaces
<1>11. InOneTable(u, loose)  BY <1>4 DEF InOneTable, TablesInv
<1>12. Counted(u, n)
  <2>1. NewOnes(u) = NewOnes(t) /\ TriedOnes(u) = TriedOnes(t)  BY <1>4 DEF NewOnes, TriedOnes
  <2> QED  BY <1>1, <2>1 DEF HasParts, Counted, TablesInv
<1>13. TablesInv(u, loose, n)
  BY <1>1, <1>6, <1>7, <1>8, <1>9, <1>10, <1>11, <1>12 DEF HasParts, TablesInv
<1> QED  BY <1>1, <1>4, <1>5, <1>13 DEF HasParts, u, i

\* delete_new_entry_, of an entry that is in none of the tables.
LEMMA DeleteKeeps ==
    ASSUME NEW t, NEW loose, NEW n \in Int, TablesInv(t, loose, n), NEW i \in Entries(t), i \in loose
    PROVE  LET u == DeleteNewEntry(t, i)
           IN  /\ TablesInv(u, loose \ {i}, n) /\ Shrinks(t, u)
               /\ Entries(u) = Entries(t) \ {i}
               /\ \A k \in Entries(u) :
                     u.info[k].refs = t.info[k].refs /\ u.info[k].tried = t.info[k].tried
               /\ u.newTable = t.newTable
<1> DEFINE m == Len(t.random)
           v == Swap(t, t.info[i].pos, m)
           u == DeleteNewEntry(t, i)
<1>1. m \in Nat /\ t.info[i].pos \in 1 .. m /\ m \in 1 .. m /\ t.random[t.info[i].pos] = i
  BY DEF TablesInv, Shuffled
<1>2. /\ TablesInv(v, loose, n)
      /\ Entries(v) = Entries(t)
      /\ \A k \in Entries(t) :
            /\ v.info[k].host = t.info[k].host /\ v.info[k].port = t.info[k].port
            /\ v.info[k].src = t.info[k].src /\ v.info[k].refs = t.info[k].refs
            /\ v.info[k].tried = t.info[k].tried
      /\ v.random[m] = i /\ Len(v.random) = m
      /\ v.newTable = t.newTable /\ v.tried = t.tried /\ v.addr = t.addr
      /\ v.idCount = t.idCount /\ v.collisions = t.collisions
  <2> DEFINE p == t.info[i].pos
  <2>1. p \in 1 .. Len(t.random) /\ m \in 1 .. Len(t.random) /\ t.random[p] = i  BY <1>1
  <2>2. v = Swap(t, p, m)  OBVIOUS
  <2> HIDE DEF m, p, v
  <2> QED  BY <2>1, <2>2, SwapKeeps DEF m
<1>3. HasParts(u, Except(v.info, i), Except(v.addr, t.info[i].host), Front(v.random),
                   v.newTable, v.tried, v.newCount - 1, v.triedCount, v.idCount, v.collisions)
  BY DeleteParts DEF TablesInv
<1> HIDE DEF u, v, m
<1>4. /\ Entries(u) = Entries(t) \ {i} /\ u.info \in [Entries(u) -> Infos]
      /\ \A k \in Entries(u) : u.info[k] = v.info[k]
  BY <1>2, <1>3 DEF HasParts, Entries, Except, TablesInv, EntriesTyped
<1>5. EntriesTyped(u)
  <2>1. IsFiniteSet(Entries(u))
    BY <1>4, FS_RemoveElement DEF TablesInv, EntriesTyped
  <2> QED  BY <1>2, <1>3, <1>4, <2>1 DEF HasParts, TablesInv, EntriesTyped
<1>6. Indexed(u)
  <2>1. Indexed(v) /\ Indexed(t)  BY <1>2 DEF TablesInv
  <2>2. \A k \in Entries(u) : k \in Entries(v) /\ v.info[k].host # t.info[i].host
    <3> SUFFICES ASSUME NEW k \in Entries(u), v.info[k].host = t.info[i].host PROVE FALSE
      BY <1>2, <1>4
    <3>1. k \in Entries(v) /\ k # i /\ v.addr[v.info[k].host] = k /\ t.addr[t.info[i].host] = i
      BY <1>2, <1>4, <2>1 DEF Indexed
    <3> QED  BY <1>2, <3>1
  <2>3. DOMAIN u.addr = DOMAIN v.addr \ {t.info[i].host}
        /\ \A h \in DOMAIN u.addr : u.addr[h] = v.addr[h]
    BY <1>3 DEF HasParts, Except
  <2>4. v.info[i].host = t.info[i].host /\ Entries(v) = Entries(u) \cup {i}  BY <1>2, <1>4
  <2>5. DOMAIN u.addr = {u.info[k].host : k \in Entries(u)}
    BY <1>4, <2>1, <2>2, <2>3, <2>4 DEF Indexed
  <2>6. \A k \in Entries(u) : u.addr[u.info[k].host] = k
    BY <1>4, <2>1, <2>2, <2>3, <2>5 DEF Indexed
  <2> QED  BY <2>5, <2>6 DEF Indexed
<1>7. Shuffled(u)
  <2>1. v.random \in Seq(Nat) /\ Shuffled(v) /\ Len(v.random) = m  BY <1>2 DEF TablesInv, Shuffled
  <2>2. /\ u.random \in Seq(Nat) /\ Len(u.random) = m - 1
        /\ \A p \in 1 .. m - 1 : u.random[p] = v.random[p]
    <3>1. u.random = SubSeq(v.random, 1, m - 1)  BY <1>3, <2>1 DEF HasParts, Front
    <3> QED  BY <1>1, <2>1, <3>1
  <2>3. Cardinality(Entries(u)) = m - 1
    <3>1. Cardinality(Entries(t)) = m /\ IsFiniteSet(Entries(t))
      BY DEF TablesInv, Shuffled, EntriesTyped, m
    <3> QED  BY <1>4, <3>1, FS_RemoveElement
  <2>4. ASSUME NEW k \in Entries(u)
        PROVE  u.info[k].pos \in 1 .. m - 1 /\ u.random[u.info[k].pos] = k
    <3>1. k \in Entries(v) /\ k # i /\ u.info[k].pos = v.info[k].pos  BY <1>2, <1>4
    <3>2. v.info[k].pos \in 1 .. m /\ v.random[v.info[k].pos] = k  BY <2>1, <3>1 DEF Shuffled
    <3>3. v.info[k].pos # m  BY <1>2, <3>1, <3>2
    <3> QED  BY <1>1, <2>2, <3>1, <3>2, <3>3
  <2>5. ASSUME NEW p \in 1 .. m - 1
        PROVE  u.random[p] \in Entries(u) /\ u.info[u.random[p]].pos = p
    <3>1. v.random[p] \in Entries(v) /\ v.info[v.random[p]].pos = p
      BY <1>1, <2>1 DEF Shuffled
    <3>2. v.info[i].pos = m  BY <1>1, <1>2, <2>1 DEF Shuffled
    <3>3. v.random[p] # i  BY <1>1, <3>1, <3>2
    <3> QED  BY <1>2, <1>4, <2>2, <3>1, <3>3
  <2> QED  BY <2>2, <2>3, <2>4, <2>5 DEF Shuffled
<1>8. t.info[i].refs = 0 /\ ~t.info[i].tried  BY DEF TablesInv, InOneTable
<1>9. References(u)
  <2>1. RefsOf(t, i) = {}
    BY <1>8, RefsCount DEF TablesInv, References
  <2>2. u.newTable = t.newTable  BY <1>2, <1>3 DEF HasParts
  <2>3. u.newTable \in [NewSlots -> Entries(u) \cup {Free}]
    BY <1>4, <2>1, <2>2 DEF TablesInv, References, RefsOf
  <2>4. \A k \in Entries(u) : RefsOf(u, k) = RefsOf(t, k)  BY <2>2 DEF RefsOf
  <2> QED  BY <1>2, <1>4, <2>3, <2>4 DEF TablesInv, References
<1>10. TriedPlaces(u)
  <2>1. TriedPlaces(v) /\ TriedPlaces(t) /\ u.tried = v.tried /\ v.tried = t.tried
    BY <1>2, <1>3 DEF HasParts, TablesInv
  <2>2. \A s \in TriedSlots : u.tried[s] # i
    <3> SUFFICES ASSUME NEW s \in TriedSlots, t.tried[s] = i PROVE FALSE  BY <2>1
    <3>1. i # Free  BY DEF TablesInv, EntriesTyped, Free
    <3>2. TriedSlotOf[t.info[i].host] = s  BY <2>1, <3>1 DEF TriedPlaces
    <3> QED  BY <1>8, <2>1, <3>2 DEF TriedPlaces
  <2>3. u.tried \in [TriedSlots -> Entries(u) \cup {Free}]
    BY <1>2, <1>4, <2>1, <2>2 DEF TriedPlaces
  <2>4. \A k \in Entries(u) : k \in Entries(v) /\ u.info[k] = v.info[k]  BY <1>2, <1>4
  <2>5. \A k \in Entries(u) : u.info[k].tried <=> u.tried[TriedSlotOf[u.info[k].host]] = k
    BY <2>1, <2>4, Zenon DEF TriedPlaces
  <2>6. \A s \in TriedSlots : u.tried[s] # Free => TriedSlotOf[u.info[u.tried[s]].host] = s
    BY <2>1, <2>3, <2>4 DEF TriedPlaces
  <2> QED  BY <2>3, <2>5, <2>6 DEF TriedPlaces
<1>11. InOneTable(u, loose \ {i})
  BY <1>2, <1>4 DEF InOneTable, TablesInv
<1>12. Counted(u, n)
  <2>1. NewOnes(u) = NewOnes(v) \ {i} /\ i \in NewOnes(v) /\ TriedOnes(u) = TriedOnes(v)
    BY <1>2, <1>4, <1>8 DEF NewOnes, TriedOnes
  <2>2. IsFiniteSet(NewOnes(v)) /\ Cardinality(NewOnes(v)) \in Nat
    BY <1>2, OnesFinite DEF TablesInv
  <2>3. Cardinality(NewOnes(u)) = Cardinality(NewOnes(v)) - 1
    BY <2>1, <2>2, FS_RemoveElement
  <2> QED  BY <1>2, <1>3, <2>1, <2>2, <2>3 DEF HasParts, Counted, TablesInv
<1>13. TablesInv(u, loose \ {i}, n)
  BY <1>3, <1>5, <1>6, <1>7, <1>9, <1>10, <1>11, <1>12 DEF HasParts, TablesInv
<1>14. Shrinks(t, u)
  BY <1>2, <1>3, <1>4 DEF HasParts, Shrinks
<1>15. /\ \A k \in Entries(u) :
             u.info[k].refs = t.info[k].refs /\ u.info[k].tried = t.info[k].tried
       /\ u.newTable = t.newTable
  BY <1>2, <1>3, <1>4 DEF HasParts
<1> QED  BY <1>4, <1>13, <1>14, <1>15 DEF u

\* clear_new_
LEMMA ClearKeeps ==
    ASSUME NEW t, NEW loose, NEW n \in Int, TablesInv(t, loose, n), NEW s \in NewSlots
    PROVE  LET u == ClearNew(t, s)
           IN  /\ TablesInv(u, loose, n) /\ Shrinks(t, u) /\ u.newTable[s] = Free
               /\ \A k \in Entries(t) :
                     k # t.newTable[s] => /\ k \in Entries(u) /\ u.info[k].refs = t.info[k].refs
                                          /\ u.info[k].tried = t.info[k].tried
<1> DEFINE u == ClearNew(t, s)
           i == t.newTable[s]
           v == Unreferenced(t, s)
<1>1. CASE i = Free
  <2>1. u = t  BY <1>1 DEF ClearNew
  <2> HIDE DEF u
  <2> QED  BY <1>1, <2>1 DEF Shrinks, u
<1>2. CASE i # Free
  <2>1. /\ TablesInv(v, IF v.info[i].refs = 0 THEN loose \cup {i} ELSE loose, n)
        /\ SameBut(t, v, i)
        /\ v.newTable = [t.newTable EXCEPT ![s] = Free] /\ v.tried = t.tried
        /\ v.idCount = t.idCount /\ v.collisions = t.collisions
    BY <1>2, UnreferencedKeeps
  <2>2. i \in Entries(t) /\ i \notin loose  BY <1>2, SlotOwner
  <2>3. u = IF v.info[i].refs = 0 THEN DeleteNewEntry(v, i) ELSE v
    BY <1>2 DEF ClearNew, Unreferenced
  <2>4. v.newTable[s] = Free /\ Entries(v) = Entries(t) /\ Shrinks(t, v)
    BY <2>1 DEF TablesInv, References, SameBut, Shrinks
  <2> HIDE DEF u, v, i
  <2>5. CASE v.info[i].refs # 0
    <3>1. u = v /\ TablesInv(v, loose, n)  BY <2>1, <2>3, <2>5
    <3>2. \A k \in Entries(t) : k # i => v.info[k] = t.info[k]  BY <2>1 DEF SameBut
    <3> QED  BY <2>4, <3>1, <3>2 DEF u, i
  <2>6. CASE v.info[i].refs = 0
    <3>1. u = DeleteNewEntry(v, i) /\ TablesInv(v, loose \cup {i}, n)  BY <2>1, <2>3, <2>6
    <3>2. /\ TablesInv(u, (loose \cup {i}) \ {i}, n) /\ Shrinks(v, u) /\ Entries(u) = Entries(v) \ {i}
          /\ \A k \in Entries(u) : u.info[k].refs = v.info[k].refs /\ u.info[k].tried = v.info[k].tried
          /\ u.newTable = v.newTable
      <4>1. i \in Entries(v) /\ i \in loose \cup {i}  BY <2>2, <2>4
      <4>2. n \in Int /\ TablesInv(v, loose \cup {i}, n)  BY <3>1
      <4>3. u = DeleteNewEntry(v, i)  BY <3>1
      <4> DEFINE L == loose \cup {i}
      <4>4. i \in L /\ TablesInv(v, L, n)  BY <4>1, <4>2
      <4> HIDE DEF L
      <4>5. /\ TablesInv(DeleteNewEntry(v, i), L \ {i}, n) /\ Shrinks(v, DeleteNewEntry(v, i))
            /\ Entries(DeleteNewEntry(v, i)) = Entries(v) \ {i}
            /\ \A k \in Entries(DeleteNewEntry(v, i)) :
                  /\ DeleteNewEntry(v, i).info[k].refs = v.info[k].refs
                  /\ DeleteNewEntry(v, i).info[k].tried = v.info[k].tried
            /\ DeleteNewEntry(v, i).newTable = v.newTable
        BY <4>1, <4>2, <4>4, DeleteKeeps
      <4> QED  BY <4>3, <4>5 DEF L
    <3>3. (loose \cup {i}) \ {i} = loose  BY <2>2
    <3>4. Shrinks(t, u)  BY <2>4, <3>2 DEF Shrinks
    <3>5. \A k \in Entries(t) : k # i => v.info[k] = t.info[k]  BY <2>1 DEF SameBut
    <3> QED  BY <2>4, <3>2, <3>3, <3>4, <3>5 DEF u, i
  <2> QED  BY <2>5, <2>6
<1> QED  BY <1>1, <1>2

\* A reference to an entry that is not tried, in a slot that is cleared for it.
LEMMA ReferenceKeeps ==
    ASSUME NEW t, NEW loose, NEW n \in Int, TablesInv(t, loose, n), NEW s \in NewSlots,
           NEW i \in Entries(t), i # t.newTable[s], ~t.info[i].tried,
           t.info[i].refs < NewBucketsPerAddress
    PROVE  LET u == Referenced(ClearNew(t, s), i, s)
           IN  TablesInv(u, loose \ {i}, n) /\ Shrinks(t, u)
<1> DEFINE v == ClearNew(t, s)
           u == Referenced(v, i, s)
<1>1. /\ TablesInv(v, loose, n) /\ Shrinks(t, v) /\ v.newTable[s] = Free
      /\ i \in Entries(v) /\ v.info[i].refs = t.info[i].refs /\ v.info[i].tried = t.info[i].tried
  BY ClearKeeps
<1> HIDE DEF v
<1>2. HasParts(u, [v.info EXCEPT ![i] = [v.info[i] EXCEPT !.refs = v.info[i].refs + 1]],
               v.addr, v.random, [v.newTable EXCEPT ![s] = i], v.tried, v.newCount + 0, v.triedCount,
               v.idCount, v.collisions)
  <2>1. v.newCount + 0 = v.newCount
    <3>1. v.newCount \in Int  BY <1>1, OnesFinite DEF TablesInv, Counted
    <3> QED  BY <3>1
  <2> QED  BY <1>1, <2>1, ReferencedParts DEF TablesInv
<1> HIDE DEF u
<1>3. TablesInv(u, loose \ {i}, n - 0) /\ SameBut(v, u, i)
  <2>1. 0 \in Int /\ ~v.info[i].tried /\ v.info[i].refs < NewBucketsPerAddress  BY <1>1
  <2> QED  BY <1>1, <1>2, <2>1, ReferencedKeeps
<1>4. n - 0 = n  OBVIOUS
<1>5. Shrinks(t, u)  BY <1>1, <1>2, <1>3 DEF HasParts, SameBut, Shrinks
<1> QED  BY <1>3, <1>4, <1>5 DEF u, v

\* make_tried_: the owner of the slot goes back to the new table.
LEMMA BackKeeps ==
    ASSUME NEW t, NEW loose, NEW n \in Int, TablesInv(t, loose, n), NEW j \in TriedOnes(t)
    PROVE  LET u == BackToNew(t, j)
               slot == TriedSlotOf[t.info[j].host]
           IN  /\ TablesInv(u, loose, n) /\ Entries(u) \subseteq Entries(t)
               /\ \A k \in Entries(u) : u.info[k].host = t.info[k].host
               /\ \A k \in Entries(t) \cap loose : k \in Entries(u)
               /\ u.tried = [t.tried EXCEPT ![slot] = Free] /\ slot \in TriedSlots
               /\ u.idCount = t.idCount /\ u.collisions = t.collisions
<1> DEFINE slot == TriedSlotOf[t.info[j].host]
           s == NewSlotOf[t.info[j].host][t.info[j].src]
           o == OutOfTried(t, j)
           v == ClearNew(o, s)
           u == BackIn(v, j, s)
<1>1. BackToNew(t, j) = u  BY DEF BackToNew, OutOfTried, BackIn
<1>2. /\ TablesInv(o, loose \cup {j}, n + 1) /\ SameBut(t, o, j)
      /\ o.newTable = t.newTable /\ o.tried = [t.tried EXCEPT ![slot] = Free]
      /\ o.idCount = t.idCount /\ o.collisions = t.collisions
      /\ o.info[j].refs = 0 /\ ~o.info[j].tried /\ slot \in TriedSlots
  BY OutOfTriedKeeps
<1>3. j \in Entries(t) /\ j \notin loose /\ s \in NewSlots
  BY AddressAssumption DEF TriedOnes, TablesInv, InOneTable, EntriesTyped, Infos
<1> HIDE DEF o, s, slot
<1>4. /\ TablesInv(v, loose \cup {j}, n + 1) /\ Shrinks(o, v) /\ v.newTable[s] = Free
      /\ \A k \in Entries(o) :
            k # o.newTable[s] => /\ k \in Entries(v) /\ v.info[k].refs = o.info[k].refs
                                 /\ v.info[k].tried = o.info[k].tried
  <2>1. n + 1 \in Int  OBVIOUS
  <2> QED  BY <1>2, <1>3, <2>1, ClearKeeps
<1> HIDE DEF v
<1>5. \A k \in Entries(t) \cap (loose \cup {j}) : k \in Entries(v)
  <2> SUFFICES ASSUME NEW k \in Entries(t), k \in loose \cup {j} PROVE k \in Entries(v)  OBVIOUS
  <2>1. k \in Entries(o)  BY <1>2 DEF SameBut
  <2>2. k # Free  BY DEF TablesInv, EntriesTyped, Free
  <2>3. k # o.newTable[s]  BY <1>2, <1>3, <2>2, SlotOwner
  <2> QED  BY <1>4, <2>1, <2>3
<1>6. j \in Entries(v) /\ v.info[j].refs = 0 /\ ~v.info[j].tried
  <2>1. j \in Entries(v) /\ j \in loose \cup {j}  BY <1>3, <1>5
  <2> QED  BY <1>4, <2>1 DEF TablesInv, InOneTable
<1>7. HasParts(u, [v.info EXCEPT ![j] = [v.info[j] EXCEPT !.refs = v.info[j].refs + 1]],
               v.addr, v.random, [v.newTable EXCEPT ![s] = j], v.tried,
               v.newCount + 1, v.triedCount, v.idCount, v.collisions)
  <2>1. v.info[j].refs + 1 = 1  BY <1>6
  <2> QED  BY <1>4, <2>1, BackInParts DEF TablesInv
<1> HIDE DEF u
<1>8. TablesInv(u, (loose \cup {j}) \ {j}, n + 1 - 1) /\ SameBut(v, u, j)
  <2> DEFINE m == n + 1
             x == 1
             L == loose \cup {j}
  <2>1. m \in Int /\ x \in Int /\ v.info[j].refs < NewBucketsPerAddress
    BY <1>6, AddressAssumption
  <2>2. TablesInv(v, L, m)  BY <1>4
  <2>3. HasParts(u, [v.info EXCEPT ![j] = [v.info[j] EXCEPT !.refs = v.info[j].refs + 1]],
                 v.addr, v.random, [v.newTable EXCEPT ![s] = j], v.tried,
                 v.newCount + x, v.triedCount, v.idCount, v.collisions)
    BY <1>7
  <2> HIDE DEF m, x, L
  <2>4. TablesInv(u, L \ {j}, m - x) /\ SameBut(v, u, j)
    BY <1>3, <1>4, <1>6, <2>1, <2>2, <2>3, ReferencedKeeps
  <2> QED  BY <2>4 DEF m, x, L
<1>9. (loose \cup {j}) \ {j} = loose /\ n + 1 - 1 = n  BY <1>3
<1>10. /\ Entries(u) \subseteq Entries(t) /\ \A k \in Entries(u) : u.info[k].host = t.info[k].host
       /\ \A k \in Entries(t) \cap loose : k \in Entries(u)
  BY <1>2, <1>4, <1>5, <1>8 DEF SameBut, Shrinks
<1>11. u.tried = [t.tried EXCEPT ![slot] = Free] /\ u.idCount = t.idCount /\ u.collisions = t.collisions
  BY <1>2, <1>4, <1>7 DEF HasParts, Shrinks
<1> QED  BY <1>1, <1>2, <1>8, <1>9, <1>10, <1>11 DEF slot

\* make_tried_: afterwards no slot of the tried table that was taken is free.
LEMMA MakeTriedKeeps ==
    ASSUME NEW t, NEW d \in Int, TablesInv(t, {}, d), NEW i \in Entries(t), ~t.info[i].tried
    PROVE  LET u == MakeTried(t, i)
           IN  /\ TablesInv(u, {}, d) /\ Entries(u) \subseteq Entries(t)
               /\ \A k \in Entries(u) : u.info[k].host = t.info[k].host
               /\ \A s \in TriedSlots : t.tried[s] # Free => u.tried[s] # Free
               /\ u.idCount = t.idCount /\ u.collisions = t.collisions
<1> DEFINE slot == TriedSlotOf[t.info[i].host]
           o == OutOfNew(t, i)
           room == IF t.tried[slot] = Free THEN o ELSE BackToNew(o, t.tried[slot])
           u == IntoTried(room, i, slot)
<1>1. MakeTried(t, i) = u  BY DEF MakeTried, OutOfNew, IntoTried
<1>2. /\ TablesInv(o, {i}, d + 1) /\ SameBut(t, o, i)
      /\ o.tried = t.tried /\ o.idCount = t.idCount /\ o.collisions = t.collisions
      /\ o.info[i].refs = 0 /\ ~o.info[i].tried
  <2>1. {} \cup {i} = {i}  OBVIOUS
  <2> HIDE DEF o
  <2>2. /\ TablesInv(o, {} \cup {i}, d + 1) /\ SameBut(t, o, i)
        /\ o.tried = t.tried /\ o.idCount = t.idCount /\ o.collisions = t.collisions
        /\ o.info[i].refs = 0 /\ ~o.info[i].tried
    BY <2>1, OutOfNewKeeps DEF o
  <2> QED  BY <2>1, <2>2
<1>3. /\ slot \in TriedSlots /\ i # Free /\ t.tried \in [TriedSlots -> Entries(t) \cup {Free}]
  BY AddressAssumption DEF TablesInv, EntriesTyped, Infos, Free, TriedPlaces
<1> HIDE DEF o, slot
<1>4. /\ TablesInv(room, {i}, d + 1) /\ Entries(room) \subseteq Entries(t) /\ i \in Entries(room)
      /\ \A k \in Entries(room) : room.info[k].host = t.info[k].host
      /\ room.tried = [t.tried EXCEPT ![slot] = Free]
      /\ room.idCount = t.idCount /\ room.collisions = t.collisions
  <2>1. CASE t.tried[slot] = Free
    <3>1. room = o  BY <2>1
    <3>2. t.tried = [t.tried EXCEPT ![slot] = Free]  BY <1>3, <2>1
    <3> QED  BY <1>2, <3>1, <3>2 DEF SameBut
  <2>2. CASE t.tried[slot] # Free
    <3> DEFINE j == t.tried[slot]
               w == BackToNew(o, j)
    <3>1. j \in TriedOnes(o) /\ TriedSlotOf[o.info[j].host] = slot
      <4>1. j \in Entries(o)  BY <1>2, <1>3, <2>2 DEF SameBut
      <4>2. TriedSlotOf[o.info[j].host] = slot  BY <1>2, <1>3, <2>2 DEF TablesInv, TriedPlaces
      <4>3. o.info[j].tried  BY <1>2, <4>1, <4>2 DEF TablesInv, TriedPlaces
      <4> QED  BY <4>1, <4>2, <4>3 DEF TriedOnes
    <3>2. room = w  BY <2>2
    <3> HIDE DEF j, w, room
    <3>3. /\ TablesInv(w, {i}, d + 1) /\ Entries(w) \subseteq Entries(o)
          /\ \A k \in Entries(w) : w.info[k].host = o.info[k].host
          /\ \A k \in Entries(o) \cap {i} : k \in Entries(w)
          /\ w.tried = [o.tried EXCEPT ![slot] = Free]
          /\ w.idCount = o.idCount /\ w.collisions = o.collisions
      <4>1. PICK e : e = d + 1 /\ e \in Int  OBVIOUS
      <4>2. TablesInv(o, {i}, e)  BY <1>2, <4>1
      <4>3. /\ TablesInv(w, {i}, e) /\ Entries(w) \subseteq Entries(o)
            /\ \A k \in Entries(w) : w.info[k].host = o.info[k].host
            /\ \A k \in Entries(o) \cap {i} : k \in Entries(w)
            /\ w.tried = [o.tried EXCEPT ![slot] = Free]
            /\ w.idCount = o.idCount /\ w.collisions = o.collisions
        BY <3>1, <4>1, <4>2, BackKeeps DEF w
      <4> QED  BY <4>1, <4>3
    <3> QED  BY <1>2, <3>2, <3>3 DEF SameBut
  <2> QED  BY <2>1, <2>2
<1> HIDE DEF room
<1>5. TriedSlotOf[room.info[i].host] = slot /\ room.tried[slot] = Free
  BY <1>3, <1>4 DEF slot
<1>6. /\ TablesInv(u, {i} \ {i}, d + 1 - 1) /\ SameBut(room, u, i) /\ u.tried = [room.tried EXCEPT ![slot] = i]
      /\ u.idCount = room.idCount /\ u.collisions = room.collisions
  <2> DEFINE L == {i}
             m == d + 1
  <2>1. m \in Int /\ i \in L /\ TablesInv(room, L, m)  BY <1>4
  <2>2. u = IntoTried(room, i, TriedSlotOf[room.info[i].host])  BY <1>5
  <2> HIDE DEF L, m, u
  <2>3. /\ TablesInv(u, L \ {i}, m - 1) /\ SameBut(room, u, i)
        /\ u.tried = [room.tried EXCEPT ![TriedSlotOf[room.info[i].host]] = i]
        /\ u.idCount = room.idCount /\ u.collisions = room.collisions
    <3>1. i \in Entries(room) /\ room.tried[TriedSlotOf[room.info[i].host]] = Free
      BY <1>4, <1>5
    <3>2. PICK slot2 : slot2 = TriedSlotOf[room.info[i].host]  OBVIOUS
    <3>3. u = IntoTried(room, i, slot2)  BY <2>2, <3>2
    <3> QED  BY <2>1, <3>1, <3>2, <3>3, IntoTriedKeeps, SMTT(30)
  <2> QED  BY <1>5, <2>3 DEF L, m
<1>7. {i} \ {i} = {} /\ d + 1 - 1 = d  OBVIOUS
<1> HIDE DEF u
<1>8. \A s \in TriedSlots : t.tried[s] # Free => u.tried[s] # Free
  BY <1>3, <1>4, <1>6
<1>9. Entries(u) \subseteq Entries(t) /\ \A k \in Entries(u) : u.info[k].host = t.info[k].host
  BY <1>4, <1>6 DEF SameBut
<1> QED  BY <1>1, <1>4, <1>6, <1>7, <1>8, <1>9

\* What create_ makes of the tables: one more entry, in none of them yet.
Created(t, u, h, i, d) ==
    /\ TablesInv(u, {i}, d) /\ Entries(u) = Entries(t) \cup {i} /\ i \notin Entries(t)
    /\ u.info[i].host = h /\ u.info[i].refs = 0 /\ ~u.info[i].tried
    /\ \A k \in Entries(t) : u.info[k] = t.info[k]
    /\ u.tried = t.tried /\ u.collisions = t.collisions

\* create_
LEMMA CreateKeeps ==
    ASSUME NEW t, NEW d \in Int, TablesInv(t, {}, d), NEW h \in Hosts, ~Known(t, h), NEW port \in Ports, NEW src \in Sources
    PROVE  Created(t, Create(t, h, port, src), h, t.idCount + 1, d)
<1> DEFINE u == Create(t, h, port, src)
           i == t.idCount + 1
           m == Len(t.random)
           e == [host |-> h, port |-> port, src |-> src, tried |-> FALSE, refs |-> 0, pos |-> m + 1]
<1>1. HasParts(u, Adding(t.info, i, e), Adding(t.addr, h, i), Append(t.random, i),
               t.newTable, t.tried, t.newCount + 1, t.triedCount, i, t.collisions)
  BY CreateParts DEF TablesInv
<1>2. m \in Nat /\ i \in Nat /\ i \notin Entries(t) /\ i # Free /\ i > t.idCount /\ t.idCount \in Nat
      /\ i \notin t.collisions
  BY DEF TablesInv, EntriesTyped, Shuffled, Free
<1>3. /\ e \in Infos /\ e.host = h /\ e.refs = 0 /\ ~e.tried /\ e.pos = m + 1
  BY <1>2 DEF Infos
<1> HIDE DEF u, i, m, e
<1>4. /\ Entries(u) = Entries(t) \cup {i} /\ u.info[i] = e
      /\ \A k \in Entries(t) : u.info[k] = t.info[k]
      /\ u.info \in [Entries(u) -> Infos]
  BY <1>1, <1>2, <1>3 DEF HasParts, Entries, Adding, TablesInv, EntriesTyped
<1>5. EntriesTyped(u)
  <2>1. IsFiniteSet(Entries(u))  BY <1>4, FS_AddElement DEF TablesInv, EntriesTyped
  <2>2. t.idCount \in Nat /\ Entries(t) \subseteq 0 .. t.idCount /\ t.collisions \subseteq 0 .. t.idCount
    BY DEF TablesInv, EntriesTyped
  <2>3. u.idCount = i /\ u.collisions = t.collisions  BY <1>1 DEF HasParts
  <2>4. Entries(u) \subseteq 0 .. i /\ t.collisions \subseteq 0 .. i  BY <1>2, <1>4, <2>2
  <2> QED  BY <1>2, <1>4, <2>1, <2>3, <2>4 DEF EntriesTyped
<1>6. Indexed(u)
  <2>1. Indexed(t) /\ h \notin DOMAIN t.addr  BY DEF TablesInv, Known
  <2>2. /\ DOMAIN u.addr = DOMAIN t.addr \cup {h} /\ u.addr[h] = i
        /\ \A g \in DOMAIN t.addr : u.addr[g] = t.addr[g]
    BY <1>1, <2>1 DEF HasParts, Adding
  <2>3. DOMAIN u.addr = {u.info[k].host : k \in Entries(u)}
    BY <1>3, <1>4, <2>1, <2>2 DEF Indexed
  <2>4. \A k \in Entries(u) : u.addr[u.info[k].host] = k
    BY <1>3, <1>4, <2>1, <2>2 DEF Indexed
  <2> QED  BY <2>3, <2>4 DEF Indexed
<1>7. Shuffled(u)
  <2>1. Shuffled(t) /\ t.random \in Seq(Nat) /\ Len(t.random) = m  BY DEF TablesInv, Shuffled, m
  <2>2. /\ u.random \in Seq(Nat) /\ Len(u.random) = m + 1 /\ u.random[m + 1] = i
        /\ \A p \in 1 .. m : u.random[p] = t.random[p]
    <3>1. u.random = Append(t.random, i)  BY <1>1 DEF HasParts
    <3> QED  BY <1>2, <2>1, <3>1
  <2>3. Cardinality(Entries(u)) = m + 1
    <3>1. Cardinality(Entries(t)) = m /\ IsFiniteSet(Entries(t))
      BY DEF TablesInv, Shuffled, EntriesTyped, m
    <3> QED  BY <1>2, <1>4, <3>1, FS_AddElement
  <2>4. ASSUME NEW k \in Entries(u)
        PROVE  u.info[k].pos \in 1 .. m + 1 /\ u.random[u.info[k].pos] = k
    <3>1. CASE k = i  BY <1>2, <1>3, <1>4, <2>2, <3>1
    <3>2. CASE k \in Entries(t)
      <4>1. t.info[k].pos \in 1 .. m /\ t.random[t.info[k].pos] = k  BY <2>1, <3>2 DEF Shuffled
      <4>2. u.info[k].pos = t.info[k].pos  BY <1>4, <3>2
      <4>3. t.info[k].pos \in 1 .. m + 1  BY <1>2, <4>1
      <4> QED  BY <2>2, <4>1, <4>2, <4>3
    <3> QED  BY <1>4, <3>1, <3>2
  <2>5. ASSUME NEW p \in 1 .. m + 1
        PROVE  u.random[p] \in Entries(u) /\ u.info[u.random[p]].pos = p
    <3>1. CASE p = m + 1  BY <1>3, <1>4, <2>2, <3>1
    <3>2. CASE p # m + 1
      <4>1. p \in 1 .. m  BY <1>2, <3>2
      <4>2. t.random[p] \in Entries(t) /\ t.info[t.random[p]].pos = p  BY <2>1, <4>1 DEF Shuffled
      <4> QED  BY <1>4, <2>2, <4>1, <4>2
    <3> QED  BY <3>1, <3>2
  <2> QED  BY <2>2, <2>3, <2>4, <2>5 DEF Shuffled
<1>8. References(u)
  <2>1. u.newTable = t.newTable /\ t.newTable \in [NewSlots -> Entries(t) \cup {Free}]
    BY <1>1 DEF HasParts, TablesInv, References
  <2>2. RefsOf(u, i) = {}  BY <1>2, <2>1 DEF RefsOf
  <2>3. \A k \in Entries(t) : RefsOf(u, k) = RefsOf(t, k)  BY <2>1 DEF RefsOf
  <2>4. ASSUME NEW k \in Entries(u)
        PROVE  u.info[k].refs = Cardinality(RefsOf(u, k)) /\ u.info[k].refs <= NewBucketsPerAddress
    <3>1. CASE k = i
      <4>1. Cardinality({}) = 0 /\ 0 <= NewBucketsPerAddress  BY FS_EmptySet, AddressAssumption
      <4> QED  BY <1>3, <1>4, <2>2, <3>1, <4>1
    <3>2. CASE k \in Entries(t)  BY <1>4, <2>3, <3>2 DEF TablesInv, References
    <3> QED  BY <1>4, <3>1, <3>2
  <2>5. u.newTable \in [NewSlots -> Entries(u) \cup {Free}]  BY <1>4, <2>1
  <2> QED  BY <2>4, <2>5 DEF References
<1>9. TriedPlaces(u)
  <2>1. TriedPlaces(t) /\ u.tried = t.tried  BY <1>1 DEF HasParts, TablesInv
  <2>2. u.tried \in [TriedSlots -> Entries(u) \cup {Free}]  BY <1>4, <2>1 DEF TriedPlaces
  <2>3. ASSUME NEW k \in Entries(u)
        PROVE  u.info[k].tried <=> u.tried[TriedSlotOf[u.info[k].host]] = k
    <3>1. CASE k = i
      <4>1. TriedSlotOf[h] \in TriedSlots  BY AddressAssumption
      <4>2. u.tried[TriedSlotOf[h]] # i  BY <1>2, <2>1, <4>1 DEF TriedPlaces
      <4> QED  BY <1>3, <1>4, <3>1, <4>2
    <3>2. CASE k \in Entries(t)  BY <1>4, <2>1, <3>2, Zenon DEF TriedPlaces
    <3> QED  BY <1>4, <3>1, <3>2
  <2>4. \A s \in TriedSlots : u.tried[s] # Free => TriedSlotOf[u.info[u.tried[s]].host] = s
    BY <1>4, <2>1 DEF TriedPlaces
  <2> QED  BY <2>2, <2>3, <2>4 DEF TriedPlaces
<1>10. InOneTable(u, {i})
  BY <1>2, <1>3, <1>4 DEF InOneTable, TablesInv
<1>11. Counted(u, d)
  <2>1. NewOnes(u) = NewOnes(t) \cup {i} /\ i \notin NewOnes(t) /\ TriedOnes(u) = TriedOnes(t)
    BY <1>2, <1>3, <1>4 DEF NewOnes, TriedOnes
  <2>2. IsFiniteSet(NewOnes(t)) /\ Cardinality(NewOnes(t)) \in Nat
    BY OnesFinite DEF TablesInv
  <2>3. Cardinality(NewOnes(u)) = Cardinality(NewOnes(t)) + 1
    BY <2>1, <2>2, FS_AddElement
  <2> QED  BY <1>1, <2>1, <2>2, <2>3 DEF HasParts, Counted, TablesInv
<1>12. TablesInv(u, {i}, d)
  BY <1>1, <1>5, <1>6, <1>7, <1>8, <1>9, <1>10, <1>11 DEF HasParts, TablesInv
<1>13. Created(t, u, h, i, d)  BY <1>1, <1>2, <1>3, <1>4, <1>12 DEF HasParts, Created
<1> QED  BY <1>13 DEF u, i

\* add_to_new_table_: the entry finds a slot, is dropped, or stays as it was.
LEMMA PlaceKeeps ==
    ASSUME NEW t, NEW loose, NEW d \in Int, TablesInv(t, loose, d), NEW i \in Entries(t), loose \subseteq {i},
           ~t.info[i].tried, t.info[i].refs < NewBucketsPerAddress, NEW src \in Sources, NEW terrible
    PROVE  LET u == PlaceInNew(t, i, src, terrible)
           IN  TablesInv(u, {}, d) /\ Shrinks(t, u)
<1> DEFINE s == NewSlotOf[t.info[i].host][src]
           other == t.newTable[s]
           u == PlaceInNew(t, i, src, terrible)
<1>1. s \in NewSlots /\ i # Free /\ 0 \in Int
  BY AddressAssumption DEF TablesInv, EntriesTyped, Infos, Free
<1>2. loose \ {i} = {} /\ (i \notin loose => loose = {})  OBVIOUS
<1>3. i \in loose <=> t.info[i].refs = 0  BY DEF TablesInv, InOneTable
<1>4. Shrinks(t, t)  BY DEF Shrinks
<1>5. \/ other = i /\ u = t
      \/ other # i /\ u = Referenced(ClearNew(t, s), i, s)
      \/ other # i /\ t.info[i].refs = 0 /\ u = DeleteNewEntry(t, i)
      \/ other # i /\ t.info[i].refs # 0 /\ u = t
  BY DEF PlaceInNew, Referenced
<1> HIDE DEF u, s, other
<1>6. CASE other = i /\ u = t
  <2>1. i \notin loose  BY <1>1, <1>6, SlotOwner DEF other
  <2> QED  BY <1>2, <1>4, <1>6, <2>1 DEF u
<1>7. CASE other # i /\ u = Referenced(ClearNew(t, s), i, s)
  <2>1. TablesInv(u, loose \ {i}, d) /\ Shrinks(t, u)
    BY <1>1, <1>7, ReferenceKeeps DEF other
  <2> QED  BY <1>2, <2>1 DEF u
<1>8. CASE t.info[i].refs = 0 /\ u = DeleteNewEntry(t, i)
  <2>1. TablesInv(u, loose \ {i}, d) /\ Shrinks(t, u)
    BY <1>1, <1>3, <1>8, DeleteKeeps
  <2> QED  BY <1>2, <2>1 DEF u
<1>9. CASE t.info[i].refs # 0 /\ u = t
  BY <1>2, <1>3, <1>4, <1>9 DEF u
<1> QED  BY <1>5, <1>6, <1>7, <1>8, <1>9

\* Who waits for a slot of the tried table waits for one that is taken.
Owners(t) == \A i \in t.collisions \cap Entries(t) : t.tried[TriedSlotOf[t.info[i].host]] # Free

\* mark_good_
LEMMA MarkGoodKeeps ==
    ASSUME NEW t, NEW d \in Int, TablesInv(t, {}, d), Owners(t), NEW i \in Entries(t), NEW test \in BOOLEAN
    PROVE  LET u == MarkGoodEntry(t, i, test)
           IN  TablesInv(u, {}, d) /\ Owners(u)
<1> DEFINE u == MarkGoodEntry(t, i, test)
           c == [t EXCEPT !.collisions = @ \cup {i}]
<1>1. \/ u = t
      \/ t.tried[TriedSlotOf[t.info[i].host]] # Free /\ u = c
      \/ ~t.info[i].tried /\ u = MakeTried(t, i)
  BY DEF MarkGoodEntry
<1> HIDE DEF u
<1>2. CASE t.tried[TriedSlotOf[t.info[i].host]] # Free /\ u = c
  <2>1. HasParts(u, t.info, t.addr, t.random, t.newTable, t.tried, t.newCount, t.triedCount, t.idCount,
                 t.collisions \cup {i})
    BY <1>2 DEF HasParts, IsTables, PartNames, TablesInv
  <2>2. Entries(u) = Entries(t) /\ \A k : RefsOf(u, k) = RefsOf(t, k)
    BY <2>1 DEF HasParts, Entries, RefsOf
  <2>3. NewOnes(u) = NewOnes(t) /\ TriedOnes(u) = TriedOnes(t)
    BY <2>1, <2>2 DEF HasParts, NewOnes, TriedOnes
  <2>4. EntriesTyped(u)  BY <2>1, <2>2 DEF HasParts, TablesInv, EntriesTyped
  <2>5. Indexed(u) /\ Shuffled(u)  BY <2>1, <2>2 DEF HasParts, TablesInv, Indexed, Shuffled
  <2>6. References(u) /\ TriedPlaces(u)  BY <2>1, <2>2 DEF HasParts, TablesInv, References, TriedPlaces
  <2>7. InOneTable(u, {}) /\ Counted(u, d)  BY <2>1, <2>2, <2>3 DEF HasParts, TablesInv, InOneTable, Counted
  <2>8. Owners(u)  BY <1>2, <2>1, <2>2 DEF HasParts, Owners
  <2> QED  BY <2>1, <2>4, <2>5, <2>6, <2>7, <2>8 DEF HasParts, TablesInv, u
<1>3. CASE ~t.info[i].tried /\ u = MakeTried(t, i)
  <2>1. /\ TablesInv(u, {}, d) /\ Entries(u) \subseteq Entries(t)
        /\ \A k \in Entries(u) : u.info[k].host = t.info[k].host
        /\ \A s \in TriedSlots : t.tried[s] # Free => u.tried[s] # Free
        /\ u.collisions = t.collisions
    BY <1>3, MakeTriedKeeps
  <2>2. \A k \in Entries(t) : TriedSlotOf[t.info[k].host] \in TriedSlots
    BY AddressAssumption DEF TablesInv, EntriesTyped, Infos
  <2>3. Owners(u)  BY <2>1, <2>2 DEF Owners
  <2> QED  BY <2>1, <2>3 DEF u
<1> QED  BY <1>1, <1>2, <1>3 DEF u

-----------------------------------------------------------------------------
\* What is saved is a sequence of all elements of a set, each of them once.
LEMMA SeqOfSet ==
    ASSUME NEW S, IsFiniteSet(S)
    PROVE  LET f == SetToSeq(S)
               n == Cardinality(S)
           IN  /\ n \in Nat /\ f \in Seq(S) /\ Len(f) = n /\ DOMAIN f = 1 .. n
               /\ \A k \in 1 .. n : f[k] \in S
               /\ \A k, l \in 1 .. n : f[k] = f[l] => k = l
               /\ \A x \in S : \E k \in 1 .. n : f[k] = x
<1> DEFINE f == SetToSeq(S)
           n == Cardinality(S)
<1>1. n \in Nat /\ ExistsBijection(1 .. n, S)  BY FS_CardinalityType
<1>2. \E g \in [1 .. n -> S] : IsInjective(g)
  BY <1>1 DEF ExistsBijection, Bijection, Injection
<1>3. f \in [1 .. n -> S] /\ IsInjective(f)
  <2>1. f = CHOOSE g \in [1 .. n -> S] : IsInjective(g)  BY DEF SetToSeq
  <2> HIDE DEF f, n
  <2> QED  BY <1>2, <2>1
<1> HIDE DEF f, n
<1>4. f \in Injection(1 .. n, S)  BY <1>3 DEF Injection
<1>5. Cardinality(1 .. n) = Cardinality(S)
  <2>1. 1 \in Int /\ n \in Int  BY <1>1
  <2>2. Cardinality(1 .. n) = IF 1 > n THEN 0 ELSE n - 1 + 1  BY <2>1, FS_Interval
  <2> QED  BY <1>1, <2>2 DEF n
<1>6. f \in Surjection(1 .. n, S)  BY <1>4, <1>5, FS_Injection
<1> QED  BY <1>1, <1>3, <1>6 DEF IsInjective, Surjection, f, n

\* Entries have different hosts, so there are as many records as entries.
LEMMA HostsApart ==
    ASSUME NEW t, Indexed(t), NEW i \in Entries(t), NEW j \in Entries(t), t.info[i].host = t.info[j].host
    PROVE  i = j
BY DEF Indexed

\* There are as many records as entries, for no two have the same host.
LEMMA RecordsOf ==
    ASSUME NEW t, NEW d, TablesInv(t, {}, d), NEW E \in SUBSET Entries(t)
    PROVE  LET S == {t.info[i] : i \in E}
           IN  IsFiniteSet(S) /\ Cardinality(S) = Cardinality(E)
<1> DEFINE S == {t.info[i] : i \in E}
           f == [i \in E |-> t.info[i]]
<1>1. IsFiniteSet(E)  BY FS_Subset DEF TablesInv, EntriesTyped
<1>2. f \in Surjection(E, S)  BY DEF Surjection
<1>3. f \in Injection(E, S)
  <2>1. f \in [E -> S]  OBVIOUS
  <2>2. ASSUME NEW i \in E, NEW j \in E, f[i] = f[j] PROVE i = j
    <3>1. i \in Entries(t) /\ j \in Entries(t) /\ t.info[i].host = t.info[j].host  BY <2>2
    <3> QED  BY <3>1, HostsApart DEF TablesInv
  <2> QED  BY <2>1, <2>2 DEF Injection, IsInjective
<1> HIDE DEF f, S
<1> QED  BY <1>1, <1>2, <1>3, FS_Surjection DEF S

\* What serialize writes: each entry once, those of the new table first.
SavedNew(t) == SetToSeq({t.info[i] : i \in {j \in Entries(t) : t.info[j].refs > 0}})
SavedTried(t) == SetToSeq({t.info[i] : i \in {j \in Entries(t) : t.info[j].tried}})
SavedSlots(t) == [s \in {r \in NewSlots : t.newTable[r] # Free} |-> t.info[t.newTable[s]].host]

\* What is saved: each entry's record once, and no host twice.
SavedAs(t, N, T, n, m) ==
    /\ n \in Nat /\ m \in Nat
    /\ N \in Seq(Infos) /\ Len(N) = n /\ T \in Seq(Infos) /\ Len(T) = m
    /\ \A k \in 1 .. n : \E i \in NewOnes(t) : N[k] = t.info[i]
    /\ \A k \in 1 .. m : \E i \in TriedOnes(t) : T[k] = t.info[i]
    /\ \A i \in NewOnes(t) : \E k \in 1 .. n : N[k] = t.info[i]
    /\ \A i \in TriedOnes(t) : \E k \in 1 .. m : T[k] = t.info[i]
    /\ \A k, l \in 1 .. n : N[k].host = N[l].host => k = l
    /\ \A k, l \in 1 .. m : T[k].host = T[l].host => k = l
    /\ \A k \in 1 .. n, l \in 1 .. m : N[k].host # T[l].host
    /\ T = SetToSeq({T[k] : k \in 1 .. m})

\* This is what serialize writes of tables that agree.
LEMMA SavedFacts ==
    ASSUME NEW t, NEW d, TablesInv(t, {}, d)
    PROVE  SavedAs(t, SavedNew(t), SavedTried(t), Cardinality(NewOnes(t)), Cardinality(TriedOnes(t)))
<1> DEFINE N == SavedNew(t)
           T == SavedTried(t)
           n == Cardinality(NewOnes(t))
           m == Cardinality(TriedOnes(t))
           A == {t.info[i] : i \in NewOnes(t)}
           B == {t.info[i] : i \in TriedOnes(t)}
<1>1. {j \in Entries(t) : t.info[j].refs > 0} = NewOnes(t)
  BY DEF NewOnes, TablesInv, InOneTable, EntriesTyped, Infos
<1>2. N = SetToSeq(A) /\ T = SetToSeq(B)
  BY <1>1 DEF SavedNew, SavedTried, TriedOnes
<1>3. /\ IsFiniteSet(A) /\ Cardinality(A) = n /\ IsFiniteSet(B) /\ Cardinality(B) = m
  <2>1. NewOnes(t) \in SUBSET Entries(t) /\ TriedOnes(t) \in SUBSET Entries(t)
    BY DEF NewOnes, TriedOnes
  <2> QED  BY <2>1, RecordsOf
<1>4. A \subseteq Infos /\ B \subseteq Infos
  BY DEF NewOnes, TriedOnes, TablesInv, EntriesTyped
<1> HIDE DEF A, B, N, T, n, m
<1>5. /\ n \in Nat /\ N \in Seq(A) /\ Len(N) = n /\ DOMAIN N = 1 .. n
      /\ \A k \in 1 .. n : N[k] \in A
      /\ \A k, l \in 1 .. n : N[k] = N[l] => k = l
      /\ \A x \in A : \E k \in 1 .. n : N[k] = x
  BY <1>2, <1>3, SeqOfSet
<1>6. /\ m \in Nat /\ T \in Seq(B) /\ Len(T) = m /\ DOMAIN T = 1 .. m
      /\ \A k \in 1 .. m : T[k] \in B
      /\ \A k, l \in 1 .. m : T[k] = T[l] => k = l
      /\ \A x \in B : \E k \in 1 .. m : T[k] = x
  BY <1>2, <1>3, SeqOfSet
<1>7. ASSUME NEW x \in A \cup B, NEW y \in A \cup B, x.host = y.host
      PROVE  x = y
  <2>1. \E i, j \in Entries(t) : x = t.info[i] /\ y = t.info[j]  BY DEF A, B, NewOnes, TriedOnes
  <2> QED  BY <1>7, <2>1, HostsApart DEF TablesInv
<1>8. A \cap B = {}
  <2> SUFFICES ASSUME NEW x \in A, x \in B PROVE FALSE  OBVIOUS
  <2>1. PICK i \in NewOnes(t) : x = t.info[i]  BY DEF A
  <2>2. PICK j \in TriedOnes(t) : x = t.info[j]  BY DEF B
  <2> QED  BY <2>1, <2>2 DEF NewOnes, TriedOnes
<1>9. N \in Seq(Infos) /\ T \in Seq(Infos)  BY <1>4, <1>5, <1>6
<1>10. {T[k] : k \in 1 .. m} = B  BY <1>6
<1>11. /\ \A k, l \in 1 .. n : N[k].host = N[l].host => k = l
       /\ \A k, l \in 1 .. m : T[k].host = T[l].host => k = l
       /\ \A k \in 1 .. n, l \in 1 .. m : N[k].host # T[l].host
  BY <1>5, <1>6, <1>7, <1>8
<1>12. /\ \A k \in 1 .. n : \E i \in NewOnes(t) : N[k] = t.info[i]
       /\ \A k \in 1 .. m : \E i \in TriedOnes(t) : T[k] = t.info[i]
       /\ \A i \in NewOnes(t) : \E k \in 1 .. n : N[k] = t.info[i]
       /\ \A i \in TriedOnes(t) : \E k \in 1 .. m : T[k] = t.info[i]
  <2>1. /\ \A x : x \in A <=> \E i \in NewOnes(t) : x = t.info[i]
        /\ \A x : x \in B <=> \E i \in TriedOnes(t) : x = t.info[i]
    BY DEF A, B
  <2>2. /\ \A i \in NewOnes(t) : t.info[i] \in A
        /\ \A i \in TriedOnes(t) : t.info[i] \in B
    BY DEF A, B
  <2>3. /\ \A k \in 1 .. n : \E i \in NewOnes(t) : N[k] = t.info[i]
        /\ \A k \in 1 .. m : \E i \in TriedOnes(t) : T[k] = t.info[i]
    BY <1>5, <1>6, <2>1
  <2>4. \A i \in NewOnes(t) : \E k \in 1 .. n : N[k] = t.info[i]  BY <1>5, <2>2
  <2>5. \A i \in TriedOnes(t) : \E k \in 1 .. m : T[k] = t.info[i]  BY <1>6, <2>2
  <2> QED  BY <2>3, <2>4, <2>5
<1>13. T = SetToSeq({T[k] : k \in 1 .. m})  BY <1>2, <1>10
<1>14. SavedAs(t, N, T, n, m)  BY <1>5, <1>6, <1>9, <1>11, <1>12, <1>13 DEF SavedAs
<1> QED  BY <1>14 DEF N, T, n, m

\* The places of the records among all of them.
LEMMA AllRecords ==
    ASSUME NEW N \in Seq(Infos), NEW T \in Seq(Infos)
    PROVE  LET all == N \o T
               n == Len(N)
               m == Len(T)
           IN  /\ n \in Nat /\ m \in Nat /\ all \in Seq(Infos) /\ Len(all) = n + m /\ DOMAIN all = 1 .. n + m
               /\ \A k \in 1 .. n : all[k] = N[k]
               /\ \A k \in n + 1 .. n + m : k - n \in 1 .. m /\ all[k] = T[k - n]
OBVIOUS

\* All tried records find a slot if no two of them want the same one.
LEMMA AllFit ==
    ASSUME NEW T \in Seq(Infos), T = SetToSeq({T[k] : k \in 1 .. Len(T)}),
           \A k, l \in 1 .. Len(T) : k # l => TriedSlotOf[T[k].host] # TriedSlotOf[T[l].host]
    PROVE  Fitting(T) = T
<1> DEFINE fits == {k \in DOMAIN T :
                       \A l \in DOMAIN T : l < k => TriedSlotOf[T[l].host] # TriedSlotOf[T[k].host]}
<1>1. DOMAIN T = 1 .. Len(T)  OBVIOUS
<1>2. fits = 1 .. Len(T)  BY <1>1
<1>3. Fitting(T) = SetToSeq({T[k] : k \in fits})  BY DEF Fitting
<1> HIDE DEF fits
<1> QED  BY <1>2, <1>3

\* A record as it is loaded.
LoadedRecord(r, p, b, c) == [r EXCEPT !.pos = p, !.tried = b, !.refs = c]

\* It has the host it was saved with.
LEMMA LoadedInfo ==
    ASSUME NEW r \in Infos, NEW p \in Nat, NEW b \in BOOLEAN, NEW c \in Nat
    PROVE  LET e == LoadedRecord(r, p, b, c)
           IN  /\ e \in Infos /\ e.host = r.host /\ e.pos = p /\ e.tried = b /\ e.refs = c
BY DEF Infos, LoadedRecord

\* The slots that name the host of the k-th record, if it is one of the new table.
NamedAt(sl, all, n, k) == {s \in DOMAIN sl : ~(k > n) /\ sl[s] = all[k].host}

\* The parts of the tables that deserialize makes.
MadeFrom(u, sl, all, n) ==
    HasParts(u,
          [i \in 0 .. Len(all) - 1 |->
               [all[i + 1] EXCEPT !.pos = i + 1, !.tried = i + 1 > n,
                                  !.refs = Cardinality(NamedAt(sl, all, n, i + 1))]],
          [h \in {all[k].host : k \in 1 .. Len(all)} |-> (CHOOSE k \in 1 .. Len(all) : all[k].host = h) - 1],
          [k \in 1 .. Len(all) |-> k - 1],
          [s \in NewSlots |->
               IF s \in DOMAIN sl /\ \E k \in 1 .. n : all[k].host = sl[s]
               THEN (CHOOSE k \in 1 .. n : all[k].host = sl[s]) - 1 ELSE Free],
          [s \in TriedSlots |->
               IF \E k \in n + 1 .. Len(all) : TriedSlotOf[all[k].host] = s
               THEN (CHOOSE k \in n + 1 .. Len(all) : TriedSlotOf[all[k].host] = s) - 1
               ELSE Free],
          n, Len(all) - n, Len(all), {})

\* deserialize makes tables of these parts.
LEMMA LoadedParts ==
    ASSUME NEW all, NEW n, NEW sl
    PROVE  MadeFrom(TablesOf(all, n, sl), sl, all, n)
BY DEF TablesOf, MadeFrom, NamedAt, HasParts, IsTables, PartNames

\* They agree if no two records have a host, and no two tried ones a slot, in common.
LEMMA MadeKeeps ==
    ASSUME NEW all, Len(all) \in Nat, NEW n \in 0 .. Len(all), NEW sl, NEW u,
           MadeFrom(u, sl, all, n),
           \A k \in 1 .. Len(all) : all[k] \in Infos,
           \A k, l \in 1 .. Len(all) : all[k].host = all[l].host => k = l,
           \A k, l \in n + 1 .. Len(all) : TriedSlotOf[all[k].host] = TriedSlotOf[all[l].host] => k = l,
           DOMAIN sl \subseteq NewSlots,
           \A s \in DOMAIN sl : \E k \in 1 .. n : all[k].host = sl[s],
           \A k \in 1 .. n : Cardinality(NamedAt(sl, all, n, k)) \in 1 .. NewBucketsPerAddress
    PROVE  TablesInv(u, {}, 0) /\ u.collisions = {}
<1>1. Len(all) \in Nat /\ n \in Nat /\ n <= Len(all)  OBVIOUS
<1>4. MadeFrom(u, sl, all, n)  OBVIOUS
<1>6. \A k \in 1 .. Len(all) : all[k] \in Infos  OBVIOUS
<1>7. \A k, l \in 1 .. Len(all) : all[k].host = all[l].host => k = l  OBVIOUS
<1>8. \A k, l \in n + 1 .. Len(all) : TriedSlotOf[all[k].host] = TriedSlotOf[all[l].host] => k = l  OBVIOUS
<1>9. DOMAIN sl \subseteq NewSlots  OBVIOUS
<1>10. \A s \in DOMAIN sl : \E k \in 1 .. n : all[k].host = sl[s]  OBVIOUS
<1>11. \A k \in 1 .. n : Cardinality(NamedAt(sl, all, n, k)) \in 1 .. NewBucketsPerAddress  OBVIOUS
<1>12. ASSUME NEW k \in n + 1 .. Len(all) PROVE NamedAt(sl, all, n, k) = {} /\ Cardinality(NamedAt(sl, all, n, k)) = 0
  <2>1. k > n  BY <1>1
  <2>2. NamedAt(sl, all, n, k) = {}  BY <2>1 DEF NamedAt
  <2> QED  BY <2>2, FS_EmptySet
<1>13. \A k \in 1 .. Len(all) : Cardinality(NamedAt(sl, all, n, k)) \in Nat
  <2> SUFFICES ASSUME NEW k \in 1 .. Len(all) PROVE Cardinality(NamedAt(sl, all, n, k)) \in Nat  OBVIOUS
  <2>1. CASE k \in 1 .. n  BY <1>11, <2>1, AddressAssumption
  <2>2. CASE k \in n + 1 .. Len(all)  BY <1>12, <2>2
  <2> QED  BY <1>1, <2>1, <2>2
<1>14. /\ Entries(u) = 0 .. Len(all) - 1 /\ u.info \in [Entries(u) -> Infos]
       /\ \A i \in Entries(u) :
             /\ i + 1 \in 1 .. Len(all)
             /\ u.info[i].host = all[i + 1].host /\ u.info[i].pos = i + 1
             /\ u.info[i].tried = (i + 1 > n) /\ u.info[i].refs = Cardinality(NamedAt(sl, all, n, i + 1))
  <2> DEFINE e(i) == [all[i + 1] EXCEPT !.pos = i + 1, !.tried = i + 1 > n, !.refs = Cardinality(NamedAt(sl, all, n, i + 1))]
  <2>1. u.info = [i \in 0 .. Len(all) - 1 |-> e(i)]  BY <1>4 DEF MadeFrom, HasParts
  <2>2. ASSUME NEW i \in 0 .. Len(all) - 1
        PROVE  /\ i + 1 \in 1 .. Len(all) /\ e(i) \in Infos /\ e(i).host = all[i + 1].host
               /\ e(i).pos = i + 1 /\ e(i).tried = (i + 1 > n) /\ e(i).refs = Cardinality(NamedAt(sl, all, n, i + 1))
    <3>1. i + 1 \in 1 .. Len(all) /\ i + 1 \in Nat  BY <1>1
    <3>2. (i + 1 > n) \in BOOLEAN  OBVIOUS
    <3>3. all[i + 1] \in Infos /\ Cardinality(NamedAt(sl, all, n, i + 1)) \in Nat  BY <1>6, <1>13, <3>1
    <3> DEFINE c == Cardinality(NamedAt(sl, all, n, i + 1))
               b == i + 1 > n
               p == i + 1
               r == all[i + 1]
    <3>4. r \in Infos /\ p \in Nat /\ b \in BOOLEAN /\ c \in Nat  BY <3>1, <3>2, <3>3
    <3>5. e(i) = LoadedRecord(r, p, b, c)  BY DEF LoadedRecord
    <3> HIDE DEF e, c, b, p, r
    <3>6. /\ e(i) \in Infos /\ e(i).host = r.host /\ e(i).pos = p /\ e(i).tried = b /\ e(i).refs = c
      BY <3>4, <3>5, LoadedInfo
    <3> QED  BY <3>1, <3>6 DEF c, b, p, r
  <2> HIDE DEF e
  <2> QED  BY <2>1, <2>2 DEF Entries
<1>15. EntriesTyped(u)
  <2>1. u.idCount = Len(all) /\ u.collisions = {}  BY <1>4 DEF MadeFrom, HasParts
  <2>2. IsFiniteSet(0 .. Len(all) - 1)
    <3>1. 0 \in Int /\ Len(all) - 1 \in Int  BY <1>1
    <3> QED  BY <3>1, FS_Interval
  <2>3. Len(all) \in Nat /\ 0 .. Len(all) - 1 \subseteq 0 .. Len(all)  BY <1>1
  <2> QED  BY <1>14, <2>1, <2>2, <2>3 DEF EntriesTyped
<1>16. Indexed(u)
  <2>1. /\ DOMAIN u.addr = {all[k].host : k \in 1 .. Len(all)}
        /\ \A h \in DOMAIN u.addr : u.addr[h] = (CHOOSE k \in 1 .. Len(all) : all[k].host = h) - 1
    BY <1>4 DEF MadeFrom, HasParts
  <2>2. \A k \in 1 .. Len(all) : k - 1 \in Entries(u) /\ (k - 1) + 1 = k  BY <1>1, <1>14
  <2>3. DOMAIN u.addr = {u.info[i].host : i \in Entries(u)}
    <3>1. \A k \in 1 .. Len(all) : \E i \in Entries(u) : u.info[i].host = all[k].host
      <4> SUFFICES ASSUME NEW k \in 1 .. Len(all) PROVE u.info[k - 1].host = all[k].host
        BY <2>2
      <4> QED  BY <1>14, <2>2
    <3>2. \A i \in Entries(u) : \E k \in 1 .. Len(all) : u.info[i].host = all[k].host  BY <1>14
    <3> QED  BY <2>1, <3>1, <3>2
  <2>4. ASSUME NEW i \in Entries(u) PROVE u.addr[u.info[i].host] = i
    <3>1. i + 1 \in 1 .. Len(all) /\ u.info[i].host = all[i + 1].host /\ all[i + 1].host \in DOMAIN u.addr
      BY <1>14, <2>3
    <3>2. (CHOOSE k \in 1 .. Len(all) : all[k].host = all[i + 1].host) = i + 1  BY <1>7, <3>1
    <3>3. i \in Int /\ (i + 1) - 1 = i  BY <1>14
    <3> QED  BY <2>1, <3>1, <3>2, <3>3
  <2> QED  BY <2>3, <2>4 DEF Indexed
<1>17. Shuffled(u)
  <2>1. u.random = [k \in 1 .. Len(all) |-> k - 1]  BY <1>4 DEF MadeFrom, HasParts
  <2>2. Len(all) \in Nat /\ \A k \in 1 .. Len(all) : k - 1 \in Nat  BY <1>1
  <2>3. u.random \in Seq(Nat) /\ Len(u.random) = Len(all) /\ \A k \in 1 .. Len(all) : u.random[k] = k - 1
    BY <2>1, <2>2
  <2>4. Cardinality(Entries(u)) = Len(all)
    <3>1. 0 \in Int /\ Len(all) - 1 \in Int  BY <1>1
    <3> DEFINE z == Len(all) - 1
    <3>2. Cardinality(0 .. z) = IF 0 > z THEN 0 ELSE z - 0 + 1
      <4> HIDE DEF z
      <4> QED  BY <3>1, FS_Interval DEF z
    <3> QED  BY <1>1, <1>14, <3>2
  <2>5. ASSUME NEW i \in Entries(u)
        PROVE  u.info[i].pos \in 1 .. Len(u.random) /\ u.random[u.info[i].pos] = i
    <3>1. i \in Int /\ (i + 1) - 1 = i  BY <1>14
    <3> QED  BY <1>14, <2>3, <3>1
  <2>6. ASSUME NEW p \in 1 .. Len(u.random)
        PROVE  u.random[p] \in Entries(u) /\ u.info[u.random[p]].pos = p
    <3>1. p - 1 \in Entries(u) /\ (p - 1) + 1 = p /\ u.random[p] = p - 1  BY <1>1, <1>14, <2>3
    <3> QED  BY <1>14, <3>1
  <2> QED  BY <2>3, <2>4, <2>5, <2>6 DEF Shuffled
<1>18. References(u)
  <2>1. ASSUME NEW s \in NewSlots, s \in DOMAIN sl
        PROVE  \E k \in 1 .. n : all[k].host = sl[s] /\ u.newTable[s] = k - 1
    <3>1. u.newTable[s] = (CHOOSE k \in 1 .. n : all[k].host = sl[s]) - 1
      <4> DEFINE at(r) == IF r \in DOMAIN sl /\ \E k \in 1 .. n : all[k].host = sl[r]
                          THEN (CHOOSE k \in 1 .. n : all[k].host = sl[r]) - 1 ELSE Free
      <4>1. u.newTable = [r \in NewSlots |-> at(r)]  BY <1>4 DEF MadeFrom, HasParts
      <4>2. at(s) = (CHOOSE k \in 1 .. n : all[k].host = sl[s]) - 1  BY <1>10, <2>1
      <4> HIDE DEF at
      <4> QED  BY <4>1, <4>2
    <3> QED  BY <1>10, <2>1, <3>1
  <2>2. ASSUME NEW s \in NewSlots, s \notin DOMAIN sl PROVE u.newTable[s] = Free
    BY <1>4, <2>2, ZenonT(40) DEF MadeFrom, HasParts
  <2>3. u.newTable \in [NewSlots -> Entries(u) \cup {Free}]
    <3>1. u.newTable = [s \in NewSlots |-> u.newTable[s]]  BY <1>4 DEF MadeFrom, HasParts
    <3>2. \A k \in 1 .. n : k - 1 \in Entries(u)  BY <1>1, <1>14
    <3>3. \A s \in NewSlots : u.newTable[s] \in Entries(u) \cup {Free}  BY <2>1, <2>2, <3>2
    <3> QED  BY <3>1, <3>3
  <2>4. ASSUME NEW i \in Entries(u) PROVE RefsOf(u, i) = NamedAt(sl, all, n, i + 1)
    <3>0. i \in Nat /\ i # Free /\ i + 1 \in 1 .. Len(all)  BY <1>1, <1>14 DEF Free
    <3>1. ASSUME NEW s \in RefsOf(u, i) PROVE s \in NamedAt(sl, all, n, i + 1)
      <4>1. s \in NewSlots /\ u.newTable[s] = i  BY DEF RefsOf
      <4>2. s \in DOMAIN sl  BY <2>2, <3>0, <4>1
      <4>3. PICK k \in 1 .. n : all[k].host = sl[s] /\ u.newTable[s] = k - 1  BY <2>1, <4>1, <4>2
      <4>4. k = i + 1 /\ ~(i + 1 > n)  BY <1>1, <3>0, <4>1, <4>3
      <4> QED  BY <4>2, <4>3, <4>4 DEF NamedAt
    <3>2. ASSUME NEW s \in NamedAt(sl, all, n, i + 1) PROVE s \in RefsOf(u, i)
      <4>1. s \in DOMAIN sl /\ ~(i + 1 > n) /\ sl[s] = all[i + 1].host /\ s \in NewSlots
        BY <1>9 DEF NamedAt
      <4>2. PICK k \in 1 .. n : all[k].host = sl[s] /\ u.newTable[s] = k - 1  BY <2>1, <4>1
      <4>3. k \in 1 .. Len(all)  BY <1>1
      <4>4. k = i + 1  BY <1>7, <3>0, <4>1, <4>2, <4>3
      <4>5. u.newTable[s] = i  BY <3>0, <4>2, <4>4
      <4> QED  BY <4>1, <4>5 DEF RefsOf
    <3> QED  BY <3>1, <3>2
  <2>5. ASSUME NEW i \in Entries(u)
        PROVE  u.info[i].refs = Cardinality(RefsOf(u, i)) /\ u.info[i].refs <= NewBucketsPerAddress
    <3>1. u.info[i].refs = Cardinality(NamedAt(sl, all, n, i + 1)) /\ i + 1 \in 1 .. Len(all)  BY <1>14
    <3>2. CASE i + 1 \in 1 .. n  BY <1>11, <2>4, <3>1, <3>2, AddressAssumption
    <3>3. CASE i + 1 \in n + 1 .. Len(all)  BY <1>12, <2>4, <3>1, <3>3, AddressAssumption
    <3> QED  BY <1>1, <3>1, <3>2, <3>3
  <2> QED  BY <2>3, <2>5 DEF References
<1>19. TriedPlaces(u)
  <2> DEFINE at(s) == CHOOSE k \in n + 1 .. Len(all) : TriedSlotOf[all[k].host] = s
             wanted(s) == \E k \in n + 1 .. Len(all) : TriedSlotOf[all[k].host] = s
  <2>1. u.tried = [s \in TriedSlots |-> IF wanted(s) THEN at(s) - 1 ELSE Free]
    BY <1>4 DEF MadeFrom, HasParts
  <2>2. \A s : wanted(s) => at(s) \in n + 1 .. Len(all) /\ TriedSlotOf[all[at(s)].host] = s
    OBVIOUS
  <2>3. \A k \in n + 1 .. Len(all) : wanted(TriedSlotOf[all[k].host]) /\ at(TriedSlotOf[all[k].host]) = k
    BY <1>8
  <2> HIDE DEF at, wanted
  <2>4. \A k \in n + 1 .. Len(all) : k - 1 \in Entries(u) /\ (k - 1) + 1 = k /\ k - 1 # Free
    BY <1>1, <1>14 DEF Free
  <2>5. u.tried \in [TriedSlots -> Entries(u) \cup {Free}]  BY <2>1, <2>2, <2>4
  <2>6. ASSUME NEW s \in TriedSlots, u.tried[s] # Free
        PROVE  /\ wanted(s) /\ u.tried[s] = at(s) - 1 /\ at(s) \in n + 1 .. Len(all)
               /\ TriedSlotOf[u.info[u.tried[s]].host] = s
    <3>1. wanted(s) /\ u.tried[s] = at(s) - 1  BY <2>1, <2>6
    <3>2. at(s) \in n + 1 .. Len(all) /\ TriedSlotOf[all[at(s)].host] = s  BY <2>2, <3>1
    <3>3. at(s) - 1 \in Entries(u) /\ (at(s) - 1) + 1 = at(s)  BY <2>4, <3>2
    <3>4. u.info[at(s) - 1].host = all[at(s)].host  BY <1>14, <3>3
    <3> QED  BY <3>1, <3>2, <3>4
  <2>7. ASSUME NEW i \in Entries(u)
        PROVE  u.info[i].tried <=> u.tried[TriedSlotOf[u.info[i].host]] = i
    <3>1. /\ i \in Nat /\ i # Free /\ i + 1 \in 1 .. Len(all) /\ u.info[i].host = all[i + 1].host
          /\ u.info[i].tried <=> i + 1 > n
      <4>1. u.info[i].tried = (i + 1 > n)  BY <1>14
      <4>2. u.info[i].tried <=> i + 1 > n  BY <4>1
      <4> QED  BY <1>1, <1>14, <4>2 DEF Free
    <3>2. TriedSlotOf[all[i + 1].host] \in TriedSlots
      BY <1>6, <3>1, AddressAssumption DEF Infos
    <3>3. CASE i + 1 > n
      <4>1. i + 1 \in n + 1 .. Len(all) /\ (i + 1) - 1 = i  BY <1>1, <3>1, <3>3
      <4>2. u.tried[TriedSlotOf[all[i + 1].host]] = i  BY <2>1, <2>3, <3>2, <4>1
      <4> QED  BY <3>1, <3>3, <4>2
    <3>4. CASE ~(i + 1 > n)
      <4>1. ASSUME u.tried[TriedSlotOf[all[i + 1].host]] = i PROVE FALSE
        <5> DEFINE k == at(TriedSlotOf[all[i + 1].host])
        <5>1. k \in n + 1 .. Len(all) /\ i = k - 1  BY <2>6, <3>1, <3>2, <4>1
        <5> HIDE DEF k
        <5> QED  BY <1>1, <3>1, <3>4, <5>1
      <4> QED  BY <3>1, <3>4, <4>1
    <3> QED  BY <3>3, <3>4
  <2> QED  BY <2>5, <2>6, <2>7 DEF TriedPlaces
<1>20. InOneTable(u, {})
  <2> SUFFICES ASSUME NEW i \in Entries(u) PROVE u.info[i].tried <=> u.info[i].refs = 0
    BY DEF InOneTable
  <2>1. i + 1 \in 1 .. Len(all) /\ u.info[i].refs = Cardinality(NamedAt(sl, all, n, i + 1))  BY <1>14
  <2>2. u.info[i].tried = (i + 1 > n)  BY <1>14
  <2>3. CASE i + 1 \in 1 .. n
    <3>1. ~(i + 1 > n) /\ u.info[i].refs # 0  BY <1>1, <1>11, <2>1, <2>3, AddressAssumption
    <3> QED  BY <2>2, <3>1
  <2>4. CASE i + 1 \in n + 1 .. Len(all)
    <3>1. i + 1 > n /\ u.info[i].refs = 0  BY <1>1, <1>12, <2>1, <2>4
    <3> QED  BY <2>2, <3>1
  <2> QED  BY <1>1, <2>1, <2>3, <2>4
<1>21. Counted(u, 0)
  <2>1. u.newCount = n /\ u.triedCount = Len(all) - n  BY <1>4 DEF MadeFrom, HasParts
  <2>2. \A i \in Entries(u) : u.info[i].tried <=> i + 1 > n
    <3>1. \A i \in Entries(u) : u.info[i].tried = (i + 1 > n)  BY <1>14
    <3> QED  BY <3>1
  <2>3. NewOnes(u) = 0 .. n - 1  BY <1>1, <1>14, <2>2 DEF NewOnes
  <2>4. TriedOnes(u) = n .. Len(all) - 1  BY <1>1, <1>14, <2>2 DEF TriedOnes
  <2>5. 0 \in Int /\ n \in Int /\ n - 1 \in Int /\ Len(all) - 1 \in Int  BY <1>1
  <2>6. Cardinality(0 .. n - 1) = IF 0 > n - 1 THEN 0 ELSE n - 1 - 0 + 1  BY <2>5, FS_Interval
  <2>7. Cardinality(n .. Len(all) - 1) = IF n > Len(all) - 1 THEN 0 ELSE Len(all) - 1 - n + 1
    BY <2>5, FS_Interval
  <2> QED  BY <1>1, <2>1, <2>3, <2>4, <2>6, <2>7 DEF Counted
<1>22. IsTables(u) /\ u.collisions = {}  BY <1>4 DEF MadeFrom, HasParts
<1> QED  BY <1>15, <1>16, <1>17, <1>18, <1>19, <1>20, <1>21, <1>22 DEF TablesInv

\* The tried entries that were saved all find a slot again, each its own.
LEMMA TriedFit ==
    ASSUME NEW t, NEW d, TablesInv(t, {}, d), NEW T, NEW m,
           T = SavedTried(t), m = Cardinality(TriedOnes(t))
    PROVE  /\ m \in Nat /\ T \in Seq(Infos) /\ Len(T) = m /\ Fitting(T) = T
           /\ \A k, l \in 1 .. m : T[k].host = T[l].host => k = l
           /\ \A k, l \in 1 .. m : TriedSlotOf[T[k].host] = TriedSlotOf[T[l].host] => k = l
<1>1. SavedAs(t, SavedNew(t), T, Cardinality(NewOnes(t)), m)  BY SavedFacts
<1>2. /\ m \in Nat /\ T \in Seq(Infos) /\ Len(T) = m /\ T = SetToSeq({T[k] : k \in 1 .. m})
      /\ \A k \in 1 .. m : \E i \in TriedOnes(t) : T[k] = t.info[i]
      /\ \A k, l \in 1 .. m : T[k].host = T[l].host => k = l
  BY <1>1 DEF SavedAs
<1>3. \A k, l \in 1 .. m : k # l => TriedSlotOf[T[k].host] # TriedSlotOf[T[l].host]
  <2> SUFFICES ASSUME NEW k \in 1 .. m, NEW l \in 1 .. m, k # l,
                      TriedSlotOf[T[k].host] = TriedSlotOf[T[l].host]
               PROVE  FALSE
    OBVIOUS
  <2>1. PICK i \in TriedOnes(t) : T[k] = t.info[i]  BY <1>2
  <2>2. PICK j \in TriedOnes(t) : T[l] = t.info[j]  BY <1>2
  <2>3. i = j
    <3>1. /\ i \in Entries(t) /\ t.tried[TriedSlotOf[t.info[i].host]] = i
          /\ j \in Entries(t) /\ t.tried[TriedSlotOf[t.info[j].host]] = j
      BY DEF TriedOnes, TablesInv, TriedPlaces
    <3> QED  BY <2>1, <2>2, <3>1
  <2> QED  BY <1>2, <2>1, <2>2, <2>3
<1>4. Fitting(T) = T
  <2>1. /\ T \in Seq(Infos) /\ T = SetToSeq({T[k] : k \in 1 .. Len(T)})
        /\ \A k, l \in 1 .. Len(T) : k # l => TriedSlotOf[T[k].host] # TriedSlotOf[T[l].host]
    BY <1>2, <1>3
  <2> QED  BY <2>1, AllFit
<1> QED  BY <1>2, <1>3, <1>4

\* The parts of the tables that deserialize makes without slots.
TriedMade(u, all, n, m) ==
    HasParts(u,
          [i \in n .. n + m - 1 |->
               [all[i - n + 1] EXCEPT !.pos = IF i < m THEN i + 1 ELSE n + m - i, !.tried = TRUE, !.refs = 0]],
          [h \in {all[k].host : k \in 1 .. m} |-> (CHOOSE k \in 1 .. m : all[k].host = h) + n - 1],
          [p \in 1 .. m |-> IF p <= n THEN n + m - p ELSE p - 1],
          [s \in NewSlots |-> Free],
          [s \in TriedSlots |->
               IF \E k \in 1 .. m : TriedSlotOf[all[k].host] = s
               THEN (CHOOSE k \in 1 .. m : TriedSlotOf[all[k].host] = s) + n - 1 ELSE Free],
          0, m, n + m, {})

\* deserialize without slots: the tried entries are left, with their old identifiers
\* and at the places where the swaps of the deletions put them.
LEMMA WithoutSlotsKeeps ==
    ASSUME NEW all, NEW n \in Nat, NEW m \in Nat, Len(all) = m,
           \A k \in 1 .. m : all[k] \in Infos,
           \A k, l \in 1 .. m : all[k].host = all[l].host => k = l,
           \A k, l \in 1 .. m : TriedSlotOf[all[k].host] = TriedSlotOf[all[l].host] => k = l
    PROVE  LET u == WithoutSlots(all, n)
           IN  TablesInv(u, {}, 0) /\ u.collisions = {}
<1>1. PICK u : u = WithoutSlots(all, n)  OBVIOUS
<1>2. TriedMade(u, all, n, m)
  <2>1. TriedMade(u, all, n, Len(all))
    BY <1>1 DEF WithoutSlots, TriedMade, HasParts, IsTables, PartNames
  <2> QED  BY <2>1
<1>3. /\ Entries(u) = n .. n + m - 1 /\ u.info \in [Entries(u) -> Infos]
      /\ \A i \in Entries(u) :
            /\ i - n + 1 \in 1 .. m /\ u.info[i].host = all[i - n + 1].host
            /\ u.info[i].pos = IF i < m THEN i + 1 ELSE n + m - i
            /\ u.info[i].tried /\ u.info[i].refs = 0
  <2> DEFINE e(i) == [all[i - n + 1] EXCEPT !.pos = IF i < m THEN i + 1 ELSE n + m - i, !.tried = TRUE, !.refs = 0]
  <2>1. u.info = [i \in n .. n + m - 1 |-> e(i)]  BY <1>2 DEF TriedMade, HasParts
  <2>2. ASSUME NEW i \in n .. n + m - 1
        PROVE  /\ i - n + 1 \in 1 .. m /\ e(i) \in Infos /\ e(i).host = all[i - n + 1].host
               /\ e(i).pos = IF i < m THEN i + 1 ELSE n + m - i
               /\ e(i).tried /\ e(i).refs = 0
    <3>1. i - n + 1 \in 1 .. m  OBVIOUS
    <3>2. PICK p : p = IF i < m THEN i + 1 ELSE n + m - i  OBVIOUS
    <3>3. p \in Nat  BY <3>2
    <3>4. PICK x : x = all[i - n + 1]  OBVIOUS
    <3>5. PICK b, c : b = TRUE /\ c = 0 /\ b \in BOOLEAN /\ c \in Nat  OBVIOUS
    <3>6. x \in Infos  BY <3>1, <3>4
    <3>7. e(i) = LoadedRecord(x, p, b, c)  BY <3>2, <3>4, <3>5 DEF LoadedRecord
    <3> HIDE DEF e
    <3>8. e(i) \in Infos /\ e(i).host = x.host /\ e(i).pos = p /\ e(i).tried = b /\ e(i).refs = c
      <4>1. b \in BOOLEAN /\ c \in Nat  BY <3>5
      <4>2. PICK y : y = LoadedRecord(x, p, b, c)  OBVIOUS
      <4>3. y \in Infos /\ y.host = x.host /\ y.pos = p /\ y.tried = b /\ y.refs = c
        BY <3>3, <3>6, <4>1, <4>2 DEF Infos, LoadedRecord
      <4> QED  BY <3>7, <4>2, <4>3
    <3> QED  BY <3>1, <3>2, <3>4, <3>5, <3>8
  <2> HIDE DEF e
  <2> QED  BY <2>1, <2>2 DEF Entries
<1>4. IsFiniteSet(Entries(u)) /\ Cardinality(Entries(u)) = m
  <2>1. PICK z : z = n + m - 1 /\ z \in Int /\ n \in Int  OBVIOUS
  <2>2. IsFiniteSet(n .. z) /\ Cardinality(n .. z) = IF n > z THEN 0 ELSE z - n + 1
    BY <2>1, FS_Interval
  <2> QED  BY <1>3, <2>1, <2>2
<1>5. EntriesTyped(u)
  <2>1. u.idCount = n + m /\ u.collisions = {}  BY <1>2 DEF TriedMade, HasParts
  <2>2. n .. n + m - 1 \subseteq 0 .. n + m /\ n + m \in Nat  OBVIOUS
  <2> QED  BY <1>3, <1>4, <2>1, <2>2 DEF EntriesTyped
<1>6. \A k \in 1 .. m : k + n - 1 \in Entries(u) /\ (k + n - 1) - n + 1 = k /\ k + n - 1 # Free
  BY <1>3 DEF Free
<1>7. Indexed(u)
  <2>1. /\ DOMAIN u.addr = {all[k].host : k \in 1 .. m}
        /\ \A h \in DOMAIN u.addr : u.addr[h] = (CHOOSE k \in 1 .. m : all[k].host = h) + n - 1
    <3> DEFINE at(h) == (CHOOSE k \in 1 .. m : all[k].host = h) + n - 1
    <3>1. u.addr = [h \in {all[k].host : k \in 1 .. m} |-> at(h)]  BY <1>2 DEF TriedMade, HasParts
    <3>2. \A h : at(h) = (CHOOSE k \in 1 .. m : all[k].host = h) + n - 1  OBVIOUS
    <3> HIDE DEF at
    <3> QED  BY <3>1, <3>2
  <2>2. DOMAIN u.addr = {u.info[i].host : i \in Entries(u)}
    <3>1. \A k \in 1 .. m : \E i \in Entries(u) : u.info[i].host = all[k].host
      <4> SUFFICES ASSUME NEW k \in 1 .. m PROVE u.info[k + n - 1].host = all[k].host  BY <1>6
      <4> QED  BY <1>3, <1>6
    <3>2. \A i \in Entries(u) : \E k \in 1 .. m : u.info[i].host = all[k].host  BY <1>3
    <3> QED  BY <2>1, <3>1, <3>2
  <2>3. ASSUME NEW i \in Entries(u) PROVE u.addr[u.info[i].host] = i
    <3>1. PICK k : k = i - n + 1  OBVIOUS
    <3>2. k \in 1 .. m /\ u.info[i].host = all[k].host /\ all[k].host \in DOMAIN u.addr  BY <1>3, <2>2, <3>1
    <3>3. (CHOOSE l \in 1 .. m : all[l].host = all[k].host) = k  BY <3>2
    <3>4. k + n - 1 = i
      <4>1. i \in n .. n + m - 1  BY <1>3
      <4> QED  BY <3>1, <4>1
    <3> QED  BY <2>1, <3>2, <3>3, <3>4
  <2> QED  BY <2>2, <2>3 DEF Indexed
<1>8. Shuffled(u)
  <2>1. u.random = [p \in 1 .. m |-> IF p <= n THEN n + m - p ELSE p - 1]  BY <1>2 DEF TriedMade, HasParts
  <2>2. /\ \A p \in 1 .. m : u.random[p] = IF p <= n THEN n + m - p ELSE p - 1
        /\ DOMAIN u.random = 1 .. m
    BY <2>1
  <2>3. \A p \in 1 .. m : u.random[p] \in n .. n + m - 1  BY <2>2
  <2>4. u.random \in [1 .. m -> Nat]  BY <2>1, <2>3
  <2>5. u.random \in Seq(Nat) /\ Len(u.random) = m  BY <2>4
  <2>6. ASSUME NEW i \in Entries(u)
        PROVE  u.info[i].pos \in 1 .. m /\ u.random[u.info[i].pos] = i
    <3>1. i \in n .. n + m - 1 /\ u.info[i].pos = IF i < m THEN i + 1 ELSE n + m - i  BY <1>3
    <3>2. u.info[i].pos \in 1 .. m  BY <3>1
    <3> QED  BY <2>2, <3>1, <3>2
  <2>7. ASSUME NEW p \in 1 .. m PROVE u.random[p] \in Entries(u) /\ u.info[u.random[p]].pos = p
    <3>1. PICK i : i = u.random[p]  OBVIOUS
    <3>2. i \in n .. n + m - 1 /\ i = IF p <= n THEN n + m - p ELSE p - 1  BY <2>2, <2>3, <3>1
    <3>3. u.info[i].pos = IF i < m THEN i + 1 ELSE n + m - i  BY <1>3, <3>2
    <3>4. u.info[i].pos = p  BY <3>2, <3>3
    <3> QED  BY <1>3, <3>1, <3>2, <3>4
  <2> QED  BY <1>4, <2>5, <2>6, <2>7 DEF Shuffled
<1>9. References(u)
  <2>1. u.newTable = [s \in NewSlots |-> Free]  BY <1>2 DEF TriedMade, HasParts
  <2>2. \A i \in Entries(u) : i # Free  BY <1>3 DEF Free
  <2>3. \A i \in Entries(u) : RefsOf(u, i) = {}  BY <2>1, <2>2 DEF RefsOf
  <2>4. Cardinality({}) = 0 /\ 0 <= NewBucketsPerAddress  BY FS_EmptySet, AddressAssumption
  <2>5. u.newTable \in [NewSlots -> Entries(u) \cup {Free}]  BY <2>1
  <2>6. \A i \in Entries(u) : u.info[i].refs = Cardinality(RefsOf(u, i)) /\ u.info[i].refs <= NewBucketsPerAddress
    <3> SUFFICES ASSUME NEW i \in Entries(u)
                 PROVE  u.info[i].refs = Cardinality(RefsOf(u, i)) /\ u.info[i].refs <= NewBucketsPerAddress
      OBVIOUS
    <3>1. u.info[i].refs = 0 /\ RefsOf(u, i) = {}  BY <1>3, <2>3
    <3> QED  BY <2>4, <3>1
  <2> QED  BY <2>5, <2>6 DEF References
<1>10. TriedPlaces(u)
  <2> DEFINE at(s) == CHOOSE k \in 1 .. m : TriedSlotOf[all[k].host] = s
             wanted(s) == \E k \in 1 .. m : TriedSlotOf[all[k].host] = s
  <2>1. u.tried = [s \in TriedSlots |-> IF wanted(s) THEN at(s) + n - 1 ELSE Free]
    BY <1>2 DEF TriedMade, HasParts
  <2>2. \A s : wanted(s) => at(s) \in 1 .. m /\ TriedSlotOf[all[at(s)].host] = s
    OBVIOUS
  <2>3. \A k \in 1 .. m : wanted(TriedSlotOf[all[k].host]) /\ at(TriedSlotOf[all[k].host]) = k
    OBVIOUS
  <2> HIDE DEF at, wanted
  <2>5. u.tried \in [TriedSlots -> Entries(u) \cup {Free}]  BY <1>6, <2>1, <2>2
  <2>6. ASSUME NEW s \in TriedSlots, u.tried[s] # Free
        PROVE  TriedSlotOf[u.info[u.tried[s]].host] = s
    <3>1. wanted(s) /\ u.tried[s] = at(s) + n - 1  BY <2>1, <2>6
    <3>2. PICK k : k = at(s)  OBVIOUS
    <3>3. k \in 1 .. m /\ TriedSlotOf[all[k].host] = s  BY <2>2, <3>1, <3>2
    <3>4. u.info[k + n - 1].host = all[k].host  BY <1>3, <1>6, <3>3
    <3> QED  BY <3>1, <3>2, <3>3, <3>4
  <2>7. ASSUME NEW i \in Entries(u)
        PROVE  u.info[i].tried <=> u.tried[TriedSlotOf[u.info[i].host]] = i
    <3>1. PICK k : k = i - n + 1  OBVIOUS
    <3>2. k \in 1 .. m /\ u.info[i].host = all[k].host /\ k + n - 1 = i /\ u.info[i].tried  BY <1>3, <3>1
    <3>3. TriedSlotOf[all[k].host] \in TriedSlots
      BY <3>2, AddressAssumption DEF Infos
    <3>4. u.tried[TriedSlotOf[all[k].host]] = i  BY <2>1, <2>3, <3>2, <3>3
    <3> QED  BY <3>2, <3>4
  <2> QED  BY <2>5, <2>6, <2>7 DEF TriedPlaces
<1>11. InOneTable(u, {})  BY <1>3 DEF InOneTable
<1>12. Counted(u, 0)
  <2>1. u.newCount = 0 /\ u.triedCount = m  BY <1>2 DEF TriedMade, HasParts
  <2>2. NewOnes(u) = {} /\ TriedOnes(u) = Entries(u)  BY <1>3 DEF NewOnes, TriedOnes
  <2>3. Cardinality({}) = 0  BY FS_EmptySet
  <2> QED  BY <1>4, <2>1, <2>2, <2>3 DEF Counted
<1>13. IsTables(u) /\ u.collisions = {}  BY <1>2 DEF TriedMade, HasParts
<1> QED  BY <1>1, <1>5, <1>7, <1>8, <1>9, <1>10, <1>11, <1>12, <1>13 DEF TablesInv

\* deserialize of what serialize wrote: every entry has its slots again, and the
\* tables agree about them under their new identifiers.
LEMMA LoadedKeeps ==
    ASSUME NEW t, NEW d, TablesInv(t, {}, d)
    PROVE  LET u == Loaded([new |-> SavedNew(t), tried |-> SavedTried(t), slots |-> SavedSlots(t)])
           IN  TablesInv(u, {}, 0) /\ u.collisions = {}
<1>0. PICK N, T, n, m, sl : /\ N = SavedNew(t) /\ T = SavedTried(t) /\ sl = SavedSlots(t)
                            /\ n = Cardinality(NewOnes(t)) /\ m = Cardinality(TriedOnes(t))
  OBVIOUS
<1>a. SavedAs(t, N, T, n, m)  BY <1>0, SavedFacts
<1>1. n \in Nat /\ m \in Nat
  BY <1>a DEF SavedAs
<1>2. N \in Seq(Infos) /\ Len(N) = n /\ T \in Seq(Infos) /\ Len(T) = m
  BY <1>a DEF SavedAs
<1>3. /\ \A k \in 1 .. n : \E i \in NewOnes(t) : N[k] = t.info[i]
      /\ \A k \in 1 .. m : \E i \in TriedOnes(t) : T[k] = t.info[i]
      /\ \A i \in NewOnes(t) : \E k \in 1 .. n : N[k] = t.info[i]
  BY <1>a DEF SavedAs
<1>4. /\ \A k, l \in 1 .. n : N[k].host = N[l].host => k = l
      /\ \A k, l \in 1 .. m : T[k].host = T[l].host => k = l
      /\ \A k \in 1 .. n, l \in 1 .. m : N[k].host # T[l].host
  BY <1>a DEF SavedAs
<1>6. Fitting(T) = T /\ \A k, l \in 1 .. m : TriedSlotOf[T[k].host] = TriedSlotOf[T[l].host] => k = l
  BY <1>0, TriedFit
<1>8. PICK all : all = N \o T  OBVIOUS
<1>9. /\ Len(all) = n + m /\ DOMAIN all = 1 .. n + m
      /\ \A k \in 1 .. n + m : all[k] \in Infos
      /\ \A k \in 1 .. n : all[k] = N[k]
      /\ \A k \in n + 1 .. n + m : k - n \in 1 .. m /\ all[k] = T[k - n]
  <2>1. all \in Seq(Infos)  BY <1>2, <1>8
  <2>2. /\ Len(all) = n + m /\ DOMAIN all = 1 .. n + m
        /\ \A k \in 1 .. n : all[k] = N[k]
        /\ \A k \in n + 1 .. n + m : k - n \in 1 .. m /\ all[k] = T[k - n]
    BY <1>2, <1>8, AllRecords
  <2> QED  BY <2>1, <2>2
<1>10. PICK u : u = Loaded([new |-> N, tried |-> T, slots |-> sl])  OBVIOUS
<1>11. MadeFrom(u, sl, all, n)
  <2>1. u = TablesOf(N \o Fitting(T), Len(N), sl)  BY <1>10 DEF Loaded
  <2>2. u = TablesOf(all, n, sl)  BY <1>2, <1>6, <1>8, <2>1
  <2> QED  BY <2>2, LoadedParts
<1>12. \A k, l \in 1 .. n + m : all[k].host = all[l].host => k = l
  <2>0. \A k, l \in 1 .. n + m : k < l => all[k].host # all[l].host
    <3> SUFFICES ASSUME NEW k \in 1 .. n + m, NEW l \in 1 .. n + m, all[k].host = all[l].host, k < l
                 PROVE  FALSE
      OBVIOUS
    <3>1. CASE l <= n
      <4>1. k \in 1 .. n /\ l \in 1 .. n /\ k # l  BY <1>1, <3>1
      <4> QED  BY <1>4, <1>9, <4>1
    <3>2. CASE k > n
      <4>1. k \in n + 1 .. n + m /\ l \in n + 1 .. n + m /\ k - n # l - n  BY <1>1, <3>2
      <4> QED  BY <1>4, <1>9, <4>1
    <3>3. CASE k <= n /\ l > n
      <4>1. k \in 1 .. n /\ l \in n + 1 .. n + m  BY <1>1, <3>3
      <4>2. all[k] = N[k] /\ l - n \in 1 .. m /\ all[l] = T[l - n]  BY <1>9, <4>1
      <4> QED  BY <1>4, <4>1, <4>2
    <3> QED  BY <1>1, <3>1, <3>2, <3>3
  <2>1. \A k, l \in 1 .. n + m : k = l \/ k < l \/ l < k  BY <1>1
  <2> QED  BY <2>0, <2>1
<1>13. \A k, l \in n + 1 .. n + m : TriedSlotOf[all[k].host] = TriedSlotOf[all[l].host] => k = l
  <2> SUFFICES ASSUME NEW k \in n + 1 .. n + m, NEW l \in n + 1 .. n + m, k # l,
                      TriedSlotOf[all[k].host] = TriedSlotOf[all[l].host]
               PROVE  FALSE
    OBVIOUS
  <2>1. k - n \in 1 .. m /\ all[k] = T[k - n] /\ l - n \in 1 .. m /\ all[l] = T[l - n]  BY <1>9
  <2>2. k - n # l - n  BY <1>1
  <2> QED  BY <1>6, <2>1, <2>2
<1>14. /\ DOMAIN sl = {r \in NewSlots : t.newTable[r] # Free}
       /\ \A s \in DOMAIN sl : sl[s] = t.info[t.newTable[s]].host
  BY <1>0 DEF SavedSlots
<1>15. \A s \in DOMAIN sl : \E k \in 1 .. n : all[k].host = sl[s]
  <2> SUFFICES ASSUME NEW s \in DOMAIN sl PROVE \E k \in 1 .. n : all[k].host = sl[s]  OBVIOUS
  <2>1. s \in NewSlots /\ t.newTable[s] # Free  BY <1>14
  <2>2. t.newTable[s] \in NewOnes(t)  BY <2>1, SlotOwner DEF NewOnes
  <2>3. PICK k \in 1 .. n : N[k] = t.info[t.newTable[s]]  BY <1>3, <2>2
  <2> QED  BY <1>9, <1>14, <2>3
<1>16. ASSUME NEW k \in 1 .. n
       PROVE  Cardinality(NamedAt(sl, all, n, k)) \in 1 .. NewBucketsPerAddress
  <2>1. PICK j \in NewOnes(t) : all[k] = t.info[j]  BY <1>3, <1>9
  <2>2. j \in Entries(t) /\ ~t.info[j].tried  BY DEF NewOnes
  <2>3. t.info[j].refs \in Nat /\ t.info[j].refs # 0 /\ t.info[j].refs <= NewBucketsPerAddress
        /\ t.info[j].refs = Cardinality(RefsOf(t, j))
    BY <2>2 DEF TablesInv, InOneTable, EntriesTyped, Infos, References
  <2>4. NamedAt(sl, all, n, k) = RefsOf(t, j)
    <3>1. ~(k > n)  BY <1>1
    <3>2. ASSUME NEW s \in DOMAIN sl, sl[s] = all[k].host PROVE s \in RefsOf(t, j)
      <4>1. s \in NewSlots /\ t.newTable[s] \in Entries(t)  BY <1>14, SlotOwner
      <4>2. t.newTable[s] = j  BY <1>14, <2>1, <2>2, <3>2, <4>1, HostsApart DEF TablesInv
      <4> QED  BY <4>1, <4>2 DEF RefsOf
    <3>3. ASSUME NEW s \in RefsOf(t, j) PROVE s \in DOMAIN sl /\ sl[s] = all[k].host
      <4>1. s \in NewSlots /\ t.newTable[s] = j /\ j # Free
        BY <2>2 DEF RefsOf, TablesInv, EntriesTyped, Free
      <4> QED  BY <1>14, <2>1, <4>1
    <3> QED  BY <3>1, <3>2, <3>3 DEF NamedAt
  <2> QED  BY <2>3, <2>4, AddressAssumption
<1>17. TablesInv(u, {}, 0) /\ u.collisions = {}
  <2>1. Len(all) \in Nat /\ n \in 0 .. Len(all)  BY <1>1, <1>9
  <2>2. /\ \A k \in 1 .. Len(all) : all[k] \in Infos
        /\ \A k, l \in 1 .. Len(all) : all[k].host = all[l].host => k = l
        /\ \A k, l \in n + 1 .. Len(all) : TriedSlotOf[all[k].host] = TriedSlotOf[all[l].host] => k = l
    BY <1>9, <1>12, <1>13
  <2>3. /\ DOMAIN sl \subseteq NewSlots
        /\ \A k \in 1 .. n : Cardinality(NamedAt(sl, all, n, k)) \in 1 .. NewBucketsPerAddress
    BY <1>14, <1>16
  <2> QED  BY <1>11, <1>15, <2>1, <2>2, <2>3, MadeKeeps, SMTT(30)
<1> QED  BY <1>0, <1>10, <1>17

-----------------------------------------------------------------------------
\* Who waits still waits for a taken slot when entries go.
LEMMA ShrinksOwners ==
    ASSUME NEW t, NEW u, Shrinks(t, u), Owners(t)
    PROVE  Owners(u)
BY DEF Shrinks, Owners

\* The entry of a known host.
LEMMA KnownEntry ==
    ASSUME NEW t, NEW d, TablesInv(t, {}, d), NEW h, Known(t, h)
    PROVE  t.addr[h] \in Entries(t)
BY DEF TablesInv, Indexed, Known

\* A collision is taken off the list.
LEMMA ForgetKeeps ==
    ASSUME NEW t, NEW d, TablesInv(t, {}, d), Owners(t), NEW i
    PROVE  LET u == [t EXCEPT !.collisions = @ \ {i}]
           IN  TablesInv(u, {}, d) /\ Owners(u)
<1> DEFINE u == [t EXCEPT !.collisions = @ \ {i}]
<1>1. HasParts(u, t.info, t.addr, t.random, t.newTable, t.tried, t.newCount, t.triedCount, t.idCount,
               t.collisions \ {i})
  BY DEF HasParts, IsTables, PartNames, TablesInv
<1> HIDE DEF u
<1>2. Entries(u) = Entries(t) /\ \A k : RefsOf(u, k) = RefsOf(t, k)
  BY <1>1 DEF HasParts, Entries, RefsOf
<1>3. NewOnes(u) = NewOnes(t) /\ TriedOnes(u) = TriedOnes(t)
  BY <1>1, <1>2 DEF HasParts, NewOnes, TriedOnes
<1>4. EntriesTyped(u)  BY <1>1, <1>2 DEF HasParts, TablesInv, EntriesTyped
<1>5. Indexed(u) /\ Shuffled(u)  BY <1>1, <1>2 DEF HasParts, TablesInv, Indexed, Shuffled
<1>6. References(u) /\ TriedPlaces(u)  BY <1>1, <1>2 DEF HasParts, TablesInv, References, TriedPlaces
<1>7. InOneTable(u, {}) /\ Counted(u, d)  BY <1>1, <1>2, <1>3 DEF HasParts, TablesInv, InOneTable, Counted
<1>8. Owners(u)  BY <1>1, <1>2 DEF HasParts, Owners
<1> QED  BY <1>1, <1>4, <1>5, <1>6, <1>7, <1>8 DEF HasParts, TablesInv, u

\* The empty tables agree, but for n entries that are counted and lost.
LEMMA NoTablesAgree ==
    ASSUME NEW n \in Nat
    PROVE  LET u == EmptyTables(n)
           IN  TablesInv(u, {}, 0 - n) /\ Owners(u)
<1> DEFINE u == EmptyTables(n)
<1>1. HasParts(u, [i \in {} |-> 0], [h \in {} |-> 0], <<>>, [s \in NewSlots |-> Free],
               [s \in TriedSlots |-> Free], n, 0, 0, {})
  BY DEF EmptyTables, HasParts, IsTables, PartNames
<1> HIDE DEF u
<1>2. Entries(u) = {}  BY <1>1 DEF HasParts, Entries
<1>3. NewOnes(u) = {} /\ TriedOnes(u) = {}  BY <1>2 DEF NewOnes, TriedOnes
<1>4. IsFiniteSet({}) /\ Cardinality({}) = 0  BY FS_EmptySet
<1>5. u.info \in [Entries(u) -> Infos]  BY <1>1, <1>2 DEF HasParts
<1>6. EntriesTyped(u)  BY <1>1, <1>2, <1>4, <1>5 DEF HasParts, EntriesTyped
<1>7. Indexed(u)  BY <1>1, <1>2 DEF HasParts, Indexed
<1>8. Shuffled(u)
  <2>1. u.random = <<>> /\ <<>> \in Seq(Nat) /\ Len(<<>>) = 0  BY <1>1 DEF HasParts
  <2> QED  BY <1>2, <1>4, <2>1 DEF Shuffled
<1>9. References(u) /\ TriedPlaces(u)  BY <1>1, <1>2 DEF HasParts, References, TriedPlaces
<1>10. InOneTable(u, {}) /\ Counted(u, 0 - n)  BY <1>1, <1>2, <1>3, <1>4 DEF HasParts, InOneTable, Counted
<1>11. Owners(u)  BY <1>2 DEF Owners
<1> QED  BY <1>1, <1>6, <1>7, <1>8, <1>9, <1>10, <1>11 DEF HasParts, TablesInv, u

\* The invariant of the next state's tables.
LEMMA AddressPrimed == AddressInv' <=> lost' \in Nat /\ TablesInv(am', {}, 0 - lost') /\ Owners(am')
<1>1. TablesInv(am, {}, 0 - lost)' <=> TablesInv(am', {}, 0 - lost')
  BY DEF TablesInv, IsTables, EntriesTyped, Indexed, Shuffled, References, TriedPlaces, InOneTable, Counted,
         Entries, RefsOf, NewOnes, TriedOnes
<1>2. CollisionsHaveOwners' <=> Owners(am')  BY DEF CollisionsHaveOwners, Owners, Entries
<1> QED  BY <1>1, <1>2 DEF AddressInv

\* Each operation of the manager, and a restart.
LEMMA AddressStep ==
    ASSUME AddressInv, AmNext
    PROVE  AddressInv'
<1>a. PICK d : d = 0 - lost /\ d \in Int  BY DEF AddressInv
<1>0. d \in Int /\ TablesInv(am, {}, d) /\ Owners(am)
  BY <1>a DEF AddressInv, CollisionsHaveOwners, Owners
<1>b. ASSUME UNCHANGED lost, TablesInv(am', {}, d) /\ Owners(am') PROVE AddressInv'
  <2>1. lost' \in Nat /\ 0 - lost' = d  BY <1>a, <1>b DEF AddressInv
  <2> QED  BY <1>b, <2>1, AddressPrimed
<1>1. ASSUME NEW h \in Hosts, NEW port \in Ports, NEW src \in Sources, NEW newer \in BOOLEAN,
             NEW terrible \in BOOLEAN, AddToNewTable(h, port, src, newer, terrible)
      PROVE  TablesInv(am', {}, d) /\ Owners(am')
  <2>1. CASE Known(am, h)
    <3>1. PICK i : i = am.addr[h]  OBVIOUS
    <3>2. i \in Entries(am)  BY <1>0, <2>1, <3>1, KnownEntry
    <3>3. /\ ~am.info[i].tried /\ am.info[i].refs < NewBucketsPerAddress
          /\ am' = PlaceInNew(am, i, src, terrible)
      BY <1>1, <2>1, <3>1 DEF AddToNewTable
    <3>4. TablesInv(am', {}, d) /\ Shrinks(am, am')  BY <1>0, <3>2, <3>3, PlaceKeeps
    <3> QED  BY <1>0, <3>4, ShrinksOwners
  <2>2. CASE ~Known(am, h)
    <3>1. PICK c, i : c = Create(am, h, port, src) /\ i = am.idCount + 1  OBVIOUS
    <3>2. am' = PlaceInNew(c, i, src, terrible)  BY <1>1, <2>2, <3>1 DEF AddToNewTable
    <3>3. /\ TablesInv(c, {i}, d) /\ Entries(c) = Entries(am) \cup {i} /\ i \notin Entries(am)
          /\ c.info[i].refs = 0 /\ ~c.info[i].tried
          /\ \A k \in Entries(am) : c.info[k] = am.info[k]
          /\ c.tried = am.tried /\ c.collisions = am.collisions
      <4>1. Created(am, Create(am, h, port, src), h, am.idCount + 1, d)  BY <1>0, <2>2, CreateKeeps
      <4>2. Created(am, c, h, i, d)  BY <3>1, <4>1
      <4> QED  BY <4>2 DEF Created
    <3>4. i \notin am.collisions  BY <1>0, <3>1 DEF TablesInv, EntriesTyped
    <3>5. Owners(c)  BY <1>0, <3>3, <3>4 DEF Owners
    <3>6. i \in Entries(c) /\ c.info[i].refs < NewBucketsPerAddress  BY <3>3, AddressAssumption
    <3>7. TablesInv(am', {}, d) /\ Shrinks(c, am')  BY <1>0, <3>2, <3>3, <3>6, PlaceKeeps
    <3> QED  BY <3>5, <3>7, ShrinksOwners
  <2> QED  BY <2>1, <2>2
<1>2. ASSUME NEW h \in Hosts, NEW port \in Ports, MarkGood(h, port)
      PROVE  TablesInv(am', {}, d) /\ Owners(am')
  <2>1. PICK i : i = am.addr[h]  OBVIOUS
  <2>2. i \in Entries(am)  BY <1>0, <1>2, <2>1, KnownEntry DEF MarkGood, Same
  <2>3. am' = MarkGoodEntry(am, i, TRUE)  BY <1>2, <2>1 DEF MarkGood
  <2> QED  BY <1>0, <2>2, <2>3, MarkGoodKeeps
<1>3. ASSUME NEW i \in am.collisions, NEW evict \in BOOLEAN, ResolveCollision(i, evict)
      PROVE  TablesInv(am', {}, d) /\ Owners(am')
  <2>1. PICK t : /\ t = am \/ (i \in Entries(am) /\ t = MarkGoodEntry(am, i, FALSE))
                 /\ am' = [t EXCEPT !.collisions = @ \ {i}]
    BY <1>3 DEF ResolveCollision
  <2>2. TablesInv(t, {}, d) /\ Owners(t)  BY <1>0, <2>1, MarkGoodKeeps
  <2> QED  BY <2>1, <2>2, ForgetKeeps
<1>4. ASSUME NEW i \in am.collisions, SelectTriedCollision(i)
      PROVE  TablesInv(am', {}, d) /\ Owners(am')
  <2>1. am' = [am EXCEPT !.collisions = @ \ {i}]  BY <1>4 DEF SelectTriedCollision
  <2> QED  BY <1>0, <2>1, ForgetKeeps
<1>5. ASSUME NEW p \in DOMAIN am.random, NEW q \in DOMAIN am.random, GetPeers(p, q)
      PROVE  TablesInv(am', {}, d) /\ Owners(am')
  <2>1. am' = Swap(am, p, q)  BY <1>5 DEF GetPeers
  <2>2. p \in 1 .. Len(am.random) /\ q \in 1 .. Len(am.random)  BY <1>0 DEF TablesInv, Shuffled
  <2>3. /\ TablesInv(am', {}, d) /\ Entries(am') = Entries(am)
        /\ \A k \in Entries(am) : am'.info[k].host = am.info[k].host
        /\ am'.tried = am.tried /\ am'.collisions = am.collisions
    BY <1>0, <2>1, <2>2, SwapKeeps
  <2> QED  BY <1>0, <2>3 DEF Owners
<1>6. ASSUME NEW s \in NewSlots, Cleanup(s)
      PROVE  TablesInv(am', {}, d) /\ Owners(am')
  <2>1. am' = ClearNew(am, s)  BY <1>6 DEF Cleanup
  <2>2. TablesInv(am', {}, d) /\ Shrinks(am, am')  BY <1>0, <2>1, ClearKeeps
  <2> QED  BY <1>0, <2>2, ShrinksOwners
<1>7. ASSUME AmRestart PROVE AddressInv'
  <2>1. PICK N, T, n, m : /\ N = SavedNew(am) /\ T = SavedTried(am)
                          /\ n = Cardinality(NewOnes(am)) /\ m = Cardinality(TriedOnes(am))
    OBVIOUS
  <2>2. Serialized.new = N /\ Serialized.tried = T
        /\ Serialized = [new |-> N, tried |-> T, slots |-> SavedSlots(am)]
    BY <2>1 DEF Serialized, SavedNew, SavedTried, SavedSlots
  <2>3. n \in Nat /\ Len(N) = n
    <3>1. SavedAs(am, N, T, n, m)  BY <1>0, <2>1, SavedFacts
    <3> QED  BY <3>1 DEF SavedAs
  <2>4. /\ m \in Nat /\ T \in Seq(Infos) /\ Len(T) = m /\ Fitting(T) = T
        /\ \A k, l \in 1 .. m : T[k].host = T[l].host => k = l
        /\ \A k, l \in 1 .. m : TriedSlotOf[T[k].host] = TriedSlotOf[T[l].host] => k = l
    BY <1>0, <2>1, TriedFit
  <2>5. PICK e : e = 0 - 0 /\ e = 0  OBVIOUS
  <2>6. CASE am' = NoTables /\ lost' = 0
    <3>1. NoTables = EmptyTables(0)  BY DEF NoTables
    <3>2. TablesInv(am', {}, 0 - 0) /\ Owners(am')  BY <2>6, <3>1, NoTablesAgree
    <3> QED  BY <2>6, <3>2, AddressPrimed
  <2>7. CASE am' = EmptyTables(Len(Serialized.new)) /\ lost' = Len(Serialized.new)
    <3>1. am' = EmptyTables(n) /\ lost' = n  BY <2>2, <2>3, <2>7
    <3>2. TablesInv(am', {}, 0 - n) /\ Owners(am')  BY <2>3, <3>1, NoTablesAgree
    <3> QED  BY <2>3, <3>1, <3>2, AddressPrimed
  <2>8. CASE am' = WithoutSlots(Fitting(Serialized.tried), Len(Serialized.new)) /\ lost' = 0
    <3>1. am' = WithoutSlots(T, n)  BY <2>2, <2>3, <2>4, <2>8
    <3>2. \A k \in 1 .. m : T[k] \in Infos  BY <2>4
    <3>3. TablesInv(am', {}, 0) /\ am'.collisions = {}  BY <2>3, <2>4, <3>1, <3>2, WithoutSlotsKeeps
    <3>4. Owners(am')  BY <3>3 DEF Owners
    <3>5. TablesInv(am', {}, 0 - lost') /\ lost' \in Nat  BY <2>5, <2>8, <3>3
    <3> QED  BY <3>4, <3>5, AddressPrimed
  <2>9. CASE am' = Loaded(Serialized) /\ lost' = 0
    <3>1. am' = Loaded([new |-> SavedNew(am), tried |-> SavedTried(am), slots |-> SavedSlots(am)])
      BY <2>1, <2>2, <2>9
    <3>2. TablesInv(am', {}, 0) /\ am'.collisions = {}  BY <1>0, <3>1, LoadedKeeps
    <3>3. Owners(am')  BY <3>2 DEF Owners
    <3>4. TablesInv(am', {}, 0 - lost') /\ lost' \in Nat  BY <2>5, <2>9, <3>2
    <3> QED  BY <3>3, <3>4, AddressPrimed
  <2> QED  BY <1>7, <2>6, <2>7, <2>8, <2>9 DEF AmRestart
<1>8. CASE AmRestart  BY <1>7, <1>8
<1>9. CASE ~AmRestart
  <2>1. UNCHANGED lost
    BY <1>9 DEF AmNext, AddToNewTable, MarkGood, ResolveCollision, SelectTriedCollision, GetPeers, Cleanup
  <2>2. TablesInv(am', {}, d) /\ Owners(am')  BY <1>1, <1>2, <1>3, <1>4, <1>5, <1>6, <1>9 DEF AmNext
  <2> QED  BY <1>b, <2>1, <2>2
<1> QED  BY <1>8, <1>9

\* Through every operation under the manager's lock and a restart from a save that
\* stopped after any of its four commits, for any hosts, slots and hash functions: the
\* tables, the counts less the entries that a stop between commits lost, the index
\* and the shuffled list describe the same entries, and who waits for a slot of the
\* tried table waits for one that is taken.
THEOREM AddressesSound == AmSpec => []AddressTablesSound
<1>1. AmInit => AddressInv
  <2> SUFFICES ASSUME AmInit PROVE AddressInv  OBVIOUS
  <2>1. am = EmptyTables(0) /\ lost = 0  BY DEF AmInit, NoTables
  <2>2. TablesInv(am, {}, 0 - 0) /\ Owners(am)  BY <2>1, NoTablesAgree
  <2> QED  BY <2>1, <2>2 DEF AddressInv, CollisionsHaveOwners, Owners
<1>2. AddressInv /\ [AmNext]_amVars => AddressInv'
  <2> SUFFICES ASSUME AddressInv, [AmNext]_amVars PROVE AddressInv'  OBVIOUS
  <2>1. CASE AmNext  BY <2>1, AddressStep
  <2>2. CASE UNCHANGED amVars
    <3>1. lost \in Nat /\ TablesInv(am, {}, 0 - lost) /\ Owners(am)
      BY DEF AddressInv, CollisionsHaveOwners, Owners
    <3>2. lost' \in Nat /\ TablesInv(am', {}, 0 - lost') /\ Owners(am')  BY <2>2, <3>1 DEF amVars
    <3> QED  BY <3>2, AddressPrimed
  <2> QED  BY <2>1, <2>2
<1>3. AddressInv => AddressTablesSound
  <2> SUFFICES ASSUME AddressInv PROVE TablesAgree  BY DEF AddressInv, AddressTablesSound
  <2>1. lost \in Nat /\ TablesInv(am, {}, 0 - lost)  BY DEF AddressInv
  <2>2. ASSUME NEW i \in Entries(am)
        PROVE  /\ am.addr[am.info[i].host] = i
               /\ am.random[am.info[i].pos] = i
               /\ am.info[i].refs = Cardinality(RefsOf(am, i)) /\ am.info[i].refs <= NewBucketsPerAddress
               /\ am.info[i].tried <=> am.info[i].refs = 0
               /\ am.info[i].tried <=> am.tried[TriedSlotOf[am.info[i].host]] = i
    <3>1. am.addr[am.info[i].host] = i  BY <2>1 DEF TablesInv, Indexed
    <3>2. am.random[am.info[i].pos] = i  BY <2>1 DEF TablesInv, Shuffled
    <3>3. am.info[i].refs = Cardinality(RefsOf(am, i)) /\ am.info[i].refs <= NewBucketsPerAddress
      BY <2>1 DEF TablesInv, References
    <3>4. am.info[i].tried <=> am.info[i].refs = 0  BY <2>1 DEF TablesInv, InOneTable
    <3>5. am.info[i].tried <=> am.tried[TriedSlotOf[am.info[i].host]] = i  BY <2>1 DEF TablesInv, TriedPlaces
    <3> QED  BY <3>1, <3>2, <3>3, <3>4, <3>5
  <2>3. Len(am.random) = Cardinality(Entries(am)) /\ DOMAIN am.addr = {am.info[i].host : i \in Entries(am)}
    BY <2>1 DEF TablesInv, Shuffled, Indexed
  <2>4. /\ am.newCount = Cardinality({i \in Entries(am) : ~am.info[i].tried}) + lost
        /\ am.triedCount = Cardinality({i \in Entries(am) : am.info[i].tried})
    <3>1. NewOnes(am) = {i \in Entries(am) : ~am.info[i].tried}
          /\ TriedOnes(am) = {i \in Entries(am) : am.info[i].tried}
      BY DEF NewOnes, TriedOnes
    <3>2. am.newCount = Cardinality(NewOnes(am)) - (0 - lost) /\ am.triedCount = Cardinality(TriedOnes(am))
      BY <2>1 DEF TablesInv, Counted
    <3>3. EntriesTyped(am)  BY <2>1 DEF TablesInv
    <3>4. Cardinality(NewOnes(am)) \in Nat  BY <3>3, OnesFinite
    <3> QED  BY <2>1, <3>1, <3>2, <3>4
  <2>5. /\ \A s \in NewSlots : am.newTable[s] \in Entries(am) \cup {Free}
        /\ \A s \in TriedSlots : am.tried[s] \in Entries(am) \cup {Free}
    BY <2>1 DEF TablesInv, References, TriedPlaces
  <2> QED  BY <2>2, <2>3, <2>4, <2>5 DEF TablesAgree
<1> QED  BY <1>1, <1>2, <1>3, PTL DEF AmSpec

-----------------------------------------------------------------------------
(* The table of trades.                                                    *)

\* The coins there are, the rows, and a table: its ids are the numbers up to its length.
TradeCoins == MyCoins \cup OfferCoins \cup {Out(id) : id \in 1 .. TradeBound}
Statuses == PendingStatus \cup {"CONFIRMED", "CANCELED", "FAILED"}
TradeRows == [id : Nat, status : Statuses, removals : SUBSET TradeCoins, additions : SUBSET TradeCoins,
              my_offer : BOOLEAN, disowned : BOOLEAN]
TableSound(T) ==
    /\ T \in Seq(TradeRows)
    /\ \A i \in 1 .. Len(T) : T[i].id \in 1 .. Len(T)
    /\ \A i, j \in 1 .. Len(T) : T[i].id = T[j].id => i = j

\* What a table holds.
LEMMA TableHolds ==
    ASSUME NEW T, TableSound(T)
    PROVE  /\ DOMAIN T = 1 .. Len(T) /\ Len(T) \in Nat /\ ToSet(T) = {T[i] : i \in 1 .. Len(T)}
           /\ \A r \in ToSet(T) : r \in TradeRows /\ r.id \in 1 .. Len(T) /\ r.id \in Nat
           /\ \A r, s \in ToSet(T) : r.id = s.id => r = s
<1>1. T \in Seq(TradeRows)  BY DEF TableSound
<1>2. DOMAIN T = 1 .. Len(T) /\ Len(T) \in Nat /\ \A i \in 1 .. Len(T) : T[i] \in TradeRows  BY <1>1
<1>3. ToSet(T) = {T[i] : i \in 1 .. Len(T)}  BY <1>2 DEF ToSet
<1>4. \A r \in ToSet(T) : r \in TradeRows /\ r.id \in 1 .. Len(T)  BY <1>2, <1>3 DEF TableSound
<1>5. \A r \in TradeRows : r.id \in Nat  BY DEF TradeRows
<1>6. \A r, s \in ToSet(T) : r.id = s.id => r = s  BY <1>3 DEF TableSound
<1> QED  BY <1>2, <1>3, <1>4, <1>5, <1>6

\* Table U is T with x written in place of r.
Written(U, T, r, x) ==
    TableSound(U) /\ Len(U) = Len(T) /\ ToSet(U) = (ToSet(T) \ {r}) \cup {x}

\* Writing a row again moves it to the end.
LEMMA StatusWritten ==
    ASSUME NEW T, TableSound(T), NEW r \in ToSet(T), NEW st \in Statuses
    PROVE  Written(SetStatus(T, r.id, st), T, r, [r EXCEPT !.status = st])
<1> DEFINE n == Len(T)
           x == [r EXCEPT !.status = st]
           U == SetStatus(T, r.id, st)
<1>1. PICK i \in 1 .. n : T[i] = r  BY TableHolds
<1>2. n \in Nat /\ DOMAIN T = 1 .. n /\ T \in Seq(TradeRows) /\ r \in TradeRows  BY TableHolds DEF TableSound
<1>3. (CHOOSE k \in DOMAIN T : T[k].id = r.id) = i
  <2>1. \A k \in DOMAIN T : T[k].id = r.id <=> k = i  BY <1>1, <1>2 DEF TableSound
  <2> QED  BY <1>1, <1>2, <2>1
<1>4. U = Append(RemoveAt(T, i), x)  BY <1>1, <1>3 DEF SetStatus
<1>5. x \in TradeRows /\ x.id = r.id  BY <1>2 DEF TradeRows
<1> HIDE DEF n, x, U
<1> DEFINE A == SubSeq(T, 1, i - 1)
           B == SubSeq(T, i + 1, n)
<1>6. A \in Seq(TradeRows) /\ Len(A) = i - 1 /\ \A k \in 1 .. i - 1 : A[k] = T[k]  BY <1>1, <1>2 DEF n
<1>7. B \in Seq(TradeRows) /\ Len(B) = n - i /\ \A k \in 1 .. n - i : B[k] = T[i + k]  BY <1>1, <1>2 DEF n
<1>8. RemoveAt(T, i) = A \o B  BY DEF RemoveAt, n
<1> HIDE DEF A, B
<1>9. /\ A \o B \in Seq(TradeRows) /\ Len(A \o B) = n - 1
      /\ \A k \in 1 .. n - 1 : (A \o B)[k] = IF k < i THEN T[k] ELSE T[k + 1]
  <2>5. A \in Seq(TradeRows) /\ B \in Seq(TradeRows)  BY <1>6, <1>7
  <2>3. A \o B \in Seq(TradeRows) /\ Len(A \o B) = Len(A) + Len(B)  BY <2>5
  <2>4. (i - 1) + (n - i) = n - 1  BY <1>1, <1>2
  <2>1. A \o B \in Seq(TradeRows) /\ Len(A \o B) = n - 1  BY <1>6, <1>7, <2>3, <2>4
  <2>2. ASSUME NEW k \in 1 .. n - 1 PROVE (A \o B)[k] = IF k < i THEN T[k] ELSE T[k + 1]
    <3>1. CASE k < i
      <4>1. k \in 1 .. Len(A) /\ k \in 1 .. i - 1  BY <1>1, <1>2, <1>6, <3>1
      <4> QED  BY <1>6, <1>7, <3>1, <4>1
    <3>2. CASE ~(k < i)
      <4>1. PICK m \in 1 .. n - i : m = k - (i - 1)  BY <1>1, <1>2, <3>2
      <4>2. (A \o B)[k] = B[m]  BY <1>1, <1>2, <1>6, <1>7, <3>2, <4>1
      <4>3. B[m] = T[i + m] /\ i + m = k + 1  BY <1>1, <1>2, <1>7, <4>1
      <4> QED  BY <3>2, <4>2, <4>3
    <3> QED  BY <3>1, <3>2
  <2> QED  BY <2>1, <2>2
<1>10. /\ U \in Seq(TradeRows) /\ Len(U) = n
       /\ \A k \in 1 .. n : U[k] = IF k < i THEN T[k] ELSE IF k < n THEN T[k + 1] ELSE x
  <2> DEFINE C == A \o B
  <2>1. C \in Seq(TradeRows) /\ Len(C) = n - 1 /\ U = Append(C, x)  BY <1>4, <1>8, <1>9
  <2>2. \A k \in 1 .. n - 1 : C[k] = IF k < i THEN T[k] ELSE T[k + 1]  BY <1>9
  <2> HIDE DEF C
  <2>3. U \in Seq(TradeRows) /\ Len(U) = n  BY <1>1, <1>2, <1>5, <2>1
  <2>4. U[n] = x /\ \A k \in 1 .. n - 1 : U[k] = C[k]  BY <1>1, <1>2, <2>1
  <2>5. \A k \in 1 .. n : (k \in 1 .. n - 1 /\ k < n) \/ (k = n /\ ~(k < i) /\ ~(k < n))  BY <1>1, <1>2
  <2> QED  BY <2>2, <2>3, <2>4, <2>5
<1> DEFINE P(k) == IF k < i THEN k ELSE IF k < n THEN k + 1 ELSE i
<1>11. \A k \in 1 .. n : P(k) \in 1 .. n /\ (k # n => P(k) # i) /\ (k = n => P(k) = i)  BY <1>1, <1>2
<1>12. \A k, m \in 1 .. n : P(k) = P(m) => k = m  BY <1>1, <1>2
<1>13. \A m \in 1 .. n : m # i => \E k \in 1 .. n : k # n /\ P(k) = m
  <2> SUFFICES ASSUME NEW m \in 1 .. n, m # i PROVE \E k \in 1 .. n : k # n /\ P(k) = m  OBVIOUS
  <2>1. CASE m < i
    <3>1. m # n /\ P(m) = m  BY <1>1, <1>2, <2>1
    <3> QED  BY <3>1
  <2>2. CASE m > i
    <3>1. m - 1 \in 1 .. n /\ m - 1 # n /\ P(m - 1) = m  BY <1>1, <1>2, <2>2
    <3> QED  BY <3>1
  <2> QED  BY <1>1, <1>2, <2>1, <2>2
<1>14. \A k \in 1 .. n : (k # n => U[k] = T[P(k)]) /\ U[k].id = T[P(k)].id /\ (k = n => U[k] = x)
  BY <1>1, <1>2, <1>5, <1>10
<1> HIDE DEF P
<1>15. TableSound(U)
  <2>1. \A k \in 1 .. n : U[k].id \in 1 .. n  BY <1>11, <1>14 DEF TableSound, n
  <2>2. ASSUME NEW k \in 1 .. n, NEW m \in 1 .. n, U[k].id = U[m].id PROVE k = m
    <3>1. P(k) \in 1 .. n /\ P(m) \in 1 .. n  BY <1>11
    <3>2. T[P(k)].id = T[P(m)].id  BY <1>14, <2>2
    <3>3. P(k) = P(m)  BY <3>1, <3>2 DEF TableSound, n
    <3> QED  BY <1>12, <3>3
  <2> QED  BY <1>10, <2>1, <2>2 DEF TableSound
<1>16. ToSet(U) = (ToSet(T) \ {r}) \cup {x}
  <2>1. ToSet(U) = {U[k] : k \in 1 .. n} /\ ToSet(T) = {T[k] : k \in 1 .. n}  BY <1>10, <1>15, TableHolds DEF n
  <2>2. \A k \in 1 .. n : T[k] = r => k = i  BY <1>1 DEF TableSound, n
  <2>3. n \in 1 .. n  BY <1>1, <1>2
  <2>4. ASSUME NEW y \in ToSet(U) PROVE y \in (ToSet(T) \ {r}) \cup {x}  BY <1>11, <1>14, <2>1, <2>2, <2>4
  <2>5. ASSUME NEW y \in ToSet(T), y # r PROVE y \in ToSet(U)
    <3>1. PICK m \in 1 .. n : T[m] = y  BY <2>1
    <3>2. m # i  BY <1>1, <2>5, <3>1
    <3> QED  BY <1>13, <1>14, <2>1, <3>1, <3>2
  <2>6. x \in ToSet(U)  BY <1>14, <2>1, <2>3
  <2> QED  BY <2>4, <2>5, <2>6
<1> QED  BY <1>10, <1>15, <1>16 DEF Written, x, U, n

\* Disown changes a row in place.
LEMMA DisownWritten ==
    ASSUME NEW T, TableSound(T), NEW r \in ToSet(T)
    PROVE  Written(Disown(T, r.id), T, r, [r EXCEPT !.disowned = TRUE])
<1> DEFINE n == Len(T)
           x == [r EXCEPT !.disowned = TRUE]
           U == Disown(T, r.id)
<1>1. PICK i \in 1 .. n : T[i] = r  BY TableHolds
<1>2. n \in Nat /\ DOMAIN T = 1 .. n /\ T \in Seq(TradeRows) /\ r \in TradeRows  BY TableHolds DEF TableSound
<1>3. x \in TradeRows /\ x.id = r.id  BY <1>2 DEF TradeRows
<1>4. \A k \in 1 .. n : T[k].id = r.id <=> k = i  BY <1>1 DEF TableSound
<1>5. U = [k \in 1 .. n |-> IF k = i THEN x ELSE T[k]]  BY <1>1, <1>2, <1>4 DEF Disown
<1> HIDE DEF x, U, n
<1>6. U \in [1 .. n -> TradeRows]  BY <1>2, <1>3, <1>5 DEF n
<1>7. U \in Seq(TradeRows) /\ Len(U) = n  BY <1>2, <1>6
<1>8. \A k \in 1 .. n : U[k].id = T[k].id  BY <1>1, <1>3, <1>5
<1>9. TableSound(U)  BY <1>7, <1>8 DEF TableSound, n
<1>10. ToSet(U) = {U[k] : k \in 1 .. n} /\ ToSet(T) = {T[k] : k \in 1 .. n}  BY <1>7, <1>9, TableHolds DEF n
<1>11. \A k \in 1 .. n : T[k] = r <=> k = i  BY <1>1, <1>4
<1>12. ToSet(U) = (ToSet(T) \ {r}) \cup {x}  BY <1>1, <1>5, <1>10, <1>11
<1> QED  BY <1>7, <1>9, <1>12 DEF Written, x, U, n

\* Two changes of one row.
LEMMA WrittenTwice ==
    ASSUME NEW T, TableSound(T), NEW U, NEW V, NEW r \in ToSet(T), NEW x, NEW y, x.id = r.id,
           Written(U, T, r, x), Written(V, U, x, y)
    PROVE  Written(V, T, r, y)
<1>1. x \notin ToSet(T) \ {r}  BY TableHolds
<1> QED  BY <1>1 DEF Written

\* A new row.
LEMMA RowAdded ==
    ASSUME NEW T, TableSound(T), NEW x \in TradeRows, x.id = Len(T) + 1
    PROVE  TableSound(Append(T, x)) /\ Len(Append(T, x)) = Len(T) + 1 /\ ToSet(Append(T, x)) = ToSet(T) \cup {x}
<1> DEFINE n == Len(T)
           U == Append(T, x)
<1>1. n \in Nat /\ T \in Seq(TradeRows) /\ ToSet(T) = {T[i] : i \in 1 .. n}  BY TableHolds DEF TableSound
<1>2. U \in Seq(TradeRows) /\ Len(U) = n + 1 /\ U[n + 1] = x /\ \A i \in 1 .. n : U[i] = T[i]  BY <1>1
<1> HIDE DEF U
<1>3. \A i \in 1 .. n + 1 : i \in 1 .. n \/ i = n + 1  BY <1>1
<1>4. \A i \in 1 .. n : T[i].id \in 1 .. n  BY DEF TableSound
<1>5. \A i, j \in 1 .. n : T[i].id = T[j].id => i = j  BY DEF TableSound
<1> HIDE DEF n
<1>6. \A k \in 1 .. n : k \in 1 .. n + 1 /\ k # n + 1  BY <1>1
<1>7. n + 1 \in 1 .. n + 1 /\ x.id = n + 1  BY <1>1 DEF n
<1>8. \A i \in 1 .. n + 1 : U[i].id \in 1 .. n + 1  BY <1>2, <1>3, <1>4, <1>6, <1>7
<1>9. \A i, j \in 1 .. n + 1 : U[i].id = U[j].id => i = j
  <2> SUFFICES ASSUME NEW i \in 1 .. n + 1, NEW j \in 1 .. n + 1, U[i].id = U[j].id PROVE i = j  OBVIOUS
  <2> QED  BY <1>2, <1>3, <1>4, <1>5, <1>6, <1>7
<1>10. TableSound(U)  BY <1>2, <1>8, <1>9 DEF TableSound
<1>11. ToSet(U) = {U[i] : i \in 1 .. n + 1}  BY <1>2, <1>10, TableHolds
<1>12. ToSet(U) = ToSet(T) \cup {x}  BY <1>1, <1>2, <1>3, <1>6, <1>7, <1>11
<1> QED  BY <1>2, <1>10, <1>12 DEF U, n

-----------------------------------------------------------------------------
(* The invariant of the trades.                                            *)

CoinsSeen == MyCoins \cup OfferCoins \cup minted

\* A trade that ended without its bundle on the chain, and that the user left alone,
\* has lost a coin, so that the bundle can never be.
RowSound(r) ==
    /\ r.additions = {Out(r.id)} /\ r.removals # {} /\ r.removals \subseteq CoinsSeen
    /\ r.id \in executed => r.removals \subseteq spent
    /\ r.status = "CONFIRMED" => r.id \in executed
    /\ r.id \in executed /\ ~r.disowned => r.status = "CONFIRMED"
    /\ r.status \in {"CANCELED", "FAILED"} /\ ~r.disowned => r.removals \cap spent # {}

\* A bundle is that of a trade or makes nothing that the wallet waits for.
IsOf(b, r) == b.trade = r.id /\ b.removals = r.removals /\ b.additions = r.additions
BundleSound(b, T) ==
    /\ b.removals \subseteq CoinsSeen
    /\ (b.trade = NoTrade /\ b.additions = {}) \/ \E r \in ToSet(T) : IsOf(b, r)

MintedInv == executed \subseteq 1 .. Len(rows) /\ minted = {Out(id) : id \in executed}
TradeInv ==
    /\ TableSound(rows) /\ Len(rows) <= TradeBound /\ MintedInv
    /\ \A r \in ToSet(rows) : RowSound(r)
    /\ \A b \in pool : BundleSound(b, rows)
    /\ PromisedOnce

\* The coins that have been seen are coins there are.
LEMMA SeenAreCoins == ASSUME TradeInv PROVE CoinsSeen \subseteq TradeCoins
<1>1. Len(rows) \in Nat /\ Len(rows) <= TradeBound /\ TradeBound \in Nat  BY TableHolds, TradeAssumption DEF TradeInv
<1>2. \A id \in 1 .. Len(rows) : id \in 1 .. TradeBound  BY <1>1
<1>3. \A c \in minted : \E id \in 1 .. TradeBound : c = Out(id)  BY <1>2 DEF TradeInv, MintedInv
<1> QED  BY <1>3 DEF CoinsSeen, TradeCoins

\* Spendable coins are the wallet's, and promised to nobody.
LEMMA SelectionsFree ==
    ASSUME TradeInv, NEW coins \in Selections
    PROVE  coins # {} /\ coins \subseteq MyCoins \cup minted /\ coins \cap LockedCoins = {}
<1>1. coins \subseteq Spendable /\ Cardinality(coins) \in 1 .. OfferSize  BY DEF Selections
<1>2. coins # {}
  <2> SUFFICES ASSUME coins = {} PROVE FALSE  OBVIOUS
  <2>1. Cardinality(coins) = 0  BY FS_EmptySet
  <2> QED  BY <1>1, <2>1
<1> QED  BY <1>1, <1>2 DEF Spendable, Owned

\* A new trade.
LEMMA TradeAdded ==
    ASSUME TradeInv, NEW x \in TradeRows, x.id = NextId, Len(rows) < TradeBound, x.status \in PendingStatus,
           x.additions = {Out(x.id)}, x.removals # {}, x.removals \subseteq CoinsSeen,
           x.removals \cap LockedCoins \subseteq OfferCoins,
           rows' = Append(rows, x), UNCHANGED <<minted, spent, executed>>,
           pool' \subseteq pool \cup {Bundle(x.removals, x.additions, x.id)}
    PROVE  TradeInv'
<1>0. TableSound(rows) /\ Len(rows) \in Nat /\ TradeBound \in Nat /\ MintedInv
  BY TableHolds, TradeAssumption DEF TradeInv
<1>1. TableSound(rows') /\ Len(rows') = Len(rows) + 1 /\ ToSet(rows') = ToSet(rows) \cup {x}
  BY <1>0, RowAdded DEF NextId
<1>2. Len(rows') <= TradeBound  BY <1>0, <1>1
<1>3. x.id \notin executed
  <2>1. Len(rows) + 1 \notin 1 .. Len(rows)  BY <1>0
  <2> QED  BY <1>0, <2>1 DEF MintedInv, NextId
<1>4. MintedInv'
  <2>1. \A k \in 1 .. Len(rows) : k \in 1 .. Len(rows) + 1  BY <1>0
  <2> QED  BY <1>0, <1>1, <2>1 DEF MintedInv
<1>5. RowSound(x)  BY <1>3 DEF RowSound, PendingStatus
<1>6. \A r \in ToSet(rows') : RowSound(r)'  BY <1>1, <1>5 DEF TradeInv, RowSound, CoinsSeen
<1>7. \A b \in pool' : BundleSound(b, rows)'
  <2> SUFFICES ASSUME NEW b \in pool' PROVE BundleSound(b, rows)'  OBVIOUS
  <2>1. CASE b \in pool  BY <1>1, <2>1 DEF TradeInv, BundleSound, CoinsSeen
  <2>2. CASE b = Bundle(x.removals, x.additions, x.id)
    <3>1. IsOf(b, x) /\ b.removals = x.removals  BY <2>2 DEF IsOf, Bundle
    <3> QED  BY <1>1, <3>1 DEF BundleSound, CoinsSeen
  <2> QED  BY <2>1, <2>2
<1>8. PromisedOnce'
  <2>1. ASSUME NEW r \in ToSet(rows), r.status \in PendingStatus PROVE r.removals \cap x.removals \subseteq OfferCoins
    BY <2>1 DEF LockedCoins, PendingRows
  <2> SUFFICES ASSUME NEW r \in ToSet(rows'), NEW s \in ToSet(rows'), r.status \in PendingStatus,
                      s.status \in PendingStatus, r.id # s.id, ~r.disowned, ~s.disowned
               PROVE  r.removals \cap s.removals \subseteq OfferCoins
    BY DEF PromisedOnce, PendingRows
  <2>2. CASE r \in ToSet(rows) /\ s \in ToSet(rows)  BY <2>2 DEF TradeInv, PromisedOnce, PendingRows
  <2>3. CASE r = x /\ s \in ToSet(rows)  BY <2>1, <2>3
  <2>4. CASE r \in ToSet(rows) /\ s = x  BY <2>1, <2>4
  <2> QED  BY <1>1, <2>2, <2>3, <2>4
<1> QED  BY <1>1, <1>2, <1>4, <1>6, <1>7, <1>8 DEF TradeInv

\* A new offer.
LEMMA StepCreateOffer == ASSUME TradeInv, NEW coins \in Selections, CreateOffer(coins) PROVE TradeInv'
<1> DEFINE x == [id |-> NextId, status |-> "PENDING_ACCEPT", removals |-> coins,
                 additions |-> {Out(NextId)}, my_offer |-> TRUE, disowned |-> FALSE]
<1>1. rows' = Append(rows, x) /\ Len(rows) < TradeBound /\ UNCHANGED <<pool, minted, spent, executed>>
  BY DEF CreateOffer
<1>2. coins # {} /\ coins \subseteq CoinsSeen /\ coins \cap LockedCoins = {} /\ coins \subseteq TradeCoins
  BY SelectionsFree, SeenAreCoins DEF CoinsSeen
<1>3. NextId \in 1 .. TradeBound /\ NextId \in Nat
  <2>1. Len(rows) \in Nat /\ TradeBound \in Nat  BY TableHolds, TradeAssumption DEF TradeInv
  <2> QED  BY <1>1, <2>1 DEF NextId
<1>4. Out(NextId) \in TradeCoins  BY <1>3 DEF TradeCoins
<1>5. x \in TradeRows  BY <1>2, <1>3, <1>4 DEF TradeRows, Statuses, PendingStatus
<1>6. x.id = NextId /\ x.status \in PendingStatus /\ x.removals = coins /\ x.additions = {Out(x.id)}
  BY DEF PendingStatus
<1> HIDE DEF x
<1> QED  BY <1>1, <1>2, <1>5, <1>6, TradeAdded

\* An offer of another wallet that is accepted.
LEMMA StepRespond ==
    ASSUME TradeInv, NEW coins \in Selections, NEW offered \in OfferCoins, RespondToOffer(OthersOffer(offered), coins)
    PROVE  TradeInv'
<1> DEFINE R == coins \cup {offered}
           x == [id |-> NextId, status |-> "PENDING_CONFIRM", removals |-> R,
                 additions |-> {Out(NextId)}, my_offer |-> FALSE, disowned |-> FALSE]
<1>1. /\ rows' = Append(rows, x) /\ Len(rows) < TradeBound /\ UNCHANGED <<minted, spent, executed>>
      /\ pool' = pool \cup {Bundle(R, {Out(NextId)}, NextId)}
  <2>1. Completed(OthersOffer(offered), coins) = Bundle(R, {Out(NextId)}, NextId)
    BY DEF Completed, OthersOffer, Bundle
  <2> QED  BY <2>1 DEF RespondToOffer, SaveAnswer, Bundle
<1>2. R # {} /\ R \subseteq CoinsSeen /\ R \cap LockedCoins \subseteq OfferCoins /\ R \subseteq TradeCoins
  BY SelectionsFree, SeenAreCoins DEF CoinsSeen
<1> HIDE DEF R
<1>3. NextId \in 1 .. TradeBound /\ NextId \in Nat
  <2>1. Len(rows) \in Nat /\ TradeBound \in Nat  BY TableHolds, TradeAssumption DEF TradeInv
  <2> QED  BY <1>1, <2>1 DEF NextId
<1>4. Out(NextId) \in TradeCoins  BY <1>3 DEF TradeCoins
<1>5. x \in TradeRows  BY <1>2, <1>3, <1>4 DEF TradeRows, Statuses, PendingStatus
<1>6. x.id = NextId /\ x.status \in PendingStatus /\ x.removals = R /\ x.additions = {Out(NextId)}
  BY DEF PendingStatus
<1> HIDE DEF x
<1> QED  BY <1>1, <1>2, <1>5, <1>6, TradeAdded

\* A trade is written again with another status.
LEMMA TradeChanged ==
    ASSUME TradeInv, NEW r \in ToSet(rows), NEW x, Written(rows', rows, r, x), x.id = r.id, x.removals = r.removals,
           x.additions = r.additions, RowSound(x),
           x.status \in PendingStatus /\ ~x.disowned => r.status \in PendingStatus /\ ~r.disowned,
           UNCHANGED <<minted, spent, executed>>,
           \A b \in pool' : b \in pool \/ (b.trade = NoTrade /\ b.additions = {} /\ b.removals \subseteq CoinsSeen)
    PROVE  TradeInv'
<1>1. TableSound(rows') /\ Len(rows') = Len(rows) /\ ToSet(rows') = (ToSet(rows) \ {r}) \cup {x}  BY DEF Written
<1>2. MintedInv' /\ Len(rows') <= TradeBound  BY <1>1 DEF TradeInv, MintedInv
<1>3. \A s \in ToSet(rows') : RowSound(s)'  BY <1>1 DEF TradeInv, RowSound, CoinsSeen
<1>4. \A b \in pool' : BundleSound(b, rows)'
  <2> SUFFICES ASSUME NEW b \in pool' PROVE BundleSound(b, rows)'  OBVIOUS
  <2>1. CASE b.trade = NoTrade /\ b.additions = {} /\ b.removals \subseteq CoinsSeen  BY <2>1 DEF BundleSound, CoinsSeen
  <2>2. CASE b \in pool
    <3>1. BundleSound(b, rows)  BY <2>2 DEF TradeInv
    <3>2. ASSUME NEW s \in ToSet(rows), IsOf(b, s) PROVE \E y \in ToSet(rows') : IsOf(b, y)
      <4>1. CASE s = r  BY <1>1, <3>2, <4>1 DEF IsOf
      <4>2. CASE s # r  BY <1>1, <3>2, <4>2
      <4> QED  BY <4>1, <4>2
    <3> QED  BY <3>1, <3>2 DEF BundleSound, CoinsSeen
  <2> QED  BY <2>1, <2>2
<1>5. PromisedOnce'
  <2>1. \A y \in ToSet(rows') : y.status \in PendingStatus /\ ~y.disowned =>
           \E s \in ToSet(rows) : s.status \in PendingStatus /\ ~s.disowned /\ s.id = y.id /\ s.removals = y.removals
    BY <1>1
  <2> SUFFICES ASSUME NEW y \in ToSet(rows'), NEW z \in ToSet(rows'), y.status \in PendingStatus,
                      z.status \in PendingStatus, y.id # z.id, ~y.disowned, ~z.disowned
               PROVE  y.removals \cap z.removals \subseteq OfferCoins
    BY DEF PromisedOnce, PendingRows
  <2>2. PICK s \in ToSet(rows) : s.status \in PendingStatus /\ ~s.disowned /\ s.id = y.id /\ s.removals = y.removals
    BY <2>1
  <2>3. PICK t \in ToSet(rows) : t.status \in PendingStatus /\ ~t.disowned /\ t.id = z.id /\ t.removals = z.removals
    BY <2>1
  <2>4. s.removals \cap t.removals \subseteq OfferCoins  BY <2>2, <2>3 DEF TradeInv, PromisedOnce, PendingRows
  <2> QED  BY <2>2, <2>3, <2>4
<1> QED  BY <1>1, <1>2, <1>3, <1>4, <1>5 DEF TradeInv

\* A status written, and a trade disowned as well.
Changes(T, r, st, x, y) ==
    /\ Written(SetStatus(T, r.id, st), T, r, x)
    /\ Written(Disown(SetStatus(T, r.id, st), r.id), T, r, y)
    /\ x.id = r.id /\ x.removals = r.removals /\ x.additions = r.additions /\ x.status = st
    /\ x.disowned = r.disowned
    /\ y.id = r.id /\ y.removals = r.removals /\ y.additions = r.additions /\ y.status = st
    /\ y.disowned = TRUE

\* A change of one row's status leaves the others, and the row's coins, as they are.
LEMMA ChangeFacts ==
    ASSUME NEW T, TableSound(T), NEW r \in ToSet(T), NEW st \in Statuses
    PROVE  Changes(T, r, st, [r EXCEPT !.status = st], [[r EXCEPT !.status = st] EXCEPT !.disowned = TRUE])
<1> DEFINE x == [r EXCEPT !.status = st]
           y == [x EXCEPT !.disowned = TRUE]
           U == SetStatus(T, r.id, st)
<1>1. r \in TradeRows  BY TableHolds
<1>2. /\ x.id = r.id /\ x.removals = r.removals /\ x.additions = r.additions /\ x.status = st
      /\ x.disowned = r.disowned
      /\ y.id = r.id /\ y.removals = r.removals /\ y.additions = r.additions /\ y.status = st
      /\ y.disowned = TRUE
  BY <1>1 DEF TradeRows
<1>3. Written(U, T, r, x)  BY StatusWritten
<1> HIDE DEF U, x
<1>4. TableSound(U) /\ x \in ToSet(U)  BY <1>3 DEF Written
<1>5. Written(Disown(U, x.id), U, x, y)  BY <1>4, DisownWritten
<1> HIDE DEF y
<1>6. Written(Disown(U, r.id), T, r, y)  BY <1>2, <1>3, <1>5, WrittenTwice
<1>7. Changes(T, r, st, x, y)  BY <1>2, <1>3, <1>6 DEF Changes, U
<1> QED  BY <1>7 DEF x, y

\* An offer that is cancelled in the table only.
LEMMA StepCancel == ASSUME TradeInv, NEW r \in ToSet(rows), CancelPendingOffer(r.id) PROVE TradeInv'
<1> DEFINE x == [r EXCEPT !.status = "CANCELED"]
           y == [x EXCEPT !.disowned = TRUE]
<1>1. TableSound(rows) /\ "CANCELED" \in Statuses /\ RowSound(r)  BY DEF TradeInv, Statuses
<1>0. Changes(rows, r, "CANCELED", x, y)  BY <1>1, ChangeFacts
<1> HIDE DEF x, y
<1>2. /\ Written(Disown(SetStatus(rows, r.id, "CANCELED"), r.id), rows, r, y)
      /\ y.id = r.id /\ y.removals = r.removals /\ y.additions = r.additions /\ y.status = "CANCELED" /\ y.disowned = TRUE
  BY <1>0 DEF Changes
<1>3. Written(rows', rows, r, y) /\ UNCHANGED <<pool, minted, spent, executed>>  BY <1>2 DEF CancelPendingOffer
<1>4. RowSound(y)  BY <1>1, <1>2 DEF RowSound
<1> QED  BY <1>2, <1>3, <1>4, TradeChanged

\* An offer that is cancelled by spending its coins.
LEMMA StepCancelSafely == ASSUME TradeInv, NEW r \in ToSet(rows), CancelPendingOfferSafely(r.id) PROVE TradeInv'
<1> DEFINE x == [r EXCEPT !.status = "PENDING_CANCEL"]
           y == [x EXCEPT !.disowned = TRUE]
           U == SetStatus(rows, r.id, "PENDING_CANCEL")
<1>1. /\ TableSound(rows) /\ "PENDING_CANCEL" \in Statuses /\ "PENDING_CANCEL" \in PendingStatus /\ RowSound(r)
      /\ PendingStatus \cap {"CONFIRMED", "CANCELED", "FAILED"} = {}
  BY DEF TradeInv, Statuses, PendingStatus
<1>0. Changes(rows, r, "PENDING_CANCEL", x, y)  BY <1>1, ChangeFacts
<1> HIDE DEF x, y
<1>2. /\ Written(U, rows, r, x) /\ Written(Disown(U, r.id), rows, r, y)
      /\ x.id = r.id /\ x.removals = r.removals /\ x.additions = r.additions /\ x.status = "PENDING_CANCEL"
      /\ x.disowned = r.disowned
      /\ y.id = r.id /\ y.removals = r.removals /\ y.additions = r.additions /\ y.status = "PENDING_CANCEL"
      /\ y.disowned = TRUE
  BY <1>0 DEF Changes
<1> HIDE DEF U
<1>3. Trade(r.id) = r  BY <1>1, TableHolds DEF Trade
<1>4. /\ rows' = IF r.status \in PendingStatus THEN U ELSE Disown(U, r.id)
      /\ UNCHANGED <<minted, spent, executed>>
  BY <1>3 DEF CancelPendingOfferSafely, U
<1>5. \A b \in pool' : b \in pool \/ (b.trade = NoTrade /\ b.additions = {} /\ b.removals \subseteq CoinsSeen)
  <2>1. pool' = pool \cup {Bundle({c}, {}, NoTrade) : c \in (r.removals \cap (MyCoins \cup minted)) \ spent}
    BY <1>3 DEF CancelPendingOfferSafely
  <2>2. ASSUME NEW c \in MyCoins \cup minted
        PROVE  LET b == Bundle({c}, {}, NoTrade) IN b.trade = NoTrade /\ b.additions = {} /\ b.removals \subseteq CoinsSeen
    BY DEF Bundle, CoinsSeen
  <2> QED  BY <2>1, <2>2
<1>6. CASE r.status \in PendingStatus
  <2>1. r.id \in executed => r.disowned  BY <1>1, <1>6 DEF RowSound
  <2>2. RowSound(x)  BY <1>1, <1>2, <2>1 DEF RowSound
  <2>3. Written(rows', rows, r, x)  BY <1>2, <1>4, <1>6
  <2> QED  BY <1>2, <1>4, <1>5, <1>6, <2>2, <2>3, TradeChanged
<1>7. CASE r.status \notin PendingStatus
  <2>1. RowSound(y)  BY <1>1, <1>2 DEF RowSound
  <2>2. Written(rows', rows, r, y)  BY <1>2, <1>4, <1>7
  <2> QED  BY <1>2, <1>4, <1>5, <2>1, <2>2, TradeChanged
<1> QED  BY <1>6, <1>7

\* Only the pool grows.
LEMMA OnlyPool ==
    ASSUME TradeInv, UNCHANGED <<rows, minted, spent, executed>>,
           \A b \in pool' : b \in pool \/ BundleSound(b, rows)
    PROVE  TradeInv'
<1>1. \A b \in pool' : BundleSound(b, rows)'  BY DEF TradeInv, BundleSound, CoinsSeen
<1>2. \A r \in ToSet(rows') : RowSound(r)'  BY DEF TradeInv, RowSound, CoinsSeen
<1>3. PromisedOnce'  BY DEF TradeInv, PromisedOnce, PendingRows
<1> QED  BY <1>1, <1>2, <1>3 DEF TradeInv, MintedInv

\* Somebody accepts the wallet's offer.
LEMMA StepTakeOffer == ASSUME TradeInv, NEW r \in ToSet(rows), TakeOffer(r) PROVE TradeInv'
<1> DEFINE b == Bundle(r.removals, r.additions, r.id)
<1>1. pool' = pool \cup {b} /\ UNCHANGED <<rows, minted, spent, executed>>  BY DEF TakeOffer, OwnOffer
<1>2. IsOf(b, r) /\ b.removals = r.removals  BY DEF Bundle, IsOf
<1>3. r.removals \subseteq CoinsSeen  BY DEF TradeInv, RowSound
<1> HIDE DEF b
<1>4. BundleSound(b, rows)  BY <1>2, <1>3 DEF BundleSound
<1> QED  BY <1>1, <1>4, OnlyPool

\* The owner of a coin on offer spends it, or somebody else answers the offer.
LEMMA StepElsewhere == ASSUME TradeInv, NEW offered \in OfferCoins, SpendElsewhere(offered) PROVE TradeInv'
<1> DEFINE b == Bundle({offered}, {}, NoTrade)
<1>1. pool' = pool \cup {b} /\ UNCHANGED <<rows, minted, spent, executed>>  BY DEF SpendElsewhere, OthersOffer
<1>2. BundleSound(b, rows)  BY DEF Bundle, BundleSound, CoinsSeen
<1> QED  BY <1>1, <1>2, OnlyPool
-----------------------------------------------------------------------------
(* Blocks.                                                                 *)

\* Out is one-to-one.
LEMMA OutApart == \A k, l : Out(k) = Out(l) => k = l
  BY DEF Out

\* A block with the bundles of the trades in Now, after which sp is spent: Rm and Ad are
\* the coins of interest that it spends and makes.
BlockSound(Rm, Ad, Now, sp) ==
    /\ spent \subseteq sp /\ Rm \subseteq sp /\ Rm \subseteq CoinsSeen
    /\ \A k \in Now : Out(k) \notin CoinsSeen
    /\ \A c \in Ad : \E s \in PendingRows : s.id \in Now /\ c = Out(s.id)
    /\ \A s \in PendingRows : s.id \in Now => s.removals \subseteq Rm /\ s.additions \subseteq Ad

\* What the block makes of trade s, so far.
Settled(s, r, Now, sp) ==
    /\ r.id = s.id /\ r.removals = s.removals /\ r.additions = s.additions /\ r.disowned = s.disowned
    /\ \/ r.status = s.status
       \/ r.status = "CONFIRMED" /\ s.id \in Now
       \/ /\ r.status \in {"CANCELED", "FAILED"} /\ s.status \in PendingStatus
          /\ s.id \notin Now /\ s.removals \cap sp # {}
TableSettled(T, Now, sp) ==
    /\ TableSound(T) /\ Len(T) = Len(rows)
    /\ \A r \in ToSet(T) : \E s \in ToSet(rows) : Settled(s, r, Now, sp)
    /\ \A s \in ToSet(rows) : \E r \in ToSet(T) : Settled(s, r, Now, sp)

\* The loop of coins_of_interest_farmed when the coins of D are done.
LoopInv(acc, Ad, Now, sp, D) ==
    /\ TableSettled(acc.table, Now, sp)
    /\ acc.checked \cap Ad \subseteq D
    /\ \A r \in ToSet(acc.table) : Out(r.id) \in D \cap Ad => r.status = "CONFIRMED"

\* A trade is written again with the status the block gives it.
LEMMA SettledOn ==
    ASSUME NEW Now, NEW sp, NEW T, TableSettled(T, Now, sp), NEW t \in ToSet(T), NEW st \in Statuses,
           \A s \in ToSet(rows) : Settled(s, t, Now, sp) => Settled(s, [t EXCEPT !.status = st], Now, sp)
    PROVE  /\ TableSettled(SetStatus(T, t.id, st), Now, sp)
           /\ ToSet(SetStatus(T, t.id, st)) = (ToSet(T) \ {t}) \cup {[t EXCEPT !.status = st]}
<1> DEFINE x == [t EXCEPT !.status = st]
           U == SetStatus(T, t.id, st)
<1>1. TableSound(T)  BY DEF TableSettled
<1>2. Written(U, T, t, x)  BY <1>1, StatusWritten
<1>3. \A s \in ToSet(rows) : Settled(s, t, Now, sp) => Settled(s, x, Now, sp)  OBVIOUS
<1> HIDE DEF x, U
<1>4. TableSound(U) /\ Len(U) = Len(T) /\ ToSet(U) = (ToSet(T) \ {t}) \cup {x}  BY <1>2 DEF Written
<1>5. \A r \in ToSet(U) : \E s \in ToSet(rows) : Settled(s, r, Now, sp)  BY <1>3, <1>4 DEF TableSettled
<1>6. \A s \in ToSet(rows) : \E r \in ToSet(U) : Settled(s, r, Now, sp)
  <2> SUFFICES ASSUME NEW s \in ToSet(rows) PROVE \E r \in ToSet(U) : Settled(s, r, Now, sp)  OBVIOUS
  <2>1. PICK r \in ToSet(T) : Settled(s, r, Now, sp)  BY DEF TableSettled
  <2>2. CASE r = t  BY <1>3, <1>4, <2>1, <2>2
  <2>3. CASE r # t  BY <1>4, <2>1, <2>3
  <2> QED  BY <2>2, <2>3
<1>7. TableSettled(U, Now, sp)  BY <1>4, <1>5, <1>6 DEF TableSettled
<1> QED  BY <1>4, <1>7 DEF x, U

\* The trade get_trade_by_coin takes.
LEMMA TradeFound ==
    ASSUME NEW T, TableSound(T), NEW c
    PROVE  /\ TradesWith(T, c) # {} =>
                LET t == T[Min(TradesWith(T, c))]
                IN  t \in ToSet(T) /\ t.status # "CANCELED" /\ c \in t.removals \cup t.additions
           /\ TradesWith(T, c) = {} =>
                \A r \in ToSet(T) : r.status # "CANCELED" => c \notin r.removals \cup r.additions
<1> DEFINE F == TradesWith(T, c)
<1>1. DOMAIN T = 1 .. Len(T) /\ Len(T) \in Nat /\ ToSet(T) = {T[i] : i \in 1 .. Len(T)}  BY TableHolds
<1>2. \A i \in F : i \in 1 .. Len(T) /\ i \in Nat /\ T[i].status # "CANCELED" /\ c \in T[i].removals \cup T[i].additions
  BY <1>1 DEF TradesWith
<1>3. ASSUME F # {} PROVE Min(F) \in F
  <2>1. F \subseteq Nat  BY <1>2
  <2> HIDE DEF F
  <2>2. \E m \in F : \A k \in F : m <= k  BY <1>3, <2>1, LeastNatural
  <2> QED  BY <2>2 DEF Min
<1>4. ASSUME F = {}, NEW r \in ToSet(T), r.status # "CANCELED" PROVE c \notin r.removals \cup r.additions
  <2>1. PICK i \in 1 .. Len(T) : T[i] = r  BY <1>1
  <2>2. i \notin F  BY <1>4
  <2> QED  BY <1>1, <1>4, <2>1, <2>2 DEF TradesWith
<1>5. ASSUME F # {} PROVE LET t == T[Min(F)] IN t \in ToSet(T) /\ t.status # "CANCELED" /\ c \in t.removals \cup t.additions
  <2>1. PICK m \in F : m = Min(F)  BY <1>3, <1>5
  <2> QED  BY <1>1, <1>2, <2>1
<1> QED  BY <1>4, <1>5

\* The trades a coin of the block is in.
LEMMA BlockCoins ==
    ASSUME TradeInv, NEW Rm, NEW Ad, NEW Now, NEW sp, BlockSound(Rm, Ad, Now, sp), NEW s \in ToSet(rows)
    PROVE  /\ s.additions \subseteq Ad => s.id \in Now
           /\ \A c \in Ad : c \in s.removals \cup s.additions =>
                s \in PendingRows /\ s.id \in Now /\ c = Out(s.id) /\ c \notin s.removals
           /\ \A c \in Rm : c \in s.removals \cup s.additions => s.removals \cap sp # {}
<1>1. RowSound(s) /\ TableSound(rows) /\ MintedInv  BY DEF TradeInv
<1>2. s.additions = {Out(s.id)} /\ s.removals \subseteq CoinsSeen /\ s.removals # {}  BY <1>1 DEF RowSound
<1>3. \A c \in Ad : \E p \in PendingRows : p.id \in Now /\ c = Out(p.id)  BY DEF BlockSound
<1>4. \A p \in PendingRows : p \in ToSet(rows)  BY DEF PendingRows
<1>5. ASSUME s.additions \subseteq Ad PROVE s.id \in Now
  <2>1. PICK p \in PendingRows : p.id \in Now /\ Out(s.id) = Out(p.id)  BY <1>2, <1>3, <1>5
  <2> QED  BY <2>1, OutApart
<1>6. ASSUME NEW c \in Ad, c \in s.removals \cup s.additions
      PROVE  s \in PendingRows /\ s.id \in Now /\ c = Out(s.id) /\ c \notin s.removals
  <2>1. PICK p \in PendingRows : p.id \in Now /\ c = Out(p.id)  BY <1>3
  <2>2. c \notin CoinsSeen  BY <2>1 DEF BlockSound
  <2>3. c \notin s.removals /\ c = Out(s.id)  BY <1>2, <1>6, <2>2
  <2>4. p.id = s.id  BY <2>1, <2>3, OutApart
  <2>5. p = s  BY <1>1, <1>4, <2>4, TableHolds
  <2> QED  BY <2>1, <2>3, <2>5
<1>7. ASSUME NEW c \in Rm, c \in s.removals \cup s.additions PROVE s.removals \cap sp # {}
  <2>1. CASE c \in s.removals  BY <2>1 DEF BlockSound
  <2>2. CASE c = Out(s.id)
    <3>1. s.id \in 1 .. TradeBound
      <4>1. s.id \in 1 .. Len(rows) /\ Len(rows) \in Nat /\ Len(rows) <= TradeBound /\ TradeBound \in Nat
        BY <1>1, TableHolds, TradeAssumption DEF TradeInv
      <4> QED  BY <4>1
    <3>2. c \notin MyCoins \cup OfferCoins  BY <2>2, <3>1, TradeAssumption
    <3>3. c \in minted  BY <3>2 DEF BlockSound, CoinsSeen
    <3>4. PICK k \in executed : c = Out(k)  BY <1>1, <3>3 DEF MintedInv
    <3>5. s.id \in executed  BY <2>2, <3>4, OutApart
    <3> QED  BY <1>1, <1>2, <3>5 DEF RowSound, BlockSound
  <2> QED  BY <1>2, <1>7, <2>1, <2>2
<1> QED  BY <1>5, <1>6, <1>7

\* One coin of the block.
LEMMA FarmStep ==
    ASSUME TradeInv, NEW Rm, NEW Ad, NEW Now, NEW sp, BlockSound(Rm, Ad, Now, sp), NEW acc, NEW D,
           LoopInv(acc, Ad, Now, sp, D), NEW c \in Rm \cup Ad
    PROVE  LoopInv(FarmCoin(acc, c, Rm, Ad), Ad, Now, sp, D \cup {c})
<1> DEFINE T == acc.table
           F == TradesWith(T, c)
           t == T[Min(F)]
           complete == t.removals \subseteq Rm /\ t.additions \subseteq Ad
           U == IF complete THEN SetStatus(T, t.id, "CONFIRMED")
                ELSE IF t.status = "PENDING_CANCEL" THEN SetStatus(T, t.id, "CANCELED")
                ELSE IF t.status = "PENDING_CONFIRM" THEN SetStatus(T, t.id, "FAILED")
                ELSE T
           G == FarmCoin(acc, c, Rm, Ad)
<1>1. G = IF c \in acc.checked \/ F = {} THEN acc
          ELSE [table |-> U, checked |-> acc.checked \cup t.removals \cup {c}]
  BY DEF FarmCoin
<1>2. TableSettled(T, Now, sp) /\ TableSound(T)  BY DEF LoopInv, TableSettled
<1>3. /\ F # {} => t \in ToSet(T) /\ t.status # "CANCELED" /\ c \in t.removals \cup t.additions
      /\ F = {} => \A r \in ToSet(T) : r.status # "CANCELED" => c \notin r.removals \cup r.additions
  BY <1>2, TradeFound
<1>4. \A r, q \in ToSet(T) : r.id = q.id => r = q  BY <1>2, TableHolds
<1>5. acc.checked \cap Ad \subseteq D /\ \A r \in ToSet(T) : Out(r.id) \in D \cap Ad => r.status = "CONFIRMED"
  BY DEF LoopInv
<1>6. \A r \in ToSet(T) : \E s \in ToSet(rows) : Settled(s, r, Now, sp)  BY <1>2 DEF TableSettled
<1>7. /\ "CONFIRMED" \in Statuses /\ "CANCELED" \in Statuses /\ "FAILED" \in Statuses
      /\ PendingStatus \cap {"CONFIRMED", "CANCELED", "FAILED"} = {}
      /\ "PENDING_CANCEL" \in PendingStatus /\ "PENDING_CONFIRM" \in PendingStatus
  BY DEF Statuses, PendingStatus
<1> HIDE DEF F, G, t
<1>8. CASE c \in acc.checked \/ F = {}
  <2>1. G = acc  BY <1>1, <1>8
  <2>2. ASSUME NEW r \in ToSet(T), Out(r.id) \in (D \cup {c}) \cap Ad PROVE r.status = "CONFIRMED"
    <3>1. CASE Out(r.id) \in D  BY <1>5, <2>2, <3>1
    <3>2. CASE Out(r.id) = c /\ c \in acc.checked  BY <1>5, <2>2, <3>2
    <3>3. CASE Out(r.id) = c /\ F = {}
      <4>1. PICK s \in ToSet(rows) : Settled(s, r, Now, sp)  BY <1>6
      <4>2. s.additions = {Out(s.id)} /\ r.id = s.id /\ r.additions = s.additions
        BY <4>1 DEF TradeInv, RowSound, Settled
      <4>3. s \in PendingRows /\ s.id \in Now  BY <2>2, <3>3, <4>2, BlockCoins
      <4>4. r.status = "CANCELED"  BY <1>3, <3>3, <4>2
      <4> QED  BY <1>7, <4>1, <4>3, <4>4 DEF Settled, PendingRows
    <3> QED  BY <1>8, <2>2, <3>1, <3>2, <3>3
  <2>3. LoopInv(G, Ad, Now, sp, D \cup {c})  BY <1>2, <1>5, <2>1, <2>2 DEF LoopInv
  <2> QED  BY <2>3 DEF G
<1>9. CASE ~(c \in acc.checked \/ F = {})
  <2>1. G.table = U /\ G.checked = acc.checked \cup t.removals \cup {c}  BY <1>1, <1>9
  <2>2. t \in ToSet(T) /\ c \in t.removals \cup t.additions  BY <1>3, <1>9
  <2>3. PICK s \in ToSet(rows) : Settled(s, t, Now, sp)  BY <1>6, <2>2
  <2>4. t.id = s.id /\ t.removals = s.removals /\ t.additions = s.additions /\ s.additions = {Out(s.id)}
    BY <2>3 DEF TradeInv, RowSound, Settled
  <2>5. /\ s.additions \subseteq Ad => s.id \in Now
        /\ \A e \in Ad : e \in s.removals \cup s.additions =>
             s \in PendingRows /\ s.id \in Now /\ e = Out(s.id) /\ e \notin s.removals
        /\ \A e \in Rm : e \in s.removals \cup s.additions => s.removals \cap sp # {}
    BY BlockCoins
  <2>6. G.checked \cap Ad \subseteq D \cup {c}  BY <1>5, <2>1, <2>4, <2>5
  <2>7. s \in PendingRows /\ s.id \in Now => complete  BY <2>4 DEF BlockSound
  <2>8. \A q \in ToSet(rows) : Settled(q, t, Now, sp) => q = s
    BY <2>3, TableHolds DEF Settled, TradeInv
  <2>9. \A st : [t EXCEPT !.status = st].status = st /\ [t EXCEPT !.status = st].id = t.id
           /\ [t EXCEPT !.status = st].removals = t.removals /\ [t EXCEPT !.status = st].additions = t.additions
           /\ [t EXCEPT !.status = st].disowned = t.disowned
    <3>1. t \in TradeRows  BY <1>2, <2>2, TableHolds
    <3> QED  BY <3>1 DEF TradeRows
  <2>10. CASE complete
    <3> DEFINE x == [t EXCEPT !.status = "CONFIRMED"]
    <3>1. s.id \in Now  BY <2>4, <2>5, <2>10
    <3>2. Settled(s, x, Now, sp)  BY <2>3, <2>9, <3>1 DEF Settled
    <3>3. TableSettled(U, Now, sp) /\ ToSet(U) = (ToSet(T) \ {t}) \cup {x}
      <4>1. \A q \in ToSet(rows) : Settled(q, t, Now, sp) => Settled(q, x, Now, sp)  BY <2>8, <3>2
      <4> QED  BY <1>2, <1>7, <2>2, <2>10, <4>1, SettledOn
    <3>4. ASSUME NEW r \in ToSet(U), Out(r.id) \in (D \cup {c}) \cap Ad PROVE r.status = "CONFIRMED"
      <4>1. CASE r = x  BY <2>9, <4>1
      <4>2. CASE r \in ToSet(T) /\ r # t /\ Out(r.id) \in D  BY <1>5, <3>4, <4>2
      <4>3. CASE r \in ToSet(T) /\ r # t /\ Out(r.id) = c
        <5>1. c = Out(s.id)  BY <2>2, <2>4, <2>5, <3>4, <4>3
        <5>2. r.id = t.id  BY <2>4, <4>3, <5>1, OutApart
        <5> QED  BY <1>4, <2>2, <4>3, <5>2
      <4> QED  BY <3>3, <3>4, <4>1, <4>2, <4>3
    <3> HIDE DEF U, x
    <3>5. LoopInv(G, Ad, Now, sp, D \cup {c})  BY <2>1, <2>6, <3>3, <3>4 DEF LoopInv
    <3> QED  BY <3>5 DEF G
  <2>11. CASE ~complete
    <3>1. ~(s \in PendingRows /\ s.id \in Now)  BY <2>7, <2>11
    <3>2. c \notin Ad /\ c \in Rm  BY <2>2, <2>4, <2>5, <3>1
    <3>3. s.removals \cap sp # {}  BY <2>2, <2>4, <2>5, <3>2
    <3>4. ASSUME NEW st \in {"CANCELED", "FAILED"}, t.status \in PendingStatus, U = SetStatus(T, t.id, st)
          PROVE  LoopInv(G, Ad, Now, sp, D \cup {c})
      <4> DEFINE x == [t EXCEPT !.status = st]
      <4>1. s.status = t.status /\ s.id \notin Now  BY <1>7, <2>3, <3>1, <3>4 DEF Settled, PendingRows
      <4>2. Settled(s, x, Now, sp)  BY <2>4, <2>3, <2>9, <3>3, <3>4, <4>1 DEF Settled
      <4>3. TableSettled(U, Now, sp) /\ ToSet(U) = (ToSet(T) \ {t}) \cup {x}
        <5>1. \A q \in ToSet(rows) : Settled(q, t, Now, sp) => Settled(q, x, Now, sp)  BY <2>8, <4>2
        <5>2. st \in Statuses  BY <1>7
        <5> QED  BY <1>2, <2>2, <3>4, <5>1, <5>2, SettledOn
      <4>4. ASSUME NEW r \in ToSet(U), Out(r.id) \in (D \cup {c}) \cap Ad PROVE r.status = "CONFIRMED"
        <5>1. CASE r = x  BY <2>4, <2>5, <2>9, <4>1, <4>4, <5>1
        <5>2. CASE r \in ToSet(T)  BY <1>5, <3>2, <4>4, <5>2
        <5> QED  BY <4>3, <5>1, <5>2
      <4> HIDE DEF U, x
      <4> QED  BY <2>1, <2>6, <4>3, <4>4 DEF LoopInv
    <3>5. ASSUME U = T PROVE LoopInv(G, Ad, Now, sp, D \cup {c})
      <4>1. \A r \in ToSet(T) : Out(r.id) \in (D \cup {c}) \cap Ad => r.status = "CONFIRMED"  BY <1>5, <3>2
      <4> HIDE DEF U
      <4> QED  BY <1>2, <2>1, <2>6, <3>5, <4>1 DEF LoopInv
    <3>6. LoopInv(G, Ad, Now, sp, D \cup {c})
      <4>1. CASE t.status = "PENDING_CANCEL"
        <5>1. U = SetStatus(T, t.id, "CANCELED") /\ t.status \in PendingStatus  BY <1>7, <2>11, <4>1
        <5> HIDE DEF U
        <5> QED  BY <3>4, <5>1
      <4>2. CASE t.status = "PENDING_CONFIRM"
        <5>1. U = SetStatus(T, t.id, "FAILED") /\ t.status \in PendingStatus  BY <1>7, <2>11, <4>2
        <5> HIDE DEF U
        <5> QED  BY <3>4, <5>1
      <4>3. CASE t.status \notin {"PENDING_CANCEL", "PENDING_CONFIRM"}
        <5>1. U = T  BY <2>11, <4>3
        <5> HIDE DEF U
        <5> QED  BY <3>5, <5>1
      <4> QED  BY <4>1, <4>2, <4>3
    <3> QED  BY <3>6 DEF G
  <2> QED  BY <2>10, <2>11
<1> QED  BY <1>8, <1>9

\* An order of a finite set has its elements.
LEMMA OrderHolds ==
    ASSUME NEW S, IsFiniteSet(S), NEW f \in SetToSeqs(S)
    PROVE  f \in Seq(S) /\ \A c : c \in ToSet(f) <=> c \in S
<1> DEFINE n == Cardinality(S)
<1>1. n \in Nat  BY FS_CardinalityType
<1>2. f \in [1 .. n -> S] /\ \A i, j \in 1 .. n : i # j => f[i] # f[j]  BY DEF SetToSeqs
<1>3. Cardinality(1 .. n) = n /\ IsFiniteSet(1 .. n)
  <2>1. 1 \in Int /\ n \in Int  BY <1>1
  <2>2. IsFiniteSet(1 .. n) /\ Cardinality(1 .. n) = IF 1 > n THEN 0 ELSE n - 1 + 1  BY <2>1, FS_Interval
  <2> HIDE DEF n
  <2> QED  BY <1>1, <2>2
<1>4. f \in Injection(1 .. n, S)  BY <1>2 DEF Injection, IsInjective
<1>5. Cardinality(1 .. n) = Cardinality(S)  BY <1>3
<1> HIDE DEF n
<1>6. f \in Surjection(1 .. n, S)  BY <1>4, <1>5, FS_Injection
<1>7. \A c \in S : \E i \in 1 .. n : f[i] = c  BY <1>6 DEF Surjection
<1>8. f \in Seq(S)  BY <1>1, <1>2
<1> QED  BY <1>2, <1>7, <1>8 DEF ToSet

\* The loop of coins_of_interest_farmed.
FarmLoop(coins, Rm, Ad, n, f) ==
    f = [i \in 0 .. n |-> IF i = 0 THEN [table |-> rows, checked |-> {}]
                          ELSE FarmCoin(f[i - 1], coins[i], Rm, Ad)]

\* It runs to the end of any number of coins.
LEMMA FarmRuns ==
    ASSUME NEW coins, NEW Rm, NEW Ad
    PROVE  \A n \in Nat : \E f : FarmLoop(coins, Rm, Ad, n, f)
<1> DEFINE Bad == {n \in Nat : ~\E f : FarmLoop(coins, Rm, Ad, n, f)}
           a0 == [table |-> rows, checked |-> {}]
<1> SUFFICES ASSUME Bad # {} PROVE FALSE  OBVIOUS
<1>1. PICK n \in Bad : \A k \in Bad : n <= k
  <2>1. Bad \subseteq Nat  OBVIOUS
  <2> HIDE DEF Bad
  <2> QED  BY <2>1, LeastNatural
<1>2. CASE n = 0
  <2> DEFINE f == [i \in 0 .. n |-> a0]
  <2>1. \A i \in 0 .. n : i = 0  BY <1>2
  <2>2. FarmLoop(coins, Rm, Ad, n, f)  BY <2>1 DEF FarmLoop
  <2> QED  BY <1>1, <2>2
<1>3. CASE n # 0
  <2>1. n - 1 \in Nat /\ n \in Nat /\ ~(n <= n - 1)  BY <1>3
  <2>2. PICK f : FarmLoop(coins, Rm, Ad, n - 1, f)  BY <1>1, <2>1
  <2> DEFINE g == [i \in 0 .. n |-> IF i = n THEN FarmCoin(f[n - 1], coins[n], Rm, Ad) ELSE f[i]]
  <2>3. ASSUME NEW i \in 0 .. n PROVE g[i] = IF i = 0 THEN a0 ELSE FarmCoin(g[i - 1], coins[i], Rm, Ad)
    <3>1. CASE i = n
      <4>1. g[i] = FarmCoin(f[n - 1], coins[n], Rm, Ad)  BY <3>1
      <4>2. i - 1 \in 0 .. n /\ i - 1 # n  BY <2>1, <3>1
      <4>3. g[i - 1] = f[n - 1]  BY <3>1, <4>2
      <4> QED  BY <1>3, <3>1, <4>1, <4>3
    <3>2. CASE i # n
      <4>1. g[i] = f[i] /\ i \in 0 .. n - 1  BY <2>1, <3>2
      <4>2. f[i] = IF i = 0 THEN a0 ELSE FarmCoin(f[i - 1], coins[i], Rm, Ad)
        <5>1. f = [j \in 0 .. n - 1 |-> IF j = 0 THEN a0 ELSE FarmCoin(f[j - 1], coins[j], Rm, Ad)]
          BY <2>2 DEF FarmLoop
        <5> QED  BY <4>1, <5>1
      <4>3. i # 0 => i - 1 \in 0 .. n /\ i - 1 # n  BY <2>1, <4>1
      <4>4. i # 0 => g[i - 1] = f[i - 1]  BY <4>3
      <4> QED  BY <4>1, <4>2, <4>4
    <3> QED  BY <3>1, <3>2
  <2>4. FarmLoop(coins, Rm, Ad, n, g)
    <3>1. g = [i \in 0 .. n |-> g[i]]  OBVIOUS
    <3> HIDE DEF g
    <3>2. g = [i \in 0 .. n |-> IF i = 0 THEN a0 ELSE FarmCoin(g[i - 1], coins[i], Rm, Ad)]  BY <2>3, <3>1
    <3> QED  BY <3>2 DEF FarmLoop
  <2> QED  BY <1>1, <2>4
<1> QED  BY <1>2, <1>3

\* Farmed is what the loop ends with.
LEMMA FarmedIsLoop ==
    ASSUME NEW removed, NEW added, Len(removed \o added) \in Nat
    PROVE  \E f : /\ FarmLoop(removed \o added, ToSet(removed), ToSet(added), Len(removed \o added), f)
                  /\ Farmed(removed, added) = f[Len(removed \o added)].table
<1> DEFINE coins == removed \o added
           Is(f) == f = [i \in 0 .. Len(coins) |-> IF i = 0 THEN [table |-> rows, checked |-> {}]
                           ELSE FarmCoin(f[i - 1], coins[i], ToSet(removed), ToSet(added))]
           g == CHOOSE f : Is(f)
<1>1. Farmed(removed, added) = g[Len(coins)].table  BY DEF Farmed
<1>2. \E f : Is(f)
  <2>1. PICK f : FarmLoop(coins, ToSet(removed), ToSet(added), Len(coins), f)  BY FarmRuns
  <2>2. Is(f)  BY <2>1 DEF FarmLoop
  <2> QED  BY <2>2
<1>3. Is(g)
  <2> HIDE DEF Is
  <2> QED  BY <1>2
<1>4. FarmLoop(coins, ToSet(removed), ToSet(added), Len(coins), g)  BY <1>3 DEF FarmLoop
<1> QED  BY <1>1, <1>4

\* Before the first coin nothing is decided.
LEMMA LoopStarts ==
    ASSUME TradeInv, NEW Ad, NEW Now, NEW sp
    PROVE  LoopInv([table |-> rows, checked |-> {}], Ad, Now, sp, {})
<1>1. \A s \in ToSet(rows) : Settled(s, s, Now, sp)  BY DEF Settled
<1>2. TableSettled(rows, Now, sp)  BY <1>1 DEF TableSettled, TradeInv
<1> QED  BY <1>2 DEF LoopInv

\* The loop, coin by coin.
Done(coins, n) == {coins[j] : j \in 1 .. n}
\* After n coins the loop has decided about those n.
LEMMA LoopSound ==
    ASSUME TradeInv, NEW Rm, NEW Ad, NEW Now, NEW sp, BlockSound(Rm, Ad, Now, sp), NEW coins,
           NEW n \in Nat, \A i \in 1 .. n : coins[i] \in Rm \cup Ad, NEW f, FarmLoop(coins, Rm, Ad, n, f)
    PROVE  LoopInv(f[n], Ad, Now, sp, Done(coins, n))
<1> DEFINE D(i) == {coins[j] : j \in 1 .. i}
           Bad == {i \in 0 .. n : ~LoopInv(f[i], Ad, Now, sp, D(i))}
<1>1. f = [i \in 0 .. n |-> IF i = 0 THEN [table |-> rows, checked |-> {}] ELSE FarmCoin(f[i - 1], coins[i], Rm, Ad)]
  BY DEF FarmLoop
<1>2. ASSUME Bad # {} PROVE FALSE
  <2>1. Bad \subseteq Nat  OBVIOUS
  <2>2. PICK i \in Bad : \A k \in Bad : i <= k
    <3> HIDE DEF Bad
    <3> QED  BY <1>2, <2>1, LeastNatural
  <2>3. i \in 0 .. n /\ ~LoopInv(f[i], Ad, Now, sp, D(i))  OBVIOUS
  <2>4. CASE i = 0
    <3>1. f[i] = [table |-> rows, checked |-> {}]  BY <1>1, <2>3, <2>4
    <3>2. 1 .. 0 = {}  OBVIOUS
    <3>3. D(i) = {}  BY <2>4, <3>2
    <3>4. LoopInv([table |-> rows, checked |-> {}], Ad, Now, sp, {})  BY LoopStarts
    <3> QED  BY <2>3, <3>1, <3>3, <3>4
  <2>5. CASE i # 0
    <3>1. PICK k \in 0 .. n : k = i - 1  BY <2>3, <2>5
    <3>2. ~(i <= k) /\ i \in 1 .. n /\ 1 .. i = (1 .. k) \cup {i}  BY <2>3, <2>5, <3>1
    <3>3. LoopInv(f[k], Ad, Now, sp, D(k))  BY <2>2, <3>1, <3>2
    <3>4. f[i] = FarmCoin(f[k], coins[i], Rm, Ad)  BY <1>1, <2>3, <2>5, <3>1
    <3>5. D(i) = D(k) \cup {coins[i]}  BY <3>2
    <3>6. coins[i] \in Rm \cup Ad  BY <3>2
    <3> HIDE DEF D
    <3>7. LoopInv(FarmCoin(f[k], coins[i], Rm, Ad), Ad, Now, sp, D(k) \cup {coins[i]})  BY <3>3, <3>6, FarmStep
    <3> QED  BY <2>3, <3>4, <3>5, <3>7
  <2> QED  BY <2>4, <2>5
<1>3. n \in 0 .. n  OBVIOUS
<1>4. LoopInv(f[n], Ad, Now, sp, D(n))  BY <1>2, <1>3
<1> QED  BY <1>4 DEF Done

\* There are finitely many coins.
LEMMA FiniteCoins == IsFiniteSet(TradeCoins)
<1> DEFINE N == TradeBound
           O == {Out(id) : id \in 1 .. N}
           g == [id \in 1 .. N |-> Out(id)]
<1>1. IsFiniteSet(1 .. N)
  <2>1. 1 \in Int /\ N \in Int  BY TradeAssumption
  <2> QED  BY <2>1, FS_Interval
<1>2. g \in Surjection(1 .. N, O)  BY DEF Surjection
<1> HIDE DEF g, O
<1>3. IsFiniteSet(O)  BY <1>1, <1>2, FS_Surjection
<1>4. IsFiniteSet((MyCoins \cup OfferCoins) \cup O)  BY <1>3, TradeAssumption, FS_Union
<1> QED  BY <1>4 DEF TradeCoins, O

\* What a block with these bundles puts on the chain.
RemovedBy(bundles) == UNION {b.removals : b \in bundles}
AddedBy(bundles) == UNION {b.additions : b \in bundles}
TradesOf(bundles) == {b.trade : b \in bundles} \ {NoTrade}

\* The trades whose bundles are in the block had all their coins, and were not on the chain.
NowSound(Rb, Ab, Now) ==
    /\ \A k \in Now : \E s \in ToSet(rows) : s.id = k
    /\ Ab = {Out(k) : k \in Now}
    /\ \A s \in ToSet(rows) : s.id \in Now =>
          /\ s.removals \subseteq Rb /\ s.additions \subseteq Ab
          /\ s.removals \cap spent = {} /\ s.id \notin executed /\ Out(s.id) \notin CoinsSeen

\* What a block of bundles from the pool spends and makes.
LEMMA BundlesNow ==
    ASSUME TradeInv, NEW bundles, bundles \subseteq pool, \A b \in bundles : b.removals \cap spent = {}
    PROVE  NowSound(RemovedBy(bundles), AddedBy(bundles), TradesOf(bundles)) /\ RemovedBy(bundles) \subseteq CoinsSeen
<1> DEFINE Rb == RemovedBy(bundles)
           Ab == AddedBy(bundles)
           Now == TradesOf(bundles)
<1>0. TableSound(rows) /\ Len(rows) \in Nat /\ Len(rows) <= TradeBound /\ TradeBound \in Nat /\ MintedInv
  BY TableHolds, TradeAssumption DEF TradeInv
<1>1. \A s \in ToSet(rows) : s.id \in 1 .. Len(rows) /\ s.id # NoTrade /\ s.id \in 1 .. TradeBound
  <2>1. \A k \in 1 .. Len(rows) : k # 0 /\ k \in 1 .. TradeBound  BY <1>0
  <2> QED  BY <1>0, <2>1, TableHolds DEF NoTrade
<1>2. \A b \in bundles : b.trade # NoTrade => \E s \in ToSet(rows) : IsOf(b, s)  BY DEF TradeInv, BundleSound
<1>3. \A b \in bundles : b.additions # {} => \E s \in ToSet(rows) : IsOf(b, s)  BY DEF TradeInv, BundleSound
<1>4. Rb \subseteq CoinsSeen  BY DEF TradeInv, BundleSound, RemovedBy
<1>5. \A k \in Now : \E s \in ToSet(rows) : s.id = k  BY <1>2 DEF TradesOf, IsOf
<1>6. \A s, q \in ToSet(rows) : s.id = q.id => s = q  BY <1>0, TableHolds
<1>7. ASSUME NEW s \in ToSet(rows), s.id \in Now
      PROVE  /\ s.removals \subseteq Rb /\ s.additions \subseteq Ab
             /\ s.removals \cap spent = {} /\ s.id \notin executed /\ Out(s.id) \notin CoinsSeen
  <2>1. PICK b \in bundles : b.trade = s.id  BY <1>7 DEF TradesOf
  <2>2. PICK q \in ToSet(rows) : IsOf(b, q)  BY <1>1, <1>2, <2>1
  <2>3. q = s  BY <1>6, <2>1, <2>2 DEF IsOf
  <2>4. b.removals = s.removals /\ b.additions = s.additions  BY <2>2, <2>3 DEF IsOf
  <2>5. s.removals \subseteq Rb /\ s.additions \subseteq Ab  BY <2>4 DEF RemovedBy, AddedBy
  <2>6. s.removals \cap spent = {}  BY <2>4
  <2>7. s.id \notin executed  BY <2>6 DEF TradeInv, RowSound
  <2>8. Out(s.id) \notin minted  BY <1>0, <2>7, OutApart DEF MintedInv
  <2>9. Out(s.id) \notin MyCoins \cup OfferCoins  BY <1>1, TradeAssumption
  <2> QED  BY <2>5, <2>6, <2>7, <2>8, <2>9 DEF CoinsSeen
<1>8. Ab = {Out(k) : k \in Now}
  <2>1. ASSUME NEW c \in Ab PROVE \E k \in Now : c = Out(k)
    <3>1. PICK b \in bundles : c \in b.additions  BY DEF AddedBy
    <3>2. PICK s \in ToSet(rows) : IsOf(b, s)  BY <1>3, <3>1
    <3>3. c = Out(s.id)  BY <3>1, <3>2 DEF IsOf, TradeInv, RowSound
    <3>4. s.id \in Now  BY <1>1, <3>2 DEF IsOf, TradesOf
    <3> QED  BY <3>3, <3>4
  <2>2. ASSUME NEW k \in Now PROVE Out(k) \in Ab
    <3>1. PICK s \in ToSet(rows) : s.id = k  BY <1>5
    <3>2. s.additions \subseteq Ab /\ s.additions = {Out(s.id)}  BY <1>7, <3>1 DEF TradeInv, RowSound
    <3> QED  BY <3>1, <3>2
  <2> QED  BY <2>1, <2>2
<1> HIDE DEF Rb, Ab, Now
<1>9. NowSound(Rb, Ab, Now)  BY <1>5, <1>7, <1>8 DEF NowSound
<1> QED  BY <1>4, <1>9 DEF Rb, Ab, Now

\* The coins of interest of such a block.
LEMMA BlockIsSound ==
    ASSUME TradeInv, NEW Rb, NEW Ab, NEW Now, NowSound(Rb, Ab, Now), Rb \subseteq CoinsSeen
    PROVE  BlockSound(Rb \cap OfInterest, Ab \cap OfInterest, Now, spent \cup Rb)
<1>1. \A k \in Now : Out(k) \notin CoinsSeen
  <2> SUFFICES ASSUME NEW k \in Now PROVE Out(k) \notin CoinsSeen  OBVIOUS
  <2>1. PICK s \in ToSet(rows) : s.id = k  BY DEF NowSound
  <2> QED  BY <2>1 DEF NowSound
<1>2. ASSUME NEW c \in Ab \cap OfInterest PROVE \E s \in PendingRows : s.id \in Now /\ c = Out(s.id)
  <2>1. PICK k \in Now : c = Out(k)  BY DEF NowSound
  <2>2. PICK p \in PendingRows : c \in p.removals \cup p.additions  BY DEF OfInterest
  <2>3. p \in ToSet(rows)  BY DEF PendingRows
  <2>4. p.removals \subseteq CoinsSeen /\ p.additions = {Out(p.id)}  BY <2>3 DEF TradeInv, RowSound
  <2>5. c = Out(p.id)  BY <1>1, <2>1, <2>2, <2>4
  <2>6. p.id = k  BY <2>1, <2>5, OutApart
  <2> QED  BY <2>5, <2>6
<1>3. ASSUME NEW s \in PendingRows, s.id \in Now
      PROVE  s.removals \subseteq Rb \cap OfInterest /\ s.additions \subseteq Ab \cap OfInterest
  <2>1. s \in ToSet(rows)  BY DEF PendingRows
  <2>2. s.removals \subseteq Rb /\ s.additions \subseteq Ab  BY <1>3, <2>1 DEF NowSound
  <2>3. s.removals \subseteq OfInterest /\ s.additions \subseteq OfInterest  BY DEF OfInterest
  <2> QED  BY <2>2, <2>3
<1> QED  BY <1>1, <1>2, <1>3 DEF BlockSound

\* What the trades are when all coins are done.
LEMMA BlockSettles ==
    ASSUME TradeInv, NEW Rb, NEW Ab, NEW Now, NowSound(Rb, Ab, Now), Rb \subseteq CoinsSeen,
           spent' = spent \cup Rb, minted' = minted \cup Ab, executed' = executed \cup Now, pool' \subseteq pool,
           TableSettled(rows', Now, spent'),
           \A r \in ToSet(rows') : Out(r.id) \in Ab \cap OfInterest => r.status = "CONFIRMED"
    PROVE  TradeInv'
<1>1. TableSound(rows') /\ Len(rows') = Len(rows)  BY DEF TableSettled
<1>2. \A r \in ToSet(rows') : \E s \in ToSet(rows) : Settled(s, r, Now, spent')  BY DEF TableSettled
<1>3. \A s \in ToSet(rows) : \E r \in ToSet(rows') : Settled(s, r, Now, spent')  BY DEF TableSettled
<1>4. MintedInv'
  <2>1. \A k \in Now : k \in 1 .. Len(rows)
    <3>1. TableSound(rows)  BY DEF TradeInv
    <3> QED  BY <3>1, TableHolds DEF NowSound
  <2>2. minted' = {Out(id) : id \in executed'}  BY DEF NowSound, TradeInv, MintedInv
  <2>3. executed' \subseteq 1 .. Len(rows')  BY <1>1, <2>1 DEF TradeInv, MintedInv
  <2> QED  BY <2>2, <2>3 DEF MintedInv
<1>5. CoinsSeen \subseteq CoinsSeen'  BY DEF CoinsSeen
<1>6. PendingStatus \cap {"CONFIRMED", "CANCELED", "FAILED"} = {} /\ Statuses = PendingStatus \cup {"CONFIRMED", "CANCELED", "FAILED"}
  BY DEF PendingStatus, Statuses
<1>7. ASSUME NEW r \in ToSet(rows') PROVE RowSound(r)'
  <2>1. PICK s \in ToSet(rows) : Settled(s, r, Now, spent')  BY <1>2
  <2>2. r.id = s.id /\ r.removals = s.removals /\ r.additions = s.additions /\ r.disowned = s.disowned
    BY <2>1 DEF Settled
  <2>3. RowSound(s) /\ s.status \in Statuses
    <3>1. TableSound(rows)  BY DEF TradeInv
    <3>2. s \in TradeRows  BY <3>1, TableHolds
    <3> QED  BY <3>2 DEF TradeInv, TradeRows
  <2>4. r.additions = {Out(r.id)} /\ r.removals # {} /\ r.removals \subseteq CoinsSeen'
    BY <1>5, <2>2, <2>3 DEF RowSound
  <2>5. r.id \in executed' => r.removals \subseteq spent'  BY <2>2, <2>3 DEF RowSound, NowSound
  <2>6. r.status = "CONFIRMED" => r.id \in executed'  BY <2>1, <2>2, <2>3 DEF RowSound, Settled
  <2>7. ASSUME r.id \in executed, ~r.disowned PROVE r.status = "CONFIRMED"
    <3>1. s.status = "CONFIRMED"  BY <2>2, <2>3, <2>7 DEF RowSound
    <3> QED  BY <1>6, <2>1, <3>1 DEF Settled
  <2>8. ASSUME r.id \in Now, ~r.disowned PROVE r.status = "CONFIRMED"
    <3>1. s.removals \cap spent = {} /\ s.id \notin executed /\ s.additions \subseteq Ab  BY <2>2, <2>8 DEF NowSound
    <3>2. s.status \in PendingStatus  BY <1>6, <2>2, <2>3, <2>8, <3>1 DEF RowSound
    <3>3. s.additions \subseteq OfInterest  BY <3>2 DEF OfInterest, PendingRows
    <3>4. Out(r.id) \in Ab \cap OfInterest  BY <2>2, <2>4, <3>1, <3>3
    <3> QED  BY <3>4
  <2>9. r.status \in {"CANCELED", "FAILED"} /\ ~r.disowned => r.removals \cap spent' # {}
    BY <1>6, <2>1, <2>2, <2>3 DEF RowSound, Settled
  <2> QED  BY <2>4, <2>5, <2>6, <2>7, <2>8, <2>9 DEF RowSound
<1>8. ASSUME NEW b \in pool' PROVE BundleSound(b, rows)'
  <2>1. BundleSound(b, rows)  BY DEF TradeInv
  <2>2. ASSUME NEW s \in ToSet(rows), IsOf(b, s) PROVE \E r \in ToSet(rows') : IsOf(b, r)
    BY <1>3, <2>2 DEF IsOf, Settled
  <2> QED  BY <1>5, <2>1, <2>2 DEF BundleSound
<1>9. PromisedOnce'
  <2>1. ASSUME NEW r \in ToSet(rows'), r.status \in PendingStatus
        PROVE  \E s \in PendingRows : s.id = r.id /\ s.removals = r.removals /\ s.disowned = r.disowned
    BY <1>2, <1>6, <2>1 DEF Settled, PendingRows
  <2> SUFFICES ASSUME NEW y \in ToSet(rows'), NEW z \in ToSet(rows'), y.status \in PendingStatus,
                      z.status \in PendingStatus, y.id # z.id, ~y.disowned, ~z.disowned
               PROVE  y.removals \cap z.removals \subseteq OfferCoins
    BY DEF PromisedOnce, PendingRows
  <2>2. PICK s \in PendingRows : s.id = y.id /\ s.removals = y.removals /\ s.disowned = y.disowned  BY <2>1
  <2>3. PICK t \in PendingRows : t.id = z.id /\ t.removals = z.removals /\ t.disowned = z.disowned  BY <2>1
  <2>4. s.removals \cap t.removals \subseteq OfferCoins  BY <2>2, <2>3 DEF TradeInv, PromisedOnce
  <2> QED  BY <2>2, <2>3, <2>4
<1> QED  BY <1>1, <1>4, <1>7, <1>8, <1>9 DEF TradeInv

\* The order in which the coins of the block are gone through does not matter.
LEMMA FarmedSound ==
    ASSUME TradeInv, NEW Rm, NEW Ad, NEW Now, NEW sp, BlockSound(Rm, Ad, Now, sp), IsFiniteSet(Rm), IsFiniteSet(Ad),
           NEW removed \in SetToSeqs(Rm), NEW added \in SetToSeqs(Ad)
    PROVE  LET T == Farmed(removed, added)
           IN  TableSettled(T, Now, sp) /\ \A r \in ToSet(T) : Out(r.id) \in Ad => r.status = "CONFIRMED"
<1> DEFINE coins == removed \o added
<1>1. removed \in Seq(Rm) /\ \A c : c \in ToSet(removed) <=> c \in Rm  BY OrderHolds
<1>2. added \in Seq(Ad) /\ \A c : c \in ToSet(added) <=> c \in Ad  BY OrderHolds
<1>3. ToSet(removed) = Rm /\ ToSet(added) = Ad  BY <1>1, <1>2
<1>4. removed \in Seq(Rm \cup Ad) /\ added \in Seq(Rm \cup Ad)  BY <1>1, <1>2
<1>5. coins \in Seq(Rm \cup Ad) /\ Len(coins) = Len(removed) + Len(added)  BY <1>4
<1>6. Len(coins) \in Nat /\ \A i \in 1 .. Len(coins) : coins[i] \in Rm \cup Ad  BY <1>5
<1>7. PICK f : /\ FarmLoop(coins, Rm, Ad, Len(coins), f)
               /\ Farmed(removed, added) = f[Len(coins)].table
  BY <1>3, <1>6, FarmedIsLoop
<1>8. ASSUME NEW c \in Ad PROVE \E j \in 1 .. Len(coins) : coins[j] = c
  <2>1. PICK k \in 1 .. Len(added) : added[k] = c
    <3>1. PICK k \in DOMAIN added : added[k] = c  BY <1>3 DEF ToSet
    <3>2. DOMAIN added = 1 .. Len(added)  BY <1>2
    <3> QED  BY <3>1, <3>2
  <2>2. Len(removed) \in Nat /\ Len(added) \in Nat  BY <1>4
  <2>3. PICK j \in 1 .. Len(coins) : j = Len(removed) + k  BY <1>5, <2>2
  <2>4. coins[j] = added[k]  BY <1>4, <2>1, <2>2, <2>3
  <2> QED  BY <2>1, <2>4
<1> HIDE DEF coins
<1>10. PICK n \in Nat : n = Len(coins)  BY <1>6
<1>11. FarmLoop(coins, Rm, Ad, n, f) /\ \A i \in 1 .. n : coins[i] \in Rm \cup Ad  BY <1>6, <1>7, <1>10
<1>9. LoopInv(f[n], Ad, Now, sp, Done(coins, n))  BY <1>11, LoopSound
<1> QED  BY <1>7, <1>8, <1>9, <1>10 DEF LoopInv, Done

\* A block with one or two bundles.
LEMMA StepBlock ==
    ASSUME TradeInv, NEW bundles \in kSubset(1, pool) \cup kSubset(2, pool), TradeBlock(bundles)
    PROVE  TradeInv'
<1> DEFINE Rb == RemovedBy(bundles)
           Ab == AddedBy(bundles)
           Now == TradesOf(bundles)
<1>1. bundles \subseteq pool  BY DEF kSubset
<1>2. /\ \A b \in bundles : b.removals \cap spent = {}
      /\ spent' = spent \cup Rb /\ minted' = minted \cup Ab /\ pool' \subseteq pool
      /\ executed' = executed \cup {id \in 1 .. TradeBound : Out(id) \in Ab}
  BY DEF TradeBlock, RemovedBy, AddedBy
<1>3. PICK removed \in SetToSeqs(Rb \cap OfInterest), added \in SetToSeqs(Ab \cap OfInterest) :
         rows' = Farmed(removed, added)
  BY DEF TradeBlock, RemovedBy, AddedBy
<1>4. NowSound(Rb, Ab, Now) /\ Rb \subseteq CoinsSeen  BY <1>1, <1>2, BundlesNow
<1> HIDE DEF Rb, Ab, Now
<1>5. BlockSound(Rb \cap OfInterest, Ab \cap OfInterest, Now, spent')  BY <1>2, <1>4, BlockIsSound
<1>6. IsFiniteSet(Rb \cap OfInterest) /\ IsFiniteSet(Ab \cap OfInterest)
  <2>1. OfInterest \subseteq TradeCoins
    <3>1. \A r \in PendingRows : r \in TradeRows  BY TableHolds DEF PendingRows, TradeInv
    <3> QED  BY <3>1 DEF OfInterest, TradeRows
  <2>2. Rb \cap OfInterest \in SUBSET TradeCoins /\ Ab \cap OfInterest \in SUBSET TradeCoins  BY <2>1
  <2> QED  BY <2>2, FiniteCoins, FS_Subset
<1>7. TableSettled(rows', Now, spent') /\ \A r \in ToSet(rows') : Out(r.id) \in Ab \cap OfInterest => r.status = "CONFIRMED"
  BY <1>3, <1>5, <1>6, FarmedSound
<1>8. {id \in 1 .. TradeBound : Out(id) \in Ab} = Now
  <2>1. Ab = {Out(k) : k \in Now}  BY <1>4 DEF NowSound
  <2>2. Now \subseteq 1 .. TradeBound
    <3>1. TableSound(rows) /\ Len(rows) \in Nat /\ Len(rows) <= TradeBound /\ TradeBound \in Nat
      BY TableHolds, TradeAssumption DEF TradeInv
    <3>2. \A k \in Now : k \in 1 .. Len(rows)  BY <1>4, <3>1, TableHolds DEF NowSound
    <3> QED  BY <3>1, <3>2
  <2> QED  BY <2>1, <2>2, OutApart
<1> QED  BY <1>2, <1>4, <1>7, <1>8, BlockSettles

\* The history variable stays TRUE, and is when the wallet answers an offer of its own.
LEMMA OwnStays == ASSUME answeredOwn, [TradeNext]_tradeVars PROVE answeredOwn'
  BY DEF tradeVars, TradeNext, CreateOffer, RespondToOffer, CancelPendingOffer, CancelPendingOfferSafely, TakeOffer,
         SpendElsewhere, TradeBlock

\* An offer of the wallet's own that it accepts.
LEMMA StepRespondOwn ==
    ASSUME TradeInv, NEW coins, NEW r \in ToSet(rows), RespondToOffer(OwnOffer(r), coins)
    PROVE  answeredOwn'
<1>1. r.id # NoTrade
  <2>1. r.id \in 1 .. Len(rows) /\ Len(rows) \in Nat  BY TableHolds DEF TradeInv
  <2> QED  BY <2>1 DEF NoTrade
<1>2. OwnOffer(r).trade = r.id  BY DEF OwnOffer, Bundle
<1> QED  BY <1>1, <1>2 DEF RespondToOffer

\* ConfirmedMeansExecuted and PromisedOnce hold for every number of coins and trades, as
\* long as the wallet has not answered a pending offer of its own: a trade is CONFIRMED
\* exactly if its bundle is on the chain, in whatever order coins_of_interest_farmed goes
\* through the coins of a block, and get_locked_coins keeps the coins of open trades apart.
THEOREM Trades == TradeSpec => []TradesSound
<1>1. TradeInit => TradeInv
  <2> SUFFICES ASSUME TradeInit PROVE TradeInv  OBVIOUS
  <2>1. rows = <<>> /\ pool = {} /\ minted = {} /\ spent = {} /\ executed = {}  BY DEF TradeInit
  <2>2. Len(rows) = 0 /\ rows \in Seq(TradeRows) /\ 1 .. 0 = {}  BY <2>1
  <2>3. ToSet(rows) = {}  BY <2>1 DEF ToSet
  <2>4. TableSound(rows) /\ Len(rows) <= TradeBound /\ MintedInv
    <3>1. TableSound(rows)  BY <2>2 DEF TableSound
    <3>2. Len(rows) <= TradeBound  BY <2>2, TradeAssumption
    <3>3. MintedInv  BY <2>1 DEF MintedInv
    <3> QED  BY <3>1, <3>2, <3>3
  <2> QED  BY <2>1, <2>3, <2>4 DEF TradeInv, PromisedOnce, PendingRows
<1>2. (answeredOwn \/ TradeInv) /\ [TradeNext]_tradeVars => (answeredOwn \/ TradeInv)'
  <2> SUFFICES ASSUME TradeInv, [TradeNext]_tradeVars PROVE answeredOwn' \/ TradeInv'  BY OwnStays
  <2>1. CASE UNCHANGED tradeVars
    <3>1. UNCHANGED <<rows, pool, minted, spent, executed>>  BY <2>1 DEF tradeVars
    <3> QED  BY <3>1, OnlyPool
  <2>2. CASE TradeNext
    BY <2>2, StepCreateOffer, StepRespond, StepRespondOwn, StepCancel, StepCancelSafely, StepTakeOffer, StepElsewhere, StepBlock
       DEF TradeNext
  <2> QED  BY <2>1, <2>2
<1>3. answeredOwn \/ TradeInv => TradesSound  BY DEF TradeInv, RowSound, TradesSound, ConfirmedMeansExecuted
<1> QED  BY <1>1, <1>2, <1>3, PTL DEF TradeSpec
=============================================================================
