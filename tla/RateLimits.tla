----------------------------- MODULE RateLimits -----------------------------
(***************************************************************************)
(* The two rate limiters of a connection (rate_limits.py): the sender      *)
(* holds messages back at a percentage of the limits and tries again       *)
(* later, a full node that receives more than the limits disconnects the   *)
(* peer for 300 seconds (_send_message and _read_one_message in            *)
(* ws_connection.py).  Each side counts per minute of its own clock, and   *)
(* messages take time, at most MaxDelay, so that what one side counts in   *)
(* one minute the other may count in another.                              *)
(***************************************************************************)
EXTENDS Integers, Sequences, FiniteSets

CONSTANTS
    MsgTypes, TxTypes,     \* message types; those of rate_limits_tx
    Frequency, MaxSize, MaxTotalSize,    \* RLSettings, per type
    NonTxFreq, NonTxMaxTotalSize,
    MsgSizes,
    SendPercent, ReceivePercent,         \* percentage_of_limit: 30 and 100
    Minute, Offset,        \* clock ticks in a minute; between the two clocks
    MaxDelay,
    RateClockBound         \* bound on the clock

ASSUME RateAssumption ==
    /\ TxTypes \subseteq MsgTypes
    /\ Minute \in Nat \ {0} /\ Offset \in Nat /\ MaxDelay \in Nat /\ RateClockBound \in Nat
    /\ SendPercent \in 0 .. 100 /\ ReceivePercent \in 0 .. 100
    /\ {Frequency, MaxSize, MaxTotalSize} \subseteq [MsgTypes -> Nat]
    /\ NonTxFreq \in Nat /\ NonTxMaxTotalSize \in Nat /\ MsgSizes \subseteq Nat

VARIABLES
    rl_clock,
    sender, receiver,      \* the two limiters
    rl_wire,               \* messages sent and not received, in order
    rl_banned              \* the receiver has disconnected the sender

rateVars == <<rl_clock, sender, receiver, rl_wire, rl_banned>>

NewLimiter(minute) ==
    [minute |-> minute, counts |-> [t \in MsgTypes |-> 0], sizes |-> [t \in MsgTypes |-> 0],
     nonTxCount |-> 0, nonTxSize |-> 0]

\* process_msg_and_check: the counters of another minute are reset; those with the
\* message added; whether they are within the limits.
InMinute(l, minute) == IF l.minute = minute THEN l ELSE NewLimiter(minute)

Counted(l, msg) ==
    [l EXCEPT !.counts[msg.type] = @ + 1, !.sizes[msg.type] = @ + msg.size,
              !.nonTxCount = @ + IF msg.type \in TxTypes THEN 0 ELSE 1,
              !.nonTxSize = @ + IF msg.type \in TxTypes THEN 0 ELSE msg.size]

\* Mutant: the sender may use all of the limit.
WithinFull(l, msg, percent) ==
    /\ msg.type \notin TxTypes => l.nonTxCount <= NonTxFreq /\ l.nonTxSize <= NonTxMaxTotalSize
    /\ l.counts[msg.type] <= Frequency[msg.type]
    /\ msg.size <= MaxSize[msg.type]
    /\ l.sizes[msg.type] <= MaxTotalSize[msg.type]
Within(l, msg, percent) ==
    /\ msg.type \notin TxTypes => /\ 100 * l.nonTxCount <= NonTxFreq * percent
                                  /\ 100 * l.nonTxSize <= NonTxMaxTotalSize * percent
    /\ 100 * l.counts[msg.type] <= Frequency[msg.type] * percent
    /\ msg.size <= MaxSize[msg.type]
    /\ 100 * l.sizes[msg.type] <= MaxTotalSize[msg.type] * percent

\* _send_message: what is not within the limits is not counted, and waits.
Send(msg) ==
    LET now == InMinute(sender, rl_clock \div Minute)
        counted == Counted(now, msg)
    IN  /\ ~rl_banned
        /\ IF Within(counted, msg, SendPercent)
           THEN /\ sender' = counted
                /\ rl_wire' = Append(rl_wire, [type |-> msg.type, size |-> msg.size, at |-> rl_clock])
           ELSE sender' = now /\ UNCHANGED rl_wire
        /\ UNCHANGED <<rl_clock, receiver, rl_banned>>

\* _read_one_message of a full node: counted in any case.
ReceiveOne ==
    LET now == InMinute(receiver, (rl_clock + Offset) \div Minute)
        counted == Counted(now, Head(rl_wire))
    IN  /\ rl_wire # <<>> /\ ~rl_banned
        /\ rl_wire' = Tail(rl_wire)
        /\ receiver' = counted
        /\ rl_banned' = ~Within(counted, Head(rl_wire), ReceivePercent)
        /\ UNCHANGED <<rl_clock, sender>>

RateTick ==
    /\ rl_clock < RateClockBound
    /\ \A i \in DOMAIN rl_wire : rl_clock < rl_wire[i].at + MaxDelay
    /\ rl_clock' = rl_clock + 1
    /\ UNCHANGED <<sender, receiver, rl_wire, rl_banned>>

-----------------------------------------------------------------------------
RateInit ==
    /\ rl_clock = 0
    /\ sender = NewLimiter(0) /\ receiver = NewLimiter(Offset \div Minute)
    /\ rl_wire = <<>> /\ rl_banned = FALSE

RateNext ==
    \/ \E t \in MsgTypes, n \in MsgSizes : Send([type |-> t, size |-> n])
    \/ ReceiveOne \/ RateTick

RateSpec == RateInit /\ [][RateNext]_rateVars

\* A peer that keeps to its own limits is never disconnected, although the minutes
\* of the two sides are not aligned and what it sends is delayed and bunched.
HonestPeerKept == ~rl_banned
=============================================================================
