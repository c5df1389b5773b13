---------------------------- MODULE PoolFarming ----------------------------
(***************************************************************************)
(* How a farmer keeps up with its pool (update_pool_state in farmer.py)    *)
(* and sends it partials (the second half of new_proof_of_space in         *)
(* farmer_api.py).  Updates run in the periodic task and, after a partial  *)
(* was not good enough, in the partial's own task: two may be under way,   *)
(* and an answer of the pool is applied when it arrives, which is later    *)
(* than the pool gave it.                                                  *)
(*                                                                         *)
(* Difficulties are small numbers.  A time in the state of the pool is     *)
(* reduced to whether it has passed.  The pool is the other end of HTTP    *)
(* requests: it knows the farmer or does not, has a difficulty for it that *)
(* it may change, and may fail.                                            *)
(***************************************************************************)
EXTENDS Integers, FiniteSets

CONSTANTS
    MinDifficulty,         \* minimum_difficulty of GET /pool_info
    MaxDifficulty,
    Updates, Partials,     \* tasks: the periodic one and those of partials
    PoolFaults             \* bound on failures and changes of mind of the pool

ASSUME PoolAssumption ==
    /\ MinDifficulty \in Nat \ {0} /\ MaxDifficulty \in Nat /\ MinDifficulty <= MaxDifficulty
    /\ Updates \cap Partials = {} /\ PoolFaults \in Nat

VARIABLES
    difficulty,            \* current_difficulty, 0 for None
    token_timeout,         \* whether authentication_token_timeout is set
    info_due, farmer_due,  \* next_pool_info_update and next_farmer_update have passed
    known,                 \* the pool knows the farmer
    pool_difficulty,       \* the pool's difficulty for the farmer
    pool_faults,
    p_pc,                  \* where each task is
    p_answer               \* the pool's answer on its way to the task

poolStateVars == <<difficulty, token_timeout, info_due, farmer_due>>
thePoolVars == <<known, pool_difficulty, pool_faults>>
poolVars == <<poolStateVars, thePoolVars, p_pc, p_answer>>

Difficulties == MinDifficulty .. MaxDifficulty
PoolTasks == Updates \cup Partials
NoAnswer == [kind |-> "none"]
Failed == [kind |-> "failed"]
NotKnown == [kind |-> "not known"]
NotGoodEnough == [kind |-> "not good enough"]
Fine(d) == [kind |-> "ok", difficulty |-> d]

PcOf(t, to) == p_pc' = [p_pc EXCEPT ![t] = to]
Ask(t, to) == PcOf(t, to) /\ p_answer' = [p_answer EXCEPT ![t] = NoAnswer]
Answered(t, at) == p_pc[t] = at /\ p_answer[t] # NoAnswer

-----------------------------------------------------------------------------
\* update_pool_state: where an update goes once the pool's information is, or
\* need not be, asked for.
AskForFarmer(t, due, timeout) == Ask(t, IF due /\ timeout THEN "farmer" ELSE "idle")

StartUpdate(t) ==
    /\ \/ p_pc[t] = "idle" /\ t \in Updates
       \/ p_pc[t] = "update"
    /\ IF info_due THEN Ask(t, "info") ELSE AskForFarmer(t, farmer_due, token_timeout)
    /\ UNCHANGED <<poolStateVars, thePoolVars>>

\* _pool_get_pool_info returned.
FirstDifficulty(a) == IF a.kind = "ok" /\ difficulty = 0 THEN a.difficulty ELSE difficulty

PoolInfo(t) ==
    LET a == p_answer[t]
        timeout == token_timeout \/ a.kind = "ok"
    IN  /\ Answered(t, "info")
        /\ difficulty' = FirstDifficulty(a)
        /\ token_timeout' = timeout
        /\ info_due' = (info_due /\ a.kind # "ok")
        /\ AskForFarmer(t, farmer_due, timeout)
        /\ UNCHANGED <<farmer_due, thePoolVars>>

\* update_pool_farmer_info: GET /farmer, and POST /farmer if it is not known.
\* Mutant: an error is taken for a failure to ask again after.
AfterGetGivesUp(at, a) == "idle"
AfterGet(at, a) == IF at = "farmer" /\ a.kind = "not known" THEN "post" ELSE "idle"

FarmerInfo(t) ==
    LET a == p_answer[t]
    IN  /\ Answered(t, "farmer") \/ Answered(t, "again")
        /\ difficulty' = IF a.kind = "ok" THEN a.difficulty ELSE difficulty
        /\ farmer_due' = (farmer_due /\ a.kind # "ok")
        /\ Ask(t, AfterGet(p_pc[t], a))
        /\ UNCHANGED <<token_timeout, info_due, thePoolVars>>

FarmerPosted(t) ==
    /\ Answered(t, "post")
    /\ Ask(t, IF p_answer[t].kind = "ok" THEN "again" ELSE "idle")
    /\ UNCHANGED <<poolStateVars, thePoolVars>>

-----------------------------------------------------------------------------
\* new_proof_of_space, for a pooled plot: a proof good enough for the current
\* difficulty is signed by the harvester and then sent.
NewPartial(t) ==
    /\ p_pc[t] = "idle" /\ t \in Partials
    /\ difficulty # 0 /\ token_timeout
    /\ Ask(t, "partial")
    /\ UNCHANGED <<poolStateVars, thePoolVars>>

PartialAnswered(t) ==
    LET a == p_answer[t]
    IN  /\ Answered(t, "partial")
        /\ difficulty' = IF a.kind = "ok" THEN a.difficulty ELSE difficulty
        /\ farmer_due' = (farmer_due \/ a.kind = "not good enough")
        /\ Ask(t, IF a.kind = "not good enough" THEN "update" ELSE "idle")
        /\ UNCHANGED <<token_timeout, info_due, thePoolVars>>

\* The pool answers a request with what holds then (external).  Whether a proof
\* found for one difficulty is good enough for another depends on the proof.
Reply(t, a) == p_answer' = [p_answer EXCEPT ![t] = a] /\ UNCHANGED <<poolStateVars, p_pc>>
Waiting(t) == p_pc[t] \notin {"off", "idle", "update"} /\ p_answer[t] = NoAnswer
PossibleAnswers(request) ==
    CASE request \in {"info", "post"} -> {Fine(MinDifficulty)}
      [] request \in {"farmer", "again"} -> {IF known THEN Fine(pool_difficulty) ELSE NotKnown}
      [] request = "partial" -> IF known THEN {NotGoodEnough, Fine(pool_difficulty)} ELSE {NotKnown}
PoolAnswers(t) ==
    /\ Waiting(t)
    /\ \E a \in PossibleAnswers(p_pc[t]) : Reply(t, a)
    /\ known' = (known \/ p_pc[t] = "post")
    /\ UNCHANGED <<pool_difficulty, pool_faults>>
PoolFails(t) ==
    /\ Waiting(t) /\ pool_faults > 0
    /\ pool_faults' = pool_faults - 1
    /\ Reply(t, Failed)
    /\ UNCHANGED <<known, pool_difficulty>>
PoolChanges(d) ==
    /\ pool_faults > 0 /\ d # pool_difficulty
    /\ pool_faults' = pool_faults - 1 /\ pool_difficulty' = d
    /\ UNCHANGED <<poolStateVars, known, p_pc, p_answer>>

\* UPDATE_POOL_INFO_INTERVAL and UPDATE_POOL_FARMER_INFO_INTERVAL pass.
InfoDue ==
    /\ ~info_due /\ info_due' = TRUE
    /\ UNCHANGED <<difficulty, token_timeout, farmer_due, thePoolVars, p_pc, p_answer>>
FarmerDue ==
    /\ ~farmer_due /\ farmer_due' = TRUE
    /\ UNCHANGED <<difficulty, token_timeout, info_due, thePoolVars, p_pc, p_answer>>

-----------------------------------------------------------------------------
PoolInit ==
    /\ difficulty = 0 /\ token_timeout = FALSE /\ info_due = TRUE /\ farmer_due = TRUE
    /\ known = FALSE /\ pool_difficulty = MinDifficulty /\ pool_faults = PoolFaults
    /\ p_pc = [t \in PoolTasks |-> IF t \in Updates THEN "off" ELSE "idle"]
    /\ p_answer = [t \in PoolTasks |-> NoAnswer]

\* _start of the farmer makes the periodic task.
Started == \A t \in Updates : p_pc[t] # "off"
StartFarmer ==
    /\ ~Started
    /\ p_pc' = [t \in PoolTasks |-> "idle"]
    /\ UNCHANGED <<poolStateVars, thePoolVars, p_answer>>

TaskStep(t) ==
    StartUpdate(t) \/ PoolInfo(t) \/ FarmerInfo(t) \/ FarmerPosted(t) \/ PartialAnswered(t)

PoolNext ==
    \/ \E t \in PoolTasks : TaskStep(t) \/ NewPartial(t) \/ PoolAnswers(t) \/ PoolFails(t)
    \/ \E d \in Difficulties : PoolChanges(d)
    \/ StartFarmer \/ InfoDue \/ FarmerDue

\* The task loops as long as the farmer runs, HTTP requests end, and time passes;
\* nothing forces proofs, failures or changes of difficulty to happen.
PoolFairness ==
    /\ \A t \in PoolTasks : WF_poolVars(TaskStep(t)) /\ WF_poolVars(PoolAnswers(t))
    /\ WF_poolVars(FarmerDue)

\* The difficulty a farmer works with is never invented or taken back to the
\* pool's minimum: with a token to identify itself it always has a difficulty, and
\* asking for the pool's information again does not change it.
InfoKeepsDifficulty ==
    [][\A t \in PoolTasks : PoolInfo(t) /\ difficulty # 0 => difficulty' = difficulty]_poolVars

\* Once the pool stops failing and changing its mind, the farmer becomes known to
\* it and, whatever late answers overwrote, works with its difficulty from then
\* on.
PoolAgreement == <>[](Started => known /\ difficulty = pool_difficulty)

\* The farmer's difficulty for a pool is lost to no answer and becomes the pool's.
DifficultySettles == InfoKeepsDifficulty /\ PoolAgreement
=============================================================================
