--------------------------- MODULE AddressManager ---------------------------
(***************************************************************************)
(* The tables of known peers (address_manager.py) and their copy in the    *)
(* database (address_manager_store.py).  An entry has an identifier; it is *)
(* referenced from slots of the new table, whose number is its ref_count,  *)
(* or is in the one slot of the tried table that its address hashes to.    *)
(* All operations run under the manager's lock, so each is one step.       *)
(*                                                                         *)
(* Slots stand for a bucket and a position in it.  What depends on the     *)
(* clock or on chance (is_terrible, the stochastic test, how long ago a    *)
(* peer was tried) is a choice.                                            *)
(***************************************************************************)
EXTENDS Integers, Sequences, FiniteSets, SequencesExt

CONSTANTS
    Hosts, Ports, Sources,
    NewSlots, TriedSlots,
    NewSlotOf,             \* NewSlotOf[h][s]: get_new_bucket and get_bucket_position
    TriedSlotOf,           \* TriedSlotOf[h]: get_tried_bucket and get_bucket_position
    NewBucketsPerAddress,  \* NEW_BUCKETS_PER_ADDRESS
    TriedCollisionSize,    \* TRIED_COLLISION_SIZE
    IdBound                \* bound on id_count

ASSUME AddressAssumption ==
    /\ NewSlotOf \in [Hosts -> [Sources -> NewSlots]] /\ TriedSlotOf \in [Hosts -> TriedSlots]
    /\ IsFiniteSet(NewSlots)
    /\ NewBucketsPerAddress \in Nat \ {0} /\ TriedCollisionSize \in Nat /\ IdBound \in Nat

VARIABLES
    am,                    \* the tables
    lost                   \* entries that newCount counts and a half written save lost (history)

amVars == <<am, lost>>

Free == -1
EmptyTables(n) ==
    [info |-> [i \in {} |-> 0], addr |-> [h \in {} |-> 0], random |-> <<>>,
     newTable |-> [s \in NewSlots |-> Free], tried |-> [s \in TriedSlots |-> Free],
     newCount |-> n, triedCount |-> 0, idCount |-> 0, collisions |-> {}]
NoTables == EmptyTables(0)

Entries(t) == DOMAIN t.info
Known(t, h) == h \in DOMAIN t.addr
Except(f, x) == [y \in DOMAIN f \ {x} |-> f[y]]
Adding(f, x, v) == [y \in DOMAIN f \cup {x} |-> IF y = x THEN v ELSE f[y]]
RefsOf(t, i) == {s \in NewSlots : t.newTable[s] = i}

-----------------------------------------------------------------------------
\* create_
Create(t, h, port, src) ==
    LET i == t.idCount + 1
    IN  [t EXCEPT !.idCount = i, !.addr = Adding(@, h, i), !.random = Append(@, i),
                  !.info = Adding(@, i, [host |-> h, port |-> port, src |-> src, tried |-> FALSE,
                                         refs |-> 0, pos |-> Len(t.random) + 1]),
                  !.newCount = @ + 1]

\* swap_random_
Swap(t, p, q) ==
    LET i == t.random[p]
        j == t.random[q]
    IN  [t EXCEPT !.random = [@ EXCEPT ![p] = j, ![q] = i],
                  !.info = [k \in DOMAIN @ |-> [@[k] EXCEPT !.pos = IF k = j THEN p ELSE IF k = i THEN q
                                                                    ELSE t.info[k].pos]]]

\* delete_new_entry_
DeleteNewEntry(t, i) ==
    LET swapped == Swap(t, t.info[i].pos, Len(t.random))
    IN  [swapped EXCEPT !.random = Front(@), !.addr = Except(@, t.info[i].host),
                        !.info = Except(@, i), !.newCount = @ - 1]

\* clear_new_
ClearNew(t, s) ==
    LET i == t.newTable[s]
        cleared == [t EXCEPT !.newTable[s] = Free, !.info[i].refs = @ - 1]
    IN  IF i = Free THEN t
        ELSE IF cleared.info[i].refs = 0 THEN DeleteNewEntry(cleared, i) ELSE cleared

\* make_tried_: out of the new table, and into a slot whose owner goes back there.
\* Mutant: the new table's entry at the place the owner goes back to is overwritten.
BackToNewOverwriting(t, i) ==
    LET s == NewSlotOf[t.info[i].host][t.info[i].src]
    IN  [t EXCEPT !.info[i].tried = FALSE, !.triedCount = @ - 1,
                  !.tried[TriedSlotOf[t.info[i].host]] = Free,
                  !.info[i].refs = 1, !.newTable[s] = i, !.newCount = @ + 1]
BackToNew(t, i) ==
    LET s == NewSlotOf[t.info[i].host][t.info[i].src]
        out == [t EXCEPT !.info[i].tried = FALSE, !.triedCount = @ - 1,
                         !.tried[TriedSlotOf[t.info[i].host]] = Free]
    IN  [ClearNew(out, s) EXCEPT !.info[i].refs = 1, !.newTable[s] = i, !.newCount = @ + 1]

MakeTried(t, i) ==
    LET slot == TriedSlotOf[t.info[i].host]
        out == [t EXCEPT !.newTable = [s \in NewSlots |-> IF @[s] = i THEN Free ELSE @[s]],
                         !.info[i].refs = @ - Cardinality(RefsOf(t, i)),
                         !.newCount = @ - 1]
        room == IF t.tried[slot] = Free THEN out ELSE BackToNew(out, t.tried[slot])
    IN  [room EXCEPT !.tried[slot] = i, !.triedCount = @ + 1, !.info[i].tried = TRUE]

\* mark_good_, for an entry with the same port that is not tried yet and is found
\* in the new table.
MarkGoodEntry(t, i, testBeforeEvict) ==
    IF t.info[i].tried \/ RefsOf(t, i) = {} THEN t
    ELSE IF testBeforeEvict /\ t.tried[TriedSlotOf[t.info[i].host]] # Free
    THEN IF Cardinality(t.collisions) < TriedCollisionSize
         THEN [t EXCEPT !.collisions = @ \cup {i}] ELSE t
    ELSE MakeTried(t, i)

Same(t, h, port) == Known(t, h) /\ t.info[t.addr[h]].port = port

\* add_to_new_table_: the rest of it, once the entry exists.
PlaceInNew(t, i, src, terrible) ==
    LET s == NewSlotOf[t.info[i].host][src]
        other == t.newTable[s]
        add == \/ other = Free
               \/ terrible
               \/ t.info[other].refs > 1 /\ t.info[i].refs = 0
    IN  IF other = i THEN t
        ELSE IF add THEN [ClearNew(t, s) EXCEPT !.info[i].refs = @ + 1, !.newTable[s] = i]
        ELSE IF t.info[i].refs = 0 THEN DeleteNewEntry(t, i) ELSE t

-----------------------------------------------------------------------------
\* add_to_new_table; newer: the entry's timestamp is older than the one received
\* with its penalty, which the same address and port do not have.
AddToNewTable(h, port, src, newer, terrible) ==
    /\ IF Known(am, h)
       THEN LET i == am.addr[h]
            IN  /\ newer /\ ~Same(am, h, port)
                /\ ~am.info[i].tried /\ am.info[i].refs < NewBucketsPerAddress
                /\ am' = PlaceInNew(am, i, src, terrible)
       ELSE /\ am.idCount < IdBound
            /\ am' = PlaceInNew(Create(am, h, port, src), am.idCount + 1, src, terrible)
    /\ UNCHANGED lost

MarkGood(h, port) ==
    /\ Same(am, h, port)
    /\ am' = MarkGoodEntry(am, am.addr[h], TRUE)
    /\ UNCHANGED lost

\* resolve_tried_collisions_, one of them: kept, given up, or moved.
ResolveCollision(i, evict) ==
    /\ i \in am.collisions
    /\ am' = LET t == IF i \in Entries(am) /\ (evict \/ am.tried[TriedSlotOf[am.info[i].host]] = Free)
                      THEN MarkGoodEntry(am, i, FALSE) ELSE am
             IN  [t EXCEPT !.collisions = @ \ {i}]
    /\ UNCHANGED lost

\* select_tried_collision_ forgets a collision whose entry is gone.
SelectTriedCollision(i) ==
    /\ i \in am.collisions \ Entries(am)
    /\ am' = [am EXCEPT !.collisions = @ \ {i}]
    /\ UNCHANGED lost

\* get_peers_ shuffles as it chooses.
GetPeers(p, q) ==
    /\ p < q /\ am' = Swap(am, p, q)
    /\ UNCHANGED lost

\* cleanup of one slot.
Cleanup(s) ==
    /\ am.newTable[s] # Free
    /\ am' = ClearNew(am, s)
    /\ UNCHANGED lost

-----------------------------------------------------------------------------
\* serialize: what it writes, the entries of the new table first, renumbered, then the
\* tried ones, and the slots of the new table.
Serialized ==
    [new |-> SetToSeq({am.info[i] : i \in {j \in Entries(am) : am.info[j].refs > 0}}),
     tried |-> SetToSeq({am.info[i] : i \in {j \in Entries(am) : am.info[j].tried}}),
     slots |-> [s \in {r \in NewSlots : am.newTable[r] # Free} |-> am.info[am.newTable[s]].host]]

\* deserialize: the tried entries that still find a slot.
Fitting(saved) ==
    SetToSeq({saved[k] : k \in {j \in DOMAIN saved :
                 \A l \in DOMAIN saved :
                     l < j => TriedSlotOf[saved[l].host] # TriedSlotOf[saved[j].host]}})

\* deserialize: the tables of the entries in all, the first n of which are in slots
\* of the new table.  No entry was saved with more than NewBucketsPerAddress slots,
\* so that the test for that keeps none out.
TablesOf(all, n, slots) ==
    LET isTried(k) == k > n
    IN  [info |-> [i \in 0 .. Len(all) - 1 |->
                      [all[i + 1] EXCEPT !.pos = i + 1, !.tried = isTried(i + 1),
                          !.refs = Cardinality({s \in DOMAIN slots :
                                                  ~isTried(i + 1) /\ slots[s] = all[i + 1].host})]],
         addr |-> [h \in {all[k].host : k \in 1 .. Len(all)} |->
                      (CHOOSE k \in 1 .. Len(all) : all[k].host = h) - 1],
         random |-> [k \in 1 .. Len(all) |-> k - 1],
         newTable |-> [s \in NewSlots |->
                          IF s \in DOMAIN slots /\ \E k \in 1 .. n : all[k].host = slots[s]
                          THEN (CHOOSE k \in 1 .. n : all[k].host = slots[s]) - 1 ELSE Free],
         tried |-> [s \in TriedSlots |->
                       IF \E k \in n + 1 .. Len(all) : TriedSlotOf[all[k].host] = s
                       THEN (CHOOSE k \in n + 1 .. Len(all) : TriedSlotOf[all[k].host] = s) - 1
                       ELSE Free],
         newCount |-> n, triedCount |-> Len(all) - n, idCount |-> Len(all), collisions |-> {}]

Loaded(am_db) == TablesOf(am_db.new \o Fitting(am_db.tried), Len(am_db.new), am_db.slots)

\* deserialize without any slots: the n entries of the new table have no reference, and
\* delete_new_entry_ takes out one after the other, swapping it with the last of random.
WithoutSlots(all, n) ==
    LET m == Len(all)
    IN  [info |-> [i \in n .. n + m - 1 |->
                      [all[i - n + 1] EXCEPT !.pos = IF i < m THEN i + 1 ELSE n + m - i,
                                             !.tried = TRUE, !.refs = 0]],
         addr |-> [h \in {all[k].host : k \in 1 .. m} |->
                      (CHOOSE k \in 1 .. m : all[k].host = h) + n - 1],
         random |-> [p \in 1 .. m |-> IF p <= n THEN n + m - p ELSE p - 1],
         newTable |-> [s \in NewSlots |-> Free],
         tried |-> [s \in TriedSlots |->
                       IF \E k \in 1 .. m : TriedSlotOf[all[k].host] = s
                       THEN (CHOOSE k \in 1 .. m : TriedSlotOf[all[k].host] = s) + n - 1
                       ELSE Free],
         newCount |-> 0, triedCount |-> m, idCount |-> n + m, collisions |-> {}]

\* A restart, from a save that got as far as its first, second, third or last commit:
\* after clear the store is_empty, after set_metadata it has the counts of the entries and
\* none of them, after set_nodes it has no slots.  What is loaded was saved earlier, in a
\* state that is reached without the restart, so that saving and loading can be one step.
AmRestart ==
    \/ am' = NoTables /\ lost' = 0
    \/ /\ am' = EmptyTables(Len(Serialized.new))
       /\ lost' = Len(Serialized.new)
    \/ /\ am' = WithoutSlots(Fitting(Serialized.tried), Len(Serialized.new))
       /\ lost' = 0
    \/ am' = Loaded(Serialized) /\ lost' = 0

AmInit == am = NoTables /\ lost = 0
AmNext ==
    \/ \E h \in Hosts, port \in Ports, src \in Sources, newer \in BOOLEAN, terrible \in BOOLEAN :
          AddToNewTable(h, port, src, newer, terrible)
    \/ \E h \in Hosts, port \in Ports : MarkGood(h, port)
    \/ \E i \in am.collisions, evict \in BOOLEAN : ResolveCollision(i, evict)
    \/ \E i \in am.collisions : SelectTriedCollision(i)
    \/ \E p, q \in DOMAIN am.random : GetPeers(p, q)
    \/ \E s \in NewSlots : Cleanup(s)
    \/ AmRestart

AmSpec == AmInit /\ [][AmNext]_amVars

\* The two tables, the counts, the index by host and the shuffled list always
\* describe the same entries, on which the assertions in the code and the choice
\* of a peer at random rely: an entry has as many references as slots name it and
\* at least one, but not more than allowed, unless it is tried, and then it is in
\* its one slot and has none.  The count of new entries is too large by exactly those
\* that the last restart lost, because the save it read had stopped between its
\* second and its third commit.
TablesAgree ==
    /\ \A i \in Entries(am) :
          /\ am.addr[am.info[i].host] = i
          /\ am.random[am.info[i].pos] = i
          /\ am.info[i].refs = Cardinality(RefsOf(am, i)) /\ am.info[i].refs <= NewBucketsPerAddress
          /\ am.info[i].tried <=> am.info[i].refs = 0
          /\ am.info[i].tried <=> am.tried[TriedSlotOf[am.info[i].host]] = i
    /\ Len(am.random) = Cardinality(Entries(am)) /\ DOMAIN am.addr = {am.info[i].host : i \in Entries(am)}
    /\ am.newCount = Cardinality({i \in Entries(am) : ~am.info[i].tried}) + lost
    /\ am.triedCount = Cardinality({i \in Entries(am) : am.info[i].tried})
    /\ \A s \in NewSlots : am.newTable[s] \in Entries(am) \cup {Free}
    /\ \A s \in TriedSlots : am.tried[s] \in Entries(am) \cup {Free}

\* An entry waiting to be moved into the tried table waits for a slot that is
\* taken: select_tried_collision_ looks its owner up without a test.
CollisionsHaveOwners ==
    \A i \in am.collisions \cap Entries(am) : am.tried[TriedSlotOf[am.info[i].host]] # Free

\* The tables, and what waits to get into them, are consistent through every
\* operation and a restart from a save that stopped after any of its commits.
AddressTablesSound == TablesAgree /\ CollisionsHaveOwners
=============================================================================
