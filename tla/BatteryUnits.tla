---------------------------- MODULE BatteryUnits ----------------------------
(***************************************************************************)
(* battery_units(): which Powerwalls and expansions a site has, and which  *)
(* row of the components payload each one reads, from the configuration,   *)
(* the status and the components.                                          *)
(*                                                                         *)
(* A DIN is a record of part and serial number.  The configuration lists   *)
(* the DINs of its battery blocks, and the expansions of all blocks in one *)
(* sequence, in order.  The status has the DINs it knows and the capacity  *)
(* of the whole system, 0 where it is missing.  A row of the components    *)
(* has the serial numbers of its four parts, a capacity, 0 where missing,  *)
(* and an energy left, -1 where missing, in Wh.  No two expansions of the  *)
(* configuration have a serial number in common.  The order in which units *)
(* are returned is left out.                                               *)
(***************************************************************************)
EXTENDS Integers, Sequences, FiniteSets, Folds

NoSerial == "none"
NoDin == [part |-> "none", serial |-> NoSerial]

Places(seq) == DOMAIN seq
Elements(seq) == {seq[i] : i \in DOMAIN seq}

\* How many members of S come before x.
Rank(x, S) == Cardinality({y \in S : y < x})

\* The last k members of S.
LastOf(k, S) == {x \in S : Cardinality({y \in S : y > x}) < k}

-----------------------------------------------------------------------------
(* Rows.  Slot s of the code is s here: rows are functions on 0 .. n - 1.  *)

\* The first non-empty serial number of the row's parts: hvp, bms, pch, baggr.
component_serial(rows, s) ==
    LET reported == SelectSeq(rows[s].serials, LAMBDA x : x # NoSerial)
    IN  IF s \notin DOMAIN rows \/ reported = << >> THEN NoSerial ELSE Head(reported)

_bms_slots(rows) == {s \in DOMAIN rows : rows[s].full > 0}

Capacity(rows, S) == MapThenFoldSet(LAMBDA x, y : x + y, 0,
                                    LAMBDA s : rows[s].full,
                                    LAMBDA T : CHOOSE s \in T : TRUE, S)

\* Rows that look like a pack that is registered but not installed.
Ghosts(rows) ==
    {s \in _bms_slots(rows) :
        /\ component_serial(rows, s) = NoSerial
        /\ rows[s].remaining >= 0
        /\ \/ rows[s].remaining < 500
           \/ 20 * rows[s].remaining < rows[s].full}

\* A mistake for the runs to find: whatever looks like a ghost is one.
GhostsAlwaysDropped(rows, aggregate) == _bms_slots(rows) \ Ghosts(rows)

Distance(x, y) == IF x < y THEN y - x ELSE x - y

\* They are dropped if the rest has the capacity of the system within 10%.
_ghost_filtered_bms_slots(rows, aggregate) ==
    LET kept == _bms_slots(rows) \ Ghosts(rows) IN
    IF /\ aggregate > 0
       /\ Capacity(rows, kept) > 0
       /\ 10 * Distance(aggregate, Capacity(rows, kept)) < aggregate
    THEN kept ELSE _bms_slots(rows)

-----------------------------------------------------------------------------
(* Powerwalls and expansions.                                              *)

\* The DINs of the status that no block has, once each, in order.
Added(config, status) ==
    {i \in Places(status.dins) :
        /\ status.dins[i] \notin Elements(config.blocks)
        /\ \A j \in Places(status.dins) : j < i => status.dins[j] # status.dins[i]}

\* With nothing known there is one Powerwall.
PowerwallCount(config, status) ==
    LET n == Len(config.blocks) + Cardinality(Added(config, status)) IN
    IF n = 0 THEN 1 ELSE n

\* The DIN of the k-th Powerwall, the leader being the 0th.
PowerwallDin(config, status, k) ==
    IF k < Len(config.blocks) THEN config.blocks[k + 1]
    ELSE IF Added(config, status) = {} THEN NoDin
    ELSE LET i == CHOOSE i \in Added(config, status) :
                    Rank(i, Added(config, status)) = k - Len(config.blocks)
         IN status.dins[i]

\* A mistake for the runs to find: the i-th expansion has the i-th row.
MatchedByPlace(config, rows, slots, p) ==
    {s \in slots : component_serial(rows, s) # NoSerial /\ Rank(s, slots) = p}

\* The rows with the serial number of the configured expansion p.
RowsOf(config, rows, slots, p) ==
    {s \in slots : /\ component_serial(rows, s) # NoSerial
                   /\ component_serial(rows, s) = config.expansions[p].din.serial}

Least(S) == CHOOSE x \in S : \A y \in S : x <= y

Matched(config, rows, slots) ==
    {p \in Places(config.expansions) : RowsOf(config, rows, slots, p) # {}}

\* The row of a matched expansion: the first one.
MatchedSlot(config, rows, slots, p) == Least(RowsOf(config, rows, slots, p))

ExpansionSlots(config, rows, slots) ==
    {MatchedSlot(config, rows, slots, p) : p \in Matched(config, rows, slots)}

\* A mistake for the runs to find: a follower may have an expansion's row.
FollowersAnywhere(k, taken, rows, slots) ==
    IF slots = {} THEN 1 .. k ELSE LastOf(k, slots \ {0})

\* The rows of k followers: of those without serial number if there are enough
\* of them, else of all that are left, the last; then slots that no row has.
_follower_slots(k, taken, rows, slots) ==
    LET candidates == slots \ (taken \cup {0})
        unserialed == {s \in candidates : component_serial(rows, s) = NoSerial}
        chosen == LastOf(k, IF Cardinality(unserialed) >= k THEN unserialed
                                                           ELSE candidates)
        spare == (1 .. k + Cardinality(taken)) \ (chosen \cup taken)
    IN IF slots = {} THEN 1 .. k
       ELSE chosen \cup {s \in spare : Rank(s, spare) < k - Cardinality(chosen)}

\* The member of S that follows r others.
Nth(r, S) == CHOOSE x \in S : Rank(x, S) = r

\* Configured expansions without a row take what nobody claims, in order; where
\* there are no rows at all, slots to come; else they are dropped.
UnmatchedUnits(config, unmatched, unclaimed, slots, n) ==
    {[role |-> "expansion", block |-> config.expansions[p].block,
      din |-> config.expansions[p].din,
      slot |-> IF slots = {} THEN n + Rank(p, unmatched)
                             ELSE Nth(Rank(p, unmatched), unclaimed)]
     : p \in {q \in unmatched : \/ slots = {}
                                \/ Rank(q, unmatched) < Cardinality(unclaimed)}}

\* A mistake for the runs to find: one row too few is left.
LeftoverButOne(unclaimed, k) == {s \in unclaimed : Rank(s, unclaimed) > k}

\* What k unmatched expansions leave of the rows that nobody claims.
Leftover(unclaimed, k) == {s \in unclaimed : Rank(s, unclaimed) >= k}

battery_units(config, status, rows) ==
    LET n == PowerwallCount(config, status)
        slots == _ghost_filtered_bms_slots(rows, status.aggregate)
        matched == Matched(config, rows, slots)
        taken == ExpansionSlots(config, rows, slots)
        followers == _follower_slots(n - 1, taken, rows, slots)
        unclaimed == slots \ ({0} \cup followers \cup taken)
        unmatched == Places(config.expansions) \ matched
        Powerwall(role, k, s) == [role |-> role, block |-> k, slot |-> s,
                                  din |-> PowerwallDin(config, status, k)]
    IN {Powerwall("leader", 0, 0)}
       \cup {Powerwall("follower", Rank(s, followers) + 1, s) : s \in followers}
       \cup {[role |-> "expansion", block |-> config.expansions[p].block,
              din |-> config.expansions[p].din,
              slot |-> MatchedSlot(config, rows, slots, p)] : p \in matched}
       \cup UnmatchedUnits(config, unmatched, unclaimed, slots, n)
       \cup {[role |-> "expansion", block |-> 0, din |-> NoDin, slot |-> s]
             : s \in Leftover(unclaimed, Cardinality(unmatched))}
=============================================================================
