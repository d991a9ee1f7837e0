------------------------- MODULE BatteryUnitsProofs -------------------------
(***************************************************************************)
(* What battery_units promises for every configuration, status and list of *)
(* rows, however little they have to do with each other.                   *)
(***************************************************************************)
EXTENDS BatteryUnits, FiniteSetTheorems, TLAPS

\* Payloads that can be read: sequences, rows numbered from 0, and expansions
\* with serial numbers of their own.
Readable(config, status, rows) ==
    /\ config.blocks \in Seq(Elements(config.blocks))
    /\ status.dins \in Seq(Elements(status.dins))
    /\ config.expansions \in Seq(Elements(config.expansions))
    /\ \E n \in Nat : DOMAIN rows = 0 .. n - 1
    /\ \A p, q \in Places(config.expansions) :
          config.expansions[p].din.serial = config.expansions[q].din.serial => p = q

-----------------------------------------------------------------------------
(* Ranks.                                                                  *)

\* What comes before x in S does not include x.
LEMMA RankInRange ==
    ASSUME NEW S, IsFiniteSet(S), S \subseteq Int, NEW x \in S
    PROVE  Rank(x, S) \in 0 .. Cardinality(S) - 1
  <1> DEFINE B == {y \in S : y < x}
  <1>1. IsFiniteSet(B) /\ Cardinality(B) <= Cardinality(S)
        /\ (Cardinality(S) = Cardinality(B) => S = B)
    BY FS_Subset
  <1>2. Cardinality(B) \in Nat /\ Cardinality(S) \in Nat
    BY <1>1, FS_CardinalityType
  <1>3. x \notin B
    OBVIOUS
  <1>4. Cardinality(B) # Cardinality(S)
    BY <1>1, <1>3
  <1>5. Rank(x, S) = Cardinality(B)
    BY DEF Rank
  <1> HIDE DEF B
  <1> QED
    BY <1>1, <1>2, <1>4, <1>5

\* The smaller of two members has the smaller rank.
LEMMA RankGrows ==
    ASSUME NEW S, IsFiniteSet(S), S \subseteq Int, NEW x \in S, NEW y \in S, x < y
    PROVE  Rank(x, S) < Rank(y, S)
  <1> DEFINE A == {z \in S : z < x}
             B == {z \in S : z < y}
  <1>1. IsFiniteSet(B)
    BY FS_Subset
  <1>2. A \in SUBSET B /\ x \in B /\ x \notin A
    <2>1. \A z \in S : z < x => z < y
      OBVIOUS
    <2>2. A \in SUBSET B
      BY <2>1
    <2>3. x \in B
      OBVIOUS
    <2>4. x \notin A
      OBVIOUS
    <2> QED
      BY <2>2, <2>3, <2>4
  <1>3. /\ IsFiniteSet(A) /\ Cardinality(A) <= Cardinality(B)
        /\ (Cardinality(B) = Cardinality(A) => B = A)
    BY <1>1, <1>2, FS_Subset
  <1>4. Cardinality(A) \in Nat /\ Cardinality(B) \in Nat
    BY <1>1, <1>3, FS_CardinalityType
  <1>5. Cardinality(A) # Cardinality(B)
    BY <1>2, <1>3
  <1>6. Rank(x, S) = Cardinality(A) /\ Rank(y, S) = Cardinality(B)
    BY DEF Rank
  <1> HIDE DEF A, B
  <1> QED
    BY <1>3, <1>4, <1>5, <1>6

\* No two members have the same rank.
LEMMA RankIsInjective ==
    ASSUME NEW S, IsFiniteSet(S), S \subseteq Int, NEW x \in S, NEW y \in S,
           Rank(x, S) = Rank(y, S)
    PROVE  x = y
  <1>1. Cardinality(S) \in Nat /\ x \in Int /\ y \in Int
    BY FS_CardinalityType
  <1>2. Rank(x, S) \in 0 .. Cardinality(S) - 1
    BY RankInRange
  <1>3. CASE x < y
    <2>1. Rank(x, S) < Rank(y, S)
      BY <1>3, RankGrows
    <2> QED
      BY <1>1, <1>2, <2>1
  <1>4. CASE y < x
    <2>1. Rank(y, S) < Rank(x, S)
      BY <1>4, RankGrows
    <2> QED
      BY <1>1, <1>2, <2>1
  <1> QED
    BY <1>1, <1>3, <1>4

\* Every number below the cardinality is the rank of a member.
LEMMA RankIsSurjective ==
    ASSUME NEW S, IsFiniteSet(S), S \subseteq Int, NEW r \in 0 .. Cardinality(S) - 1
    PROVE  \E x \in S : Rank(x, S) = r
  <1> DEFINE n == Cardinality(S)
             f == [x \in S |-> Rank(x, S)]
  <1>1. n \in Nat
    BY FS_CardinalityType
  <1>2. f \in [S -> 0 .. n - 1]
    BY RankInRange
  <1>3. f \in Injection(S, 0 .. n - 1)
    <2>1. \A x, y \in S : f[x] = f[y] => x = y
      BY RankIsInjective
    <2> HIDE DEF f, n
    <2> QED
      BY <1>2, <2>1 DEF Injection, IsInjective
  <1>4. IsFiniteSet(0 .. n - 1) /\ Cardinality(0 .. n - 1) = n
    BY <1>1, FS_Interval
  <1>5. f \in Surjection(S, 0 .. n - 1)
    <2> HIDE DEF f, n
    <2> QED
      BY <1>3, <1>4, FS_Injection DEF n
  <1>6. \E x \in S : f[x] = r
    BY <1>5 DEF Surjection
  <1> QED
    BY <1>6

\* The member after r others.
LEMMA NthHasRank ==
    ASSUME NEW S, IsFiniteSet(S), S \subseteq Int, NEW r \in 0 .. Cardinality(S) - 1
    PROVE  Nth(r, S) \in S /\ Rank(Nth(r, S), S) = r
  BY RankIsSurjective DEF Nth

LEMMA NthOfRank ==
    ASSUME NEW S, IsFiniteSet(S), S \subseteq Int, NEW x \in S
    PROVE  Nth(Rank(x, S), S) = x
  <1>1. Rank(x, S) \in 0 .. Cardinality(S) - 1
    BY RankInRange
  <1>2. Nth(Rank(x, S), S) \in S /\ Rank(Nth(Rank(x, S), S), S) = Rank(x, S)
    BY <1>1, NthHasRank
  <1> QED
    BY <1>2, RankIsInjective
\* A set that is not empty has a first member, the one of rank 0.
LEMMA LeastIsFirst ==
    ASSUME NEW S, IsFiniteSet(S), S \subseteq Int, S # {}
    PROVE  Least(S) \in S
  <1>1. Cardinality(S) \in Nat \ {0}
    BY FS_CardinalityType, FS_EmptySet
  <1>2. PICK x \in S : Rank(x, S) = 0
    <2>1. 0 \in 0 .. Cardinality(S) - 1
      BY <1>1
    <2> QED
      BY <2>1, RankIsSurjective
  <1>3. ASSUME NEW y \in S
        PROVE  x <= y
    <2>1. CASE y < x
      <3>1. Rank(y, S) < 0
        BY <1>2, <2>1, RankGrows
      <3>2. Rank(y, S) \in 0 .. Cardinality(S) - 1
        BY RankInRange
      <3> QED
        BY <1>1, <3>1, <3>2
    <2> QED
      BY <2>1
  <1> QED
    BY <1>3 DEF Least

-----------------------------------------------------------------------------
(* The rows that battery_units gives away.                                 *)

\* The rows that count are rows.
LEMMA SlotsAreRows ==
    ASSUME NEW rows, NEW aggregate, NEW n \in Nat, DOMAIN rows = 0 .. n - 1
    PROVE  LET slots == _ghost_filtered_bms_slots(rows, aggregate)
           IN  slots \subseteq Nat /\ IsFiniteSet(slots)
  <1>1. IsFiniteSet(0 .. n - 1)
    BY FS_Interval
  <1>2. _ghost_filtered_bms_slots(rows, aggregate) \subseteq 0 .. n - 1
    BY DEF _ghost_filtered_bms_slots, _bms_slots
  <1> QED
    BY <1>1, <1>2, FS_Subset

\* There is at least one Powerwall.
LEMMA PowerwallsAreCounted ==
    ASSUME NEW config, NEW status, NEW rows, Readable(config, status, rows)
    PROVE  PowerwallCount(config, status) \in Nat \ {0}
  <1>1. Len(config.blocks) \in Nat /\ Len(status.dins) \in Nat
        /\ Places(status.dins) = 1 .. Len(status.dins)
    BY DEF Readable, Places
  <1>2. IsFiniteSet(Places(status.dins))
    BY <1>1, FS_Interval
  <1>3. Cardinality(Added(config, status)) \in Nat
    BY <1>2, FS_Subset, FS_CardinalityType DEF Added
  <1> QED
    BY <1>1, <1>3 DEF PowerwallCount

\* A matched expansion has a row of its own, with its serial number.
LEMMA MatchedRows ==
    ASSUME NEW config, NEW status, NEW rows, Readable(config, status, rows),
           NEW slots, slots \subseteq Nat, IsFiniteSet(slots)
    PROVE  /\ \A p \in Matched(config, rows, slots) :
                 MatchedSlot(config, rows, slots, p) \in RowsOf(config, rows, slots, p)
           /\ ExpansionSlots(config, rows, slots) \subseteq slots
           /\ \A p, q \in Matched(config, rows, slots) :
                 MatchedSlot(config, rows, slots, p) = MatchedSlot(config, rows, slots, q)
                 => p = q
  <1>1. ASSUME NEW p \in Matched(config, rows, slots)
        PROVE  MatchedSlot(config, rows, slots, p) \in RowsOf(config, rows, slots, p)
    <2> DEFINE R == RowsOf(config, rows, slots, p)
    <2>1. R # {} /\ R \in SUBSET slots
      BY DEF Matched, RowsOf
    <2>2. IsFiniteSet(R)
      BY <2>1, FS_Subset
    <2>3. R \subseteq Int
      <3> HIDE DEF R
      <3> QED
        BY <2>1
    <2>4. Least(R) \in R
      BY <2>1, <2>2, <2>3, LeastIsFirst
    <2> QED
      BY <2>4 DEF MatchedSlot
  <1>2. \A p \in Matched(config, rows, slots) :
           /\ p \in Places(config.expansions)
           /\ MatchedSlot(config, rows, slots, p) \in slots
           /\ component_serial(rows, MatchedSlot(config, rows, slots, p))
                 = config.expansions[p].din.serial
    BY <1>1 DEF RowsOf, Matched
  <1>3. ExpansionSlots(config, rows, slots) \subseteq slots
    BY <1>2 DEF ExpansionSlots
  <1>4. \A p, q \in Matched(config, rows, slots) :
           MatchedSlot(config, rows, slots, p) = MatchedSlot(config, rows, slots, q)
           => p = q
    BY <1>2 DEF Readable
  <1> QED
    BY <1>1, <1>3, <1>4

\* A follower is given neither the leader's row nor an expansion's; where there
\* are no rows it gets one of the first slots.
LEMMA FollowerRows ==
    ASSUME NEW k \in Nat, NEW taken, NEW rows, NEW slots, slots \subseteq Nat,
           slots = {} => taken = {}
    PROVE  LET followers == _follower_slots(k, taken, rows, slots)
           IN  /\ followers \subseteq Nat \ {0}
               /\ followers \cap taken = {}
               /\ slots = {} => followers = 1 .. k
  <1>1. CASE slots = {}
    BY <1>1 DEF _follower_slots
  <1>2. CASE slots # {}
    <2> DEFINE candidates == slots \ (taken \cup {0})
               unserialed == {s \in candidates : component_serial(rows, s) = NoSerial}
               chosen == LastOf(k, IF Cardinality(unserialed) >= k THEN unserialed
                                                                  ELSE candidates)
               spare == (1 .. k + Cardinality(taken)) \ (chosen \cup taken)
               rest == {s \in spare : Rank(s, spare) < k - Cardinality(chosen)}
    <2>1. _follower_slots(k, taken, rows, slots) = chosen \cup rest
      BY <1>2 DEF _follower_slots
    <2>2. chosen \subseteq candidates
      BY DEF LastOf
    <2>3. rest \subseteq Nat \ {0} /\ rest \cap taken = {}
      <3>1. rest \subseteq 1 .. k + Cardinality(taken) /\ rest \cap taken = {}
        BY DEF LastOf
      <3>2. 1 .. k + Cardinality(taken) \subseteq Nat \ {0}
        OBVIOUS
      <3> QED
        BY <3>1, <3>2
    <2> HIDE DEF chosen, rest
    <2> QED
      BY <1>2, <2>1, <2>2, <2>3
  <1> QED
    BY <1>1, <1>2
\* Unmatched expansions take slots that no row has, where there are no rows,
\* and otherwise each a different unclaimed row, of the first ones.
LEMMA UnmatchedRows ==
    ASSUME NEW config, NEW unmatched, unmatched \subseteq Int, IsFiniteSet(unmatched),
           NEW unclaimed, unclaimed \subseteq Nat, IsFiniteSet(unclaimed),
           NEW slots, NEW n \in Nat
    PROVE  LET units == UnmatchedUnits(config, unmatched, unclaimed, slots, n)
           IN  /\ \A u, v \in units : u.slot = v.slot => u = v
               /\ \A u \in units : slots = {} => u.slot \in Nat /\ u.slot >= n
               /\ \A u \in units : slots # {} =>
                     /\ u.slot \in unclaimed
                     /\ Rank(u.slot, unclaimed) < Cardinality(unmatched)
               /\ \A s \in unclaimed :
                     slots # {} /\ Rank(s, unclaimed) < Cardinality(unmatched)
                     => \E u \in units : u.slot = s
  <1> DEFINE Slot(p) == IF slots = {} THEN n + Rank(p, unmatched)
                        ELSE Nth(Rank(p, unmatched), unclaimed)
             Unit(p) == [role |-> "expansion", block |-> config.expansions[p].block,
                         din |-> config.expansions[p].din, slot |-> Slot(p)]
             Served == {p \in unmatched :
                           slots = {} \/ Rank(p, unmatched) < Cardinality(unclaimed)}
             units == UnmatchedUnits(config, unmatched, unclaimed, slots, n)
  <1>1. units = {Unit(p) : p \in Served}
    BY DEF UnmatchedUnits
  <1>2. \A p : Unit(p).slot = Slot(p)
    OBVIOUS
  <1>3. /\ Cardinality(unmatched) \in Nat /\ Cardinality(unclaimed) \in Nat
        /\ unclaimed \subseteq Int
        /\ \A p \in unmatched : Rank(p, unmatched) \in 0 .. Cardinality(unmatched) - 1
    <2>1. Cardinality(unmatched) \in Nat /\ Cardinality(unclaimed) \in Nat
      BY FS_CardinalityType
    <2>2. unclaimed \subseteq Int
      OBVIOUS
    <2>3. \A p \in unmatched : Rank(p, unmatched) \in 0 .. Cardinality(unmatched) - 1
      BY RankInRange
    <2> QED
      BY <2>1, <2>2, <2>3
  <1>4. ASSUME NEW p \in Served, slots # {}
        PROVE  Slot(p) \in unclaimed /\ Rank(Slot(p), unclaimed) = Rank(p, unmatched)
    <2>1. Rank(p, unmatched) \in 0 .. Cardinality(unclaimed) - 1
      BY <1>3, <1>4
    <2>2. Slot(p) = Nth(Rank(p, unmatched), unclaimed)
      BY <1>4
    <2> QED
      BY <1>3, <2>1, <2>2, NthHasRank
  <1>5. ASSUME NEW p \in Served, NEW q \in Served, Slot(p) = Slot(q)
        PROVE  p = q
    <2>1. Rank(p, unmatched) = Rank(q, unmatched)
      <3>1. CASE slots = {}
        BY <1>3, <1>5, <3>1
      <3>2. CASE slots # {}
        BY <1>4, <1>5, <3>2
      <3> QED
        BY <3>1, <3>2
    <2> QED
      BY <2>1, RankIsInjective
  <1>6. ASSUME NEW p \in Served, slots = {}
        PROVE  Slot(p) \in Nat /\ Slot(p) >= n
    BY <1>3, <1>6
  <1>7. ASSUME NEW s \in unclaimed, slots # {},
               Rank(s, unclaimed) < Cardinality(unmatched)
        PROVE  \E p \in Served : Slot(p) = s
    <2>1. Rank(s, unclaimed) \in 0 .. Cardinality(unclaimed) - 1
      BY <1>3, RankInRange
    <2>2. Rank(s, unclaimed) \in 0 .. Cardinality(unmatched) - 1
      BY <1>3, <1>7, <2>1
    <2>3. PICK p \in unmatched : Rank(p, unmatched) = Rank(s, unclaimed)
      BY <2>2, RankIsSurjective
    <2>4. p \in Served
      BY <1>3, <2>1, <2>3
    <2>5. Slot(p) = s
      BY <1>3, <1>7, <2>3, NthOfRank
    <2> QED
      BY <2>4, <2>5
  <1>8. \A p \in Served : slots # {} => Rank(Slot(p), unclaimed) < Cardinality(unmatched)
    BY <1>3, <1>4
  <1> HIDE DEF Slot, Unit, Served, units
  <1> QED
    BY <1>1, <1>2, <1>4, <1>5, <1>6, <1>7, <1>8 DEF units

-----------------------------------------------------------------------------
(* What every caller of battery_units can rely on.                         *)

\* Who reads which row, of any payloads that can be read.
LEMMA Assignment ==
    ASSUME NEW config, NEW status, NEW rows, Readable(config, status, rows)
    PROVE  LET slots == _ghost_filtered_bms_slots(rows, status.aggregate)
               n == PowerwallCount(config, status)
               taken == ExpansionSlots(config, rows, slots)
               followers == _follower_slots(n - 1, taken, rows, slots)
               unmatched == Places(config.expansions) \ Matched(config, rows, slots)
               unclaimed == slots \ ({0} \cup followers \cup taken)
           IN  /\ slots \subseteq Nat /\ IsFiniteSet(slots)
               /\ n \in Nat \ {0}
               /\ taken \subseteq slots
               /\ followers \subseteq Nat \ {0} /\ followers \cap taken = {}
               /\ slots = {} => followers = 1 .. n - 1
               /\ unmatched \subseteq Int /\ IsFiniteSet(unmatched)
               /\ unclaimed \subseteq Nat /\ IsFiniteSet(unclaimed)
  <1> DEFINE slots == _ghost_filtered_bms_slots(rows, status.aggregate)
             n == PowerwallCount(config, status)
             taken == ExpansionSlots(config, rows, slots)
             followers == _follower_slots(n - 1, taken, rows, slots)
             unmatched == Places(config.expansions) \ Matched(config, rows, slots)
             unclaimed == slots \ ({0} \cup followers \cup taken)
  <1>1. slots \subseteq Nat /\ IsFiniteSet(slots)
    BY SlotsAreRows DEF Readable
  <1>2. n \in Nat \ {0}
    BY PowerwallsAreCounted
  <1>3. taken \subseteq slots
    <2> HIDE DEF slots
    <2> QED
      BY <1>1, MatchedRows
  <1>4. /\ followers \subseteq Nat \ {0} /\ followers \cap taken = {}
        /\ slots = {} => followers = 1 .. n - 1
    <2>1. n - 1 \in Nat
      BY <1>2
    <2>2. slots = {} => taken = {}
      BY <1>3
    <2> HIDE DEF slots, n, taken
    <2> QED
      BY <1>1, <2>1, <2>2, FollowerRows
  <1>5. unmatched \subseteq Int /\ IsFiniteSet(unmatched)
    <2>1. Len(config.expansions) \in Nat
          /\ Places(config.expansions) = 1 .. Len(config.expansions)
      BY DEF Readable, Places
    <2>2. IsFiniteSet(Places(config.expansions))
      BY <2>1, FS_Interval
    <2>3. unmatched \in SUBSET Places(config.expansions)
      OBVIOUS
    <2>4. IsFiniteSet(unmatched)
      BY <2>2, <2>3, FS_Subset
    <2>5. unmatched \subseteq Int
      BY <2>1
    <2> QED
      BY <2>4, <2>5
  <1>6. unclaimed \subseteq Nat /\ IsFiniteSet(unclaimed)
    <2>1. unclaimed \in SUBSET slots
      OBVIOUS
    <2> HIDE DEF slots, unclaimed
    <2> QED
      BY <1>1, <2>1, FS_Subset
  <1> QED
    BY <1>1, <1>2, <1>3, <1>4, <1>5, <1>6

\* The parts of battery_units: what each kind of unit reads, and that the kinds
\* share no row if row 0 is none of the expansions'.
LEMMA UnitsByKind ==
    ASSUME NEW config, NEW status, NEW rows, Readable(config, status, rows)
    PROVE  LET units == battery_units(config, status, rows)
               slots == _ghost_filtered_bms_slots(rows, status.aggregate)
               n == PowerwallCount(config, status)
               taken == ExpansionSlots(config, rows, slots)
               followers == _follower_slots(n - 1, taken, rows, slots)
               matched == Matched(config, rows, slots)
               unmatched == Places(config.expansions) \ matched
               unclaimed == slots \ ({0} \cup followers \cup taken)
               Leader == [role |-> "leader", block |-> 0, slot |-> 0,
                          din |-> PowerwallDin(config, status, 0)]
               Follower(s) ==
                   [role |-> "follower", block |-> Rank(s, followers) + 1, slot |-> s,
                    din |-> PowerwallDin(config, status, Rank(s, followers) + 1)]
               Expansion(p) ==
                   [role |-> "expansion", block |-> config.expansions[p].block,
                    din |-> config.expansions[p].din,
                    slot |-> MatchedSlot(config, rows, slots, p)]
               Extra(s) == [role |-> "expansion", block |-> 0, din |-> NoDin,
                            slot |-> s]
           IN  units = {Leader} \cup {Follower(s) : s \in followers}
                       \cup {Expansion(p) : p \in matched}
                       \cup UnmatchedUnits(config, unmatched, unclaimed, slots, n)
                       \cup {Extra(s) : s \in Leftover(unclaimed, Cardinality(unmatched))}
  BY DEF battery_units

\* However the three payloads disagree, no two units read the same row, if row 0
\* is none of the expansions'.
THEOREM RowsAreGivenOnce ==
    ASSUME NEW config, NEW status, NEW rows, Readable(config, status, rows),
           \A p \in Places(config.expansions) : RowsOf(config, rows, {0}, p) = {},
           NEW u \in battery_units(config, status, rows),
           NEW v \in battery_units(config, status, rows), u.slot = v.slot
    PROVE  u = v
  <1> DEFINE slots == _ghost_filtered_bms_slots(rows, status.aggregate)
             n == PowerwallCount(config, status)
             taken == ExpansionSlots(config, rows, slots)
             followers == _follower_slots(n - 1, taken, rows, slots)
             matched == Matched(config, rows, slots)
             unmatched == Places(config.expansions) \ matched
             unclaimed == slots \ ({0} \cup followers \cup taken)
             Leader == [role |-> "leader", block |-> 0, slot |-> 0,
                        din |-> PowerwallDin(config, status, 0)]
             Follower(s) ==
                 [role |-> "follower", block |-> Rank(s, followers) + 1, slot |-> s,
                  din |-> PowerwallDin(config, status, Rank(s, followers) + 1)]
             Expansion(p) ==
                 [role |-> "expansion", block |-> config.expansions[p].block,
                  din |-> config.expansions[p].din,
                  slot |-> MatchedSlot(config, rows, slots, p)]
             Extra(s) == [role |-> "expansion", block |-> 0, din |-> NoDin, slot |-> s]
             Followers == {Follower(s) : s \in followers}
             Expansions == {Expansion(p) : p \in matched}
             Others == UnmatchedUnits(config, unmatched, unclaimed, slots, n)
             left == Leftover(unclaimed, Cardinality(unmatched))
             Extras == {Extra(s) : s \in left}
  <1>1. battery_units(config, status, rows)
           = {Leader} \cup Followers \cup Expansions \cup Others \cup Extras
    BY UnitsByKind
  <1>2. /\ slots \subseteq Nat /\ IsFiniteSet(slots) /\ n \in Nat \ {0}
        /\ taken \subseteq slots /\ followers \subseteq Nat \ {0}
        /\ followers \cap taken = {}
        /\ slots = {} => followers = 1 .. n - 1
        /\ unmatched \subseteq Int /\ IsFiniteSet(unmatched)
        /\ unclaimed \subseteq Nat /\ IsFiniteSet(unclaimed)
    BY Assignment
  <1>3. 0 \notin taken
    <2>1. \A p \in matched : MatchedSlot(config, rows, slots, p) # 0
      <3> HIDE DEF slots
      <3>1. \A p \in matched :
               /\ p \in Places(config.expansions)
               /\ MatchedSlot(config, rows, slots, p) \in RowsOf(config, rows, slots, p)
        BY <1>2, MatchedRows DEF Matched
      <3> QED
        BY <3>1 DEF RowsOf
    <2> QED
      BY <2>1 DEF ExpansionSlots
  <1>4. Leader.slot = 0 /\ \A x \in {Leader} : x = Leader
    OBVIOUS
  <1>5. /\ \A x \in Followers : x.slot \in followers
        /\ \A x, y \in Followers : x.slot = y.slot => x = y
    OBVIOUS
  <1>6. /\ \A x \in Expansions : x.slot \in taken
        /\ \A x, y \in Expansions : x.slot = y.slot => x = y
    <2>1. \A p, q \in matched :
             MatchedSlot(config, rows, slots, p) = MatchedSlot(config, rows, slots, q)
             => p = q
      <3> HIDE DEF slots
      <3> QED
        BY <1>2, MatchedRows
    <2> HIDE DEF slots
    <2> QED
      BY <2>1 DEF ExpansionSlots
  <1>7. /\ \A x, y \in Others : x.slot = y.slot => x = y
        /\ \A x \in Others : slots = {} => x.slot \in Nat /\ x.slot >= n
        /\ \A x \in Others : slots # {} =>
              /\ x.slot \in unclaimed
              /\ Rank(x.slot, unclaimed) < Cardinality(unmatched)
    <2> HIDE DEF slots, unmatched, unclaimed, n
    <2> QED
      BY <1>2, UnmatchedRows
  <1>8. /\ \A x \in Extras : x.slot \in left
        /\ \A x, y \in Extras : x.slot = y.slot => x = y
    OBVIOUS
  <1>9. /\ left \subseteq unclaimed
        /\ \A s \in left : Rank(s, unclaimed) >= Cardinality(unmatched)
    BY DEF Leftover
  <1>10. /\ Cardinality(unmatched) \in Nat
         /\ \A s \in unclaimed : Rank(s, unclaimed) \in Nat
    <2>1. \A s \in unclaimed : IsFiniteSet({y \in unclaimed : y < s})
      BY <1>2, FS_Subset
    <2> QED
      BY <1>2, <2>1, FS_CardinalityType DEF Rank
  <1>11. \A s \in unclaimed : s \in slots /\ s \notin {0} \cup followers \cup taken
    OBVIOUS
  <1> HIDE DEF slots, n, taken, followers, matched, unmatched, unclaimed, Leader,
               Followers, Expansions, Others, left, Extras
  <1>12. \A x \in Others, y \in Extras : x.slot # y.slot
    <2> SUFFICES ASSUME NEW x \in Others, NEW y \in Extras, x.slot = y.slot
                 PROVE  FALSE
      OBVIOUS
    <2>1. /\ y.slot \in unclaimed /\ slots # {}
          /\ Rank(y.slot, unclaimed) >= Cardinality(unmatched)
      BY <1>8, <1>9, <1>11
    <2>2. Rank(x.slot, unclaimed) < Cardinality(unmatched)
      BY <1>7, <2>1
    <2> QED
      BY <1>10, <2>1, <2>2
  <1>13. \A x \in Others : x.slot \notin {0} \cup followers \cup taken
    <2> SUFFICES ASSUME NEW x \in Others
                 PROVE  x.slot \notin {0} \cup followers \cup taken
      OBVIOUS
    <2>1. CASE slots = {}
      <3>1. taken = {} /\ followers = 1 .. n - 1
        BY <1>2, <2>1
      <3>2. x.slot \in Nat /\ x.slot >= n /\ n > 0 /\ n \in Nat
        BY <1>2, <1>7, <2>1
      <3> QED
        BY <3>1, <3>2
    <2>2. CASE slots # {}
      BY <1>7, <1>11, <2>2
    <2> QED
      BY <2>1, <2>2
  <1>14. \A x \in Extras : x.slot \notin {0} \cup followers \cup taken
    BY <1>8, <1>9, <1>11
  <1>15. 0 \notin followers /\ followers \cap taken = {}
    BY <1>2
  <1>16. /\ u \in {Leader} \cup Followers \cup Expansions \cup Others \cup Extras
         /\ v \in {Leader} \cup Followers \cup Expansions \cup Others \cup Extras
    BY <1>1
  <1>17. CASE u \in {Leader} \/ v \in {Leader}
    BY <1>3, <1>4, <1>5, <1>6, <1>13, <1>14, <1>15, <1>16, <1>17
  <1>18. CASE u \in Followers \/ v \in Followers
    BY <1>4, <1>5, <1>6, <1>13, <1>14, <1>15, <1>16, <1>18
  <1>19. CASE u \in Expansions \/ v \in Expansions
    BY <1>3, <1>4, <1>5, <1>6, <1>13, <1>14, <1>15, <1>16, <1>19
  <1>20. CASE u \in Others \cup Extras /\ v \in Others \cup Extras
    BY <1>7, <1>8, <1>12, <1>20
  <1> QED
    BY <1>16, <1>17, <1>18, <1>19, <1>20

\* However they disagree, a row that alone reports a configured expansion is that
\* one's, unless it is the leader's; and an expansion is shown with another row
\* only if none reports its serial number.
THEOREM RowsHaveTheirDin ==
    ASSUME NEW config, NEW status, NEW rows, Readable(config, status, rows),
           NEW p \in Places(config.expansions),
           config.expansions[p].din.serial # NoSerial,
           NEW u \in battery_units(config, status, rows)
    PROVE  LET d == config.expansions[p].din
               Reporting == {s \in _ghost_filtered_bms_slots(rows, status.aggregate) :
                                component_serial(rows, s) = d.serial}
           IN  /\ u.role # "leader" /\ Reporting = {u.slot} => u.din = d
               /\ u.role = "expansion" /\ u.din = d /\ Reporting # {} =>
                     u.slot \in Reporting
  <1> DEFINE slots == _ghost_filtered_bms_slots(rows, status.aggregate)
             n == PowerwallCount(config, status)
             taken == ExpansionSlots(config, rows, slots)
             followers == _follower_slots(n - 1, taken, rows, slots)
             matched == Matched(config, rows, slots)
             unmatched == Places(config.expansions) \ matched
             unclaimed == slots \ ({0} \cup followers \cup taken)
             d == config.expansions[p].din
             Reporting == {s \in slots : component_serial(rows, s) = d.serial}
             Slot(q) == MatchedSlot(config, rows, slots, q)
  <1>1. \/ u.role = "leader"
        \/ u.role = "follower" /\ u.slot \in followers
        \/ /\ u.role = "expansion"
           /\ \E q \in matched : u.slot = Slot(q) /\ u.din = config.expansions[q].din
        \/ u \in UnmatchedUnits(config, unmatched, unclaimed, slots, n)
        \/ /\ u.role = "expansion" /\ u.din = NoDin
           /\ u.slot \in Leftover(unclaimed, Cardinality(unmatched))
    <2> DEFINE Leader == [role |-> "leader", block |-> 0, slot |-> 0,
                          din |-> PowerwallDin(config, status, 0)]
               Follower(s) ==
                   [role |-> "follower", block |-> Rank(s, followers) + 1, slot |-> s,
                    din |-> PowerwallDin(config, status, Rank(s, followers) + 1)]
               Expansion(q) ==
                   [role |-> "expansion", block |-> config.expansions[q].block,
                    din |-> config.expansions[q].din, slot |-> Slot(q)]
               Extra(s) == [role |-> "expansion", block |-> 0, din |-> NoDin, slot |-> s]
               others == UnmatchedUnits(config, unmatched, unclaimed, slots, n)
               left == Leftover(unclaimed, Cardinality(unmatched))
    <2>1. u \in {Leader} \cup {Follower(s) : s \in followers}
                  \cup {Expansion(q) : q \in matched} \cup others
                  \cup {Extra(s) : s \in left}
      BY UnitsByKind
    <2>2. CASE u = Leader
      BY <2>2
    <2>3. ASSUME NEW s \in followers, u = Follower(s)
          PROVE  u.role = "follower" /\ u.slot \in followers
      BY <2>3
    <2>4. ASSUME NEW q \in matched, u = Expansion(q)
          PROVE  /\ u.role = "expansion" /\ u.slot = Slot(q)
                 /\ u.din = config.expansions[q].din
      BY <2>4
    <2>5. ASSUME NEW s \in left, u = Extra(s)
          PROVE  /\ u.role = "expansion" /\ u.din = NoDin
                 /\ u.slot \in Leftover(unclaimed, Cardinality(unmatched))
      BY <2>5
    <2> HIDE DEF left, matched, followers, unmatched, unclaimed, slots, n,
                 Follower, Expansion, Extra, Slot
    <2> QED
      BY <2>1, <2>2, <2>3, <2>4, <2>5
  <1>2. /\ slots \subseteq Nat /\ IsFiniteSet(slots) /\ n \in Nat \ {0}
        /\ followers \cap taken = {}
        /\ unmatched \subseteq Int /\ IsFiniteSet(unmatched)
    BY Assignment
  <1>3. /\ \A q \in matched : Slot(q) \in RowsOf(config, rows, slots, q)
        /\ \A q, r \in matched : Slot(q) = Slot(r) => q = r
    BY <1>2, MatchedRows
  <1>4. \A q \in Places(config.expansions) : config.expansions[q].din.serial = d.serial => q = p
    BY DEF Readable
  <1>5. RowsOf(config, rows, slots, p) = Reporting
    BY DEF RowsOf
  <1>6. p \in matched <=> Reporting # {}
    BY <1>5 DEF Matched
  <1>7. matched \subseteq Places(config.expansions)
    BY DEF Matched
  <1>8. d # NoDin
    BY DEF NoDin
  <1>9. ASSUME u \in UnmatchedUnits(config, unmatched, unclaimed, slots, n)
        PROVE  /\ u.role = "expansion"
               /\ u.slot \in slots => u.slot \in unclaimed
               /\ \E q \in unmatched : u.din = config.expansions[q].din
    <2>1. PICK q \in unmatched :
             /\ u = [role |-> "expansion", block |-> config.expansions[q].block,
                     din |-> config.expansions[q].din,
                     slot |-> IF slots = {} THEN n + Rank(q, unmatched)
                              ELSE Nth(Rank(q, unmatched), unclaimed)]
             /\ slots = {} \/ Rank(q, unmatched) < Cardinality(unclaimed)
      BY <1>9 DEF UnmatchedUnits
    <2>2. ASSUME slots # {}
          PROVE  Nth(Rank(q, unmatched), unclaimed) \in unclaimed
      <3>1. unclaimed \subseteq Int /\ IsFiniteSet(unclaimed)
        BY <1>2, FS_Subset
      <3>2. Rank(q, unmatched) \in Nat
        BY <1>2, RankInRange
      <3>3. Cardinality(unclaimed) \in Nat
        BY <3>1, FS_CardinalityType
      <3> HIDE DEF unclaimed, unmatched, slots
      <3>4. Rank(q, unmatched) \in 0 .. Cardinality(unclaimed) - 1
        BY <2>1, <2>2, <3>2, <3>3
      <3> QED
        BY <3>1, <3>4, NthHasRank
    <2> HIDE DEF unclaimed, unmatched, slots, n
    <2> QED
      BY <2>1, <2>2
  <1>10. ASSUME u.role # "leader", Reporting = {u.slot}
         PROVE  u.din = d
    <2>1. p \in matched /\ Slot(p) = u.slot /\ u.slot \in taken /\ u.slot \in slots
      <3>1. p \in matched
        BY <1>6, <1>10
      <3>2. Slot(p) = u.slot
        BY <1>3, <1>5, <1>10, <3>1
      <3> QED
        BY <1>10, <3>1, <3>2 DEF ExpansionSlots
    <2>2. u.slot \notin followers /\ u.slot \notin unclaimed
      BY <1>2, <2>1
    <2>3. u.slot \notin Leftover(unclaimed, Cardinality(unmatched))
      BY <2>2 DEF Leftover
    <2>4. PICK q \in matched : u.slot = Slot(q) /\ u.din = config.expansions[q].din
      BY <1>1, <1>9, <1>10, <2>1, <2>2, <2>3
    <2> QED
      BY <1>3, <2>1, <2>4
  <1>11. ASSUME u.role = "expansion", u.din = d, Reporting # {}
         PROVE  u.slot \in Reporting
    <2>1. p \in matched
      BY <1>6, <1>11
    <2>2. \A q \in Places(config.expansions) : config.expansions[q].din = d => q = p
      BY <1>4
    <2>3. PICK q \in matched : u.slot = Slot(q) /\ u.din = config.expansions[q].din
      BY <1>1, <1>8, <1>9, <1>11, <2>1, <2>2
    <2> QED
      BY <1>3, <1>5, <1>7, <1>11, <2>2, <2>3
  <1> QED
    BY <1>10, <1>11

\* However they disagree, every row that counts is read by a unit.
THEOREM RowsAreAllRead ==
    ASSUME NEW config, NEW status, NEW rows, Readable(config, status, rows),
           NEW s \in _ghost_filtered_bms_slots(rows, status.aggregate)
    PROVE  \E u \in battery_units(config, status, rows) : u.slot = s
  <1> DEFINE slots == _ghost_filtered_bms_slots(rows, status.aggregate)
             n == PowerwallCount(config, status)
             taken == ExpansionSlots(config, rows, slots)
             followers == _follower_slots(n - 1, taken, rows, slots)
             matched == Matched(config, rows, slots)
             unmatched == Places(config.expansions) \ matched
             unclaimed == slots \ ({0} \cup followers \cup taken)
             units == battery_units(config, status, rows)
             Others == UnmatchedUnits(config, unmatched, unclaimed, slots, n)
  <1>1. /\ \E u \in units : u.slot = 0
        /\ \A x \in followers : \E u \in units : u.slot = x
        /\ \A p \in matched : \E u \in units :
              u.slot = MatchedSlot(config, rows, slots, p)
        /\ Others \subseteq units
        /\ \A x \in Leftover(unclaimed, Cardinality(unmatched)) :
              \E u \in units : u.slot = x
    <2> DEFINE Leader == [role |-> "leader", block |-> 0, slot |-> 0,
                          din |-> PowerwallDin(config, status, 0)]
               Follower(x) ==
                   [role |-> "follower", block |-> Rank(x, followers) + 1, slot |-> x,
                    din |-> PowerwallDin(config, status, Rank(x, followers) + 1)]
               Expansion(p) ==
                   [role |-> "expansion", block |-> config.expansions[p].block,
                    din |-> config.expansions[p].din,
                    slot |-> MatchedSlot(config, rows, slots, p)]
               Extra(x) == [role |-> "expansion", block |-> 0, din |-> NoDin,
                            slot |-> x]
               left == Leftover(unclaimed, Cardinality(unmatched))
    <2>1. units = {Leader} \cup {Follower(x) : x \in followers}
                  \cup {Expansion(p) : p \in matched} \cup Others
                  \cup {Extra(x) : x \in left}
      BY UnitsByKind
    <2>2. /\ Leader.slot = 0 /\ \A x : Follower(x).slot = x /\ Extra(x).slot = x
          /\ \A p : Expansion(p).slot = MatchedSlot(config, rows, slots, p)
      OBVIOUS
    <2> HIDE DEF slots, n, taken, followers, matched, unmatched, unclaimed, units,
                 Others, left, Leader, Follower, Expansion, Extra
    <2>3. /\ Leader \in units /\ Others \subseteq units
          /\ \A x \in followers : Follower(x) \in units
          /\ \A p \in matched : Expansion(p) \in units
          /\ \A x \in left : Extra(x) \in units
      BY <2>1
    <2> QED
      BY <2>2, <2>3 DEF left
  <1>2. /\ slots \subseteq Nat
        /\ unmatched \subseteq Int /\ IsFiniteSet(unmatched)
        /\ unclaimed \subseteq Nat /\ IsFiniteSet(unclaimed)
        /\ n \in Nat
    BY Assignment
  <1>3. CASE s \in {0} \cup followers \cup taken
    <2>1. CASE s \in taken
      <3>1. PICK p \in matched : s = MatchedSlot(config, rows, slots, p)
        BY <2>1 DEF ExpansionSlots
      <3> QED
        BY <1>1, <3>1
    <2> QED
      BY <1>1, <1>3, <2>1
  <1>4. CASE s \in unclaimed
    <2>1. Cardinality(unmatched) \in Nat /\ Rank(s, unclaimed) \in Int
      <3>1. IsFiniteSet({y \in unclaimed : y < s})
        BY <1>2, FS_Subset
      <3> QED
        BY <1>2, <3>1, FS_CardinalityType DEF Rank
    <2>2. CASE Rank(s, unclaimed) >= Cardinality(unmatched)
      BY <1>1, <1>4, <2>2 DEF Leftover
    <2>3. CASE Rank(s, unclaimed) < Cardinality(unmatched)
      <3>1. slots # {}
        BY <1>4
      <3>2. \E u \in Others : u.slot = s
        <4> HIDE DEF slots, unmatched, unclaimed, n
        <4>1. \A x \in unclaimed :
                 slots # {} /\ Rank(x, unclaimed) < Cardinality(unmatched)
                 => \E u \in Others : u.slot = x
          BY <1>2, UnmatchedRows
        <4> QED
          BY <1>4, <2>3, <3>1, <4>1
      <3> QED
        BY <1>1, <3>2
    <2> QED
      BY <2>1, <2>2, <2>3
  <1> QED
    BY <1>3, <1>4

-----------------------------------------------------------------------------
(* Sums over rows.  What a fold over a set computes needs induction over the *)
(* set: of the subsets for which a statement fails take a smallest one.      *)

\* The function of all subsets of S whose value at S is the capacity of S.
IsTally(f, rows, S) ==
    f = [T \in SUBSET S |->
            IF T = {} THEN 0
            ELSE rows[CHOOSE s \in T : TRUE].full + f[T \ {CHOOSE s \in T : TRUE}]]

\* Of a set of natural numbers that is not empty one is the least.
LEMMA LeastNumber ==
    ASSUME NEW S \in SUBSET Nat, NEW n \in S
    PROVE  \E m \in S : \A k \in S : m <= k
  <1> DEFINE B == {k \in S : k <= n}
  <1>1. IsFiniteSet(0 .. n)
    BY FS_Interval
  <1>2. B \in SUBSET (0 .. n) /\ n \in B
    <2>1. n \in Nat /\ \A k \in S : k \in Nat
      OBVIOUS
    <2>2. \A k \in B : k \in 0 .. n
      BY <2>1
    <2>3. n \in B
      BY <2>1
    <2> HIDE DEF B
    <2> QED
      BY <2>2, <2>3
  <1>3. IsFiniteSet(B) /\ B \subseteq Int /\ B # {}
    <2> HIDE DEF B
    <2>1. IsFiniteSet(B)
      BY <1>1, <1>2, FS_Subset
    <2> QED
      BY <1>2, <2>1
  <1>4. PICK m \in B : \A k \in B : ~ (k < m)
    <2>1. Cardinality(B) \in Nat \ {0}
      BY <1>3, FS_CardinalityType, FS_EmptySet
    <2>2. PICK m \in B : Rank(m, B) = 0
      <3>1. 0 \in 0 .. Cardinality(B) - 1
        BY <2>1
      <3> HIDE DEF B
      <3> QED
        BY <1>3, <3>1, RankIsSurjective
    <2>3. \A k \in B : Rank(k, B) \in 0 .. Cardinality(B) - 1
      <3> HIDE DEF B
      <3> QED
        BY <1>3, RankInRange
    <2>4. \A k \in B : k < m => Rank(k, B) < 0
      <3> HIDE DEF B
      <3> QED
        BY <1>3, <2>2, RankGrows
    <2> HIDE DEF B
    <2> QED
      BY <2>1, <2>3, <2>4
  <1> QED
    BY <1>4

\* A set of subsets of a finite set, if not empty, has a smallest member.
LEMMA SmallestSet ==
    ASSUME NEW S, IsFiniteSet(S), NEW X \in SUBSET SUBSET S, X # {}
    PROVE  \E T \in X : \A U \in X : Cardinality(T) <= Cardinality(U)
  <1> DEFINE N == {Cardinality(T) : T \in X}
  <1>1. \A T \in X : Cardinality(T) \in Nat
    BY FS_Subset, FS_CardinalityType
  <1>2. PICK T \in X : TRUE
    OBVIOUS
  <1>3. N \in SUBSET Nat /\ Cardinality(T) \in N
    BY <1>1, <1>2
  <1>4. PICK m \in N : \A k \in N : m <= k
    <2> HIDE DEF N
    <2> QED
      BY <1>3, LeastNumber
  <1> QED
    BY <1>4

\* One member fewer.
LEMMA Without ==
    ASSUME NEW S, IsFiniteSet(S), NEW T \in SUBSET S, NEW x \in T
    PROVE  /\ T \ {x} \in SUBSET S
           /\ IsFiniteSet(T) /\ IsFiniteSet(T \ {x})
           /\ Cardinality(T) \in Nat /\ Cardinality(T \ {x}) \in Nat
           /\ Cardinality(T \ {x}) = Cardinality(T) - 1
           /\ Cardinality(T \ {x}) < Cardinality(T)
  <1>1. IsFiniteSet(T)
    BY FS_Subset
  <1>2. IsFiniteSet(T \ {x}) /\ Cardinality(T \ {x}) = Cardinality(T) - 1
    BY <1>1, FS_RemoveElement
  <1> QED
    BY <1>1, <1>2, FS_CardinalityType

\* There is such a function: one that is right for the subsets of fewer than n
\* members extends to those of n.
LEMMA TallyExists ==
    ASSUME NEW rows, NEW S, IsFiniteSet(S)
    PROVE  \E f : IsTally(f, rows, S)
  <1> DEFINE Upto(n) == {T \in SUBSET S : Cardinality(T) <= n}
             Any(T) == CHOOSE s \in T : TRUE
             Body(f, T) == IF T = {} THEN 0
                           ELSE rows[Any(T)].full + f[T \ {Any(T)}]
             Exists(n) == \E f : f = [T \in Upto(n) |-> Body(f, T)]
             N == {n \in Nat : ~ Exists(n)}
  <1>1. \A T \in SUBSET S : Cardinality(T) \in Nat /\ IsFiniteSet(T)
    BY FS_Subset, FS_CardinalityType
  <1>2. \A T \in SUBSET S : T # {} =>
           /\ T \ {Any(T)} \in SUBSET S
           /\ Cardinality(T \ {Any(T)}) < Cardinality(T)
    BY Without
  <1>3. Exists(0)
    <2> DEFINE g == [T \in Upto(0) |-> 0]
    <2>1. \A T \in Upto(0) : T = {}
      BY <1>1, FS_EmptySet
    <2>2. g = [T \in Upto(0) |-> Body(g, T)]
      BY <2>1
    <2> QED
      BY <2>2
  <1>4. ASSUME NEW n \in Nat, Exists(n)
        PROVE  Exists(n + 1)
    <2>1. PICK f : f = [T \in Upto(n) |-> Body(f, T)]
      BY <1>4
    <2> DEFINE g == [T \in Upto(n + 1) |-> Body(f, T)]
    <2>2. \A T \in Upto(n) : T \in Upto(n + 1)
      BY <1>1
    <2>3. \A T \in Upto(n) : g[T] = f[T]
      BY <2>1, <2>2
    <2>4. \A T \in Upto(n + 1) : T # {} => T \ {Any(T)} \in Upto(n)
      BY <1>1, <1>2
    <2>5. \A T \in Upto(n + 1) : Body(f, T) = Body(g, T)
      <3> HIDE DEF g, Upto, Any
      <3> QED
        BY <2>3, <2>4
    <2>6. g = [T \in Upto(n + 1) |-> Body(g, T)]
      <3> HIDE DEF Body, Upto
      <3> QED
        BY <2>5
    <2> QED
      BY <2>6
  <1>5. \A n \in Nat : Exists(n)
    <2> SUFFICES ASSUME NEW n \in N
                 PROVE  FALSE
      OBVIOUS
    <2>1. PICK m \in N : \A k \in N : m <= k
      <3>1. N \in SUBSET Nat
        OBVIOUS
      <3> HIDE DEF N
      <3> QED
        BY <3>1, LeastNumber
    <2> HIDE DEF Exists
    <2>2. m # 0 /\ m \in Nat /\ ~ Exists(m)
      BY <1>3
    <2>3. m - 1 \in Nat /\ m - 1 \notin N
      BY <2>1, <2>2
    <2>4. Exists(m - 1)
      BY <2>3
    <2>5. Exists((m - 1) + 1)
      BY <1>4, <2>3, <2>4
    <2> QED
      BY <2>2, <2>5
  <1>6. Upto(Cardinality(S)) = SUBSET S
    BY <1>1, FS_Subset
  <1>7. PICK f : f = [T \in Upto(Cardinality(S)) |-> Body(f, T)]
    BY <1>1, <1>5
  <1>8. f = [T \in SUBSET S |-> Body(f, T)]
    BY <1>6, <1>7
  <1> QED
    BY <1>8 DEF IsTally

\* Two of them agree where both are defined.
LEMMA TalliesAgree ==
    ASSUME NEW rows, NEW S, IsFiniteSet(S), NEW R \in SUBSET S,
           NEW f, IsTally(f, rows, S), NEW g, IsTally(g, rows, R)
    PROVE  f[R] = g[R]
  <1> DEFINE X == {T \in SUBSET R : f[T] # g[T]}
             Any(T) == CHOOSE s \in T : TRUE
  <1> SUFFICES ASSUME X # {}
               PROVE  FALSE
    <2>1. R \in SUBSET R
      OBVIOUS
    <2> QED
      BY <2>1
  <1>1. PICK T \in X : \A U \in X : Cardinality(T) <= Cardinality(U)
    <2>1. X \in SUBSET SUBSET S
      OBVIOUS
    <2> HIDE DEF X
    <2> QED
      BY <2>1, SmallestSet
  <1>2. /\ f[T] = IF T = {} THEN 0 ELSE rows[Any(T)].full + f[T \ {Any(T)}]
        /\ g[T] = IF T = {} THEN 0 ELSE rows[Any(T)].full + g[T \ {Any(T)}]
    <2>1. T \in SUBSET S /\ T \in SUBSET R
      OBVIOUS
    <2> QED
      BY <2>1 DEF IsTally
  <1>3. T # {} /\ T \in SUBSET R /\ T \in SUBSET S
    BY <1>2
  <1>4. /\ T \ {Any(T)} \in SUBSET R
        /\ Cardinality(T \ {Any(T)}) < Cardinality(T)
        /\ Cardinality(T) \in Nat /\ Cardinality(T \ {Any(T)}) \in Nat
    BY <1>3, Without
  <1>5. T \ {Any(T)} \notin X
    BY <1>1, <1>4
  <1> QED
    BY <1>2, <1>3, <1>4, <1>5

\* The capacity of S, one row taken out.
LEMMA CapacityEquation ==
    ASSUME NEW rows, NEW S, IsFiniteSet(S)
    PROVE  /\ Capacity(rows, {}) = 0
           /\ S # {} => LET s == CHOOSE s \in S : TRUE
                        IN  Capacity(rows, S) = rows[s].full + Capacity(rows, S \ {s})
  <1>1. \A T : Capacity(rows, T) = (CHOOSE f : IsTally(f, rows, T))[T]
    BY DEF Capacity, MapThenFoldSet, IsTally
  <1>2. \A T \in SUBSET S : \A f : IsTally(f, rows, S) => f[T] = Capacity(rows, T)
    <2> SUFFICES ASSUME NEW T \in SUBSET S, NEW f, IsTally(f, rows, S)
                 PROVE  f[T] = Capacity(rows, T)
      OBVIOUS
    <2>1. \E g : IsTally(g, rows, T)
      <3>1. IsFiniteSet(T)
        BY FS_Subset
      <3> QED
        BY <3>1, TallyExists
    <2>2. PICK g : IsTally(g, rows, T) /\ Capacity(rows, T) = g[T]
      BY <1>1, <2>1
    <2>3. f[T] = g[T]
      BY <2>2, TalliesAgree
    <2> QED
      BY <2>2, <2>3
  <1>3. PICK f : IsTally(f, rows, S)
    BY TallyExists
  <1>4. Capacity(rows, {}) = 0
    BY <1>2, <1>3 DEF IsTally
  <1>5. ASSUME S # {}
        PROVE  LET s == CHOOSE s \in S : TRUE
               IN  Capacity(rows, S) = rows[s].full + Capacity(rows, S \ {s})
    <2> DEFINE s == CHOOSE s \in S : TRUE
    <2>1. f[S] = rows[s].full + f[S \ {s}]
      BY <1>3, <1>5 DEF IsTally
    <2>2. S \in SUBSET S /\ S \ {s} \in SUBSET S
      OBVIOUS
    <2>3. f[S] = Capacity(rows, S) /\ f[S \ {s}] = Capacity(rows, S \ {s})
      BY <1>2, <1>3, <2>2
    <2> QED
      BY <2>1, <2>3
  <1> QED
    BY <1>4, <1>5

\* Capacities of rows that have natural numbers are natural numbers.
LEMMA CapacityType ==
    ASSUME NEW rows, NEW S, IsFiniteSet(S), \A s \in S : rows[s].full \in Nat
    PROVE  Capacity(rows, S) \in Nat
  <1> DEFINE X == {T \in SUBSET S : Capacity(rows, T) \notin Nat}
             Any(T) == CHOOSE s \in T : TRUE
  <1> SUFFICES ASSUME X # {}
               PROVE  FALSE
    <2>1. S \in SUBSET S
      OBVIOUS
    <2> QED
      BY <2>1
  <1>1. PICK T \in X : \A U \in X : Cardinality(T) <= Cardinality(U)
    <2>1. X \in SUBSET SUBSET S
      OBVIOUS
    <2> HIDE DEF X
    <2> QED
      BY <2>1, SmallestSet
  <1>2. T \in SUBSET S /\ Capacity(rows, T) \notin Nat /\ IsFiniteSet(T)
    BY FS_Subset
  <1>3. T # {}
    <2>1. Capacity(rows, {}) = 0
      BY CapacityEquation
    <2> QED
      BY <1>2, <2>1
  <1>4. Capacity(rows, T) = rows[Any(T)].full + Capacity(rows, T \ {Any(T)})
    BY <1>2, <1>3, CapacityEquation
  <1>5. Any(T) \in T
    BY <1>3
  <1> HIDE DEF Any
  <1>6. /\ T \ {Any(T)} \in SUBSET S
        /\ Cardinality(T \ {Any(T)}) < Cardinality(T)
        /\ Cardinality(T) \in Nat /\ Cardinality(T \ {Any(T)}) \in Nat
    BY <1>2, <1>5, Without
  <1>7. T \ {Any(T)} \notin X
    BY <1>1, <1>6
  <1>8. Capacity(rows, T \ {Any(T)}) \in Nat /\ rows[Any(T)].full \in Nat
    BY <1>2, <1>5, <1>6, <1>7
  <1> QED
    BY <1>2, <1>4, <1>8

\* It does not matter which row is taken out.
LEMMA CapacityWithout ==
    ASSUME NEW rows, NEW S, IsFiniteSet(S), \A s \in S : rows[s].full \in Nat,
           NEW x \in S
    PROVE  Capacity(rows, S) = rows[x].full + Capacity(rows, S \ {x})
  <1> DEFINE Right(T, y) ==
                 Capacity(rows, T) = rows[y].full + Capacity(rows, T \ {y})
             X == {T \in SUBSET S : \E y \in T : ~ Right(T, y)}
  <1> SUFFICES ASSUME X # {}
               PROVE  FALSE
    <2>1. S \in SUBSET S
      OBVIOUS
    <2> QED
      BY <2>1
  <1>1. PICK T \in X : \A U \in X : Cardinality(T) <= Cardinality(U)
    <2>1. X \in SUBSET SUBSET S
      OBVIOUS
    <2> HIDE DEF X
    <2> QED
      BY <2>1, SmallestSet
  <1>2. T \in SUBSET S /\ IsFiniteSet(T)
    BY FS_Subset
  <1>3. PICK y \in T : ~ Right(T, y)
    OBVIOUS
  <1>4. PICK a \in T : Right(T, a)
    <2>1. T # {}
      BY <1>3
    <2>2. LET s == CHOOSE s \in T : TRUE IN s \in T /\ Right(T, s)
      BY <1>2, <2>1, CapacityEquation
    <2> QED
      BY <2>2
  <1>5. a # y
    BY <1>3, <1>4
  <1> DEFINE A == T \ {a}
             B == T \ {y}
             C == (T \ {a}) \ {y}
  <1>6. /\ A \in SUBSET S /\ B \in SUBSET S /\ C \in SUBSET S
        /\ y \in A /\ a \in B
        /\ A \ {y} = C /\ B \ {a} = C
    BY <1>5
  <1>7. /\ Cardinality(A) < Cardinality(T) /\ Cardinality(B) < Cardinality(T)
        /\ Cardinality(T) \in Nat /\ Cardinality(A) \in Nat /\ Cardinality(B) \in Nat
    BY <1>2, Without
  <1>8. A \notin X /\ B \notin X
    <2> HIDE DEF A, B, X
    <2> QED
      BY <1>1, <1>7
  <1> HIDE DEF A, B, C
  <1>9. Right(A, y) /\ Right(B, a)
    BY <1>6, <1>8
  <1>10. /\ Capacity(rows, T) = rows[a].full + Capacity(rows, A)
         /\ Capacity(rows, A) = rows[y].full + Capacity(rows, C)
         /\ Capacity(rows, B) = rows[a].full + Capacity(rows, C)
    BY <1>4, <1>6, <1>9 DEF A
  <1>11. /\ Capacity(rows, C) \in Nat
         /\ rows[a].full \in Nat /\ rows[y].full \in Nat
    <2>1. IsFiniteSet(C) /\ \A s \in C : rows[s].full \in Nat
      BY <1>6, FS_Subset
    <2> QED
      BY <1>2, <2>1, CapacityType
  <1>12. Capacity(rows, T) = rows[y].full + Capacity(rows, B)
    BY <1>10, <1>11
  <1> QED
    BY <1>3, <1>12 DEF B

\* A part of the rows has no more capacity than all of them.
LEMMA CapacityGrows ==
    ASSUME NEW rows, NEW S, IsFiniteSet(S), \A s \in S : rows[s].full \in Nat,
           NEW R \in SUBSET S
    PROVE  Capacity(rows, R) <= Capacity(rows, S)
  <1> DEFINE X == {T \in SUBSET S : R \subseteq T /\ ~ Capacity(rows, R) <= Capacity(rows, T)}
  <1> SUFFICES ASSUME X # {}
               PROVE  FALSE
    <2>1. S \in SUBSET S
      OBVIOUS
    <2> QED
      BY <2>1
  <1>1. PICK T \in X : \A U \in X : Cardinality(T) <= Cardinality(U)
    <2>1. X \in SUBSET SUBSET S
      OBVIOUS
    <2> HIDE DEF X
    <2> QED
      BY <2>1, SmallestSet
  <1>2. /\ T \in SUBSET S /\ R \subseteq T /\ ~ Capacity(rows, R) <= Capacity(rows, T)
        /\ IsFiniteSet(T) /\ IsFiniteSet(R)
    BY FS_Subset
  <1>3. Capacity(rows, R) \in Nat
    BY <1>2, CapacityType
  <1>4. PICK x \in T : x \notin R
    <2>1. R # T
      BY <1>2, <1>3
    <2> QED
      BY <1>2, <2>1
  <1>5. /\ T \ {x} \in SUBSET S /\ R \subseteq T \ {x} /\ IsFiniteSet(T \ {x})
        /\ Cardinality(T \ {x}) < Cardinality(T)
        /\ Cardinality(T) \in Nat /\ Cardinality(T \ {x}) \in Nat
    BY <1>2, <1>4, Without
  <1>6. T \ {x} \notin X
    <2> HIDE DEF X
    <2> QED
      BY <1>1, <1>5
  <1>7. Capacity(rows, R) <= Capacity(rows, T \ {x})
    BY <1>5, <1>6
  <1>8. Capacity(rows, T) = rows[x].full + Capacity(rows, T \ {x})
    BY <1>2, CapacityWithout
  <1>9. Capacity(rows, T \ {x}) \in Nat /\ rows[x].full \in Nat
    BY <1>2, <1>5, CapacityType
  <1> QED
    BY <1>2, <1>3, <1>7, <1>8, <1>9

-----------------------------------------------------------------------------
(* Ghosts.                                                                 *)

\* A tenth of the whole is not within the tolerance.
LEMMA TenthIsTooMuch ==
    ASSUME NEW whole \in Nat, NEW pack \in Nat, NEW rest \in Nat, NEW kept \in Nat,
           whole = pack + rest, kept <= rest, 10 * pack >= whole
    PROVE  ~ 10 * Distance(whole, kept) < whole
  <1>1. CASE whole = kept
    BY <1>1 DEF Distance
  <1>2. CASE whole # kept
    <2>1. Distance(whole, kept) = whole - kept
      BY <1>2 DEF Distance
    <2> QED
      BY <2>1
  <1> QED
    BY <1>1, <1>2

\* If the status has the capacity of these packs, and the other rows look like
\* ghosts, then a pack with a tenth of the capacity that looks like one keeps
\* the ghosts from being dropped.
THEOREM PacksAreKept ==
    ASSUME NEW rows, NEW n \in Nat, DOMAIN rows = 0 .. n - 1,
           \A s \in DOMAIN rows : rows[s].full \in Nat,
           NEW packs \in SUBSET _bms_slots(rows),
           _bms_slots(rows) \ packs \subseteq Ghosts(rows),
           NEW aggregate \in {0, Capacity(rows, packs)},
           \A s \in packs : 10 * rows[s].full >= Capacity(rows, packs)
    PROVE  packs \subseteq _ghost_filtered_bms_slots(rows, aggregate)
  <1> DEFINE kept == _bms_slots(rows) \ Ghosts(rows)
             whole == Capacity(rows, packs)
  <1>1. IsFiniteSet(0 .. n - 1) /\ _bms_slots(rows) \in SUBSET (0 .. n - 1)
    BY FS_Interval DEF _bms_slots
  <1>2. IsFiniteSet(packs) /\ \A s \in packs : rows[s].full \in Nat
    BY <1>1, FS_Subset
  <1>3. whole \in Nat
    BY <1>2, CapacityType
  <1>4. CASE packs \subseteq kept
    BY <1>4 DEF _ghost_filtered_bms_slots
  <1>5. ASSUME NEW s \in packs, s \notin kept, aggregate > 0
        PROVE  ~ 10 * Distance(aggregate, Capacity(rows, kept)) < aggregate
    <2>1. /\ kept \in SUBSET (packs \ {s}) /\ IsFiniteSet(packs \ {s})
          /\ IsFiniteSet(kept)
      <3>1. kept \in SUBSET (packs \ {s})
        BY <1>5
      <3> QED
        BY <1>2, <3>1, FS_Subset
    <2>2. whole = rows[s].full + Capacity(rows, packs \ {s})
      BY <1>2, CapacityWithout
    <2>3. Capacity(rows, kept) <= Capacity(rows, packs \ {s})
      <3> HIDE DEF kept
      <3> QED
        BY <1>2, <2>1, CapacityGrows
    <2>4. Capacity(rows, kept) \in Nat /\ Capacity(rows, packs \ {s}) \in Nat
      <3> HIDE DEF kept
      <3> QED
        BY <1>2, <2>1, CapacityType
    <2>5. aggregate = whole /\ rows[s].full \in Nat /\ 10 * rows[s].full >= whole
      BY <1>2, <1>5
    <2> HIDE DEF kept, whole
    <2> QED
      BY <1>3, <2>2, <2>3, <2>4, <2>5, TenthIsTooMuch
  <1>6. CASE ~ packs \subseteq kept
    <2>1. ~ /\ aggregate > 0
            /\ 10 * Distance(aggregate, Capacity(rows, kept)) < aggregate
      BY <1>5, <1>6
    <2> QED
      BY <2>1 DEF _ghost_filtered_bms_slots
  <1> QED
    BY <1>4, <1>6

-----------------------------------------------------------------------------
(* Followers whose rows are in order.                                      *)

\* As many members as an increasing function has arguments.
LEMMA IncreasingImage ==
    ASSUME NEW m \in Nat, NEW r \in [1 .. m -> Int],
           \A j, k \in 1 .. m : j < k => r[j] < r[k],
           NEW l \in 0 .. m
    PROVE  LET F == {r[k] : k \in 1 .. l}
           IN  F \subseteq Int /\ IsFiniteSet(F) /\ Cardinality(F) = l
  <1> DEFINE F == {r[k] : k \in 1 .. l}
             g == [k \in 1 .. l |-> r[k]]
  <1>1. IsFiniteSet(1 .. l) /\ Cardinality(1 .. l) = l
    BY FS_Interval
  <1>2. 1 .. l \subseteq 1 .. m
    OBVIOUS
  <1>3. g \in [1 .. l -> F]
    OBVIOUS
  <1>4. \A j, k \in 1 .. l : g[j] = g[k] => j = k
    <2> SUFFICES ASSUME NEW j \in 1 .. l, NEW k \in 1 .. l, r[j] = r[k]
                 PROVE  j = k
      OBVIOUS
    <2>1. j \in 1 .. m /\ k \in 1 .. m /\ r[j] \in Int /\ r[k] \in Int
      BY <1>2
    <2>2. j < k => r[j] < r[k]
      BY <2>1
    <2>3. k < j => r[k] < r[j]
      BY <2>1
    <2> QED
      BY <2>1, <2>2, <2>3
  <1>5. \A x \in F : \E k \in 1 .. l : g[k] = x
    OBVIOUS
  <1>6. g \in Bijection(1 .. l, F)
    <2> HIDE DEF g, F
    <2> QED
      BY <1>3, <1>4, <1>5 DEF Bijection, Injection, Surjection, IsInjective
  <1>7. ExistsBijection(1 .. l, F)
    BY <1>6 DEF ExistsBijection
  <1>8. IsFiniteSet(F) /\ Cardinality(F) = l
    <2> HIDE DEF F
    <2> QED
      BY <1>1, <1>7, FS_Bijection
  <1>9. F \subseteq Int
    BY <1>2
  <1> QED
    BY <1>8, <1>9

\* Its k-th value follows k - 1 others.
LEMMA IncreasingRank ==
    ASSUME NEW m \in Nat, NEW r \in [1 .. m -> Int],
           \A j, k \in 1 .. m : j < k => r[j] < r[k],
           NEW k \in 1 .. m
    PROVE  Rank(r[k], {r[j] : j \in 1 .. m}) = k - 1
  <1> DEFINE F == {r[j] : j \in 1 .. m}
  <1>1. {y \in F : y < r[k]} = {r[j] : j \in 1 .. k - 1}
    <2>1. ASSUME NEW j \in 1 .. m, r[j] < r[k]
          PROVE  j \in 1 .. k - 1
      <3>1. r[j] \in Int /\ r[k] \in Int /\ ~ j = k
        BY <2>1
      <3>2. ~ k < j
        BY <2>1, <3>1
      <3> QED
        BY <3>1, <3>2
    <2>2. ASSUME NEW j \in 1 .. k - 1
          PROVE  j \in 1 .. m /\ r[j] < r[k]
      <3>1. j \in 1 .. m /\ j < k
        OBVIOUS
      <3> QED
        BY <3>1
    <2> QED
      BY <2>1, <2>2
  <1>2. k - 1 \in 0 .. m
    OBVIOUS
  <1>3. Cardinality({r[j] : j \in 1 .. k - 1}) = k - 1
    BY <1>2, IncreasingImage
  <1> QED
    BY <1>1, <1>3 DEF Rank

\* k members are the last k of them, and so all followers have one.
LEMMA UnserialedFollowers ==
    ASSUME NEW k \in Nat, NEW taken, NEW rows, NEW slots,
           slots # {},
           NEW F, IsFiniteSet(F), Cardinality(F) = k, F \subseteq Int,
           F = {s \in slots \ (taken \cup {0}) : component_serial(rows, s) = NoSerial},
           IsFiniteSet(taken)
    PROVE  _follower_slots(k, taken, rows, slots) = F
  <1>1. LastOf(k, F) = F
    <2> SUFFICES ASSUME NEW x \in F
                 PROVE  Cardinality({y \in F : y > x}) < k
      BY DEF LastOf
    <2> DEFINE B == {y \in F : y > x}
    <2>1. B \in SUBSET F /\ B # F
      <3>1. ~ x > x
        OBVIOUS
      <3> QED
        BY <3>1
    <2>2. IsFiniteSet(B) /\ Cardinality(B) <= k /\ (Cardinality(B) = k => B = F)
      <3> HIDE DEF B
      <3> QED
        BY <2>1, FS_Subset
    <2>3. Cardinality(B) \in Nat
      BY <2>2, FS_CardinalityType
    <2> HIDE DEF B
    <2> QED
      BY <2>1, <2>2, <2>3 DEF B
  <1> DEFINE spare == (1 .. k + Cardinality(taken)) \ (F \cup taken)
  <1>2. {s \in spare : Rank(s, spare) < k - Cardinality(F)} = {}
    <2>1. IsFiniteSet(spare)
      <3>1. Cardinality(taken) \in Nat
        BY FS_CardinalityType
      <3>2. IsFiniteSet(1 .. k + Cardinality(taken))
        BY <3>1, FS_Interval
      <3> QED
        BY <3>2, FS_Subset
    <2> HIDE DEF spare
    <2>2. \A s \in spare : Rank(s, spare) \in Nat
      <3> SUFFICES ASSUME NEW s \in spare
                   PROVE  Rank(s, spare) \in Nat
        OBVIOUS
      <3>1. IsFiniteSet({y \in spare : y < s})
        BY <2>1, FS_Subset
      <3> QED
        BY <3>1, FS_CardinalityType DEF Rank
    <2> QED
      BY <2>2
  <1>3. Cardinality(F) >= k
    OBVIOUS
  <1> HIDE DEF spare
  <1> QED
    BY <1>1, <1>2, <1>3 DEF _follower_slots, spare

=============================================================================
