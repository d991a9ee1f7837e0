---------------------------- MODULE ScalingProofs ---------------------------
(***************************************************************************)
(* What the conversions of percentages do for every argument: rounding     *)
(* never loses a whole percentage, and order is kept.                      *)
(***************************************************************************)
EXTENDS Scaling, TLAPS

\* The raw value of a percentage in range lies between the buffer and 100.
THEOREM RawInRange ==
    ASSUME NEW scaled \in Int, NEW raw \in Int, scaled_to_raw(scaled, raw)
    PROVE  Buffer <= raw /\ raw <= MaxPercent
  BY DEF scaled_to_raw, InRange, Nearest, Buffer, Percent, MaxPercent

\* scaled_to_raw_reserve keeps the order of percentages.
THEOREM RawKeepsOrder ==
    ASSUME NEW a \in Int, NEW b \in Int, NEW x \in Int, NEW y \in Int,
           scaled_to_raw(a, x), scaled_to_raw(b, y), a < b
    PROVE  x <= y
  BY DEF scaled_to_raw, InRange, Nearest, Buffer, Percent, MaxPercent

\* raw_to_scaled_reserve of scaled_to_raw_reserve is at most 1/10000 percent
\* away from where it began.
THEOREM RoundTrip ==
    ASSUME NEW scaled \in Int, NEW raw \in Int, NEW back \in Int,
           scaled_to_raw(scaled, raw), raw_to_scaled(raw, back)
    PROVE  scaled - 1 <= back /\ back <= scaled + 1
  BY DEF scaled_to_raw, raw_to_scaled, InRange, Nearest, Buffer, Percent, MaxPercent

\* A whole percentage comes back exactly.
THEOREM WholePercentsComeBack ==
    ASSUME NEW k \in Int, NEW raw \in Int, NEW back \in Int,
           scaled_to_raw(k * Percent, raw), raw_to_scaled(raw, back)
    PROVE  back = k * Percent
  <1>1. raw - Buffer = 9500 * k
    BY DEF scaled_to_raw, InRange, Nearest, Buffer, Percent, MaxPercent
  <1> QED
    BY <1>1 DEF raw_to_scaled, Nearest, Buffer, Percent

\* A raw value that the conversion shows in range is restored by writing what
\* is shown back.
THEOREM RawComesBack ==
    ASSUME NEW raw \in Int, NEW scaled \in Int, NEW again \in Int,
           raw_to_scaled(raw, scaled), scaled_to_raw(scaled, again)
    PROVE  again = raw
  BY DEF scaled_to_raw, raw_to_scaled, InRange, Nearest, Buffer, Percent, MaxPercent

-----------------------------------------------------------------------------
(* The level of the battery.                                               *)

LEMMA RoundedIsNearest ==
    ASSUME NEW num \in Int, NEW den \in Nat \ {0}, NEW x \in Rounded(num, den)
    PROVE  x \in Int /\ Nearest(x, num, den)
  <1>1. num \div den \in Int
    OBVIOUS
  <1> QED
    BY <1>1 DEF Rounded

\* A number that the quotient has not passed is not passed by rounding it.
LEMMA RoundingKeepsBounds ==
    ASSUME NEW num \in Int, NEW den \in Nat \ {0}, NEW x \in Int, NEW bound \in Int,
           Nearest(x, num, den)
    PROVE  /\ num >= bound * den => x >= bound
           /\ num <= bound * den => x <= bound
  <1>1. (x - bound) * den = x * den - bound * den
    OBVIOUS
  <1>2. ASSUME num >= bound * den, x < bound
        PROVE  FALSE
    <2>1. (x - bound) * den <= - den
      <3> DEFINE d == bound - x - 1
      <3>1. d \in Nat
        BY <1>2
      <3>2. d * den >= 0
        BY <3>1
      <3>3. (x - bound) * den = - (d * den) - den
        OBVIOUS
      <3> QED
        BY <3>2, <3>3
    <2> QED
      BY <1>1, <1>2, <2>1 DEF Nearest
  <1>3. ASSUME num <= bound * den, x > bound
        PROVE  FALSE
    <2>1. (x - bound) * den >= den
      <3> DEFINE d == x - bound - 1
      <3>1. d \in Nat
        BY <1>3
      <3>2. d * den >= 0
        BY <3>1
      <3>3. (x - bound) * den = d * den + den
        OBVIOUS
      <3> QED
        BY <3>2, <3>3
    <2> QED
      BY <1>1, <1>3, <2>1 DEF Nearest
  <1> QED
    BY <1>2, <1>3

LEMMA LevelIsNearest ==
    ASSUME NEW remaining \in Nat, NEW full \in Nat,
           NEW level \in battery_level(remaining, full)
    PROVE  /\ full # 0 /\ level \in Int
           /\ Nearest(level, 20 * (remaining * MaxPercent - Buffer * full), 19 * full)
  <1>1. full # 0 /\ level \in Rounded(20 * (remaining * MaxPercent - Buffer * full),
                                      19 * full)
    BY DEF battery_level, HasLevel
  <1>2. /\ 20 * (remaining * MaxPercent - Buffer * full) \in Int
        /\ 19 * full \in Nat \ {0}
    BY <1>1 DEF MaxPercent, Buffer, Percent
  <1> QED
    BY <1>1, <1>2, RoundedIsNearest

\* A battery that holds its buffer or more, and no more than its capacity, is
\* shown at a level of 0 to 100 percent.  (One that holds less is shown below 0.)
THEOREM LevelInRange ==
    ASSUME NEW remaining \in Nat, NEW full \in Nat,
           20 * remaining >= full, remaining <= full,
           NEW level \in battery_level(remaining, full)
    PROVE  0 <= level /\ level <= MaxPercent
  <1> DEFINE num == 20 * (remaining * MaxPercent - Buffer * full)
             den == 19 * full
             least == 0
  <1>1. full # 0 /\ level \in Int /\ Nearest(level, num, den)
    BY LevelIsNearest
  <1>2. num >= least * den /\ num <= MaxPercent * den
    BY DEF MaxPercent, Buffer, Percent
  <1>3. num \in Int /\ den \in Nat \ {0} /\ MaxPercent \in Int /\ least \in Int
    BY <1>1 DEF MaxPercent, Buffer, Percent
  <1> HIDE DEF num, den, least
  <1>4. num >= least * den => level >= least
    BY <1>1, <1>3, RoundingKeepsBounds
  <1>5. num <= MaxPercent * den => level <= MaxPercent
    BY <1>1, <1>3, RoundingKeepsBounds
  <1> QED
    BY <1>2, <1>4, <1>5 DEF least

\* A battery that holds anything has a level.
THEOREM LevelIsKnown ==
    ASSUME NEW remaining \in Nat \ {0}, NEW full \in Nat \ {0}
    PROVE  battery_level(remaining, full) # {}
  <1> DEFINE num == 20 * (remaining * MaxPercent - Buffer * full)
             den == 19 * full
             low == num \div den
  <1>1. num \in Int /\ den \in Nat \ {0}
    BY DEF MaxPercent, Buffer, Percent
  <1>2. battery_level(remaining, full) = Rounded(num, den)
    BY DEF battery_level, HasLevel
  <1> HIDE DEF num, den
  <1>3. /\ low \in Int
        /\ low * den <= num /\ num < low * den + den
        /\ (low + 1) * den = low * den + den /\ low * den \in Int
    BY <1>1
  <1>4. Nearest(low, num, den) \/ Nearest(low + 1, num, den)
    <2> HIDE DEF low
    <2> QED
      BY <1>1, <1>3 DEF Nearest
  <1> QED
    BY <1>2, <1>4 DEF Rounded

\* Level and reserve compare as the energy does with the reserve, whatever the
\* energies are: no rounding shows a battery on the wrong side of its reserve.
THEOREM LevelFitsReserve ==
    ASSUME NEW remaining \in Nat, NEW full \in Nat,
           NEW level \in battery_level(remaining, full),
           NEW k \in Int, NEW raw \in Int, scaled_to_raw(k * Percent, raw)
    PROVE  /\ remaining * MaxPercent >= raw * full => level >= k * Percent
           /\ remaining * MaxPercent <= raw * full => level <= k * Percent
  <1> DEFINE num == 20 * (remaining * MaxPercent - Buffer * full)
             den == 19 * full
             shown == k * Percent
  <1>1. full # 0 /\ level \in Int /\ Nearest(level, num, den)
    BY LevelIsNearest
  <1>2. raw = 9500 * k + Buffer
    BY DEF scaled_to_raw, InRange, Nearest, Buffer, Percent, MaxPercent
  <1>3. raw * full = 9500 * (k * full) + Buffer * full
    BY <1>2 DEF Buffer, Percent
  <1>4. shown * den = 190000 * (k * full)
    BY DEF Percent
  <1>5. num - shown * den = 20 * (remaining * MaxPercent - raw * full)
    BY <1>3, <1>4 DEF Buffer, Percent, MaxPercent
  <1>6. /\ num \in Int /\ shown \in Int /\ den \in Nat \ {0}
        /\ remaining * MaxPercent \in Int /\ raw * full \in Int
    BY <1>1 DEF MaxPercent, Buffer, Percent
  <1> HIDE DEF num, den, shown
  <1>7. /\ num >= shown * den => level >= shown
        /\ num <= shown * den => level <= shown
    BY <1>1, <1>6, RoundingKeepsBounds
  <1>8. shown * den \in Int
    BY <1>6
  <1>9. /\ remaining * MaxPercent >= raw * full => num >= shown * den
        /\ remaining * MaxPercent <= raw * full => num <= shown * den
    BY <1>5, <1>6, <1>8
  <1> QED
    BY <1>7, <1>9 DEF shown
=============================================================================
