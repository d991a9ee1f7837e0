------------------------------ MODULE Scaling -------------------------------
(***************************************************************************)
(* The conversions between the gateway's raw percentages and the ones its  *)
(* users see, raw = 0.95 scaled + 5, rounded to four digits.  A percentage *)
(* is a number of ten-thousandths of a percent.  Which way a tie goes      *)
(* depends on the floating-point error, so a conversion is a relation: it  *)
(* gives any nearest number.  Reserve and state of charge have the same    *)
(* two constants.                                                          *)
(***************************************************************************)
EXTENDS Integers

Percent == 10000                    \* one percent
Buffer == 5 * Percent               \* the inaccessible bottom
MaxPercent == 100 * Percent

\* x is a number nearest to num / den.
Nearest(x, num, den) == /\ 2 * (x * den - num) <= den
                        /\ 2 * (num - x * den) <= den

\* What scaled_to_raw_reserve and scaled_to_raw_soc accept.
InRange(scaled) == 0 <= scaled /\ scaled <= MaxPercent

scaled_to_raw(scaled, raw) == /\ InRange(scaled)
                              /\ Nearest(raw - Buffer, 95 * scaled, 100)

\* A mistake for the runs to find: the buffer is forgotten.
RawWithoutBuffer(raw, scaled) == Nearest(scaled, 100 * raw, 95)

raw_to_scaled(raw, scaled) == Nearest(scaled, 100 * (raw - Buffer), 95)

\* The numbers nearest to num / den.
Rounded(num, den) == {x \in {num \div den, num \div den + 1} : Nearest(x, num, den)}

\* battery_level_raw: an energy of zero counts as a missing one.
HasLevel(remaining, full) == remaining # 0 /\ full # 0

\* A mistake for the runs to find: the raw level is shown.
LevelUnscaled(remaining, full) ==
    IF HasLevel(remaining, full) THEN Rounded(remaining * MaxPercent, full) ELSE {}

\* The values battery_level may have, none for None: raw_to_scaled of the share
\* that remains, which is not rounded before.  (100 over 95, reduced.)
battery_level(remaining, full) ==
    IF HasLevel(remaining, full)
    THEN Rounded(20 * (remaining * MaxPercent - Buffer * full), 19 * full)
    ELSE {}
=============================================================================
