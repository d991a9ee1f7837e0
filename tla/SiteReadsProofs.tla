-------------------------- MODULE SiteReadsProofs --------------------------
(***************************************************************************)
(* Proofs about the readings of a site that changes: for any sites that    *)
(* are well formed, any changes between them and any order of the three    *)
(* requests.                                                               *)
(***************************************************************************)
EXTENDS SiteReads, BatteryUnitsProofs, ScalingProofs

\* Whatever is read was a site.
LEMMA InitTypes == Init => TypeOK
  BY SitesAssumption DEF Init, TypeOK, Neighbours

LEMMA StepTypes == TypeOK /\ [Next]_vars => TypeOK'
  <1> SUFFICES ASSUME TypeOK, [Next]_vars
               PROVE  TypeOK'
    OBVIOUS
  <1>1. CASE Change
    BY <1>1, SitesAssumption DEF Change, TypeOK, Neighbours
  <1>2. ASSUME NEW k \in Payloads, Read(k)
        PROVE  TypeOK'
    BY <1>2 DEF Read, TypeOK
  <1>3. CASE UNCHANGED vars
    BY <1>3 DEF vars, TypeOK
  <1> QED
    BY <1>1, <1>2, <1>3 DEF Next

\* Every payload is read from a site, at any moment.
THEOREM TypeCorrect == Spec => []TypeOK
  BY InitTypes, StepTypes, PTL DEF Spec

\* Three payloads of well-formed sites can be read, though the sites differ.
LEMMA ReadablePayloads ==
    TypeOK /\ AllRead => Readable(got["config"], got["status"], Rows)
  <1> SUFFICES ASSUME TypeOK, AllRead
               PROVE  Readable(got["config"], got["status"], Rows)
    OBVIOUS
  <1>1. \A k \in Payloads : WellFormed(got[k])
    BY SitesAssumption DEF TypeOK, AllRead, Neighbours
  <1>2. WellFormed(got["config"]) /\ WellFormed(got["status"]) /\ WellFormed(got["components"])
    BY <1>1 DEF Payloads
  <1>3. /\ got["config"].blocks \in Seq(Elements(got["config"].blocks))
        /\ got["config"].expansions \in Seq(Elements(got["config"].expansions))
        /\ got["status"].dins \in Seq(Elements(got["status"].dins))
    BY <1>2 DEF WellFormed
  <1>4. \A p, q \in Places(got["config"].expansions) :
           got["config"].expansions[p].din.serial = got["config"].expansions[q].din.serial
           => p = q
    BY <1>2 DEF WellFormed
  <1>5. \E n \in Nat : DOMAIN Rows = 0 .. n - 1
    <2>1. PICK n \in 0 .. 100 : DOMAIN Rows = 0 .. n - 1
      BY <1>2 DEF WellFormed, Rows
    <2>2. n \in Nat
      OBVIOUS
    <2> QED
      BY <2>1, <2>2
  <1> QED
    BY <1>3, <1>4, <1>5 DEF Readable

LEMMA NoRowTwiceHolds == TypeOK => NoRowTwice
  <1> SUFFICES ASSUME TypeOK, AllRead,
                      \A p \in Places(got["config"].expansions) :
                         RowsOf(got["config"], Rows, {0}, p) = {},
                      NEW u \in Units, NEW v \in Units, u.slot = v.slot
               PROVE  u = v
    BY DEF NoRowTwice
  <1>1. Readable(got["config"], got["status"], Rows)
    BY ReadablePayloads
  <1> QED
    BY <1>1, RowsAreGivenOnce DEF Units

\* No two units read the same row, however the site changed meanwhile.
THEOREM NoRowIsReadTwice == Spec => []NoRowTwice
  BY TypeCorrect, NoRowTwiceHolds, PTL

LEMMA EveryRowReadHolds == TypeOK => EveryRowRead
  <1> SUFFICES ASSUME TypeOK, AllRead, NEW s \in Slots
               PROVE  \E u \in Units : u.slot = s
    BY DEF EveryRowRead
  <1>1. Readable(got["config"], got["status"], Rows)
    BY ReadablePayloads
  <1> QED
    BY <1>1, RowsAreAllRead DEF Units, Slots

\* No row that counts is left out, however the site changed meanwhile.
THEOREM NoRowIsLeftOut == Spec => []EveryRowRead
  BY TypeCorrect, EveryRowReadHolds, PTL

LEMMA DinOfTheRowHolds == TypeOK => DinOfTheRow
  <1> SUFFICES ASSUME TypeOK, AllRead,
                      NEW u \in Units, NEW p \in Places(got["config"].expansions)
               PROVE  LET d == got["config"].expansions[p].din
                          Reporting == {s \in Slots : component_serial(Rows, s) = d.serial}
                      IN  /\ u.role # "leader" /\ Reporting = {u.slot} => u.din = d
                          /\ u.role = "expansion" /\ u.din = d /\ Reporting # {} =>
                                u.slot \in Reporting
    BY DEF DinOfTheRow
  <1>1. Readable(got["config"], got["status"], Rows)
    BY ReadablePayloads
  <1>2. WellFormed(got["config"])
    BY SitesAssumption DEF TypeOK, AllRead, Neighbours, Payloads
  <1>3. got["config"].expansions[p].din.serial # NoSerial
    BY <1>2 DEF WellFormed
  <1> QED
    BY <1>1, <1>3, RowsHaveTheirDin DEF Units, Slots

\* The DIN of a pack that reports its serial number is not another row's.
THEOREM DinsOfTheRows == Spec => []DinOfTheRow
  BY TypeCorrect, DinOfTheRowHolds, PTL

LEMMA ReserveReadsBackHolds == TypeOK => ReserveReadsBack
  <1> DEFINE s == got["config"]
  <1> SUFFICES ASSUME TypeOK, s # NoSite
               PROVE  local_config(s) = {s.asked * Percent}
    BY DEF ReserveReadsBack
  <1>1. WellFormed(s)
    BY SitesAssumption DEF TypeOK, Payloads, Neighbours
  <1>2. /\ s.asked \in 0 .. 100 /\ s.reserve \in Int
        /\ scaled_to_raw(s.asked * Percent, s.reserve)
    BY <1>1 DEF WellFormed
  <1> HIDE DEF s
  <1>3. s.reserve - Buffer = 9500 * s.asked
    BY <1>2 DEF scaled_to_raw, InRange, Nearest, Buffer, Percent, MaxPercent
  <1>4. (100 * (s.reserve - Buffer)) \div 95 = s.asked * Percent
    BY <1>2, <1>3 DEF Percent
  <1>5. \A x \in Int : raw_to_scaled(s.reserve, x) <=> x = s.asked * Percent
    BY <1>2, <1>3 DEF raw_to_scaled, Nearest, Buffer, Percent
  <1>6. s.asked * Percent \in Int
    BY <1>2 DEF Percent
  <1> QED
    BY <1>4, <1>5, <1>6 DEF local_config

\* A whole percentage that the owner sets is the one that is shown.
THEOREM ReservesReadBack == Spec => []ReserveReadsBack
  BY TypeCorrect, ReserveReadsBackHolds, PTL

LEMMA LevelComparison ==
    ASSUME NEW s, WellFormed(s), NEW t, WellFormed(t), NEW level \in percentage_charged(t)
    PROVE  LET shown == s.asked * Percent IN
           /\ t.charge * MaxPercent >= s.reserve * Parts => level >= shown
           /\ t.charge * MaxPercent <= s.reserve * Parts => level <= shown
  <1>1. level \in battery_level(t.charge, Parts)
    BY DEF percentage_charged
  <1>2. /\ s.asked \in 0 .. 100 /\ s.reserve \in Int
        /\ scaled_to_raw(s.asked * Percent, s.reserve)
    BY DEF WellFormed
  <1>3. t.charge \in Nat /\ Parts \in Nat
    <2>1. t.charge \in 0 .. Parts
      BY DEF WellFormed
    <2>2. Parts \in Nat
      BY DEF Parts
    <2> QED
      BY <2>1, <2>2
  <1>4. s.asked \in Int
    BY <1>2
  <1> QED
    BY <1>1, <1>2, <1>3, <1>4, LevelFitsReserve, Zenon

LEMMA LevelFitsTheReserveHolds == TypeOK => LevelFitsTheReserve
  <1> DEFINE s == got["config"]
             t == got["status"]
  <1> SUFFICES ASSUME TypeOK, s # NoSite, t # NoSite
               PROVE  /\ t.aggregate # 0 /\ t.charge # 0 => percentage_charged(t) # {}
                      /\ \A level \in percentage_charged(t), shown \in local_config(s) :
                            /\ t.charge * MaxPercent >= s.reserve * Parts => level >= shown
                            /\ t.charge * MaxPercent <= s.reserve * Parts => level <= shown
    BY DEF LevelFitsTheReserve
  <1>1. WellFormed(s) /\ WellFormed(t)
    BY SitesAssumption DEF TypeOK, Payloads, Neighbours
  <1>2. \A shown \in local_config(s) : shown = s.asked * Percent
    BY ReserveReadsBackHolds DEF ReserveReadsBack
  <1> HIDE DEF s, t
  <1>3. ASSUME t.aggregate # 0, t.charge # 0
        PROVE  percentage_charged(t) # {}
    <2>1. t.charge \in 0 .. Parts
      BY <1>1 DEF WellFormed
    <2>2. t.charge \in Nat \ {0} /\ Parts \in Nat \ {0}
      BY <1>3, <2>1 DEF Parts
    <2> QED
      BY <1>3, <2>2, LevelIsKnown DEF percentage_charged
  <1>4. ASSUME NEW level \in percentage_charged(t), NEW shown \in local_config(s)
        PROVE  /\ t.charge * MaxPercent >= s.reserve * Parts => level >= shown
               /\ t.charge * MaxPercent <= s.reserve * Parts => level <= shown
    BY <1>1, <1>2, LevelComparison, Zenon
  <1> QED
    BY <1>3, <1>4

\* Whatever happens between the two requests, the level shown and the reserve
\* shown compare as what they stand for.
THEOREM LevelsFitTheReserve == Spec => []LevelFitsTheReserve
  BY TypeCorrect, LevelFitsTheReserveHolds, PTL

-----------------------------------------------------------------------------
(* A site that is described completely.                                    *)

\* A complete site: its rows are numbered, and each pack has one.
LEMMA OneRowEach ==
    ASSUME NEW s, WellFormed(s)
    PROVE  /\ \E n \in Nat : DOMAIN s.rows = 0 .. n - 1 /\ DOMAIN s.owner = 0 .. n - 1
           /\ Installed(s) \subseteq Nat /\ IsFiniteSet(Installed(s))
           /\ \A i, j \in Installed(s) : s.owner[i] = s.owner[j] => i = j
           /\ Readable(s, s, s.rows)
  <1>1. PICK n \in 0 .. 100 : DOMAIN s.rows = 0 .. n - 1
    BY DEF WellFormed
  <1>2. n \in Nat
    OBVIOUS
  <1>3. IsFiniteSet(0 .. n - 1) /\ 0 .. n - 1 \subseteq Nat
    BY <1>2, FS_Interval
  <1>4. Installed(s) \in SUBSET (0 .. n - 1)
    BY <1>1 DEF Installed
  <1>5. IsFiniteSet(Installed(s)) /\ Installed(s) \subseteq Nat
    BY <1>3, <1>4, FS_Subset
  <1>6. Readable(s, s, s.rows)
    BY <1>1, <1>2 DEF WellFormed, Readable
  <1> QED
    BY <1>1, <1>2, <1>5, <1>6 DEF WellFormed

\* Of a complete site, row 0 is the leader's, and the rows of the followers are
\* in the order of their DINs.
LEMMA PowerwallRows ==
    ASSUME NEW s, WellFormed(s), Complete(s)
    PROVE  LET last == PowerwallCount(s, s) - 1 IN
           /\ last \in Nat
           /\ 0 \in Installed(s) /\ s.owner[0] = PowerwallDin(s, s, 0)
           /\ \E r \in [1 .. last -> Installed(s) \ {0}] :
                 /\ \A k \in 1 .. last : s.owner[r[k]] = PowerwallDin(s, s, k)
                 /\ \A j, k \in 1 .. last : j < k => r[j] < r[k]
  <1> DEFINE last == PowerwallCount(s, s) - 1
             Row(d) == {i \in Installed(s) : s.owner[i] = d}
             Din(k) == PowerwallDin(s, s, k)
             r == [k \in 1 .. last |-> CHOOSE i \in Row(Din(k)) : TRUE]
  <1>1. last \in Nat
    <2>1. PowerwallCount(s, s) \in Nat \ {0}
      BY OneRowEach, PowerwallsAreCounted
    <2> QED
      BY <2>1
  <1>2. /\ Row(Din(0)) = {0}
        /\ \A k \in 0 .. last : Row(Din(k)) # {}
        /\ \A j, k \in 0 .. last :
              j < k => \A x \in Row(Din(j)), y \in Row(Din(k)) : x < y
    BY DEF Complete
  <1>3. 0 \in Row(Din(0))
    BY <1>2
  <1>4. \A k \in 1 .. last : r[k] \in Row(Din(k))
    <2> SUFFICES ASSUME NEW k \in 1 .. last
                 PROVE  r[k] \in Row(Din(k))
      OBVIOUS
    <2>1. k \in 0 .. last
      OBVIOUS
    <2>2. Row(Din(k)) # {}
      BY <1>2, <2>1
    <2> HIDE DEF Row, Din
    <2> QED
      BY <2>2
  <1>5. \A k \in 1 .. last : r[k] # 0
    <2> SUFFICES ASSUME NEW k \in 1 .. last
                 PROVE  r[k] # 0
      OBVIOUS
    <2>1. 0 \in 0 .. last /\ k \in 0 .. last /\ 0 < k
      BY <1>1
    <2>2. 0 < r[k]
      <3> HIDE DEF Row, Din, r
      <3> QED
        BY <1>2, <1>3, <1>4, <2>1
    <2> HIDE DEF r
    <2> QED
      BY <2>2
  <1>6. \A j, k \in 1 .. last : j < k => r[j] < r[k]
    <2>1. \A k \in 1 .. last : k \in 0 .. last
      OBVIOUS
    <2> HIDE DEF Row, Din, r
    <2> QED
      BY <1>2, <1>4, <2>1
  <1>7. /\ \A k \in 1 .. last : r[k] \in Installed(s) /\ s.owner[r[k]] = Din(k)
        /\ 0 \in Installed(s) /\ s.owner[0] = Din(0)
    <2> HIDE DEF r, Din
    <2> QED
      BY <1>3, <1>4
  <1>8. r \in [1 .. last -> Installed(s) \ {0}]
    <2>1. \A k \in 1 .. last : r[k] \in Installed(s) \ {0}
      <3> HIDE DEF r
      <3> QED
        BY <1>5, <1>7
    <2> QED
      BY <2>1
  <1> HIDE DEF r
  <1> QED
    BY <1>1, <1>6, <1>7, <1>8

\* An expansion has a row of its own, which is no Powerwall's and reports the
\* serial number; and no other pack's row reports it.
LEMMA ExpansionRows ==
    ASSUME NEW s, WellFormed(s), Complete(s), NEW p \in Places(s.expansions)
    PROVE  LET R == RowsOf(s, s.rows, Installed(s), p) IN
           /\ R # {}
           /\ \A i \in R : /\ s.owner[i] = s.expansions[p].din
                           /\ component_serial(s.rows, i) # NoSerial
           /\ s.expansions[p].din # NoDin
  <1> DEFINE d == s.expansions[p].din
             powerwalls == 0 .. PowerwallCount(s, s) - 1
             Din(k) == PowerwallDin(s, s, k)
             Serial(i) == component_serial(s.rows, i)
  <1>1. /\ {i \in Installed(s) : s.owner[i] = d} # {}
        /\ \A k \in powerwalls : Din(k) # d
        /\ \A i \in Installed(s) : s.owner[i].serial = d.serial => s.owner[i] = d
        /\ {i \in Installed(s) : s.owner[i] = Din(0)} = {0}
        /\ \A i \in Installed(s) \ {0} :
              IF \E k \in powerwalls : s.owner[i] = Din(k) THEN Serial(i) = NoSerial
              ELSE Serial(i) = s.owner[i].serial /\ Serial(i) # NoSerial
    BY DEF Complete
  <1>2. d.serial # Serial(0) /\ 0 \in powerwalls
    <2>1. PowerwallCount(s, s) \in Nat \ {0}
      BY OneRowEach, PowerwallsAreCounted
    <2>2. 0 \in powerwalls
      BY <2>1
    <2>3. d.serial # Serial(0)
      BY DEF WellFormed
    <2> QED
      BY <2>2, <2>3
  <1>3. PICK i \in Installed(s) : s.owner[i] = d
    BY <1>1
  <1>4. d # NoDin
    BY <1>3 DEF Installed
  <1>5. s.owner[0] = Din(0)
    <2> HIDE DEF Din
    <2> QED
      BY <1>1
  <1> HIDE DEF Din, Serial, powerwalls
  <1>6. Serial(i) = d.serial /\ Serial(i) # NoSerial
    <2>1. i # 0
      BY <1>1, <1>2, <1>3, <1>5
    <2>2. ~ \E k \in powerwalls : s.owner[i] = Din(k)
      BY <1>1, <1>3
    <2> QED
      BY <1>1, <1>3, <2>1, <2>2
  <1>7. ASSUME NEW j \in Installed(s), Serial(j) # NoSerial, Serial(j) = d.serial
        PROVE  s.owner[j] = d
    <2>1. j # 0
      BY <1>2, <1>7
    <2>2. Serial(j) = s.owner[j].serial
      BY <1>1, <1>7, <2>1
    <2> QED
      BY <1>1, <1>7, <2>2
  <1> QED
    BY <1>3, <1>4, <1>6, <1>7 DEF RowsOf, Serial

\* Every row that is no Powerwall's has a serial number, and only those.
LEMMA SilentRows ==
    ASSUME NEW s, WellFormed(s), Complete(s),
           NEW last, last = PowerwallCount(s, s) - 1,
           NEW r \in [1 .. last -> Installed(s) \ {0}],
           \A k \in 1 .. last : s.owner[r[k]] = PowerwallDin(s, s, k)
    PROVE  \A i \in Installed(s) \ {0} :
              component_serial(s.rows, i) = NoSerial
              <=> \E k \in 1 .. last : i = r[k]
  <1> DEFINE Din(k) == PowerwallDin(s, s, k)
             Serial(i) == component_serial(s.rows, i)
  <1>1. last \in Nat
    BY PowerwallRows
  <1>2. /\ {i \in Installed(s) : s.owner[i] = Din(0)} = {0}
        /\ \A i \in Installed(s) \ {0} :
              Serial(i) = NoSerial <=> \E k \in 0 .. last : s.owner[i] = Din(k)
    <2>1. /\ {i \in Installed(s) : s.owner[i] = Din(0)} = {0}
          /\ \A i \in Installed(s) \ {0} :
                IF \E k \in 0 .. last : s.owner[i] = Din(k) THEN Serial(i) = NoSerial
                ELSE Serial(i) = s.owner[i].serial /\ Serial(i) # NoSerial
      BY DEF Complete
    <2> HIDE DEF Din, Serial
    <2> QED
      BY <2>1
  <1>3. \A i, j \in Installed(s) : s.owner[i] = s.owner[j] => i = j
    BY OneRowEach
  <1>4. \A k \in 1 .. last : r[k] \in Installed(s) \ {0} /\ s.owner[r[k]] = Din(k)
    OBVIOUS
  <1>5. \A k \in 1 .. last : k \in 0 .. last
    OBVIOUS
  <1>6. \A k \in 0 .. last : k # 0 => k \in 1 .. last
    BY <1>1
  <1> HIDE DEF Din, Serial
  <1>7. ASSUME NEW i \in Installed(s) \ {0}, Serial(i) = NoSerial
        PROVE  \E k \in 1 .. last : i = r[k]
    <2>1. PICK k \in 0 .. last : s.owner[i] = Din(k)
      BY <1>2, <1>7
    <2>2. k # 0
      BY <1>2, <2>1
    <2> QED
      BY <1>3, <1>4, <1>6, <2>1, <2>2
  <1>8. \A k \in 1 .. last : Serial(r[k]) = NoSerial
    BY <1>2, <1>4, <1>5
  <1> QED
    BY <1>4, <1>7, <1>8 DEF Serial

\* Of a complete site each follower is given its own row.
LEMMA FollowersOfComplete ==
    ASSUME NEW s, WellFormed(s), Complete(s)
    PROVE  LET last == PowerwallCount(s, s) - 1
               taken == ExpansionSlots(s, s.rows, Installed(s))
               followers == _follower_slots(last, taken, s.rows, Installed(s))
           IN  \A i \in followers :
                  /\ i \in Installed(s)
                  /\ s.owner[i] = PowerwallDin(s, s, Rank(i, followers) + 1)
  <1> DEFINE last == PowerwallCount(s, s) - 1
             taken == ExpansionSlots(s, s.rows, Installed(s))
  <1>1. PICK r \in [1 .. last -> Installed(s) \ {0}] :
           /\ \A k \in 1 .. last : s.owner[r[k]] = PowerwallDin(s, s, k)
           /\ \A j, k \in 1 .. last : j < k => r[j] < r[k]
    BY PowerwallRows
  <1>2. last \in Nat /\ 0 \in Installed(s)
    BY PowerwallRows
  <1>3. \A k \in 1 .. last : /\ r[k] \in Installed(s) \ {0}
                             /\ s.owner[r[k]] = PowerwallDin(s, s, k)
    BY <1>1
  <1> DEFINE F == {r[k] : k \in 1 .. last}
  <1>4. Installed(s) \subseteq Nat /\ IsFiniteSet(Installed(s)) /\ Readable(s, s, s.rows)
    BY OneRowEach
  <1>5. r \in [1 .. last -> Int]
    <2>1. \A k \in 1 .. last : r[k] \in Int
      BY <1>3, <1>4
    <2> QED
      BY <1>1, <2>1
  <1>6. F \subseteq Int /\ IsFiniteSet(F) /\ Cardinality(F) = last
    <2>1. last \in 0 .. last
      BY <1>2
    <2> HIDE DEF last
    <2> QED
      BY <1>1, <1>2, <1>5, <2>1, IncreasingImage
  <1>7. F = {i \in Installed(s) \ {0} : component_serial(s.rows, i) = NoSerial}
    <2>1. \A i \in Installed(s) \ {0} :
             component_serial(s.rows, i) = NoSerial <=> \E k \in 1 .. last : i = r[k]
      <3>1. last = PowerwallCount(s, s) - 1
        OBVIOUS
      <3> HIDE DEF last
      <3> QED
        BY <1>1, <3>1, SilentRows
    <2> HIDE DEF last
    <2> QED
      BY <1>3, <2>1
  <1>8. /\ taken \subseteq Installed(s) /\ IsFiniteSet(taken)
        /\ \A i \in taken : component_serial(s.rows, i) # NoSerial
    <2>1. \A p \in Matched(s, s.rows, Installed(s)) :
             MatchedSlot(s, s.rows, Installed(s), p) \in RowsOf(s, s.rows, Installed(s), p)
      BY <1>4, MatchedRows
    <2>2. \A i \in taken : i \in Installed(s) /\ component_serial(s.rows, i) # NoSerial
      BY <2>1 DEF ExpansionSlots, RowsOf
    <2> HIDE DEF taken
    <2> QED
      BY <1>4, <2>2, FS_Subset
  <1>9. F = {i \in Installed(s) \ (taken \cup {0}) :
                component_serial(s.rows, i) = NoSerial}
    <2> HIDE DEF F, taken
    <2> QED
      BY <1>7, <1>8
  <1>10. _follower_slots(last, taken, s.rows, Installed(s)) = F
    <2> HIDE DEF F, taken, last
    <2> QED
      BY <1>2, <1>6, <1>8, <1>9, UnserialedFollowers
  <1>11. ASSUME NEW k \in 1 .. last
         PROVE  Rank(r[k], F) + 1 = k
    <2>1. Rank(r[k], F) = k - 1
      <3> HIDE DEF last
      <3> QED
        BY <1>1, <1>2, <1>5, IncreasingRank
    <2> QED
      BY <2>1
  <1>12. \A i \in F : /\ i \in Installed(s)
                      /\ s.owner[i] = PowerwallDin(s, s, Rank(i, F) + 1)
    BY <1>3, <1>11
  <1> HIDE DEF F
  <1> QED
    BY <1>10, <1>12

\* ... and each expansion; the packs that are left are none of the expansions.
THEOREM OwnRows ==
    ASSUME NEW s, WellFormed(s), Complete(s), NEW u \in battery_units(s, s, s.rows)
    PROVE  /\ u.din # NoDin => u.din = s.owner[u.slot]
           /\ u.din = NoDin => \A p \in Places(s.expansions) :
                                  s.expansions[p].din # s.owner[u.slot]
  <1> DEFINE slots == Installed(s)
             n == PowerwallCount(s, s)
             taken == ExpansionSlots(s, s.rows, slots)
             followers == _follower_slots(n - 1, taken, s.rows, slots)
             matched == Matched(s, s.rows, slots)
             unmatched == Places(s.expansions) \ matched
             unclaimed == slots \ ({0} \cup followers \cup taken)
             Leader == [role |-> "leader", block |-> 0, slot |-> 0,
                        din |-> PowerwallDin(s, s, 0)]
             Follower(i) ==
                 [role |-> "follower", block |-> Rank(i, followers) + 1, slot |-> i,
                  din |-> PowerwallDin(s, s, Rank(i, followers) + 1)]
             Expansion(p) ==
                 [role |-> "expansion", block |-> s.expansions[p].block,
                  din |-> s.expansions[p].din,
                  slot |-> MatchedSlot(s, s.rows, slots, p)]
             Extra(i) == [role |-> "expansion", block |-> 0, din |-> NoDin, slot |-> i]
             Others == UnmatchedUnits(s, unmatched, unclaimed, slots, n)
             left == Leftover(unclaimed, Cardinality(unmatched))
  <1>1. slots = _ghost_filtered_bms_slots(s.rows, s.aggregate)
    BY DEF Complete
  <1>2. /\ slots \subseteq Nat /\ IsFiniteSet(slots) /\ Readable(s, s, s.rows)
        /\ \A i, j \in slots : s.owner[i] = s.owner[j] => i = j
        /\ \A i \in slots : s.owner[i] # NoDin
    BY OneRowEach DEF Installed
  <1>3. u \in {Leader} \cup {Follower(i) : i \in followers}
              \cup {Expansion(p) : p \in matched} \cup Others
              \cup {Extra(i) : i \in left}
    <2> DEFINE All(x) ==
                   LET t == ExpansionSlots(s, s.rows, x)
                       f == _follower_slots(n - 1, t, s.rows, x)
                       m == Matched(s, s.rows, x)
                       none == Places(s.expansions) \ m
                       free == x \ ({0} \cup f \cup t)
                       Follow(i) ==
                           [role |-> "follower", block |-> Rank(i, f) + 1, slot |-> i,
                            din |-> PowerwallDin(s, s, Rank(i, f) + 1)]
                       Expand(p) ==
                           [role |-> "expansion", block |-> s.expansions[p].block,
                            din |-> s.expansions[p].din,
                            slot |-> MatchedSlot(s, s.rows, x, p)]
                   IN  {Leader} \cup {Follow(i) : i \in f}
                       \cup {Expand(p) : p \in m}
                       \cup UnmatchedUnits(s, none, free, x, n)
                       \cup {Extra(i) : i \in Leftover(free, Cardinality(none))}
    <2>1. battery_units(s, s, s.rows)
             = All(_ghost_filtered_bms_slots(s.rows, s.aggregate))
      BY <1>2, UnitsByKind
    <2>2. battery_units(s, s, s.rows) = All(slots)
      <3> HIDE DEF All, slots
      <3> QED
        BY <1>1, <2>1
    <2> QED
      BY <2>2
  <1>4. \A p \in Places(s.expansions) :
           /\ p \in matched
           /\ MatchedSlot(s, s.rows, slots, p) \in slots
           /\ s.owner[MatchedSlot(s, s.rows, slots, p)] = s.expansions[p].din
           /\ s.expansions[p].din # NoDin
    <2> SUFFICES ASSUME NEW p \in Places(s.expansions)
                 PROVE  /\ p \in matched
                        /\ MatchedSlot(s, s.rows, slots, p) \in slots
                        /\ s.owner[MatchedSlot(s, s.rows, slots, p)]
                              = s.expansions[p].din
                        /\ s.expansions[p].din # NoDin
      OBVIOUS
    <2> DEFINE R == RowsOf(s, s.rows, slots, p)
    <2>1. /\ R # {} /\ s.expansions[p].din # NoDin
          /\ \A i \in R : s.owner[i] = s.expansions[p].din
      BY ExpansionRows
    <2>2. p \in matched
      BY <2>1 DEF Matched
    <2>3. MatchedSlot(s, s.rows, slots, p) \in R
      BY <1>2, <2>2, MatchedRows
    <2>4. R \subseteq slots
      BY DEF RowsOf
    <2> HIDE DEF R
    <2> QED
      BY <2>1, <2>2, <2>3, <2>4
  <1>5. CASE u = Leader
    BY <1>2, <1>5, PowerwallRows
  <1>6. CASE u \in {Follower(i) : i \in followers}
    <2>1. PICK i \in followers : u = Follower(i)
      BY <1>6
    <2>2. i \in slots /\ s.owner[i] = PowerwallDin(s, s, Rank(i, followers) + 1)
      BY FollowersOfComplete
    <2>3. u.slot = i /\ u.din = s.owner[i]
      BY <2>1, <2>2
    <2> QED
      BY <1>2, <2>2, <2>3
  <1>7. CASE u \in {Expansion(p) : p \in matched}
    <2>1. PICK p \in matched : u = Expansion(p)
      BY <1>7
    <2>2. p \in Places(s.expansions)
      BY DEF Matched
    <2>3. u.slot = MatchedSlot(s, s.rows, slots, p) /\ u.din = s.expansions[p].din
      BY <2>1
    <2> HIDE DEF slots
    <2> QED
      BY <1>4, <2>2, <2>3
  <1>8. Others = {}
    <2>1. unmatched = {}
      BY <1>4
    <2> HIDE DEF unmatched, unclaimed, slots, n
    <2> QED
      BY <2>1 DEF UnmatchedUnits
  <1>9. CASE u \in {Extra(i) : i \in left}
    <2>1. PICK i \in left : u = Extra(i)
      BY <1>9
    <2>2. u.slot = i /\ u.din = NoDin
      BY <2>1
    <2>3. i \in slots /\ i \notin taken
      BY DEF Leftover
    <2>4. \A p \in Places(s.expansions) : MatchedSlot(s, s.rows, slots, p) \in taken
      BY <1>4 DEF ExpansionSlots
    <2>5. \A p \in Places(s.expansions) : s.expansions[p].din # s.owner[i]
      <3> HIDE DEF taken, slots
      <3> QED
        BY <1>2, <1>4, <2>3, <2>4
    <2> QED
      BY <2>2, <2>5
  <1> HIDE DEF Leader, Follower, Expansion, Extra, Others, followers, matched, left
  <1> QED
    BY <1>3, <1>5, <1>6, <1>7, <1>8, <1>9

LEMMA OwnBatteryHolds == TypeOK => OwnBattery
  <1> SUFFICES ASSUME TypeOK, AllRead,
                      got["config"] = got["status"], got["status"] = got["components"],
                      Complete(got["config"]),
                      NEW u \in Units
               PROVE  LET owner == got["config"].owner[u.slot] IN
                      IF u.din = NoDin
                      THEN \A p \in Places(got["config"].expansions) :
                              got["config"].expansions[p].din # owner
                      ELSE u.din = owner
    BY DEF OwnBattery
  <1>1. WellFormed(got["config"])
    BY SitesAssumption DEF TypeOK, AllRead, Neighbours, Payloads
  <1>2. u \in battery_units(got["config"], got["config"], got["config"].rows)
    BY DEF Units, Rows
  <1> QED
    BY <1>1, <1>2, OwnRows

\* Of a site that is described completely and stands still each unit is given
\* the row of its own pack.
THEOREM RowsAreTheirOwn == Spec => []OwnBattery
  BY TypeCorrect, OwnBatteryHolds, PTL

LEMMA NoPackDroppedHolds == TypeOK => NoPackDropped
  <1> DEFINE s == got["components"]
             packs == Installed(s)
  <1> SUFFICES ASSUME TypeOK, AllRead, got["status"] = s,
                      _bms_slots(s.rows) \ packs \subseteq Ghosts(s.rows),
                      \A i \in packs : 10 * s.rows[i].full >= Capacity(s.rows, packs)
               PROVE  packs \subseteq Slots
    BY DEF NoPackDropped
  <1>1. WellFormed(s)
    BY SitesAssumption DEF TypeOK, AllRead, Neighbours, Payloads
  <1>2. Slots = _ghost_filtered_bms_slots(s.rows, s.aggregate)
    BY DEF Slots, Rows
  <1>3. \E n \in Nat : DOMAIN s.rows = 0 .. n - 1
    BY <1>1, OneRowEach
  <1>4. /\ \A i \in DOMAIN s.rows : s.rows[i].full \in Nat
        /\ s.aggregate \in {0, Capacity(s.rows, packs)}
        /\ packs \subseteq _bms_slots(s.rows)
    BY <1>1 DEF WellFormed, Installed, _bms_slots
  <1> HIDE DEF s, packs
  <1> QED
    BY <1>2, <1>3, <1>4, PacksAreKept

\* No pack with a tenth of the site's capacity is taken for a ghost.
THEOREM PacksAreNotDropped == Spec => []NoPackDropped
  BY TypeCorrect, NoPackDroppedHolds, PTL
=============================================================================
