----------------------------- MODULE SiteReads ------------------------------
(***************************************************************************)
(* A caller who reads the configuration, the status and the components of  *)
(* a site in three requests, and what the pure helpers make of them:       *)
(* battery_units, the reserve that local_config shows and the level that   *)
(* live_status does.  The site changes meanwhile: packs come and go, are   *)
(* replaced or fall silent, charge or discharge, the gateway restarts and  *)
(* has no rows yet, the owner sets the reserve.  A request that fails      *)
(* gives nothing and is left out.                                          *)
(*                                                                         *)
(* A site is the payloads it would answer with and, what no payload says,  *)
(* the DIN of the pack behind each row, NoDin for a row of no pack, and    *)
(* the percentage its reserve was last set to.  Of the energy in the whole *)
(* battery only its share of the capacity matters.                         *)
(***************************************************************************)
EXTENDS BatteryUnits, Scaling

CONSTANTS Sites,       \* bound: the sites there may be
          NoSite,
          MaxChanges   \* bound: how often the site changes

\* The energy in the battery is so many of this many parts of its capacity.
Parts == 40

\* The packs behind the rows.
Installed(s) == {i \in DOMAIN s.rows : s.owner[i] # NoDin}

\* What the gateway's payloads agree on: row 0 is none of the expansions', a
\* pack has a capacity and one row, a serial number is one pack's; the status
\* has the capacity of the packs that have rows, or none.
WellFormed(s) ==
    /\ s.blocks \in Seq(Elements(s.blocks)) /\ s.dins \in Seq(Elements(s.dins))
    /\ s.expansions \in Seq(Elements(s.expansions))
    /\ DOMAIN s.owner = DOMAIN s.rows
    /\ \E n \in 0 .. 100 : DOMAIN s.rows = 0 .. n - 1
    /\ \A i \in DOMAIN s.rows : s.rows[i].full \in Nat
    /\ \A i \in Installed(s) : s.rows[i].full > 0
    /\ \A i, j \in Installed(s) : s.owner[i] = s.owner[j] => i = j
    /\ \A p, q \in Places(s.expansions) :
          s.expansions[p].din.serial = s.expansions[q].din.serial => p = q
    /\ \A p \in Places(s.expansions) :
          s.expansions[p].din.serial \notin {component_serial(s.rows, 0), NoSerial}
    /\ s.aggregate \in {0, Capacity(s.rows, Installed(s))}
    /\ s.charge \in 0 .. Parts
    /\ s.asked \in 0 .. 100 /\ s.reserve \in Int
    /\ scaled_to_raw(s.asked * Percent, s.reserve)

ASSUME SitesAssumption == /\ \A s \in Sites : WellFormed(s)
                          /\ NoSite \notin Sites
                          /\ MaxChanges \in Nat

Payloads == {"config", "status", "components"}

VARIABLES site,     \* what the gateway would answer now
          changes,  \* history: how often the site has changed
          got       \* the site each payload was read from

vars == <<site, changes, got>>

\* The settings or the Powerwalls change, or one row does, or the gateway
\* restarts.
Near(s, t) ==
    \/ s.rows = t.rows /\ s.owner = t.owner
    \/ /\ [s EXCEPT !.rows = 0, !.owner = 0, !.aggregate = 0]
            = [t EXCEPT !.rows = 0, !.owner = 0, !.aggregate = 0]
       /\ \/ t.rows = << >>
          \/ Cardinality({i \in DOMAIN s.rows \cup DOMAIN t.rows :
                 ~ /\ i \in DOMAIN s.rows /\ i \in DOMAIN t.rows
                   /\ s.rows[i] = t.rows[i] /\ s.owner[i] = t.owner[i]}) = 1

Neighbours == [s \in Sites |-> {t \in Sites \ {s} : Near(s, t)}]

TypeOK == /\ site \in DOMAIN Neighbours
          /\ changes \in 0 .. MaxChanges
          /\ DOMAIN got = Payloads
          /\ \A k \in Payloads : got[k] # NoSite => got[k] \in DOMAIN Neighbours

Init == /\ site \in Sites
        /\ changes = 0
        /\ got = [k \in Payloads |-> NoSite]

Change == /\ changes < MaxChanges
          /\ site' \in Neighbours[site]
          /\ changes' = changes + 1
          /\ UNCHANGED got

\* A mistake for the runs to find: an unusable reply is an empty payload.
ReadOrEmpty(k) == /\ got[k] = NoSite
                  /\ got' \in {[got EXCEPT ![k] = site], [got EXCEPT ![k] = << >>]}
                  /\ UNCHANGED <<site, changes>>

\* get_config, get_status or get_components is answered.
Read(k) == /\ got[k] = NoSite
           /\ got' = [got EXCEPT ![k] = site]
           /\ UNCHANGED <<site, changes>>

Next == Change \/ \E k \in Payloads : Read(k)

Spec == Init /\ [][Next]_vars

-----------------------------------------------------------------------------
(* What the caller has.                                                    *)

AllRead == \A k \in Payloads : got[k] # NoSite

Rows == got["components"].rows

\* Packs are read from the first slot of BMS rows that count.
Slots == _ghost_filtered_bms_slots(Rows, got["status"].aggregate)

Units == battery_units(got["config"], got["status"], Rows)

\* The reserves that local_config may show.
local_config(s) ==
    LET low == (100 * (s.reserve - Buffer)) \div 95 IN
    {x \in low - 1 .. low + 1 : raw_to_scaled(s.reserve, x)}

\* The levels that live_status may show, none for None.
percentage_charged(s) ==
    IF s.aggregate = 0 THEN {} ELSE battery_level(s.charge, Parts)

-----------------------------------------------------------------------------
(* Properties                                                              *)

\* However the site has changed between the three requests, no two units read
\* the same row, if the row of the leader is none of the expansions'.
NoRowTwice ==
    AllRead /\ (\A p \in Places(got["config"].expansions) :
                   RowsOf(got["config"], Rows, {0}, p) = {})
    => \A u, v \in Units : u.slot = v.slot => u = v

\* However it has changed, every row that counts is read by a unit, and none of
\* the energy in the site is left out.
EveryRowRead == AllRead => Slots \subseteq {u.slot : u \in Units}

\* However it has changed, a row that alone reports a configured expansion is
\* that expansion's, if it is not the leader's, and an expansion is shown with
\* another pack's row only if no row reports its own serial number: the DIN of a
\* replaced pack may name another one, the DIN of a pack that is there does not.
DinOfTheRow ==
    LET Reporting(d) == {s \in Slots : component_serial(Rows, s) = d.serial} IN
    AllRead =>
        \A u \in Units, p \in Places(got["config"].expansions) :
            LET d == got["config"].expansions[p].din IN
            /\ u.role # "leader" /\ Reporting(d) = {u.slot} => u.din = d
            /\ u.role = "expansion" /\ u.din = d /\ Reporting(d) # {} =>
                  u.slot \in Reporting(d)

\* If the rows of no pack look like ghosts, and the status is of the same moment,
\* a pack with a tenth of the capacity or more is never taken for a ghost, however
\* much it looks like one.  (A smaller one is within the tolerance.)
NoPackDropped ==
    LET s == got["components"] IN
    /\ AllRead
    /\ got["status"] = s
    /\ _bms_slots(s.rows) \ Installed(s) \subseteq Ghosts(s.rows)
    /\ \A i \in Installed(s) : 10 * s.rows[i].full >= Capacity(s.rows, Installed(s))
    => Installed(s) \subseteq Slots

\* A site that the payloads describe completely: row 0 is the leader's; each
\* follower has a row, after its predecessor's and without serial number; each
\* expansion has one, is no Powerwall and has a serial number of its own; every
\* pack that is no Powerwall reports its serial number; and nothing else counts
\* as a row.
Complete(s) ==
    LET Row(d) == {i \in Installed(s) : s.owner[i] = d}
        powerwalls == 0 .. PowerwallCount(s, s) - 1
        Powerwall(k) == PowerwallDin(s, s, k)
    IN /\ Row(Powerwall(0)) = {0}
       /\ \A k \in powerwalls : Row(Powerwall(k)) # {}
       /\ \A k, l \in powerwalls :
             k < l => \A i \in Row(Powerwall(k)), j \in Row(Powerwall(l)) : i < j
       /\ \A p \in Places(s.expansions) :
             LET d == s.expansions[p].din
             IN  /\ Row(d) # {}
                 /\ \A k \in powerwalls : Powerwall(k) # d
                 /\ \A i \in Installed(s) :
                       s.owner[i].serial = d.serial => s.owner[i] = d
       /\ \A i \in Installed(s) \ {0} :
             IF \E k \in powerwalls : s.owner[i] = Powerwall(k)
             THEN component_serial(s.rows, i) = NoSerial
             ELSE /\ component_serial(s.rows, i) = s.owner[i].serial
                  /\ component_serial(s.rows, i) # NoSerial
       /\ _ghost_filtered_bms_slots(s.rows, s.aggregate) = Installed(s)

\* Of a site like that, read while it stood still, each unit is given the row of
\* its own pack, wherever the row is; a unit without DIN has a row of a pack
\* that the configuration does not know.
OwnBattery ==
    /\ AllRead
    /\ got["config"] = got["status"] /\ got["status"] = got["components"]
    /\ Complete(got["config"])
    => \A u \in Units :
          LET owner == got["config"].owner[u.slot] IN
          IF u.din = NoDin
          THEN \A p \in Places(got["config"].expansions) :
                  got["config"].expansions[p].din # owner
          ELSE u.din = owner

\* A whole percentage that the owner sets is the one local_config shows.
ReserveReadsBack ==
    got["config"] # NoSite =>
        local_config(got["config"]) = {got["config"].asked * Percent}

\* A battery that holds anything has a level, on one scale with the reserve: if
\* it holds as much, or more, it is not shown below it, and if less, not above.
LevelFitsTheReserve ==
    LET s == got["config"]
        t == got["status"]
    IN  s # NoSite /\ t # NoSite =>
            /\ t.aggregate # 0 /\ t.charge # 0 => percentage_charged(t) # {}
            /\ \A level \in percentage_charged(t), shown \in local_config(s) :
                  /\ t.charge * MaxPercent >= s.reserve * Parts => level >= shown
                  /\ t.charge * MaxPercent <= s.reserve * Parts => level <= shown
=============================================================================
