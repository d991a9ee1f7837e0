----------------------------- MODULE SiteConfig -----------------------------
(***************************************************************************)
(* The gateway's config.json as the client edits it: the settings it       *)
(* writes, how a batch of dotted-path updates is merged into a document,   *)
(* what the gateway keeps of a document it accepts, and the updates each   *)
(* setter of PowerwallClient can produce.                                  *)
(*                                                                         *)
(* A document is a function from the settings to JSON values; a setting    *)
(* whose key, or whose enclosing section, is missing maps to Absent.       *)
(* Numbers are in hundredths (the raw reserve 9.75 is Num(975)).  Settings *)
(* no setter touches are represented by "unrelated".                       *)
(***************************************************************************)
EXTENDS Integers

CONSTANTS Percents,     \* percentages that callers pass, valid or not
          Kilowatts,    \* site-meter limits that callers pass, valid or not
          TouModes      \* TOU mode strings that callers pass

Str(s)  == <<"str", s>>
Num(n)  == <<"num", n>>
Bool(b) == <<"bool", b>>
Absent  == <<"absent">>

OperationModes  == {"self_consumption", "autonomous", "backup"}
GridExportRules == {"battery_ok", "pv_only", "never"}

Strings == OperationModes \cup GridExportRules \cup TouModes

Values == ({"str"} \X Strings) \cup ({"num"} \X Int) \cup ({"bool"} \X BOOLEAN)
            \cup {Absent}

SiteInfoKeys == {"backup_reserve_percent", "customer_preferred_export_rule",
                 "disallow_charge_from_grid_with_solar_installed",
                 "on_grid_solar_curtailment_enabled",
                 "max_site_meter_power_ac", "min_site_meter_power_ac"}

Keys == SiteInfoKeys \cup {"default_real_mode", "TOU_mode", "unrelated"}

Config == [Keys -> Values]

\* The flags the gateway stores only while they are true.
FlagKeys == {"disallow_charge_from_grid_with_solar_installed",
             "on_grid_solar_curtailment_enabled"}

(***************************************************************************)
(* A batch of updates assigns JSON values to some of the settings.         *)
(***************************************************************************)
IsUpdate(u) == /\ u = [k \in DOMAIN u |-> u[k]]
               /\ DOMAIN u \subseteq Keys
               /\ \A k \in DOMAIN u : u[k] \in Values

NoUpdate == [k \in {} |-> Absent]

\* Mistakes for the runs to find: a missing setting is posted as a null; an
\* update under site_info replaces the section.
NullForMissing(document, u) ==
    [k \in Keys |-> CASE k \in DOMAIN u -> u[k]
                      [] k \notin DOMAIN u /\ document[k] = Absent -> <<"null">>
                      [] OTHER -> document[k]]

FreshSection(document, u) ==
    [k \in Keys |-> CASE k \in DOMAIN u -> u[k]
                      [] k \notin DOMAIN u /\ k \in SiteInfoKeys
                           /\ DOMAIN u \cap SiteInfoKeys # {} -> Absent
                      [] OTHER -> document[k]]

\* write_config's loop over _apply_dotted_update: a missing section is
\* created, the other keys of an existing one stay.
ApplyUpdates(document, u) ==
    [k \in Keys |-> IF k \in DOMAIN u THEN u[k] ELSE document[k]]

\* What the gateway keeps: a false flag is dropped, not stored.
Stored(document) ==
    [k \in Keys |-> IF k \in FlagKeys /\ document[k] = Bool(FALSE)
                    THEN Absent ELSE document[k]]

-----------------------------------------------------------------------------
(***************************************************************************)
(* The setters, as the set of updates each hands to write_config for the   *)
(* arguments it does not refuse with ValueError.                           *)
(***************************************************************************)
Set(k, v) == [key \in {k} |-> v]

IsPercent(p) == 0 <= p /\ p <= 100

\* raw = percent * 0.95 + 5, in hundredths.
ScaledToRawReserve(percent) == 95 * percent + 500

SetBackupReserve ==
    {Set("backup_reserve_percent", Num(ScaledToRawReserve(p))) :
        p \in {q \in Percents : IsPercent(q)}}

SetBackupReserveRaw ==
    {Set("backup_reserve_percent", Num(100 * p)) :
        p \in {q \in Percents : IsPercent(q)}}

SetOperationMode ==
    {Set("default_real_mode", Str(mode)) : mode \in OperationModes}

SetTouMode == {Set("TOU_mode", Str(mode)) : mode \in TouModes \ {""}}

GridKeys == {"customer_preferred_export_rule",
             "disallow_charge_from_grid_with_solar_installed"}

\* One batch for whichever of the two arguments are given.
GridImportExport(given, rule, disallow) ==
    [k \in given |-> IF k = "customer_preferred_export_rule"
                     THEN Str(rule) ELSE Bool(disallow)]

\* Either half or both, never none.
SetGridImportExport ==
    {GridImportExport(given, rule, disallow) :
        given \in SUBSET GridKeys \ {{}}, rule \in GridExportRules,
        disallow \in BOOLEAN}

SetExportRule ==
    {Set("customer_preferred_export_rule", Str(rule)) : rule \in GridExportRules}

SetGridCharging ==
    {Set("disallow_charge_from_grid_with_solar_installed", Bool(~enabled)) :
        enabled \in BOOLEAN}

SetOnGridSolarCurtailment ==
    {Set("on_grid_solar_curtailment_enabled", Bool(enabled)) :
        enabled \in BOOLEAN}

SetImportLimit ==
    {Set("max_site_meter_power_ac", Num(100 * kw)) :
        kw \in {k \in Kilowatts : k >= 0}}

SetExportLimit ==
    {Set("min_site_meter_power_ac", Num(-100 * kw)) :
        kw \in {k \in Kilowatts : k >= 0}}

\* The one write of curtail and of restore_from_curtailment: mode and reserve
\* together.
ModeAndReserve(mode, reserve) ==
    [k \in {"default_real_mode", "backup_reserve_percent"} |->
        IF k = "default_real_mode" THEN mode ELSE reserve]

\* Every update a setter can ask write_config for.
SetterUpdates ==
    UNION {SetBackupReserve, SetBackupReserveRaw, SetOperationMode, SetTouMode,
           SetGridImportExport, SetExportRule, SetGridCharging,
           SetOnGridSolarCurtailment, SetImportLimit, SetExportLimit}
=============================================================================
