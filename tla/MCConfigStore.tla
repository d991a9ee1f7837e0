---------------------------- MODULE MCConfigStore ---------------------------
(***************************************************************************)
(* Small instances of ConfigStore: three calls, the updates that matter to *)
(* a race (same setting, two settings at once, a flag the gateway drops),  *)
(* and an app that rewrites the setting the calls fight over.              *)
(***************************************************************************)
EXTENDS ConfigStore, TLC

RaceAsks == SetBackupReserve \cup {ModeAndReserve(Str("backup"), Num(10000))}
              \cup {u \in SetGridCharging :
                      u["disallow_charge_from_grid_with_solar_installed"] = Bool(FALSE)}

AppAsks == SetBackupReserveRaw \cup SetBackupReserve

NoAsks == {}

Factory == [k \in Keys |->
    CASE k = "default_real_mode" -> Str("self_consumption")
      [] k = "backup_reserve_percent" -> Num(ScaledToRawReserve(5))
      [] k = "disallow_charge_from_grid_with_solar_installed" -> Bool(TRUE)
      [] k = "unrelated" -> Num(1)
      [] OTHER -> Absent]

Factories == {Factory}

CallSymmetry == Permutations(Calls)
=============================================================================
