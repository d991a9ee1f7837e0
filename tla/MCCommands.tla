----------------------------- MODULE MCCommands -----------------------------
(***************************************************************************)
(* Small instances of the commands behind a router: a few calls of one     *)
(* family at a time, durations one of which is valid, and time for a       *)
(* signature and a setpoint to end.                                        *)
(***************************************************************************)
EXTENDS EnergySite, TLC

CallSymmetry == Permutations(Calls)

\* The families touch disjoint parts of the gateway, and calls meet nowhere
\* else.
OneFamily == {{"event"}, {"setpoint"}, {"contactor"}, {"other"}}
=============================================================================
