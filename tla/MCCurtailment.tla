---------------------------- MODULE MCCurtailment ---------------------------
(***************************************************************************)
(* Small instances of Curtailment: a few calls, a gateway that starts with *)
(* or without the saved settings, an owner who changes either of them, and *)
(* a writer of another setting.                                            *)
(***************************************************************************)
EXTENDS Curtailment, TLC

Set1 == [k \in Keys |->
    CASE k = Mode -> Str("autonomous")
      [] k = Reserve -> Num(2000)
      [] OTHER -> Absent]

Fractional == [Set1 EXCEPT ![Reserve] = Num(ScaledToRawReserve(5))]

Unset == [Set1 EXCEPT ![Mode] = Absent, ![Reserve] = Absent]

Unreadable == [Set1 EXCEPT ![Reserve] = Str("never")]

AnyFactory == {Set1, Fractional, Unset, Unreadable}
WholeFactory == {Set1}

FractionalFactory == {Fractional}

OwnerAsks == SetBackupReserve \cup {Set(Mode, Str("self_consumption"))}
               \cup {Set("unrelated", Num(1))}

OtherAsks == {Set("unrelated", Num(1))}

CallSymmetry == Permutations(Calls)
=============================================================================
