--------------------------- MODULE MCFittedUnits ---------------------------
(* Instances of FittedUnits for TLC. *)
EXTENDS FittedUnits, TLC

CONSTANTS s1
MCSiteOf == [b \in Bus |-> s1]
MCTyped == {NoKm, MaxKm}
=============================================================================
