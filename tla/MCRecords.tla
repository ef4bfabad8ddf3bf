----------------------------- MODULE MCRecords -----------------------------
(***************************************************************************)
(* Instance of Records for TLC.                                            *)
(***************************************************************************)
EXTENDS Records, TLC

CONSTANTS s1, wash, tyre, v1, k1, p1, p2, n1, n2

MCSiteOf == [b \in Bus |-> s1]
MCTyped == {NoKm, MaxKm}
MCAudience == [n \in {n1, n2} |-> {p1, p2}]

Nominating == [required |-> TRUE, keyed |-> TRUE]
Standard == [required |-> TRUE, keyed |-> FALSE]
Optional == [required |-> FALSE, keyed |-> FALSE]
\* The plain sheet of the variant comes with a nominated line, the docking
\* sheet with another.
MCCatalogue ==
  <<[s \in {[variant |-> v1, km |-> "none"]} |-> wash :> Nominating],
    [s \in {[variant |-> v1, km |-> k1]} |-> tyre :> Standard]>>
MCForms == {(wash :> Nominating @@ tyre :> Optional), (tyre :> Optional)}

\* Variants matter to the checklists alone.
MCInit == RecordsInit /\ (part # "checklists" => variant = [b \in Bus |-> v1])
MCSpec == MCInit /\ [][RecordsNext]_recordVars
=============================================================================
