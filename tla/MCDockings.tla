----------------------------- MODULE MCDockings -----------------------------
(***************************************************************************)
(* Instance of SitePlans for TLC.                                          *)
(***************************************************************************)
EXTENDS SitePlans, TLC

CONSTANTS low, high, di

MCMilestone == low :> 1 @@ high :> 3
Plan(km, days, leadKm, leadDays) ==
  [km |-> km, days |-> days, leadKm |-> leadKm, leadDays |-> leadDays]
MCForms == {Plan(2, 0, 1, 1), Plan(2, 2, 1, 1), Plan(0, 2, 2, 1), Plan(1, 0, 1, 1)}

Save(lead, categories, codes, windows) ==
  [columns |-> [reminder_lead |-> lead, docking_slot |-> "default"],
   categories |-> categories, codes |-> codes, windows |-> windows]
MCSaves == {Save("default", {"bus", "truck"}, {"p"}, {}),
            Save("short", {"bus"}, {"q"}, {"A"}),
            Save("short", {"truck"}, {"p", "q"}, {"A", "B"})}
Cycle(days, cap) == [days |-> days, cap |-> cap]
MCCycles == {<<>>, di :> Cycle(2, 5)}
MCDefaultCycles == di :> Cycle(1, 0)
=============================================================================
