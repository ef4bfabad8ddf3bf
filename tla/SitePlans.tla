----------------------------- MODULE SitePlans -----------------------------
(***************************************************************************)
(* The dockings of one depot and the settings of its sites, side by side:  *)
(* each moves while the other rests.                                       *)
(***************************************************************************)
EXTENDS Dockings

CONSTANTS
  Site, Link, DefaultShifts, WorkType, DefaultCycles, Saves, CycleForms,    \* SiteSettings
  NewCategories, Worker, LastDay, MaxAsked

VARIABLES
  site, settings, plans, shift, cycle, seeded, filed, date, txn, asked,     \* SiteSettings
  part    \* which of the two moves

settingVars == <<site, settings, plans, shift, cycle, seeded, filed, date, txn, asked>>
allVars == <<vars, settingVars, part>>

T == INSTANCE SiteSettings WITH
  Forms <- Saves, MaxDay <- LastDay, MaxWork <- MaxAsked,
  config <- settings, plan <- plans, today <- date, work <- asked

PlansInit == Init /\ T!Init /\ part \in {"dockings", "settings"}
PlansNext ==
  \/ part = "dockings" /\ Next /\ UNCHANGED <<settingVars, part>>
  \/ part = "settings" /\ T!Next /\ UNCHANGED <<vars, part>>
PlansSpec == PlansInit /\ [][PlansNext]_allVars

\* Two properties of SiteSettings, of this instance.
NotOverruled == T!NotOverruled
OperatedIsSeeded == T!OperatedIsSeeded
\* Two statements the code does not keep.
SaveIsWhole == T!SaveIsWhole
ClosedTakesNothing == T!ClosedTakesNothing
=============================================================================
