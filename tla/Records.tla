------------------------------ MODULE Records ------------------------------
(***************************************************************************)
(* Unit histories, checklists, registers and inbox of one depot, side by   *)
(* side: the four share nothing these modules hold, so each moves while    *)
(* the others rest.                                                        *)
(***************************************************************************)
EXTENDS FittedUnits

CONSTANTS
  Person, Phone, News, Audience, MaxPushes,                        \* Inbox
  DepotBus, Staff, ListRow, Code, Breakdowns, Sessions, Client, Photo, MaxSaves,    \* Registers
  Variant, Rung, Label, InspectionDay, Migrations, Catalogue,      \* Checklists
  ItemId, InspectionId, Request, SentForms, MaxChanges

VARIABLES
  sheets, items, inspections, variant, outOfFleet, head, asked, crossed, changes,
  open, scrapped, roster, staffed, list, entry, completed, form, photo, files, moving, saves,
  phone, gone, calls, left, inbox, fan, told, pushes,
  part    \* which of the four moves

unitVars == vars
checklistVars == <<sheets, items, inspections, variant, outOfFleet, head, asked, crossed, changes>>
registerVars == <<open, scrapped, roster, staffed, list, entry, completed, form,
                  photo, files, moving, saves>>
inboxVars == <<phone, gone, calls, left, inbox, fan, told, pushes>>
recordVars == <<unitVars, checklistVars, registerVars, inboxVars, part>>

C == INSTANCE Checklists WITH
  Day <- InspectionDay, MaxWork <- MaxChanges,
  retired <- outOfFleet, txn <- asked, raced <- crossed, work <- changes
R == INSTANCE Registers WITH
  Bus <- DepotBus, Person <- Staff, Row <- ListRow, MaxWork <- MaxSaves,
  retired <- scrapped, row <- list, work <- saves
I == INSTANCE Inbox WITH MaxWork <- MaxPushes, work <- pushes

ASSUME RecordsAssumption == C!ChecklistAssumption /\ R!RegistersAssumption

RecordsInit ==
  /\ Init /\ C!Init /\ R!Init /\ I!Init
  /\ part \in {"units", "checklists", "registers", "inbox"}
RecordsNext ==
  \/ part = "units" /\ Next /\ UNCHANGED <<checklistVars, registerVars, inboxVars, part>>
  \/ part = "checklists" /\ C!Next /\ UNCHANGED <<unitVars, registerVars, inboxVars, part>>
  \/ part = "registers" /\ R!Next /\ UNCHANGED <<unitVars, checklistVars, inboxVars, part>>
  \/ part = "inbox" /\ I!Next /\ UNCHANGED <<unitVars, checklistVars, registerVars, part>>
RecordsSpec == RecordsInit /\ [][RecordsNext]_recordVars

\* The properties of Checklists, Registers and Inbox, of these instances.
OneLineOnce == C!OneLineOnce
AnswersKeepTheirLine == C!AnswersKeepTheirLine
TicksOutliveTheSheet == C!TicksOutliveTheSheet
ReadsBack == R!ReadsBack
NoTicketIsOrphaned == R!NoTicketIsOrphaned
EveryPhotoHasItsFile == R!EveryPhotoHasItsFile
NobodyIsRelabelled == R!NobodyIsRelabelled
NobodyElseIsSilenced == I!NobodyElseIsSilenced
SignedOutIsSilent == I!SignedOutIsSilent
=============================================================================
