------------------------------- MODULE Intake -------------------------------
(***************************************************************************)
(* Rows that come by sheets and by migrations rather than by forms.  The   *)
(* tokens and overlaps of Imports, the rows of ImportRows and the database *)
(* of Migrations share nothing these modules hold: each moves while the    *)
(* others rest.                                                            *)
(***************************************************************************)
EXTENDS Imports

CONSTANTS
  Blank, SheetBus, NotABus, FleetWide, WorkCode, FoldOf, Readable, DayText,    \* ImportRows
  Format, Plain, ReadAs, Heading, Grids, Profile, Mappings, Seeded, SeedMapping, MaxAsked,
  Breakdown, Check, FiledDay, YearOf, Text, Lower, Driver, Part, Photo, WorkType,   \* Migrations
  Code, KindOf, None, MaxRequests

VARIABLES
  fleet, scrapped, km, lists, route, hidden, drivers, book, inspections,       \* ImportRows
  profiles, staged, asked,
  rev, db, requests,                                                           \* Migrations
  part    \* which of the three moves

importVars == vars
rowVars ==
  <<fleet, scrapped, km, lists, route, hidden, drivers, book, inspections, profiles, staged, asked>>
migrationVars == <<rev, db, requests>>
allVars == <<importVars, rowVars, migrationVars, part>>

S == INSTANCE ImportRows WITH
  Bus <- SheetBus, Code <- WorkCode, MaxWork <- MaxAsked,
  retired <- scrapped, entries <- book, work <- asked
M == INSTANCE Migrations WITH Day <- FiledDay, MaxWork <- MaxRequests, work <- requests

ASSUME IntakeAssumption == M!MigrationsAssumption /\ S!RowsAssumption

IntakeInit ==
  /\ Init /\ S!Init /\ M!Init
  /\ part \in {"imports", "rows", "migrations"}
IntakeNext ==
  \/ part = "imports" /\ Next /\ UNCHANGED <<rowVars, migrationVars, part>>
  \/ part = "rows" /\ S!Next /\ UNCHANGED <<importVars, migrationVars, part>>
  \/ part = "migrations" /\ M!Next /\ UNCHANGED <<importVars, rowVars, part>>
IntakeSpec == IntakeInit /\ [][IntakeNext]_allVars

\* The properties of ImportRows and Migrations, of these instances.
RowsKeepTheirNumbers == S!RowsKeepTheirNumbers
PreviewCountsTrue == S!PreviewCountsTrue
NoRowIsDropped == S!NoRowIsDropped
AppliedAsPreviewed == S!AppliedAsPreviewed
TicketForEveryBreakdown == M!TicketForEveryBreakdown
NumbersAreUnique == M!NumbersAreUnique
RoutingIsRecovered == M!RoutingIsRecovered
DriversStayApart == M!DriversStayApart
=============================================================================
