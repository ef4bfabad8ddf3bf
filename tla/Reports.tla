------------------------------ MODULE Reports ------------------------------
(***************************************************************************)
(* The daily report, the investigations and the lists of one depot, side   *)
(* by side: they share nothing these modules hold, so each moves while the *)
(* others rest.                                                            *)
(***************************************************************************)
EXTENDS DailyReport

CONSTANTS
  Investigated, Complaints, Lookback, MaxListed, Investigator,     \* Investigations
  SentForms, MaxLooks,
  Breakdowns, Checks, Sessions, Photo, Imported, MonthStart,       \* Listing
  PageSize, MaxPhotos, Queries, Reader, MaxChanges

VARIABLES
  breakdown, inspected, complaint, report, inquiry, looks,    \* Investigations
  entry, source, closer, photo, reading, changes,             \* Listing
  part    \* which of the three moves

investigationVars == <<breakdown, inspected, complaint, report, inquiry, looks>>
listingVars == <<entry, source, closer, photo, reading, changes>>
allVars == <<vars, investigationVars, listingVars, part>>

V == INSTANCE Investigations WITH
  Breakdowns <- Investigated, MaxWork <- MaxLooks, txn <- inquiry, work <- looks
L == INSTANCE Listing WITH MaxWork <- MaxChanges, work <- changes

ASSUME ReportsAssumption == L!ListingAssumption

ReportsInit ==
  /\ Init /\ V!Init /\ L!Init
  /\ part \in {"report", "investigations", "lists"}
ReportsNext ==
  \/ part = "report" /\ Next /\ UNCHANGED <<investigationVars, listingVars, part>>
  \/ part = "investigations" /\ V!Next /\ UNCHANGED <<vars, listingVars, part>>
  \/ part = "lists" /\ L!Next /\ UNCHANGED <<vars, investigationVars, part>>
ReportsSpec == ReportsInit /\ [][ReportsNext]_allVars

\* The properties of Investigations and Listing, of these instances.
WordStands == V!WordStands
QuietDayPointsToWork == V!QuietDayPointsToWork
WalkMissesNothing == L!WalkMissesNothing
ResolvedShowsCompleted == L!ResolvedShowsCompleted
CompletedShowsItsSession == L!CompletedShowsItsSession
PhotosAsAggregated == L!PhotosAsAggregated
=============================================================================
