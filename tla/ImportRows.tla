----------------------------- MODULE ImportRows -----------------------------
(***************************************************************************)
(* What becomes of each row of an uploaded sheet: it is read from the      *)
(* grid, mapped by a profile, judged by the preview against the masters of *)
(* the site, and written by the commit, which judges it again.  Imports    *)
(* models tokens, overlaps and restarts; here one preview is followed by   *)
(* its commit, with edits of the masters in between.                       *)
(*                                                                         *)
(* A cell holds what the parsers and look-ups tell apart: a text that may  *)
(* read as a day in one format and another in the next, a clock time that  *)
(* parses or not, a name that differs from another in case only.           *)
(***************************************************************************)
EXTENDS Integers, Sequences, FiniteSets, FiniteSetsExt, Functions

CONSTANTS
  Blank,              \* an empty cell, and no row
  Bus, NotABus,       \* registrations; "N/A", "NIL", "-" ...
  FleetWide,          \* \in Bus, what a snag report files the latter under
  Code,               \* of types of work
  FoldOf,             \* what a name of a master list is compared by
  Readable,           \* clock texts parse_time reads
  DayText,            \* what is written for a date
  Format, Plain,      \* date formats of a mapping, and none
  ReadAs,             \* [Format -> [DayText -> day or Blank]]
  Heading,            \* the line with the column names: a row as any other
  Grids,              \* uploads: sequences of Heading, Blank and rows
  Profile,            \* ids of site_import_profiles rows
  Mappings,           \* what may be saved as a profile
  Seeded,             \* \in Profile, with the mapping the script gives it
  SeedMapping,
  MaxWork             \* bound: previews, and edits of profiles and masters

Key == {"date", "bus", "work", "complaint", "group", "time", "driver", "km", "status"}
Register == {"breakdown", "driver complaint", "work done", "pm schedule"}
Lists == {"defect types", "defect sources"}
Target == Register \cup Lists \cup {"snag report", "vehicles", "odometers"}

VARIABLES
  fleet, retired, km,   \* vehicles of the site, is_active negated, odometer_km: 0 is unread
  lists,                \* names on each master list
  route, hidden,        \* work_types: what a code is routed to, and is_active negated
  drivers,
  entries, inspections,
  profiles,
  staged,               \* the one preview
  work

masters == <<fleet, retired, km, lists, route, hidden, drivers>>
books == <<entries, inspections>>
vars == <<masters, books, profiles, staged, work>>

\* A sheet is a sequence of lines; a name is compared by a fold that is not blank,
\* in a cell as in a constant of a mapping; there are finitely many buses.
Named == DOMAIN FoldOf \cup {Blank}
RowsAssumption ==
  /\ IsFiniteSet(Bus)
  /\ Blank \notin {FoldOf[n] : n \in DOMAIN FoldOf}
  /\ \A grid \in Grids :
       /\ Len(grid) \in Nat /\ DOMAIN grid = 1 .. Len(grid)
       /\ \A i \in DOMAIN grid : grid[i] # Blank => grid[i].group \in Named
  /\ \A m \in Mappings \cup {SeedMapping} :
       "group" \in DOMAIN m.constant => m.constant["group"] \in Named

Asked == work < MaxWork /\ work' = work + 1
NoPreview == [stage |-> "none"]
Inspection == "inspection"
Unrouted == "unrouted"

-----------------------------------------------------------------------------
(* Reading the sheet: spreadsheet.read_sheet and apply_mappings.           *)
Trimmed(grid) ==
  SubSeq(grid, 1, Max({0} \cup {i \in DOMAIN grid : grid[i] # Blank}))
Openable(grid, p) == p.header <= Len(Trimmed(grid))
\* Absolute sheet rows: a blank one is passed over and still counted.
Numbered(grid, p) ==
  [i \in {i \in DOMAIN Trimmed(grid) : i > p.header + p.skip /\ grid[i] # Blank} |-> i]
\* A column is found by its heading; a constant is for every row.
Mapped(row, grid, p) ==
  [k \in Key |->
     IF k \in DOMAIN p.constant THEN p.constant[k]
     ELSE IF k \in p.bound /\ grid[p.header] = Heading THEN row[k] ELSE Blank]

-----------------------------------------------------------------------------
(* Judging a row: _validate_row.                                           *)
Dated(target) == target \in Register \cup {"snag report"}
\* What a sheet must have of each line, whatever else it brings.
Required(target) ==
  {k \in Key :
     \/ k = "bus" /\ target \notin Lists
     \/ k \in {"date", "complaint"} /\ Dated(target)
     \/ k = "work" /\ target = "snag report"
     \/ k = "time" /\ target = "breakdown"
     \/ k = "km" /\ target = "odometers"
     \/ k = "group" /\ target \in Lists}
\* require_mappings
Mappable(p) == Required(p.target) \subseteq p.bound \cup DOMAIN p.constant

InUse == {c \in Code : route[c] # Blank /\ c \notin hidden}
RouteOf(v) == IF v.work \in InUse THEN route[v.work] ELSE Blank

Blanks(p, v) ==
  {k \in Required(p.target) : v[k] = Blank} \
     (IF RouteOf(v) = Inspection THEN {"complaint"} ELSE {})
WorkErrors(p, v) ==
  IF p.target = "snag report" /\ RouteOf(v) \in {Blank, Unrouted} THEN {"work"} ELSE {}
BusNamed(p, v) == IF p.target = "snag report" /\ v.bus = NotABus THEN FleetWide ELSE v.bus
NeedsFleet(p) == p.target = "odometers" \/ Dated(p.target)
Entry(list, name) == {n \in list : FoldOf[n] = FoldOf[name]}
FieldErrors(p, v) ==
  IF BusNamed(p, v) = NotABus THEN {"bus"}
  ELSE (IF NeedsFleet(p) /\ BusNamed(p, v) \notin fleet THEN {"bus"} ELSE {})
    \cup (IF Dated(p.target) /\ v.group # Blank /\ Entry(lists["defect types"], v.group) = {}
            THEN {"group"} ELSE {})
    \cup (IF Dated(p.target) /\ ReadAs[p.format][v.date] = Blank THEN {"date"} ELSE {})
    \cup (IF p.target = "odometers" /\ v.km \notin Nat THEN {"km"} ELSE {})
Errors(p, v) ==
  LET missing == Blanks(p, v) \cup WorkErrors(p, v)
  IN  IF missing # {} THEN missing ELSE FieldErrors(p, v)
\* The bus and the group as the masters have them.
Canonical(p, v) ==
  [v EXCEPT !.bus = BusNamed(p, v),
            !.group = IF Dated(p.target) /\ @ # Blank
                      THEN CHOOSE n \in Entry(lists["defect types"], v.group) : TRUE ELSE @]

-----------------------------------------------------------------------------
(* _ensure_snag_dependencies: what the rows name and the masters lack.     *)
NewCodes(R) == {v.work : v \in R} \ (InUse \cup {Blank})
\* work_types.code is unique, and a hidden one is not found.
Ensurable(R) == \A c \in NewCodes(R) : route[c] = Blank
NewNames(R) ==
  {v.group : v \in {u \in R : u.group # Blank /\ Entry(lists["defect types"], u.group) = {}}}
\* One of the spellings of each.
Spellings(N) == {S \in SUBSET N : \A n \in N : Cardinality(Entry(S, n)) = 1}
NewBuses(R) ==
  ({v.bus : v \in R} \ (fleet \cup {Blank, NotABus}))
    \cup {b \in {FleetWide} \ fleet : \E v \in R : v.bus = NotABus}
\* The driver of a row that names no bus is passed over.
NewDrivers(R) == {v.driver : v \in {u \in R : u.bus # NotABus}} \ {Blank}
Ensure(R) ==
  /\ Ensurable(R)
  /\ \E S \in Spellings(NewNames(R)) :
       lists' = [lists EXCEPT !["defect types"] = @ \cup S]
  /\ route' = [c \in Code |-> IF c \in NewCodes(R) THEN "work done" ELSE route[c]]
  /\ fleet' = fleet \cup NewBuses(R)
  /\ drivers' = drivers \cup NewDrivers(R)
NothingToEnsure == UNCHANGED <<lists, route, fleet, drivers>>

-----------------------------------------------------------------------------
(* POST .../imports/preview: build_preview.                                *)
\* What makes a re-run an update: the registration, or the name; none for entries.
NaturalKey(p, v) ==
  CASE p.target \in {"vehicles", "odometers"} -> v.bus
    [] p.target \in Lists -> FoldOf[v.group]
    [] OTHER -> Blank
Known(p) ==
  CASE p.target \in {"vehicles", "odometers"} -> fleet
    [] p.target \in Lists -> {FoldOf[n] : n \in lists[p.target]}
    [] OTHER -> {}
\* The rows that are new: of a key nobody has and no earlier row has.
\* Broken: earlier rows of the sheet are not remembered.
NewRowsEach(p, vs) == {i \in DOMAIN vs : NaturalKey(p, vs[i]) \notin Known(p)}
NewRows(p, vs) ==
  {i \in DOMAIN vs :
     \/ NaturalKey(p, vs[i]) = Blank
     \/ /\ NaturalKey(p, vs[i]) \notin Known(p)
        /\ \A j \in DOMAIN vs : j < i => NaturalKey(p, vs[j]) # NaturalKey(p, vs[i])}

\* The masters are brought up to date first, and kept; then the rows judged.
BeginPreview(id, grid) ==
  LET p == profiles[id]
      values == {Mapped(grid[i], grid, p) : i \in DOMAIN Numbered(grid, p)}
  IN  /\ p # Blank /\ Mappable(p) /\ Openable(grid, p)
      /\ staged.stage \in {"none", "done"}
      /\ IF p.target = "snag report" THEN Ensure(values) ELSE NothingToEnsure
      /\ staged' = [stage |-> "read", profile |-> p, grid |-> grid]
      /\ Asked
      /\ UNCHANGED <<retired, km, hidden, books, profiles>>
Judge ==
  /\ staged.stage = "read"
  /\ LET p == staged.profile
         number == Numbered(staged.grid, p)
         value == [i \in DOMAIN number |-> Mapped(staged.grid[i], staged.grid, p)]
         wrong == [i \in DOMAIN number |-> Errors(p, value[i])]
         passed == [i \in {i \in DOMAIN number : wrong[i] = {}} |-> Canonical(p, value[i])]
     IN  staged' =
           [stage |-> "previewed", profile |-> p, grid |-> staged.grid, rows |-> passed,
            numbers |-> {number[i] : i \in DOMAIN passed},
            errors |-> UNION {{number[i]} \X wrong[i] : i \in DOMAIN number},
            new |-> Cardinality(NewRows(p, passed)), touched |-> FALSE]
  /\ UNCHANGED <<masters, books, profiles, work>>

-----------------------------------------------------------------------------
(* POST .../imports/commit: commit, all or nothing.                        *)
\* Dates are read again, in no format.
Day(v) == ReadAs[Plain][v.date]
\* fingerprint: of the target and the whole row.
Mark(target, v) == <<target, v>>
Marks == {e.mark : e \in entries}
RegisterOf(p, v) == IF p.target = "snag report" THEN RouteOf(v) ELSE p.target
Writes(p, v) ==
  RegisterOf(p, v) \in Register /\ Day(v) # Blank /\ Mark(p.target, v) \notin Marks
\* create_entry's own checks.
Refused(p, v) ==
  \/ RegisterOf(p, v) = "pm schedule"
  \/ v.bus \notin fleet \/ v.bus \in retired
  \/ RegisterOf(p, v) = "breakdown" /\ v.time \notin Readable
  \/ RegisterOf(p, v) = "breakdown" /\ v.driver \notin drivers \cup {Blank}
\* An import opens no ticket: its entries are closed, a snag report's
\* breakdowns if it says so, its complaints not.
Status(p, v) ==
  CASE RegisterOf(p, v) = "work done" -> "done"
    [] p.target # "snag report" -> "resolved"
    [] OTHER -> IF RegisterOf(p, v) = "breakdown" /\ v.status = "close" THEN "resolved" ELSE "open"
EntryFor(p, v) ==
  [mark |-> Mark(p.target, v), register |-> RegisterOf(p, v), day |-> Day(v), bus |-> v.bus,
   group |-> v.group, status |-> Status(p, v)]
Inspects(p, v) ==
  /\ p.target = "snag report" /\ RouteOf(v) = Inspection /\ Day(v) # Blank
  /\ v.bus \in fleet /\ <<v.bus, v.work, Day(v)>> \notin inspections
\* A lower figure is a stale sheet.
Highest(b, R) == Max({km[b]} \cup {v.km : v \in {u \in R : u.bus = b /\ u.km \in Nat}})
Readings(p, R) ==
  CASE p.target = "odometers" -> R
    [] p.target = "snag report" -> {v \in R : Writes(p, v) \/ Inspects(p, v)}
    [] OTHER -> {}

CommitEntries(p, R) ==
  /\ \A v \in R : Writes(p, v) => ~Refused(p, v)
  /\ entries' = entries \cup {EntryFor(p, v) : v \in {u \in R : Writes(p, u)}}
  /\ inspections' = inspections \cup {<<v.bus, v.work, Day(v)>> : v \in {u \in R : Inspects(p, u)}}
\* A name already on the list takes the sheet's spelling.
Upserted(list, vs) ==
  {n \in list : \A i \in DOMAIN vs : FoldOf[vs[i].group] # FoldOf[n]}
    \cup {vs[i].group : i \in {i \in DOMAIN vs : \A j \in DOMAIN vs :
            FoldOf[vs[j].group] = FoldOf[vs[i].group] => j <= i}}
\* Broken: nothing is ensured again.
Ensured(R) == TRUE
\* Everything has been ensured at the preview, but for a code hidden since.
StillEnsured(R) == NewCodes(R) = {}
Commit ==
  /\ staged.stage = "previewed"
  /\ LET p == staged.profile
         R == Range(staged.rows)
     IN  /\ p.target = "snag report" => StillEnsured(R)
         /\ CommitEntries(p, IF Dated(p.target) THEN R ELSE {})
         /\ lists' = IF p.target \in Lists
                       THEN [lists EXCEPT ![p.target] = Upserted(@, staged.rows)] ELSE lists
         /\ fleet' = IF p.target = "vehicles" THEN fleet \cup {v.bus : v \in R} ELSE fleet
         /\ km' = [b \in Bus |-> Highest(b, Readings(p, R))]
  /\ staged' = [staged EXCEPT !.stage = "done"]
  /\ UNCHANGED <<retired, route, hidden, drivers, profiles, work>>
\* Any row refused costs the commit, and the token is spent.
CommitFails ==
  /\ staged.stage = "previewed"
  /\ LET p == staged.profile
         R == Range(staged.rows)
     IN  \/ p.target = "snag report" /\ ~StillEnsured(R)
         \/ Dated(p.target) /\ \E v \in R : Writes(p, v) /\ Refused(p, v)
  /\ staged' = NoPreview
  /\ UNCHANGED <<masters, books, profiles, work>>

-----------------------------------------------------------------------------
(* Profiles, and edits of the masters.                                     *)
Save(id, mapping) ==
  /\ Asked
  /\ profiles' = [profiles EXCEPT ![id] = mapping]
  /\ UNCHANGED <<masters, books, staged>>
Delete(id) ==
  /\ Asked
  /\ profiles[id] # Blank
  /\ profiles' = [profiles EXCEPT ![id] = Blank]
  /\ UNCHANGED <<masters, books, staged>>
Seed ==
  /\ Asked
  /\ profiles' = [profiles EXCEPT ![Seeded] = SeedMapping]
  /\ UNCHANGED <<masters, books, staged>>

Edit ==
  /\ Asked
  /\ staged' = IF staged.stage = "previewed" THEN [staged EXCEPT !.touched = TRUE] ELSE staged
  /\ staged.stage # "read"
  /\ UNCHANGED <<books, profiles>>
Retire(b) ==
  /\ Edit
  /\ b \in fleet
  /\ retired' = IF b \in retired THEN retired \ {b} ELSE retired \cup {b}
  /\ UNCHANGED <<fleet, km, lists, route, hidden, drivers>>
Reroute(c, to) ==
  /\ Edit
  /\ route[c] # Blank
  /\ route' = [route EXCEPT ![c] = to]
  /\ UNCHANGED <<fleet, retired, km, lists, hidden, drivers>>
Hide(c) ==
  /\ Edit
  /\ route[c] # Blank
  /\ hidden' = IF c \in hidden THEN hidden \ {c} ELSE hidden \cup {c}
  /\ UNCHANGED <<fleet, retired, km, lists, route, drivers>>

Init ==
  /\ fleet \in SUBSET (Bus \ {FleetWide}) /\ retired = {} /\ km = [b \in Bus |-> 0]
  /\ lists = [l \in Lists |-> {}]
  /\ route \in [Code -> {Blank, "breakdown", Inspection}] /\ hidden = {}
  /\ drivers = {}
  /\ entries = {} /\ inspections = {}
  /\ profiles = [id \in Profile |-> Blank]
  /\ staged = NoPreview
  /\ work = 0

Next ==
  \/ \E id \in Profile :
       \/ \E m \in Mappings : Save(id, m)
       \/ Delete(id)
       \/ \E grid \in Grids : BeginPreview(id, grid)
  \/ Seed
  \/ Judge \/ Commit \/ CommitFails
  \/ \E b \in Bus : Retire(b)
  \/ \E c \in Code : Hide(c) \/ \E to \in Register \cup {Inspection, Unrouted} : Reroute(c, to)

Spec == Init /\ [][Next]_vars

-----------------------------------------------------------------------------
Committing == staged.stage = "previewed" /\ staged'.stage = "done"

\* "The row the user sees in Excel": the preview accounts for every row of the
\* sheet below the heading, accepted or refused and not both, under the number
\* it has in the sheet, whatever blank rows, headings and skipped rows precede it.
RowsKeepTheirNumbers ==
  staged.stage = "previewed" =>
    LET refused == {e[1] : e \in staged.errors}
    IN  /\ staged.numbers \cap refused = {}
        /\ staged.numbers \cup refused =
             {i \in DOMAIN staged.grid : i > staged.profile.header + staged.profile.skip
                                         /\ staged.grid[i] # Blank}

\* The counts a manager approves come true: committed with nothing in between,
\* a list grows by the rows the preview called new, and the fleet too, whether
\* the sheet repeats a name, respells it or names what the site has.
PreviewCountsTrue ==
  [][Committing /\ ~staged.touched =>
       LET target == staged.profile.target
       IN  /\ target \in Lists =>
                Cardinality(lists'[target]) = Cardinality(lists[target]) + staged.new
           /\ target \in {"vehicles", "odometers"} =>
                Cardinality(fleet') = Cardinality(fleet) + staged.new]_vars

\* "Never drop a written row": a commit that went through has put every
\* accepted row on the books, but for those whose work is routed nowhere now
\* and those whose date only the mapping's format reads.
OnTheBooks(p, v) ==
  Mark(p.target, v) \in Marks \/ <<v.bus, v.work, Day(v)>> \in inspections
NoRowIsDropped ==
  [][Committing =>
       \A v \in Range(staged.rows) :
         \/ ~Dated(staged.profile.target)
         \/ OnTheBooks(staged.profile, v)'
         \/ Day(v) = Blank
         \/ RegisterOf(staged.profile, v) = Unrouted]_vars

\* Not kept by the code, "apply exactly what was previewed": committed with
\* nothing in between, every accepted row is on the books, on the day the
\* preview read.
AppliedAsPreviewed ==
  [][staged.stage = "previewed" /\ staged' # staged /\ ~staged.touched /\ ~staged'.touched =>
       \A v \in Range(staged.rows) :
         LET p == staged.profile
             day == ReadAs[p.format][v.date]
         IN  \/ ~Dated(p.target)
             \/ <<v.bus, v.work, day>> \in inspections'
             \/ \E e \in entries' : e.mark = Mark(p.target, v) /\ e.day = day]_vars
=============================================================================
