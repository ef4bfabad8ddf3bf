------------------------------ MODULE Imports ------------------------------
(***************************************************************************)
(* Spreadsheet imports: a sheet is previewed, staged under a token in the  *)
(* memory of the process, and committed later by the token.  A row of a    *)
(* sheet is known by its content, so what was written before is recognised *)
(* when a month is loaded again.                                           *)
(*                                                                         *)
(* A commit first reads what the site holds, then writes its rows and      *)
(* commits once, all or nothing.  Two commits may overlap; the unique      *)
(* index on the fingerprint is checked when the later one writes, and      *)
(* inspections have no such index.                                         *)
(***************************************************************************)
EXTENDS Integers, Sequences, FiniteSets, Functions

CONSTANTS
  Site, Bus,
  Row,        \* rows as written: equal rows of one target have one fingerprint
  BusOf,      \* the registration a row names
  Kind,       \* what TYPE OF WORK routes a row to, and how the sheet says it ended
  Sheets,     \* sheets that may be uploaded: a target and its rows
  Worker,     \* commits that may be in flight at once
  Token,      \* bound: previews ever staged
  Nobody      \* the owner of a bus no site has

Target == {"register", "snag report", "vehicles"}
KindValue == {"breakdown closed", "breakdown open", "complaint", "work done", "inspection",
              "in service", "withdrawn"}

ASSUME SheetAssumption ==
  /\ BusOf \in [Row -> Bus] /\ Kind \in [Row -> KindValue]
  /\ \A sheet \in Sheets : sheet.target \in Target /\ sheet.rows \in Seq(Row)
  /\ Nobody \notin Site

VARIABLES
  owner,      \* vehicles.site_code
  retired,    \* vehicles.is_active, negated
  previews,   \* PreviewStore
  used,       \* tokens ever handed out
  entries,    \* entries with a source_fingerprint
  inspected,  \* how many inspection entries came of a row of a snag report
  runs,       \* site_import_runs
  job         \* each commit under way

vars == <<owner, retired, previews, used, entries, inspected, runs, job>>
fleetVars == <<owner, retired>>
dbVars == <<entries, inspected, runs>>

NoPreview == [stage |-> "none"]
Idle == [stage |-> "idle"]
\* A sheet, and which of its rows passed.
Staged == [stage : {"staged"}, site : Site, target : Target, rows : Seq(Row), passed : SUBSET Nat]
\* What a commit read: the entries and inspections the site holds of its rows,
\* and which buses were retired.
Reading == [stage : {"read"}, token : Token, preview : Staged, seen : SUBSET Row,
            done : SUBSET Row, retired : SUBSET Bus]
Entry == [site : Site, target : Target, row : Row, run : Token,
          status : {"open", "resolved", "done"}]
Run == [site : Site, target : Target, token : Token,
        accepted : Nat, unchanged : Nat, rejected : Nat]

TypeOK ==
  /\ owner \in [Bus -> Site \cup {Nobody}]
  /\ retired \subseteq Bus
  /\ previews \in [Token -> Staged \cup {NoPreview}]
  /\ \A t \in Token : previews[t] # NoPreview => previews[t].passed \subseteq DOMAIN previews[t].rows
  /\ used \subseteq Token
  /\ entries \subseteq Entry
  /\ inspected \in [Site -> [Row -> Nat]]
  /\ runs \subseteq Run
  /\ job \in [Worker -> Reading \cup {Idle}]
  /\ \A w \in Worker : job[w] # Idle =>
       job[w].preview.passed \subseteq DOMAIN job[w].preview.rows

-----------------------------------------------------------------------------
(* Preview.                                                                *)
BusesOf(R) == {BusOf[r] : r \in R}
Fleet(s) == {b \in Bus : owner[b] = s}
NewBuses(s, R) == BusesOf(R) \ Fleet(s)

\* A registration is unique across all sites.
OwnedElsewhere(B) == \E b \in B : owner[b] # Nobody

\* _ensure_snag_dependencies: the buses a sheet names and the site has not.
Missing(s, sheet) == IF sheet.target = "snag report" THEN NewBuses(s, Range(sheet.rows)) ELSE {}

\* _validate_row: a row must name a bus of the site, in service or not.
Accepted(s, sheet) ==
  {i \in DOMAIN sheet.rows : \/ sheet.target = "vehicles"
                             \/ BusOf[sheet.rows[i]] \in Fleet(s) \cup Missing(s, sheet)}

JoinFleet(s, B) == owner' = [b \in Bus |-> IF b \in B THEN s ELSE owner[b]]

Preview(s, sheet, t) ==
  /\ t \notin used
  /\ ~OwnedElsewhere(Missing(s, sheet))
  /\ JoinFleet(s, Missing(s, sheet))
  /\ previews' = [previews EXCEPT ![t] =
       [stage |-> "staged", site |-> s, target |-> sheet.target,
        rows |-> sheet.rows, passed |-> Accepted(s, sheet)]]
  /\ used' = used \cup {t}
  /\ UNCHANGED <<retired, dbVars, job>>

\* _sweep: thirty minutes are over.
Expire(t) ==
  /\ previews[t] # NoPreview
  /\ previews' = [previews EXCEPT ![t] = NoPreview]
  /\ UNCHANGED <<fleetVars, used, dbVars, job>>

-----------------------------------------------------------------------------
(* Commit.                                                                 *)
\* Broken: the token is good for another commit.
TakeAgain(t) == UNCHANGED previews
\* PreviewStore.take: the token is gone, whatever becomes of it.
Take(t) == previews' = [previews EXCEPT ![t] = NoPreview]

Held(s, target) == {e.row : e \in {f \in entries : f.site = s /\ f.target = target}}

\* _commit_inspection_row: one for a bus, a work type and a day.
InspectedAt(s) == {r \in Row : inspected[s][r] > 0}

BeginCommit(w, t, s) ==
  /\ job[w] = Idle
  /\ previews[t] # NoPreview
  /\ Take(t)
  /\ job' = [job EXCEPT ![w] =
       IF previews[t].site = s
         THEN [stage |-> "read", token |-> t, preview |-> previews[t],
               seen |-> Held(s, previews[t].target), done |-> InspectedAt(s),
               retired |-> retired]
         ELSE Idle]
  /\ UNCHANGED <<fleetVars, used, dbVars>>

IsEntry(p, r) ==
  p.target = "register" \/ (p.target = "snag report" /\ Kind[r] # "inspection")
EntryRows(p) == {i \in p.passed : IsEntry(p, p.rows[i])}
RowsOf(p) == {p.rows[i] : i \in p.passed}

ToWrite(j) == {j.preview.rows[i] : i \in EntryRows(j.preview)} \ j.seen
ToInspect(j) ==
  IF j.preview.target = "snag report"
    THEN {r \in RowsOf(j.preview) : Kind[r] = "inspection"} \ j.done ELSE {}

\* Rows held before, and repetitions of one row in the sheet.
Unchanged(j) == Cardinality(EntryRows(j.preview)) - Cardinality(ToWrite(j))

\* A register sheet closes what it brings; a snag report only breakdowns it
\* marks as closed.
Status(p, r) ==
  CASE Kind[r] = "breakdown closed" -> "resolved"
    [] Kind[r] \in {"breakdown open", "complaint"} ->
         IF p.target = "register" THEN "resolved" ELSE "open"
    [] OTHER -> "done"

\* The fleet a commit adds: a snag report's, as at its preview, and a fleet
\* list's.
Vivified(j) ==
  IF j.preview.target = "register" THEN {} ELSE NewBuses(j.preview.site, RowsOf(j.preview))

\* resolve_vehicle: a snag report judges a bus by the fleet it has loaded.
Refused(j) == IF j.preview.target = "snag report" THEN j.retired ELSE retired

\* Broken: the index is not there.
WritableTwice(j) ==
  /\ ~OwnedElsewhere(Vivified(j))
  /\ \A r \in ToWrite(j) : BusOf[r] \in (Fleet(j.preview.site) \cup Vivified(j)) \ Refused(j)
\* A row naming a retired bus, one whose bus left, or one another commit wrote
\* since costs the whole commit.
Writable(j) ==
  /\ ~OwnedElsewhere(Vivified(j))
  /\ \A r \in ToWrite(j) : BusOf[r] \in (Fleet(j.preview.site) \cup Vivified(j)) \ Refused(j)
  /\ ToWrite(j) \cap Held(j.preview.site, j.preview.target) = {}

Refusals(p) == Cardinality(DOMAIN p.rows \ p.passed)

Report(j) ==
  [site |-> j.preview.site, target |-> j.preview.target, token |-> j.token,
   accepted |-> Cardinality(j.preview.passed), unchanged |-> Unchanged(j),
   rejected |-> Refusals(j.preview)]

Written(j) ==
  {[site |-> j.preview.site, target |-> j.preview.target, row |-> r, run |-> j.token,
    status |-> Status(j.preview, r)] : r \in ToWrite(j)}

\* _commit_vehicles: the last row for a bus wins.
Withdrawn(j) ==
  LET p == j.preview
      last(b) == CHOOSE i \in p.passed :
        BusOf[p.rows[i]] = b /\ \A k \in p.passed : BusOf[p.rows[k]] = b => k <= i
  IN  IF p.target = "vehicles"
        THEN (retired \ BusesOf(RowsOf(p))) \cup
             {b \in BusesOf(RowsOf(p)) : Kind[p.rows[last(b)]] = "withdrawn"}
        ELSE retired

Finish(w) ==
  /\ job[w] # Idle
  /\ LET j == job[w]
         s == j.preview.site
     IN  /\ Writable(j)
         /\ JoinFleet(s, Vivified(j))
         /\ retired' = Withdrawn(j)
         /\ entries' = entries \cup Written(j)
         /\ inspected' = [inspected EXCEPT ![s] =
              [r \in Row |-> @[r] + (IF r \in ToInspect(j) THEN 1 ELSE 0)]]
         /\ runs' = runs \cup {Report(j)}
  /\ job' = [job EXCEPT ![w] = Idle]
  /\ UNCHANGED <<previews, used>>

\* A row that cannot be written, or a database that went away; the preview is
\* not put back.
Fail(w) ==
  /\ job[w] # Idle
  /\ job' = [job EXCEPT ![w] = Idle]
  /\ UNCHANGED <<fleetVars, previews, used, dbVars>>

\* The process restarts: what was staged is lost, what was committed is not.
Restart ==
  /\ previews' = [t \in Token |-> NoPreview]
  /\ job' = [w \in Worker |-> Idle]
  /\ UNCHANGED <<fleetVars, used, dbVars>>

\* _set_vehicle_active: the fleet moves underneath a staged preview.
SetActive(b) ==
  /\ owner[b] # Nobody
  /\ retired' = IF b \in retired THEN retired \ {b} ELSE retired \cup {b}
  /\ UNCHANGED <<owner, previews, used, dbVars, job>>

\* create_vehicle.
CreateVehicle(b, s) ==
  /\ ~OwnedElsewhere({b})
  /\ JoinFleet(s, {b})
  /\ UNCHANGED <<retired, previews, used, dbVars, job>>

Init ==
  /\ owner = [b \in Bus |-> Nobody]
  /\ retired = {}
  /\ previews = [t \in Token |-> NoPreview]
  /\ used = {}
  /\ entries = {} /\ runs = {}
  /\ inspected = [s \in Site |-> [r \in Row |-> 0]]
  /\ job = [w \in Worker |-> Idle]

Next ==
  \/ \E t \in Token, s \in Site :
       \/ \E sheet \in Sheets : Preview(s, sheet, t)
       \/ \E w \in Worker : BeginCommit(w, t, s)
  \/ \E t \in Token : Expire(t)
  \/ \E w \in Worker : Finish(w) \/ Fail(w)
  \/ Restart
  \/ \E b \in Bus : SetActive(b) \/ \E s \in Site : CreateVehicle(b, s)

Spec == Init /\ [][Next]_vars

-----------------------------------------------------------------------------
\* "Apply exactly what was previewed": a preview is applied at most once,
\* whoever commits it, again or at the same time.
PreviewAppliedOnce ==
  /\ \A p, q \in runs : p.token = q.token => p = q
  /\ \A v, w \in Worker : v # w /\ job[v] # Idle /\ job[w] # Idle =>
       job[v].token # job[w].token
  /\ \A w \in Worker : job[w] # Idle => job[w].token \notin {r.token : r \in runs}

\* "Re-importing the same month changes nothing": no row of a target has two
\* entries at a site, however its uploads repeat it or overlap.
NoRowTwice ==
  \A e, f \in entries : e.site = f.site /\ e.target = f.target /\ e.row = f.row => e = f

\* Inspections have no index to stand behind the look-up: one row can have as
\* many as there were commits at once, and never more.
InspectionsBounded ==
  \A s \in Site, r \in Row : inspected[s][r] <= Cardinality(Worker)

\* A run on record wrote the whole of its sheet and nothing else did: the rows
\* it accepted and did not find stand under its name, at its site.
RunsCountTrue ==
  /\ \A e \in entries : \E r \in runs : r.token = e.run /\ r.site = e.site
  /\ \A r \in runs : r.target = "register" =>
       r.unchanged + Cardinality({e \in entries : e.run = r.token}) = r.accepted

\* A bus stays with the site that has it, whatever sheet of another site names
\* it.
BusStays == [][\A b \in Bus : owner[b] # Nobody => owner'[b] = owner[b]]_vars

-----------------------------------------------------------------------------
(* Statements of the code's comments that do not hold.                     *)

\* "On a re-run this is everything": a run that wrote nothing says so.
RerunSaysUnchanged ==
  [][runs' # runs /\ entries' = entries /\ inspected' = inspected =>
       \A r \in runs' \ runs : r.target # "vehicles" => r.unchanged = r.accepted]_vars

\* "Never drop a written row because a bus is new": a snag report can be
\* previewed at every site.
SnagIsPreviewed ==
  \A s \in Site, sheet \in Sheets : ~OwnedElsewhere(Missing(s, sheet))

\* Ticketed entries an import brings are closed: it opens no ticket for them.
NoneStranded == \A e \in entries : e.status # "open"
=============================================================================
