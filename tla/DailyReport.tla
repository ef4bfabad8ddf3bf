---------------------------- MODULE DailyReport ----------------------------
(***************************************************************************)
(* The Daily Maintenance Report of several sites over the off-road list.   *)
(*                                                                         *)
(* Until a day is snapshotted its derived lines are recomputed from the    *)
(* registers and the off-road list whenever it is read; a snapshot stores  *)
(* them.  The other lines are entered by a person into the same row.  A    *)
(* snapshot reads in several statements, each seeing what was committed by *)
(* then: `job` carries what it has read between them.  One worker is the   *)
(* nightly job, which seals yesterday site by site, each in a session of   *)
(* its own; the others are requests.                                       *)
(*                                                                         *)
(* Breakdowns of a day stand for every line that counts rows of a day: the *)
(* split of the breakdowns, loss of km, complaints, coolant, inspections   *)
(* and removed batteries are read the same way.                            *)
(***************************************************************************)
EXTENDS OffRoad

CONSTANTS
  Site,
  SiteOf,      \* vehicles.site_code
  Worker,      \* requests that snapshot a day on demand
  Saver,       \* requests that store entered lines
  Figures,     \* values of an entered line
  MaxPerDay,   \* bound: breakdowns a site files for one day
  MaxWork      \* bound: requests ever started

Nightly == "nightly"

ASSUME ReportAssumption ==
  /\ SiteOf \in [Bus -> Site]
  /\ Nightly \notin Worker /\ "no row" \notin Figures
  /\ MaxPerDay \in Nat /\ MaxWork \in Nat

VARIABLES
  filed,    \* the breakdown register: how many entries a day has
  rows,     \* dmr_days
  job,      \* each snapshot under way
  save,     \* each save under way
  night,    \* the nightly run: its day, the sites left, those that failed
  work      \* requests started so far

listVars   == <<cases, request>>
reportVars == <<filed, rows, job, save, night>>
vars == <<cases, request, today, filed, rows, job, save, night, work>>

NoFigure == "none"
Live     == [defective |-> -1]
Sheet    == [breakdowns : Nat, defective : Nat, held : Nat]
NoRow    == [entered |-> "no row"]
Row      == [entered : Figures \cup {NoFigure}, sheet : Sheet \cup {Live}]
EmptyRow == [entered |-> NoFigure, sheet |-> Live]

Free    == [stage |-> "free"]
Reading == [stage : {"counted", "read"}, site : Site, day : Day,
            row : Row \cup {NoRow}, sheet : Sheet]
NoNight == [stage |-> "waiting", day |-> NoDate, left |-> {}, failed |-> {}, listed |-> {}]

ReportTypeOK ==
  /\ TypeOK
  /\ filed \in [Site -> [Day -> 0..MaxPerDay]]
  /\ rows \in [Site -> [Day -> Row \cup {NoRow}]]
  /\ job \in [Worker \cup {Nightly} -> Reading \cup {Free}]
  /\ save \in [Saver -> {Free} \cup
       [stage : {"loaded"}, site : Site, day : Day,
        row : Row \cup {NoRow}, figure : Figures]]
  /\ night \in [stage : {"waiting", "running", "finished"}, day : Day \cup {NoDate},
                left : SUBSET Site, failed : SUBSET Site, listed : SUBSET Site]
  /\ work \in 0..MaxWork

-----------------------------------------------------------------------------
SiteCases(s, d) == {i \in OffRoadOn(d) : SiteOf[cases[i].bus] = s}
HeldCases(s, d) == {i \in SiteCases(s, d) : DaysDownOn(i, d) >= HeldDays}

\* derive: the registers are counted first, the off-road list is read later.
Counted(s, d) == [breakdowns |-> filed[s][d], defective |-> 0, held |-> 0]
WithList(sheet, s, d) ==
  [sheet EXCEPT !.defective = Cardinality(SiteCases(s, d)),
                !.held = Cardinality(HeldCases(s, d))]
Derived(s, d) == WithList(Counted(s, d), s, d)

HasRow(s, d) == rows[s][d] # NoRow
Frozen(s, d) == HasRow(s, d) /\ rows[s][d].sheet # Live

\* compose: what a reader is shown for a day.
Composed(s, d) ==
  [sheet   |-> IF Frozen(s, d) THEN rows[s][d].sheet ELSE Derived(s, d),
   entered |-> IF HasRow(s, d) THEN rows[s][d].entered ELSE NoFigure]

\* ensure_day inserts the row it did not find; the key is unique, so of two
\* transactions that both found none the later fails.
Conflicts(loaded, s, d) == loaded = NoRow /\ HasRow(s, d)

Start == work < MaxWork /\ work' = work + 1

\* Entries of day d are filed, or moved to another day by a correction.
CorrectRegister(s, d) ==
  /\ Start
  /\ \E n \in 0..MaxPerDay : filed' = [filed EXCEPT ![s][d] = n]
  /\ UNCHANGED <<listVars, today, rows, job, save, night>>

\* snapshot, up to the counts.
BeginSnapshot(w, s, d) ==
  /\ job[w] = Free
  /\ job' = [job EXCEPT ![w] =
       [stage |-> "counted", site |-> s, day |-> d, row |-> rows[s][d],
        sheet |-> Counted(s, d)]]

ReadList(w) ==
  /\ job[w] # Free /\ job[w].stage = "counted"
  /\ LET j == job[w]
     IN  job' = [job EXCEPT ![w] =
           [j EXCEPT !.stage = "read", !.sheet = WithList(j.sheet, j.site, j.day)]]
  /\ UNCHANGED <<listVars, today, filed, rows, save, night, work>>

\* The columns that differ from the row as loaded; of a live row, all of them.
MergedSheet(was, now, cur) ==
  IF was = NoRow \/ was.sheet = Live \/ cur = Live THEN now
  ELSE [breakdowns |-> Column(was.sheet.breakdowns, now.breakdowns, cur.breakdowns),
        defective |-> Column(was.sheet.defective, now.defective, cur.defective),
        held |-> Column(was.sheet.held, now.held, cur.held)]

\* Broken: the row is replaced, not updated.
WriteSheetAfresh(w) ==
  rows' = [rows EXCEPT ![job[w].site][job[w].day] = [EmptyRow EXCEPT !.sheet = job[w].sheet]]
WriteSheet(w) ==
  LET j == job[w]
      r == IF HasRow(j.site, j.day) THEN rows[j.site][j.day] ELSE EmptyRow
  IN  rows' = [rows EXCEPT ![j.site][j.day] =
        [r EXCEPT !.sheet = MergedSheet(j.row, j.sheet, r.sheet)]]

\* The snapshot is committed, or fails and is rolled back: on the unique key,
\* or because the database went away.
Seals(w) ==
  /\ job[w] # Free /\ job[w].stage = "read"
  /\ ~Conflicts(job[w].row, job[w].site, job[w].day)
  /\ WriteSheet(w)
  /\ job' = [job EXCEPT ![w] = Free]
Fails(w) ==
  /\ job[w] # Free
  /\ job' = [job EXCEPT ![w] = Free]
  /\ UNCHANGED rows

RequestSnapshot(w, s, d) ==
  /\ Start
  /\ BeginSnapshot(w, s, d)
  /\ UNCHANGED <<listVars, today, filed, rows, save, night>>
EndSnapshot(w) ==
  /\ Seals(w) \/ Fails(w)
  /\ UNCHANGED <<listVars, today, filed, save, night, work>>

\* PUT .../dmr: only the entered columns.
BeginSave(v, s, d) ==
  /\ Start
  /\ save[v] = Free
  /\ \E g \in Figures :
       save' = [save EXCEPT ![v] =
         [stage |-> "loaded", site |-> s, day |-> d, row |-> rows[s][d], figure |-> g]]
  /\ UNCHANGED <<listVars, today, filed, rows, job, night>>
EndSave(v) ==
  /\ save[v] # Free
  /\ LET q == save[v]
         r == IF HasRow(q.site, q.day) THEN rows[q.site][q.day] ELSE EmptyRow
     IN  IF Conflicts(q.row, q.site, q.day)
           THEN UNCHANGED rows
           ELSE rows' = [rows EXCEPT ![q.site][q.day] = [r EXCEPT !.entered = q.figure]]
  /\ save' = [save EXCEPT ![v] = Free]
  /\ UNCHANGED <<listVars, today, filed, job, night, work>>

\* snapshot_all_sites: the list of sites first, then one session for each.
BeginNight ==
  /\ night.stage = "waiting" /\ today > 1
  /\ night' = [stage |-> "running", day |-> today - 1,
               left |-> Site, failed |-> {}, listed |-> Site]
  /\ UNCHANGED <<listVars, today, filed, rows, job, save, work>>
NightlySite ==
  /\ night.stage = "running"
  /\ \E s \in night.left :
       /\ BeginSnapshot(Nightly, s, night.day)
       /\ night' = [night EXCEPT !.left = @ \ {s}]
  /\ UNCHANGED <<listVars, today, filed, rows, save, work>>
\* Broken: the first failure ends the run.
NightlyEndStops ==
  /\ \/ Seals(Nightly) /\ UNCHANGED night
     \/ Fails(Nightly)
        /\ night' = [night EXCEPT !.failed = @ \cup {job[Nightly].site}, !.left = {}]
  /\ UNCHANGED <<listVars, today, filed, save, work>>
\* A site that fails is logged and the next one is tried.
NightlyEnd ==
  /\ \/ Seals(Nightly) /\ UNCHANGED night
     \/ Fails(Nightly) /\ night' = [night EXCEPT !.failed = @ \cup {job[Nightly].site}]
  /\ UNCHANGED <<listVars, today, filed, save, work>>
FinishNight ==
  /\ night.stage = "running" /\ night.left = {} /\ job[Nightly] = Free
  /\ night' = [night EXCEPT !.stage = "finished"]
  /\ UNCHANGED <<listVars, today, filed, rows, job, save, work>>

\* The process dies; the scheduler keeps no record of a run it did not finish.
Crash ==
  /\ Start
  /\ request' = [r \in Request |-> Idle]
  /\ job' = [w \in Worker \cup {Nightly} |-> Free]
  /\ save' = [v \in Saver |-> Free]
  /\ night' = IF night.stage = "running" THEN [NoNight EXCEPT !.stage = "finished"] ELSE night
  /\ UNCHANGED <<cases, today, filed, rows>>

\* The calendar turns; the trigger fires once a day.
NextDay ==
  /\ today < MaxDay /\ night.stage # "running"
  /\ today' = today + 1
  /\ night' = NoNight
  /\ UNCHANGED <<listVars, filed, rows, job, save, work>>

\* The requests on the off-road list are those of OffRoad.
OffRoadRequest ==
  /\ \/ /\ Start
        /\ \E r \in Request :
             \/ \E b \in Bus, f \in Forms : PutOffRoad(r, b, f)
             \/ \E i \in CaseId, d \in Day : CloseOffRoad(r, i, d)
     \/ /\ \E r \in Request : Commit(r) \/ Abandon(r)
        /\ UNCHANGED work
  /\ UNCHANGED reportVars

Init ==
  /\ ListInit
  /\ today = 1
  /\ filed = [s \in Site |-> [d \in Day |-> 0]]
  /\ rows = [s \in Site |-> [d \in Day |-> NoRow]]
  /\ job = [w \in Worker \cup {Nightly} |-> Free]
  /\ save = [v \in Saver |-> Free]
  /\ night = NoNight
  /\ work = 0

NightStep == BeginNight \/ NightlySite \/ ReadList(Nightly) \/ NightlyEnd \/ FinishNight

Next ==
  \/ OffRoadRequest
  \/ \E s \in Site, d \in Day :
       \/ CorrectRegister(s, d)
       \/ \E w \in Worker : RequestSnapshot(w, s, d)
       \/ \E v \in Saver : BeginSave(v, s, d)
  \/ \E w \in Worker : ReadList(w) \/ EndSnapshot(w)
  \/ \E v \in Saver : EndSave(v)
  \/ NightStep
  \/ Crash
  \/ NextDay

Spec == Init /\ [][Next]_vars

\* max_instances=1: the job runs in one task that nothing else holds up.
FairSpec == Spec /\ WF_vars(NightlySite) /\ WF_vars(ReadList(Nightly))
                 /\ WF_vars(NightlyEnd) /\ WF_vars(FinishNight)

-----------------------------------------------------------------------------
\* What has been reported stays reported: once a day is frozen, what a reader
\* is shown of its derived lines changes only when a snapshot of that very day
\* is committed, whatever is filed, corrected, opened or closed for it later.
ReportedStaysReported ==
  [][\A s \in Site, d \in Day :
       Frozen(s, d) /\ Composed(s, d).sheet # Composed(s, d)'.sheet
         => \E w \in Worker \cup {Nightly} :
              job[w] # Free /\ job[w].site = s /\ job[w].day = d /\ job'[w] = Free]_vars

\* Snapshots and saves share a row and never cost one another their columns:
\* an entered figure changes only at the commit of a save.
SnapshotKeepsEntered ==
  [][\A s \in Site, d \in Day :
       Composed(s, d).entered # Composed(s, d)'.entered
         => \E v \in Saver : save[v] # Free /\ save[v].site = s /\ save[v].day = d
                             /\ save[v].figure = rows'[s][d].entered]_vars

\* A night that runs to its end leaves yesterday frozen at every active site,
\* the ones whose snapshot failed excepted: no site is left out because
\* another one failed before it.
NightSealsOrLogs ==
  night.stage = "finished" /\ night.day # NoDate =>
    \A s \in night.listed : Frozen(s, night.day) \/ s \in night.failed

\* The nightly run ends, with the process or without it.
NightEnds == night.stage = "running" ~> night.stage # "running"

\* "Counting it twice would overstate the fleet that is down": on no day is a
\* bus on the off-road list twice.
BusCountedOnce ==
  \A d \in Day : \A i, j \in OffRoadOn(d) : cases[i].bus = cases[j].bus => i = j

\* "The stored figure is what was reported and stays that way": the derived
\* lines of a frozen day never change.
FrozenForGood ==
  [][\A s \in Site, d \in Day : Frozen(s, d) =>
       Composed(s, d)'.sheet = Composed(s, d).sheet]_vars

\* "A commitment in days and a date are the same promise; keep them agreed."
PromisesAgree ==
  \A i \in CaseId : Held(i) /\ cases[i].days > 0 =>
    cases[i].ready = cases[i].since + cases[i].days
=============================================================================
