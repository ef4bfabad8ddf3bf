--------------------------- MODULE Investigations ---------------------------
(***************************************************************************)
(* Annexure-V: the investigation of a breakdown.  It is begun when it is   *)
(* first opened, from what the inspections and the driver complaints of    *)
(* the bus say by then, and its columns are from then on whatever was last *)
(* saved in them.  Requests on one breakdown overlap: a request acts on    *)
(* the row it loaded.                                                      *)
(***************************************************************************)
EXTENDS Integers, FiniteSets

CONSTANTS
  Bus,
  Site, SiteOf,    \* vehicles.site_code
  MaxDay,          \* bound: days 1..MaxDay, the last of them today
  Breakdowns, Complaints,   \* entries that may be filed
  Lookback,        \* COMPLAINT_LOOKBACK_DAYS
  MaxListed,       \* the most complaints listed
  Investigator,    \* requests
  SentForms,       \* what an investigator sends: the columns filled in, and with what
  MaxWork          \* bound: requests that change something

VARIABLES
  breakdown,    \* entries of the breakdown register
  inspected,    \* inspection_entries: of a bus, on a day
  complaint,    \* entries of the driver complaint register
  report,       \* breakdown_investigations
  txn,          \* requests that have loaded and not committed
  work          \* see MaxWork

register == <<breakdown, inspected, complaint>>
vars == <<breakdown, inspected, complaint, report, txn, work>>

Day == 1..MaxDay
NoDate == 0
Entry == [bus : Bus, day : Day]
NoEntry == [day |-> NoDate]
Inspection == [failed : BOOLEAN, remarked : BOOLEAN]
NoInspection == [failed |-> "none"]

\* `pm` is last_pm_on with last_pm_findings.  A text is the set of what it says.
Column == {"findings", "pm", "complaints", "action"}
Blank == {}
NoRow == [findings |-> "no row"]
NoText == [x \in {} |-> Blank]
Idle == [on |-> "none"]
Filed(r, b) == r[b] # NoEntry

-----------------------------------------------------------------------------
(* What the system already knows.                                          *)
\* _last_pm: the day of the latest inspection up to the breakdown's own day.
LastPm(bus, day) ==
  CHOOSE d \in 0..day :
    /\ d = NoDate \/ inspected[bus][d] # NoInspection
    /\ \A x \in (d + 1)..day : inspected[bus][x] = NoInspection

\* _pm_findings: the lines that failed, else the remarks, else a clean "NO".
PmFindings(i) ==
  IF i.failed THEN "failed lines" ELSE IF i.remarked THEN "remarks" ELSE "NO"

Evidence(bus, day) ==
  LET d == LastPm(bus, day)
  IN  IF d = NoDate THEN Blank ELSE {<<d, PmFindings(inspected[bus][d])>>}

\* _related_complaints: the newest few of the days before the breakdown.
InReach(bus, day) ==
  {c \in Complaints : /\ Filed(complaint, c)
                      /\ complaint[c].bus = bus
                      /\ complaint[c].day \in (day - Lookback)..(day - 1)}
RelatedComplaints(bus, day) ==
  {S \in SUBSET InReach(bus, day) :
     /\ Cardinality(S) <= MaxListed
     /\ InReach(bus, day) # S => Cardinality(S) = MaxListed
     /\ \A c \in S, o \in InReach(bus, day) \ S : complaint[c].day >= complaint[o].day}

Prefills(entry) ==
  {[findings |-> Blank, action |-> Blank,
    pm |-> Evidence(entry.bus, entry.day), complaints |-> S] :
     S \in RelatedComplaints(entry.bus, entry.day)}

-----------------------------------------------------------------------------
(* The list of a day or a range.                                           *)
SiteBreakdowns(s) == {b \in Breakdowns : Filed(breakdown, b) /\ SiteOf[breakdown[b].bus] = s}
ForRange(s, start, end) == {b \in SiteBreakdowns(s) : breakdown[b].day \in start..end}
Listed(s, from, to) == IF to < from THEN ForRange(s, to, from) ELSE ForRange(s, from, to)

\* is_complete: both a finding and an action.
Complete(b) ==
  report[b] # NoRow /\ report[b].findings # Blank /\ report[b].action # Blank
Outstanding(s, from, to) == Cardinality({b \in Listed(s, from, to) : ~Complete(b)})

BreakdownDays(s) == {breakdown[b].day : b \in SiteBreakdowns(s)}
\* nearest_breakdown_day: back first.
Nearest(s, day) ==
  LET back == {d \in BreakdownDays(s) : d < day}
      ahead == {d \in BreakdownDays(s) : d > day}
      before == CHOOSE d \in back : \A x \in back : x <= d
      after == CHOOSE d \in ahead : \A x \in ahead : d <= x
  IN  CASE back = {} /\ ahead = {} -> NoDate
        [] back = {} /\ ahead # {} -> after
        [] back # {} /\ ahead = {} -> before
        [] OTHER -> IF day - before <= after - day THEN before ELSE after

-----------------------------------------------------------------------------
Counted == work < MaxWork /\ work' = work + 1

\* The registers move on underneath: entries are filed and corrected,
\* inspections only filed.
FileOrCorrect(b, bus, day) ==
  /\ Counted
  /\ breakdown' = [breakdown EXCEPT ![b] = [bus |-> bus, day |-> day]]
  /\ UNCHANGED <<inspected, complaint, report, txn>>
Complain(c, bus, day) ==
  /\ Counted
  /\ complaint' = [complaint EXCEPT ![c] = [bus |-> bus, day |-> day]]
  /\ UNCHANGED <<breakdown, inspected, report, txn>>
Inspect(bus, day, i) ==
  /\ Counted
  /\ inspected[bus][day] = NoInspection
  /\ inspected' = [inspected EXCEPT ![bus][day] = i]
  /\ UNCHANGED <<breakdown, complaint, report, txn>>

\* load_breakdown and get_or_prefill: what a request holds when it has read.
Load(r, b, sent) ==
  /\ Counted
  /\ txn[r] = Idle /\ Filed(breakdown, b)
  /\ \E fill \in IF report[b] = NoRow THEN Prefills(breakdown[b]) ELSE {report[b]} :
       txn' = [txn EXCEPT ![r] =
         [on |-> b, found |-> report[b] # NoRow, loaded |-> fill, sent |-> sent]]
  /\ UNCHANGED <<register, report>>
\* GET: nothing is sent.
OpenInvestigation(r, b) == Load(r, b, NoText)
\* PUT: only the columns of the form that were filled in.
SaveInvestigation(r, b) ==
  \E sent \in SentForms : Load(r, b, sent)

\* save: of the loaded row, the columns that were sent and differ are written.
\* Broken: the row is written as it was loaded, with what was sent.
WrittenWhole(t, row) ==
  [c \in Column |-> IF c \in DOMAIN t.sent THEN t.sent[c] ELSE t.loaded[c]]
Written(t, row) ==
  [c \in Column |->
     IF c \in DOMAIN t.sent /\ t.sent[c] # t.loaded[c] THEN t.sent[c] ELSE row[c]]

\* The entry has one investigation: of two requests that both found none,
\* the later one's insert is refused.
Commit(r) ==
  /\ txn[r] # Idle
  /\ LET t == txn[r] IN
       report' = IF t.found THEN [report EXCEPT ![t.on] = Written(t, report[t.on])]
                 ELSE IF report[t.on] = NoRow THEN [report EXCEPT ![t.on] = Written(t, t.loaded)]
                 ELSE report
  /\ txn' = [txn EXCEPT ![r] = Idle]
  /\ UNCHANGED <<register, work>>

Init ==
  /\ breakdown = [b \in Breakdowns |-> NoEntry]
  /\ inspected = [bus \in Bus |-> [d \in Day |-> NoInspection]]
  /\ complaint = [c \in Complaints |-> NoEntry]
  /\ report = [b \in Breakdowns |-> NoRow]
  /\ txn = [r \in Investigator |-> Idle]
  /\ work = 0

Next ==
  \/ \E b \in Breakdowns, bus \in Bus, day \in Day : FileOrCorrect(b, bus, day)
  \/ \E c \in Complaints, bus \in Bus, day \in Day : Complain(c, bus, day)
  \/ \E bus \in Bus, day \in Day, i \in Inspection : Inspect(bus, day, i)
  \/ \E r \in Investigator, b \in Breakdowns : OpenInvestigation(r, b) \/ SaveInvestigation(r, b)
  \/ \E r \in Investigator : Commit(r)

Spec == Init /\ [][Next]_vars

-----------------------------------------------------------------------------
\* Once an investigation is begun, what stands in a column changes only to
\* what a request sends for that very column: neither opening it again nor a
\* colleague's save of the other columns, however they overlap, takes a word
\* back (services/investigations.py:124-170).
WordStands ==
  [][\A b \in Breakdowns : report[b] # NoRow =>
       \A c \in Column : report'[b][c] = report[b][c]
         \/ \E r \in Investigator :
              /\ txn[r] # Idle /\ txn'[r] = Idle /\ txn[r].on = b
              /\ c \in DOMAIN txn[r].sent /\ report'[b][c] = txn[r].sent[c]]_vars

\* An empty day points to a day with breakdowns than which none is nearer
\* (services/investigations.py:368-398).
QuietDayPointsToWork ==
  \A s \in Site, day \in Day : Listed(s, day, day) = {} =>
    LET near == Nearest(s, day)
        away(d) == IF d < day THEN day - d ELSE d - day
    IN  IF BreakdownDays(s) = {} THEN near = NoDate
        ELSE near \in BreakdownDays(s) /\ \A d \in BreakdownDays(s) : away(near) <= away(d)
=============================================================================
