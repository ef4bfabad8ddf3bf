------------------------------ MODULE Odometer ------------------------------
(***************************************************************************)
(* The odometer of a bus: one number on the vehicle row, a history of the  *)
(* readings behind it, and many writers.  A person types it in, a service, *)
(* a breakdown, an inspection or an import brings it along, and the feed   *)
(* of a site is pulled by a client or by the scheduled scan.               *)
(*                                                                         *)
(* Every writer loads the row, compares, and commits later; nothing locks  *)
(* the row in between.  `raced` is a history variable: the buses of which  *)
(* a row was written by a transaction that had loaded an older one.        *)
(***************************************************************************)
EXTENDS Integers, FiniteSets

CONSTANTS
  Bus, Site,
  SiteOf,    \* vehicles.site_code
  Txn,       \* requests that may be in flight at once
  MaxKm,     \* bound: the highest reading
  MaxWork    \* bound: transactions ever started

Scan  == "scan"      \* the transaction of the scheduled scan
Km    == 0..MaxKm
NoKm  == -1          \* a NULL kilometre column

ASSUME FleetAssumption ==
  /\ SiteOf \in [Bus -> Site] /\ Scan \notin Txn
  /\ MaxKm \in Nat /\ MaxWork \in Nat

VARIABLES
  row,       \* vehicles: odometer_km, odometer_updated_at, last_service_km
  history,   \* odometer_readings of each bus
  due,       \* sites whose sync interval has elapsed
  scan,      \* the sites the running scan has still to look at
  txn,       \* each transaction under way
  raced,     \* see above
  work       \* transactions started so far

odometerVars == <<row, history, due, scan>>

Row   == [km : Km, read : BOOLEAN, service : Km \cup {NoKm}]
Free  == [kind |-> "free"]
Asleep == [stage |-> "asleep", left |-> {}]

\* A transaction that writes readings: the rows it loaded, the readings it
\* brings, whether they close a service, and the sites it has synced.
Writes(B) ==
  [kind : {"reading"}, was : [B -> Row], now : [B -> Km],
   service : BOOLEAN, synced : SUBSET Site]
ReadingTxn == UNION {Writes(B) : B \in SUBSET Bus}

OdometerTypeOK ==
  /\ row \in [Bus -> Row]
  /\ history \in [Bus -> SUBSET Km]
  /\ due \in SUBSET Site
  /\ scan \in [stage : {"asleep", "running"}, left : SUBSET Site]
  /\ raced \in SUBSET Bus
  /\ work \in 0..MaxWork

-----------------------------------------------------------------------------
\* Broken: any reading will do.
AcceptsAny(b, k) == TRUE
\* The guard every writer but the feed repeats: not below the row as loaded,
\* unless the bus was never read.
Accepts(b, k) == row[b].read => k >= row[b].km

\* Broken: the feed is not compared with a bus that has a service on record.
NewerUnserviced(b, k) == k > row[b].km \/ (k > 0 /\ row[b].service # NoKm)
\* The feed's: strictly newer.  0 is the feed's word for no reading.
Newer(b, k) == k > row[b].km

Start == work < MaxWork /\ work' = work + 1

Begin(t, B, now, service, synced) ==
  txn' = [txn EXCEPT ![t] =
    [kind |-> "reading", was |-> [b \in B |-> row[b]], now |-> now,
     service |-> service, synced |-> synced]]

\* set_manual, record_service, and the readings that come with an inspection,
\* a breakdown or an import.
EnterReading(t, b, k, service) ==
  /\ Start
  /\ txn[t] = Free
  /\ Accepts(b, k)
  /\ Begin(t, {b}, [c \in {b} |-> k], service, {})
  /\ UNCHANGED <<odometerVars, raced>>

\* sync_site: the fleet of the site is loaded, the feed fetched, each bus it
\* has news of is written.
PullFeed(t, s) ==
  LET fleet == {b \in Bus : SiteOf[b] = s}
  IN  \E fetched \in [fleet -> Km] :
        LET B == {b \in fleet : Newer(b, fetched[b])}
        IN  Begin(t, B, [b \in B |-> fetched[b]], FALSE, {s})

RequestSync(t, s) ==
  /\ Start
  /\ txn[t] = Free
  /\ PullFeed(t, s)
  /\ UNCHANGED <<odometerVars, raced>>

\* An UPDATE writes only the columns that differ from the row as loaded.
Column(was, now, cur) == IF now = was THEN cur ELSE now
Written(b, q) ==
  [km |-> Column(q.was[b].km, q.now[b], row[b].km),
   read |-> TRUE,
   service |-> IF q.service THEN Column(q.was[b].service, q.now[b], row[b].service)
                            ELSE row[b].service]

Keeps(b, q) == history[b] \cup {q.now[b]}

\* record_reading, for every bus of the transaction.
CommitReadings(t) ==
  LET q == txn[t]
  IN  /\ q.kind = "reading"
      /\ row' = [b \in Bus |-> IF b \in DOMAIN q.now THEN Written(b, q) ELSE row[b]]
      /\ history' = [b \in Bus |-> IF b \in DOMAIN q.now THEN Keeps(b, q) ELSE history[b]]
      /\ due' = due \ q.synced
      /\ raced' = raced \cup {b \in DOMAIN q.now : row[b] # q.was[b]}
      /\ txn' = [txn EXCEPT ![t] = Free]

Commit(t) == CommitReadings(t) /\ UNCHANGED <<scan, work>>

\* The request fails or the process dies: nothing was written.
Abandon(t) ==
  /\ txn[t] # Free
  /\ txn' = [txn EXCEPT ![t] = Free]
  /\ UNCHANGED <<odometerVars, raced, work>>

\* scan_sites_due_for_sync: the configurations are loaded once.
BeginScan ==
  /\ Start
  /\ scan.stage = "asleep"
  /\ scan' = [stage |-> "running", left |-> due]
  /\ UNCHANGED <<row, history, due, txn, raced>>
ScanSite(s) ==
  /\ s \in scan.left /\ txn[Scan] = Free
  /\ PullFeed(Scan, s)
  /\ scan' = [scan EXCEPT !.left = @ \ {s}]
  /\ UNCHANGED <<row, history, due, raced, work>>
\* The rollback for a failing site expires the configurations that are left,
\* and the handler's own log line is the first to read one: the scan is over.
ScanFails ==
  /\ txn[Scan] # Free
  /\ txn' = [txn EXCEPT ![Scan] = Free]
  /\ scan' = Asleep
  /\ UNCHANGED <<row, history, due, raced, work>>
EndScan ==
  /\ scan.stage = "running" /\ scan.left = {} /\ txn[Scan] = Free
  /\ scan' = Asleep
  /\ UNCHANGED <<row, history, due, txn, raced, work>>

IntervalElapses(s) ==
  /\ s \notin due
  /\ due' = due \cup {s}
  /\ UNCHANGED <<row, history, scan, txn, raced, work>>

ScanStep == Commit(Scan) \/ ScanFails \/ EndScan \/ \E s \in Site : ScanSite(s)

OdometerInit ==
  /\ row = [b \in Bus |-> [km |-> 0, read |-> FALSE, service |-> NoKm]]
  /\ history = [b \in Bus |-> {}]
  /\ due = Site
  /\ scan = Asleep
  /\ txn = [t \in Txn \cup {Scan} |-> Free]
  /\ raced = {}
  /\ work = 0

OdometerNext ==
  \/ \E t \in Txn :
       \/ \E b \in Bus, k \in Km, service \in BOOLEAN : EnterReading(t, b, k, service)
       \/ \E s \in Site : RequestSync(t, s)
       \/ Commit(t)
       \/ Abandon(t)
  \/ BeginScan
  \/ ScanStep
  \/ \E s \in Site : IntervalElapses(s)

-----------------------------------------------------------------------------
\* "An odometer never moves backwards": whatever order people, services,
\* imports and the feed report in, the reading of a bus falls only when a row
\* was overwritten that its writer had not seen.
NeverBackUnlessRaced(b) == row'[b].km < row[b].km => b \in raced'

\* The vehicle row caches the highest entry of an append-only history, unless
\* a writer of that bus raced another.
CacheIsHighest ==
  \A b \in Bus : row[b].read =>
    /\ row[b].km \in history[b]
    /\ b \notin raced => \A k \in history[b] : k <= row[b].km

\* The anchor of the next service is a reading on record, and never ahead of
\* the bus unless a writer raced.
AnchorIsBehind ==
  \A b \in Bus : row[b].service # NoKm =>
    /\ row[b].service \in history[b]
    /\ b \notin raced => row[b].service <= row[b].km

\* The row of a bus agrees with its history: reading, highest entry and
\* service anchor are written by different requests and stay in order.
RowAgreesWithHistory == CacheIsHighest /\ AnchorIsBehind

\* A scan ends whatever the sites do.
ScanEnds == scan.stage = "running" ~> scan.stage = "asleep"

\* "One bad site must not stop the rest": a site the scan had to look at is
\* passed over only by looking at it.
BadSiteStopsNobody ==
  [][\A s \in scan.left : s \notin scan'.left =>
       txn'[Scan] # Free /\ s \in txn'[Scan].synced]_<<scan, txn>>
=============================================================================
