---------------------------- MODULE TicketsProofs ----------------------------
(***************************************************************************)
(* Theorems about Tickets, for every number of entries, sessions and       *)
(* concurrent requests.  Inv is inductive: it adds to the properties what  *)
(* a request in flight may rely on although other transactions have        *)
(* committed since it read: its ticket still exists, and what it saw       *)
(* attended or completed still is.                                         *)
(*                                                                         *)
(* SerialInv is for one transaction at a time: then all of what a request  *)
(* read or checked still holds when it commits.                            *)
(***************************************************************************)
EXTENDS MCTickets, TLAPS

\* What a Work Done request holds is never ahead of the committed ticket.
Behind(q) ==
  LET row == ticket[q.form.ticket] IN
    Linked(q.form) =>
      /\ row.status # "absent"
      /\ q.row.attended_at # Nil => row.attended_at # Nil
      /\ q.row.status = "completed" => row.status = "completed"

RequestsBehind ==
  \A r \in Requests : request[r] \in SessionRequest => Behind(request[r])

\* A ticket is raised for an entry that is there.
RaisesExist ==
  \A r \in Requests : request[r] \in RaiseRequest => status[request[r].entry] # "absent"

\* Nothing is stamped on a ticket before it exists.
AbsentIsBlank == \A t \in Sources : ticket[t].status = "absent" => ticket[t] = NoTicket

Inv ==
  /\ TypeOK
  /\ AbsentIsBlank
  /\ EntryFollowsTicket
  /\ CompletedWasAttended
  /\ ResolvedWasPushed
  /\ RequestsBehind
  /\ RaisesExist

\* No step takes anything back from a ticket.
Advance ==
  \A t \in Sources :
    /\ ticket[t].status # "absent" => ticket'[t].status # "absent"
    /\ ticket[t].attended_at # Nil => ticket'[t].attended_at # Nil
    /\ ticket[t].status = "completed" => ticket'[t].status = "completed"

-----------------------------------------------------------------------------
LEMMA RowTypes ==
  /\ NoTicket \in TicketRows
  /\ OpenTicket \in TicketRows
  /\ NewDetail \in DetailRows
BY DEF NoTicket, OpenTicket, NewDetail, TicketRows, DetailRows, TicketStatus, Moments

\* A request in one of a session's phases is a session request.
LEMMA SessionPhases ==
  ASSUME TypeOK, NEW r \in Requests, request[r].phase \in {"begun", "written", "decided"}
  PROVE  request[r] \in SessionRequest
BY DEF TypeOK, Idle, SessionRequest, EditRequest, RaiseRequest

\* Whichever row the identity map answers with, it is a ticket row.
LEMMA LoadedTypes ==
  ASSUME TypeOK, NEW q \in SessionRequest, NEW row \in Loaded(q)
  PROVE  row \in TicketRows
BY SourcesAssumption DEF TypeOK, Loaded, SessionRequest, Forms, Linked, Sources

\* What a commit writes to the ticket is a ticket row.
LEMMA TicketAfterType ==
  ASSUME NEW q \in SessionRequest, NEW row \in TicketRows
  PROVE  TicketAfter(q, row) \in TicketRows
BY DEF SessionRequest, Forms, TicketRows, TicketAfter, Attended, Completed, Moments, TicketStatus

LEMMA DetailAfterType ==
  ASSUME NEW q \in SessionRequest, NEW d \in DetailRows
  PROVE  DetailAfter(q, d) \in DetailRows
BY DEF SessionRequest, Forms, DetailRows, DetailAfter, Moments

-----------------------------------------------------------------------------
LEMMA TypeInit == Init => TypeOK
BY RowTypes DEF Init, TypeOK, EntryStatus, NoScan

\* One step per action; an action that only moves a request keeps all rows.
LEMMA TypeStep == TypeOK /\ [Next]_vars => TypeOK'
<1> SUFFICES ASSUME TypeOK, [Next]_vars PROVE TypeOK'
  OBVIOUS
<1> USE RowTypes, SourcesAssumption
<1>1. ASSUME NEW e \in Entries, CreateEntry(e) PROVE TypeOK'
  BY <1>1 DEF CreateEntry, TypeOK, history, EntryStatus, Sources
<1>2. ASSUME NEW k \in Checks, RecordFailedCheck(k) PROVE TypeOK'
  BY <1>2 DEF RecordFailedCheck, TypeOK, history, Sources
<1>3. ASSUME NEW b \in Breakdowns, BecomeOverdue(b) PROVE TypeOK'
  BY <1>3 DEF BecomeOverdue, TypeOK, history, rows
<1>4. ASSUME NEW r \in Requests, Begin(r) PROVE TypeOK'
  <2>1. ASSUME NEW e \in Complaints \cup Coolants, BeginRaiseTicket(r, e) PROVE TypeOK'
    BY <2>1 DEF BeginRaiseTicket, TypeOK, history, rows, RaiseRequest
  <2>2. ASSUME NEW b \in Breakdowns, BeginEditEntry(r, b) PROVE TypeOK'
    BY <2>2 DEF BeginEditEntry, TypeOK, history, rows, EditRequest
  <2>3. ASSUME NEW f \in Forms PROVE RowOf(f) \in TicketRows
    BY <2>3 DEF RowOf, Linked, Forms, TypeOK
  <2>4. ASSUME NEW s \in Sessions, NEW f \in Forms, BeginCreateSession(r, s, f) PROVE TypeOK'
    <3>1. [phase |-> "begun", kind |-> "create", session |-> s, form |-> f,
           pinned |-> FALSE, row |-> RowOf(f)] \in SessionRequest
      BY <2>3 DEF SessionRequest
    <3> QED BY <2>4, <3>1 DEF BeginCreateSession, TypeOK, history, rows
  <2>5. ASSUME NEW s \in Sessions, NEW f \in Forms, BeginEditSession(r, s, f) PROVE TypeOK'
    <3>1. [phase |-> "begun", kind |-> "edit", session |-> s, form |-> f,
           pinned |-> (Linked(f) /\ f.ticket = session[s].ticket),
           row |-> RowOf(f)] \in SessionRequest
      BY <2>3 DEF SessionRequest
    <3> QED BY <2>5, <3>1 DEF BeginEditSession, TypeOK, history, rows
  <2> QED BY <1>4, <2>1, <2>2, <2>4, <2>5 DEF Begin
<1>5. ASSUME NEW r \in Requests, Step(r) PROVE TypeOK'
  <2>1. CASE WriteSession(r)
    <3>1. PICK row \in Loaded(request[r]) :
             request' = [request EXCEPT ![r].phase = "written", ![r].row = row]
      BY <2>1 DEF WriteSession
    <3>2. request[r] \in SessionRequest
      BY <2>1, SessionPhases DEF WriteSession, Working
    <3>3. [request[r] EXCEPT !.phase = "written", !.row = row] \in SessionRequest
      BY <3>1, <3>2, LoadedTypes DEF SessionRequest
    <3> QED BY <2>1, <3>1, <3>3 DEF WriteSession, TypeOK, history, rows
  <2>2. CASE RefuseSession(r)
    BY <2>2 DEF RefuseSession, TypeOK, history, rows, End
  <2>3. CASE DecideSession(r)
    <3>1. PICK row \in Loaded(request[r]) :
             request' = [request EXCEPT ![r].phase = "decided", ![r].row = row]
      BY <2>3 DEF DecideSession
    <3>2. request[r] \in SessionRequest
      BY <2>3, SessionPhases DEF DecideSession, Working
    <3>3. [request[r] EXCEPT !.phase = "decided", !.row = row] \in SessionRequest
      BY <3>1, <3>2, LoadedTypes DEF SessionRequest
    <3> QED BY <2>3, <3>1, <3>3 DEF DecideSession, TypeOK, history, rows
  <2>4. CASE CommitSession(r)
    <3> DEFINE q == request[r]
    <3>1. q \in SessionRequest
      BY <2>4, SessionPhases DEF CommitSession, Working
    <3>2. q.session \in Sessions /\ q.form \in Forms
      BY <3>1 DEF SessionRequest
    <3>3. ticket' \in [Sources -> TicketRows]
      BY <2>4, <3>1, TicketAfterType DEF CommitSession, TypeOK
    <3>4. detail' \in [Breakdowns -> DetailRows]
      BY <2>4, <3>1, DetailAfterType DEF CommitSession, TypeOK
    <3>5. status' \in [Entries -> EntryStatus]
      BY <2>4 DEF CommitSession, TypeOK, EntryStatus
    <3>6. resolvedPushes' \in [Breakdowns -> Nat]
      BY <2>4 DEF CommitSession, TypeOK, PushesAfter
    <3>7. completer' \in [Sources -> Sessions \cup {Nil}]
      BY <2>4, <3>2 DEF CommitSession, TypeOK
    <3>8. session' \in [Sessions -> Forms \cup {Nil}]
      BY <2>4, <3>2 DEF CommitSession, TypeOK
    <3> QED BY <2>4, <3>3, <3>4, <3>5, <3>6, <3>7, <3>8 DEF CommitSession, TypeOK, End
  <2>5. CASE CommitRaiseTicket(r)
    BY <2>5 DEF CommitRaiseTicket, TypeOK, history, End, EntryStatus
  <2>7. CASE LoseRaiseTicket(r)
    BY <2>7 DEF LoseRaiseTicket, TypeOK, history, rows, End
  <2>6. CASE CommitEditEntry(r)
    <3>1. request[r] \in EditRequest
      BY <2>6 DEF CommitEditEntry, Working, TypeOK, Idle, SessionRequest, EditRequest, RaiseRequest
    <3> QED BY <2>6, <3>1 DEF CommitEditEntry, TypeOK, history, End, EditRequest
  <2> QED BY <1>5, <2>1, <2>2, <2>3, <2>4, <2>5, <2>6, <2>7 DEF Step
<1>6. ASSUME NEW r \in Requests, FailRequest(r) PROVE TypeOK'
  BY <1>6 DEF FailRequest, TypeOK, history, rows, End
<1>7. CASE Sweep
  <2>1. CASE BeginScan
    BY <2>1 DEF BeginScan, TypeOK, history, rows, Scans, Stale
  <2>2. ASSUME NEW b \in Breakdowns, Nudge(b) PROVE TypeOK'
    <3>1. scan \in Scans
      BY <2>2 DEF Nudge, TypeOK
    <3>2. scan' \in Scans
      BY <2>2, <3>1 DEF Nudge, Scans
    <3>3. slaPushes' \in [Breakdowns -> Nat]
      BY <2>2 DEF Nudge, TypeOK
    <3> QED BY <2>2, <3>2, <3>3 DEF Nudge, TypeOK, rows
  <2>3. CASE CommitScan
    BY <2>3 DEF CommitScan, TypeOK, history, Scans, DetailRows
  <2> QED BY <1>7, <2>1, <2>2, <2>3 DEF Sweep
<1>8. CASE FailScan
  BY <1>8 DEF FailScan, TypeOK, rows
<1>9. CASE UNCHANGED vars
  BY <1>9 DEF vars, TypeOK
<1> QED BY <1>1, <1>2, <1>3, <1>4, <1>5, <1>6, <1>7, <1>8, <1>9 DEF Next

\* Every variable keeps its type, whatever transactions interleave.
THEOREM TypeCorrect == Spec => []TypeOK
<1> QED BY TypeInit, TypeStep, PTL DEF Spec

-----------------------------------------------------------------------------
(* The invariant.                                                          *)

LEMMA TicketAfterFields ==
  ASSUME NEW q \in SessionRequest, NEW row \in TicketRows
  PROVE  LET after == TicketAfter(q, row) IN
           /\ after.status = IF Completes(q) THEN "completed" ELSE row.status
           /\ after.attended_at = IF Attends(q) THEN q.form.when ELSE row.attended_at
           /\ after.completed_at = IF Completes(q) THEN q.form.when ELSE row.completed_at
BY DEF SessionRequest, Forms, TicketRows, TicketAfter, Attended, Completed

\* What a form that completes or attends says of itself.
LEMMA FormFacts ==
  ASSUME NEW q \in SessionRequest
  PROVE  /\ q.form.when # Nil
         /\ Completes(q) => Linked(q.form)
         /\ Attends(q) => Linked(q.form)
         /\ Linked(q.form) => q.form.ticket \in Sources
         /\ q.form.ticket \in Sources => Linked(q.form)
BY SourcesAssumption DEF SessionRequest, Forms, Completes, Attends, Linked

\* A commit decided from a row the committed one is not behind.
LEMMA CommitFacts ==
  ASSUME Inv, NEW r \in Requests, CommitSession(r)
  PROVE  LET q == request[r]
             t == q.form.ticket
         IN  /\ q \in SessionRequest
             /\ Behind(q)
             /\ \A u \in Sources : u # t => ticket'[u] = ticket[u]
             /\ t \in Sources =>
                  /\ ticket'[t].status = IF Completes(q) THEN "completed" ELSE ticket[t].status
                  /\ ticket'[t].attended_at = IF Attends(q) THEN q.form.when ELSE ticket[t].attended_at
                  /\ ticket'[t].completed_at = IF Completes(q) THEN q.form.when ELSE ticket[t].completed_at
<1> DEFINE q == request[r]
           t == q.form.ticket
<1>1. q \in SessionRequest
  BY SessionPhases DEF Inv, CommitSession, Working
<1>2. Behind(q)
  BY <1>1 DEF Inv, RequestsBehind
<1>3. \A u \in Sources : u # t => ticket'[u] = ticket[u]
  BY DEF CommitSession
<1>4. ASSUME t \in Sources PROVE ticket'[t] = TicketAfter(q, ticket[t]) /\ ticket[t] \in TicketRows
  BY <1>4 DEF CommitSession, Inv, TypeOK
<1> QED BY <1>1, <1>2, <1>3, <1>4, TicketAfterFields

LEMMA StepAdvances == Inv /\ [Next]_vars => Advance
<1> SUFFICES ASSUME Inv, [Next]_vars PROVE Advance
  OBVIOUS
<1>1. ASSUME NEW e \in Entries, CreateEntry(e) PROVE Advance
  <2>1. ticket[e].status = "absent" /\ e \in Sources
    BY <1>1 DEF CreateEntry, Inv, EntryFollowsTicket, Agrees, Sources
  <2>2. ticket[e] = NoTicket
    BY <2>1 DEF Inv, AbsentIsBlank
  <2>3. ticket'[e] = ticket[e] \/ ticket'[e] = OpenTicket
    BY <1>1, <2>1 DEF CreateEntry, Inv, TypeOK
  <2>4. \A t \in Sources : t # e => ticket'[t] = ticket[t]
    BY <1>1 DEF CreateEntry, Inv, TypeOK
  <2> QED BY <2>2, <2>3, <2>4 DEF Advance, NoTicket, OpenTicket
<1>2. ASSUME NEW k \in Checks, RecordFailedCheck(k) PROVE Advance
  BY <1>2 DEF RecordFailedCheck, Inv, TypeOK, Sources, Advance, NoTicket, OpenTicket
<1>3. ASSUME NEW r \in Requests, CommitRaiseTicket(r) PROVE Advance
  BY <1>3 DEF CommitRaiseTicket, Inv, TypeOK, Advance, NoTicket, OpenTicket
<1>4. ASSUME NEW r \in Requests, CommitSession(r) PROVE Advance
  <2>1. \A u \in Sources : u # request[r].form.ticket => ticket'[u] = ticket[u]
    BY <1>4, CommitFacts
  <2>2. request[r].form.when # Nil
    BY <1>4, CommitFacts, FormFacts
  <2> QED BY <1>4, <2>1, <2>2, CommitFacts DEF Advance
<1>5. ASSUME UNCHANGED ticket PROVE Advance
  BY <1>5 DEF Advance
<1> QED
  BY <1>1, <1>2, <1>3, <1>4, <1>5
  DEF Next, Begin, Step, Sweep, BecomeOverdue, BeginRaiseTicket, BeginEditEntry,
      BeginCreateSession, BeginEditSession, WriteSession, RefuseSession, DecideSession,
      LoseRaiseTicket, CommitEditEntry, FailRequest, BeginScan, Nudge, CommitScan, FailScan,
      rows, vars

LEMMA InvInit == Init => Inv
<1> SUFFICES ASSUME Init PROVE Inv
  OBVIOUS
<1>1. TypeOK
  BY TypeInit
<1>2. AbsentIsBlank /\ EntryFollowsTicket /\ CompletedWasAttended /\ ResolvedWasPushed
  BY DEF Init, AbsentIsBlank, EntryFollowsTicket, Agrees, CompletedWasAttended,
         ResolvedWasPushed, NoTicket, Sources, Entries
<1>3. RequestsBehind
  BY DEF Init, RequestsBehind, Idle, SessionRequest
<1>4. RaisesExist
  BY DEF Init, RaisesExist, Idle, RaiseRequest
<1> QED BY <1>1, <1>2, <1>3, <1>4 DEF Inv

\* An untouched request keeps its place behind a ticket that only advances.
LEMMA UntouchedBehind ==
  ASSUME Inv, Advance, NEW o \in Requests, request'[o] = request[o],
         request'[o] \in SessionRequest
  PROVE  Behind(request[o])'
BY FormFacts DEF Inv, RequestsBehind, Behind, Advance

\* A request that has just loaded or reloaded its ticket.
LEMMA ReloadedBehind ==
  ASSUME Inv, UNCHANGED ticket, NEW r \in Requests, request[r] \in SessionRequest,
         NEW row \in Loaded(request[r]), request'[r].form = request[r].form,
         request'[r].row = row
  PROVE  Behind(request[r])'
BY DEF Inv, RequestsBehind, Behind, Loaded, Linked

\* Every request in flight after a step is behind its ticket.
LEMMA RequestsBehindStep == Inv /\ TypeOK' /\ [Next]_vars => RequestsBehind'
<1> SUFFICES ASSUME Inv, TypeOK', [Next]_vars,
                    NEW o \in Requests, request'[o] \in SessionRequest
             PROVE  Behind(request[o])'
  BY DEF RequestsBehind
<1>1. Advance
  BY StepAdvances
<1>2. CASE request'[o] = request[o]
  BY <1>1, <1>2, UntouchedBehind
<1>3. CASE request'[o] # request[o]
  <2>1. PICK r \in Requests : Begin(r) \/ Step(r) \/ FailRequest(r)
    BY <1>3 DEF Next, CreateEntry, RecordFailedCheck, BecomeOverdue, Sweep, BeginScan,
                Nudge, CommitScan, FailScan, vars
  <2>2. r = o
    BY <1>3, <2>1 DEF Begin, Step, BeginRaiseTicket, BeginEditEntry, BeginCreateSession,
                BeginEditSession, WriteSession, RefuseSession, DecideSession, CommitSession,
                CommitRaiseTicket, LoseRaiseTicket, CommitEditEntry, FailRequest, End,
                Inv, TypeOK
  <2>3. request'[o] # Idle
    BY DEF Idle, SessionRequest
  <2>4. CASE Begin(r)
    <3>1. ASSUME NEW e \in Complaints \cup Coolants, BeginRaiseTicket(r, e) PROVE FALSE
      BY <2>2, <3>1 DEF BeginRaiseTicket, Inv, TypeOK, SessionRequest
    <3>2. ASSUME NEW b \in Breakdowns, BeginEditEntry(r, b) PROVE FALSE
      BY <2>2, <3>2 DEF BeginEditEntry, Inv, TypeOK, SessionRequest
    <3>3. ASSUME NEW s \in Sessions, NEW f \in Forms,
                 BeginCreateSession(r, s, f) \/ BeginEditSession(r, s, f)
          PROVE  Behind(request[o])'
      <4>1. request'[o].form = f /\ request'[o].row = RowOf(f) /\ Exists(f) /\ UNCHANGED ticket
        BY <2>2, <3>3 DEF BeginCreateSession, BeginEditSession, Inv, TypeOK, rows
      <4>2. Linked(f) => f.ticket \in Sources
        BY DEF Forms, Linked
      <4> QED BY <4>1, <4>2 DEF Behind, RowOf, Exists, Linked, Inv, AbsentIsBlank
    <3> QED BY <2>4, <3>1, <3>2, <3>3 DEF Begin
  <2>5. CASE WriteSession(r) \/ DecideSession(r)
    <3>1. request[r] \in SessionRequest
      BY <2>5, SessionPhases DEF WriteSession, DecideSession, Working, Inv
    <3>2. UNCHANGED ticket
      BY <2>5 DEF WriteSession, DecideSession, rows
    <3>3. PICK row \in Loaded(request[r]) : request'[r].row = row /\ request'[r].form = request[r].form
      BY <2>5, <3>1 DEF WriteSession, DecideSession, Inv, TypeOK, SessionRequest
    <3> QED BY <2>2, <3>1, <3>2, <3>3, ReloadedBehind
  <2>6. CASE FailRequest(r) \/ RefuseSession(r) \/ CommitSession(r) \/ CommitRaiseTicket(r)
             \/ LoseRaiseTicket(r) \/ CommitEditEntry(r)
    BY <2>2, <2>3, <2>6 DEF FailRequest, RefuseSession, CommitSession, CommitRaiseTicket,
             LoseRaiseTicket, CommitEditEntry, End, Inv, TypeOK
  <2> QED BY <2>1, <2>4, <2>5, <2>6 DEF Step
<1> QED BY <1>2, <1>3

-----------------------------------------------------------------------------
(* The row properties.  Only four actions touch what they read.            *)

RowsInv ==
  /\ AbsentIsBlank
  /\ EntryFollowsTicket
  /\ CompletedWasAttended
  /\ ResolvedWasPushed

\* An entry and its ticket are created together; a coolant top-up is alone.
LEMMA CreateKeepsRows ==
  ASSUME Inv, NEW e \in Entries, CreateEntry(e) PROVE RowsInv'
<1> USE SourcesAssumption
<1>1. e \in Sources /\ ticket[e] = NoTicket /\ Entries \subseteq Sources
  BY DEF CreateEntry, Inv, EntryFollowsTicket, Agrees, AbsentIsBlank, Sources
<1>2. /\ status'[e] = (IF e \in Coolants THEN "done" ELSE "open")
      /\ \A d \in Entries : d # e => status'[d] = status[d]
      /\ ticket'[e] = (IF e \in Coolants THEN NoTicket ELSE OpenTicket)
      /\ \A t \in Sources : t # e => ticket'[t] = ticket[t]
      /\ UNCHANGED resolvedPushes
  BY <1>1 DEF CreateEntry, Inv, TypeOK, history
<1>3. AbsentIsBlank'
  BY <1>1, <1>2 DEF Inv, AbsentIsBlank, OpenTicket, NoTicket
<1>4. EntryFollowsTicket'
  BY <1>1, <1>2 DEF Inv, EntryFollowsTicket, Agrees, OpenTicket, NoTicket
<1>5. CompletedWasAttended'
  BY <1>1, <1>2 DEF Inv, CompletedWasAttended, OpenTicket, NoTicket
<1>6. ResolvedWasPushed'
  BY <1>2 DEF CreateEntry, Inv, TypeOK, ResolvedWasPushed, Entries
<1> QED BY <1>3, <1>4, <1>5, <1>6 DEF RowsInv

\* A check has no entry to agree with.
LEMMA CheckKeepsRows ==
  ASSUME Inv, NEW k \in Checks, RecordFailedCheck(k) PROVE RowsInv'
<1> USE SourcesAssumption
<1>1. k \in Sources /\ k \notin Entries /\ Entries \subseteq Sources
  BY DEF Sources
<1>2. /\ ticket'[k] = OpenTicket
      /\ \A t \in Sources : t # k => ticket'[t] = ticket[t]
      /\ UNCHANGED <<status, resolvedPushes>>
  BY <1>1 DEF RecordFailedCheck, Inv, TypeOK, history
<1> QED
  BY <1>1, <1>2 DEF RowsInv, Inv, AbsentIsBlank, EntryFollowsTicket, Agrees,
                    CompletedWasAttended, ResolvedWasPushed, OpenTicket, NoTicket

\* The unique source_entry_id keeps a late raise_ticket off a ticket that is
\* already there, and its "open" off an entry that is already resolved.
LEMMA RaiseKeepsRows ==
  ASSUME Inv, NEW r \in Requests, CommitRaiseTicket(r) PROVE RowsInv'
<1> USE SourcesAssumption
<1> DEFINE e == request[r].entry
<1>1. e \in Complaints \cup Coolants
  BY DEF CommitRaiseTicket, Working, Inv, TypeOK, Idle, SessionRequest, EditRequest, RaiseRequest
<1>2. e \in Entries /\ e \in Sources /\ e \notin Breakdowns /\ Entries \subseteq Sources
  BY <1>1 DEF Entries, Sources
<1>3. /\ ticket'[e] = OpenTicket /\ status'[e] = "open"
      /\ \A t \in Sources : t # e => ticket'[t] = ticket[t]
      /\ \A d \in Entries : d # e => status'[d] = status[d]
      /\ UNCHANGED resolvedPushes
  BY <1>2 DEF CommitRaiseTicket, Inv, TypeOK, history
<1>4. AbsentIsBlank' /\ EntryFollowsTicket'
  BY <1>2, <1>3 DEF Inv, AbsentIsBlank, EntryFollowsTicket, Agrees, OpenTicket, NoTicket
<1>5. CompletedWasAttended'
  BY <1>2, <1>3 DEF Inv, CompletedWasAttended, OpenTicket, NoTicket
<1>6. ResolvedWasPushed'
  BY <1>2, <1>3 DEF Inv, ResolvedWasPushed, Entries
<1> QED BY <1>4, <1>5, <1>6 DEF RowsInv

\* A session's commit writes one ticket, from a row that is not ahead of it.
LEMMA SessionKeepsRows ==
  ASSUME Inv, NEW r \in Requests, CommitSession(r) PROVE RowsInv'
<1> USE SourcesAssumption
<1> DEFINE q == request[r]
           t == q.form.ticket
<1>1. q \in SessionRequest /\ Behind(q) /\ q.form.when # Nil
  BY CommitFacts, FormFacts
<1>2. \A u \in Sources : u # t => ticket'[u] = ticket[u]
  BY CommitFacts
<1>3. \A e \in Entries : status'[e] = IF e = t /\ Completes(q) THEN "resolved" ELSE status[e]
  BY DEF CommitSession
<1>4. \A b \in Breakdowns : resolvedPushes'[b] =
           IF b = t /\ Completes(q) THEN resolvedPushes[b] + 1 ELSE resolvedPushes[b]
  BY DEF CommitSession, PushesAfter
<1>5. Entries \subseteq Sources /\ Breakdowns \subseteq Entries
  BY DEF Entries, Sources
<1>6. ASSUME t \in Sources
      PROVE  /\ ticket[t].status # "absent"
             /\ ~Attends(q) => ticket[t].attended_at # Nil
             /\ ticket'[t].status = IF Completes(q) THEN "completed" ELSE ticket[t].status
             /\ ticket'[t].attended_at = IF Attends(q) THEN q.form.when ELSE ticket[t].attended_at
             /\ ticket'[t].completed_at = IF Completes(q) THEN q.form.when ELSE ticket[t].completed_at
  <2>1. Linked(q.form)
    BY <1>1, <1>6, FormFacts
  <2> QED BY <1>1, <1>6, <2>1, CommitFacts DEF Behind, Attends
<1>7. AbsentIsBlank'
  BY <1>2, <1>6 DEF Inv, AbsentIsBlank
<1>8. EntryFollowsTicket'
  BY <1>2, <1>3, <1>5, <1>6 DEF Inv, EntryFollowsTicket, Agrees
<1>9. CompletedWasAttended'
  BY <1>1, <1>2, <1>6 DEF Inv, CompletedWasAttended
<1>10. ResolvedWasPushed'
  BY <1>3, <1>4, <1>5 DEF Inv, TypeOK, ResolvedWasPushed
<1> QED BY <1>7, <1>8, <1>9, <1>10 DEF RowsInv

\* No entry disappears between the two steps of raise_ticket.
LEMMA RaisesExistStep == Inv /\ TypeOK' /\ [Next]_vars => RaisesExist'
<1> SUFFICES ASSUME Inv, TypeOK', [Next]_vars,
                    NEW o \in Requests, request'[o] \in RaiseRequest
             PROVE  status'[request'[o].entry] # "absent"
  BY DEF RaisesExist
<1>1. request'[o].entry \in Entries
  BY DEF RaiseRequest, Entries
<1>2. ASSUME NEW e \in Entries, status[e] # "absent" PROVE status'[e] # "absent"
  <2>1. ASSUME NEW d \in Entries, CreateEntry(d) PROVE status'[e] # "absent"
    BY <1>2, <2>1 DEF CreateEntry, Inv, TypeOK
  <2>2. ASSUME NEW r \in Requests, CommitSession(r) PROVE status'[e] # "absent"
    BY <1>2, <2>2 DEF CommitSession
  <2>3. ASSUME NEW r \in Requests, CommitRaiseTicket(r) PROVE status'[e] # "absent"
    BY <1>2, <2>3 DEF CommitRaiseTicket, Inv, TypeOK
  <2>4. CASE UNCHANGED status
    BY <1>2, <2>4
  <2> QED
    BY <2>1, <2>2, <2>3, <2>4
    DEF Next, Begin, Step, Sweep, RecordFailedCheck, BecomeOverdue, BeginRaiseTicket,
        BeginEditEntry, BeginCreateSession, BeginEditSession, WriteSession, RefuseSession,
        DecideSession, LoseRaiseTicket, CommitEditEntry, FailRequest, BeginScan, Nudge,
        CommitScan, FailScan,
        rows, vars
<1>3. CASE request'[o] = request[o]
  BY <1>1, <1>2, <1>3 DEF Inv, RaisesExist
<1>4. CASE request'[o] # request[o]
  <2>1. PICK r \in Requests : Begin(r) \/ Step(r) \/ FailRequest(r)
    BY <1>4 DEF Next, CreateEntry, RecordFailedCheck, BecomeOverdue, Sweep, BeginScan,
                Nudge, CommitScan, FailScan, vars
  <2>2. CASE \E e \in Complaints \cup Coolants : BeginRaiseTicket(r, e)
    BY <1>1, <1>2, <1>4, <2>2 DEF BeginRaiseTicket, Inv, TypeOK
  <2>3. CASE Begin(r) /\ ~\E e \in Complaints \cup Coolants : BeginRaiseTicket(r, e)
    BY <1>4, <2>3 DEF Begin, BeginEditEntry, BeginCreateSession, BeginEditSession, Inv, TypeOK,
                RaiseRequest
  <2>4. CASE WriteSession(r) \/ DecideSession(r)
    <3>1. request[r] \in SessionRequest
      BY <2>4, SessionPhases DEF WriteSession, DecideSession, Working, Inv
    <3>2. request'[r].phase # "raising"
      BY <2>4, <3>1 DEF WriteSession, DecideSession, Inv, TypeOK, SessionRequest
    <3> QED BY <1>4, <2>4, <3>2 DEF WriteSession, DecideSession, Inv, TypeOK, RaiseRequest
  <2>5. CASE FailRequest(r) \/ RefuseSession(r) \/ CommitSession(r) \/ CommitRaiseTicket(r)
             \/ LoseRaiseTicket(r) \/ CommitEditEntry(r)
    BY <1>4, <2>5 DEF FailRequest, RefuseSession, CommitSession, CommitRaiseTicket,
             LoseRaiseTicket, CommitEditEntry, End, Inv, TypeOK, Idle, RaiseRequest
  <2> QED BY <2>1, <2>2, <2>3, <2>4, <2>5 DEF Step
<1> QED BY <1>3, <1>4

LEMMA InvStep == Inv /\ [Next]_vars => Inv'
<1> SUFFICES ASSUME Inv, [Next]_vars PROVE Inv'
  OBVIOUS
<1>1. TypeOK'
  BY TypeStep DEF Inv
<1>2. RequestsBehind'
  BY <1>1, RequestsBehindStep
<1>3. ASSUME UNCHANGED <<status, ticket, resolvedPushes>> PROVE RowsInv'
  BY <1>3 DEF Inv, RowsInv, AbsentIsBlank, EntryFollowsTicket, Agrees,
              CompletedWasAttended, ResolvedWasPushed
<1>4. RowsInv'
  BY <1>3, CreateKeepsRows, CheckKeepsRows, RaiseKeepsRows, SessionKeepsRows
  DEF Next, Begin, Step, Sweep, BecomeOverdue, BeginRaiseTicket, BeginEditEntry,
      BeginCreateSession, BeginEditSession, WriteSession, RefuseSession, DecideSession,
      LoseRaiseTicket, CommitEditEntry, FailRequest, BeginScan, Nudge, CommitScan, FailScan,
      rows, history, vars
<1>5. RaisesExist'
  BY <1>1, RaisesExistStep
<1> QED BY <1>1, <1>2, <1>4, <1>5 DEF Inv, RowsInv

LEMMA InvHolds == Spec => []Inv
<1> QED BY InvInit, InvStep, PTL DEF Spec

\* However requests interleave, an entry and its ticket say the same: no lost
\* race of raise_ticket, edit or completion leaves one without the other.
THEOREM EntryAndTicketAgree == Spec => []EntryFollowsTicket
<1>1. Inv => EntryFollowsTicket
  BY DEF Inv
<1> QED BY InvHolds, <1>1, PTL

\* A completed ticket always has the two ends of "Time taken".
THEOREM CompletedTicketsAttended == Spec => []CompletedWasAttended
<1>1. Inv => CompletedWasAttended
  BY DEF Inv
<1> QED BY InvHolds, <1>1, PTL

\* A breakdown is resolved exactly when its "resolved" push went out.
THEOREM ResolvedBreakdownsPushed == Spec => []ResolvedWasPushed
<1>1. Inv => ResolvedWasPushed
  BY DEF Inv
<1> QED BY InvHolds, <1>1, PTL

\* Completion is one-directional, whatever a request loaded before it writes.
THEOREM CompletionIsNeverUndone == Spec => CompletionIsFinal
<1>1. Inv /\ [Next]_vars =>
        [\A t \in Sources : ticket[t].status = "completed"
                              => ticket'[t].status = "completed"]_vars
  BY StepAdvances DEF Advance
<1> QED BY InvHolds, <1>1, PTL DEF Spec, CompletionIsFinal

-----------------------------------------------------------------------------
(* The promise of TicketLifecycle.                                         *)

\* What the refinement mapping reads off the rows.
LEMMA LifeFacts ==
  ASSUME Inv, NEW t \in Sources
  PROVE  /\ ticket[t].status = "open" => Life(t) = "open"
         /\ ticket[t].status = "completed" => Life(t) = "completed"
         /\ ticket[t].status = "absent" /\ t \in Checks => Life(t) = "none"
         /\ ticket[t].status = "absent" /\ t \in Entries =>
              Life(t) = IF status[t] = "done" THEN "done" ELSE "none"
BY SourcesAssumption DEF Inv, EntryFollowsTicket, Agrees, Life, Sources

LEMMA LifecycleInit == Init => Lifecycle!Init
<1> SUFFICES ASSUME Init PROVE Lifecycle!Init
  OBVIOUS
<1>1. ASSUME NEW t \in Sources PROVE Life(t) = "none" /\ ticket[t].attended_at = Nil
  BY DEF Init, Life, Agrees, NoTicket
<1> QED BY <1>1 DEF Lifecycle!Init

\* A step that changes one source's rows at most.
LEMMA OneSourceStep ==
  ASSUME NEW t \in Sources,
         \A u \in Sources : u # t => ticket'[u] = ticket[u],
         \A u \in Entries : u # t => status'[u] = status[u]
  PROVE  LET life == [u \in Sources |-> Life(u)]
             seen == [u \in Sources |-> ticket[u].attended_at # Nil]
         IN  /\ life' = [life EXCEPT ![t] = Life(t)']
             /\ seen' = [seen EXCEPT ![t] = (ticket'[t].attended_at # Nil)]
<1>1. ASSUME NEW u \in Sources, u # t PROVE Life(u)' = Life(u)
  BY <1>1 DEF Life, Agrees
<1> QED BY <1>1

LEMMA LifecycleStep == Inv /\ Inv' /\ [Next]_vars => [Lifecycle!Next]_(Lifecycle!vars)
<1> SUFFICES ASSUME Inv, Inv', [Next]_vars PROVE [Lifecycle!Next]_(Lifecycle!vars)
  OBVIOUS
<1> USE SourcesAssumption
<1> DEFINE life == [u \in Sources |-> Life(u)]
           seen == [u \in Sources |-> ticket[u].attended_at # Nil]
<1>1. ASSUME NEW e \in Entries, CreateEntry(e) PROVE Lifecycle!Record(e)
  <2>1. e \in Sources /\ ticket[e] = NoTicket /\ status[e] = "absent"
    BY <1>1 DEF CreateEntry, Inv, EntryFollowsTicket, Agrees, AbsentIsBlank, Sources
  <2>2. /\ \A u \in Sources : u # e => ticket'[u] = ticket[u]
        /\ \A u \in Entries : u # e => status'[u] = status[u]
        /\ ticket'[e] = (IF e \in Coolants THEN NoTicket ELSE OpenTicket)
        /\ status'[e] = (IF e \in Coolants THEN "done" ELSE "open")
    BY <1>1, <2>1 DEF CreateEntry, Inv, TypeOK
  <2>3. Life(e) = "none" /\ Life(e)' \in {"done", "open"}
    BY <2>1, <2>2 DEF Life, Agrees, NoTicket, OpenTicket
  <2>4. ticket[e].attended_at = Nil /\ ticket'[e].attended_at = Nil
    BY <2>1, <2>2 DEF NoTicket, OpenTicket
  <2>5. life' = [life EXCEPT ![e] = Life(e)'] /\ seen' = seen
    BY <2>1, <2>2, <2>4, OneSourceStep
  <2> QED BY <2>1, <2>3, <2>5 DEF Lifecycle!Record
<1>2. ASSUME NEW k \in Checks, RecordFailedCheck(k) PROVE Lifecycle!Record(k)
  <2>1. k \in Sources /\ k \notin Entries /\ ticket[k] = NoTicket
    BY <1>2 DEF RecordFailedCheck, Sources
  <2>2. /\ \A u \in Sources : u # k => ticket'[u] = ticket[u]
        /\ \A u \in Entries : u # k => status'[u] = status[u]
        /\ ticket'[k] = OpenTicket
    BY <1>2, <2>1 DEF RecordFailedCheck, Inv, TypeOK
  <2>3. Life(k) = "none" /\ Life(k)' = "open"
    BY <2>1, <2>2 DEF Life, NoTicket, OpenTicket
  <2>4. ticket[k].attended_at = Nil /\ ticket'[k].attended_at = Nil
    BY <2>1, <2>2 DEF NoTicket, OpenTicket
  <2>5. life' = [life EXCEPT ![k] = Life(k)'] /\ seen' = seen
    BY <2>1, <2>2, <2>4, OneSourceStep
  <2> QED BY <2>1, <2>3, <2>5 DEF Lifecycle!Record
<1>3. ASSUME NEW r \in Requests, CommitRaiseTicket(r) PROVE \E e \in Sources : Lifecycle!Raise(e)
  <2>1. request[r] \in RaiseRequest
    BY <1>3 DEF CommitRaiseTicket, Working, Inv, TypeOK, Idle, SessionRequest, EditRequest, RaiseRequest
  <2>7. PICK e \in Entries : e = request[r].entry
    BY <2>1 DEF RaiseRequest, Entries
  <2>2. e \in Entries /\ e \in Sources /\ ticket[e] = NoTicket /\ status[e] # "absent"
    BY <1>3, <2>1, <2>7 DEF CommitRaiseTicket, RaiseRequest, Inv, RaisesExist, Entries, Sources
  <2>3. /\ \A u \in Sources : u # e => ticket'[u] = ticket[u]
        /\ \A u \in Entries : u # e => status'[u] = status[u]
        /\ ticket'[e] = OpenTicket /\ status'[e] = "open"
    BY <1>3, <2>2, <2>7 DEF CommitRaiseTicket, Inv, TypeOK
  <2>4. Life(e) = "done" /\ Life(e)' = "open"
    BY <2>2, <2>3 DEF Life, Agrees, NoTicket, OpenTicket, Inv, EntryFollowsTicket
  <2>5. ticket[e].attended_at = Nil /\ ticket'[e].attended_at = Nil
    BY <2>2, <2>3 DEF NoTicket, OpenTicket
  <2>6. life' = [life EXCEPT ![e] = Life(e)'] /\ seen' = seen
    BY <2>2, <2>3, <2>5, OneSourceStep
  <2> QED BY <2>2, <2>4, <2>6 DEF Lifecycle!Raise
<1>4. ASSUME NEW r \in Requests, CommitSession(r) PROVE [Lifecycle!Next]_(Lifecycle!vars)
  <2> DEFINE q == request[r]
  <2>5. PICK t : t = q.form.ticket
    OBVIOUS
  <2>1. q \in SessionRequest /\ Behind(q) /\ q.form.when # Nil
    BY <1>4, CommitFacts, FormFacts
  <2>2. /\ \A u \in Sources : u # t => ticket'[u] = ticket[u]
        /\ \A u \in Entries : u # t => status'[u] = status[u]
    BY <1>4, <2>5, CommitFacts DEF CommitSession
  <2>3. CASE t \notin Sources
    <3>1. ticket' = ticket /\ status' = status
      BY <1>4, <2>3, <2>5 DEF CommitSession, Inv, TypeOK, Sources
    <3> QED BY <3>1 DEF Lifecycle!vars, Life, Agrees
  <2>4. CASE t \in Sources
    <3>1. /\ ticket[t].status # "absent"
          /\ ~Attends(q) => ticket[t].attended_at # Nil
          /\ ticket'[t].status = IF Completes(q) THEN "completed" ELSE ticket[t].status
          /\ ticket'[t].attended_at = IF Attends(q) THEN q.form.when ELSE ticket[t].attended_at
      BY <1>4, <2>1, <2>4, <2>5, CommitFacts, FormFacts DEF Behind, Attends
    <3>2. ticket[t].status \in {"open", "completed"}
      BY <2>4, <3>1 DEF Inv, TypeOK, TicketRows, TicketStatus
    <3>3. ticket'[t].attended_at # Nil
      BY <2>1, <3>1
    <3>4. /\ Life(t) = ticket[t].status
          /\ Life(t)' = ticket'[t].status
      BY <2>4, <3>1, <3>2 DEF Life, Inv, EntryFollowsTicket
    <3>5. /\ life' = [life EXCEPT ![t] = Life(t)']
          /\ seen' = [seen EXCEPT ![t] = TRUE]
      BY <2>2, <2>4, <3>3, OneSourceStep
    <3>6. CASE ticket[t].status = "open" /\ Completes(q)
      <4>1. Lifecycle!Complete(t)
        BY <2>4, <3>1, <3>4, <3>5, <3>6 DEF Lifecycle!Complete
      <4> QED BY <2>4, <4>1 DEF Lifecycle!Next
    <3>7. CASE ticket[t].status = "open" /\ ~Completes(q) /\ ticket[t].attended_at = Nil
      <4>1. life' = life
        BY <2>4, <3>1, <3>4, <3>5, <3>7
      <4>2. Lifecycle!Attend(t)
        BY <2>4, <3>4, <3>5, <3>7, <4>1 DEF Lifecycle!Attend
      <4> QED BY <2>4, <4>2 DEF Lifecycle!Next
    <3>8. CASE ticket[t].status = "completed"
                 \/ (~Completes(q) /\ ticket[t].attended_at # Nil)
      <4>1. ticket[t].attended_at # Nil /\ Life(t)' = Life(t)
        BY <2>4, <3>1, <3>4, <3>8 DEF Inv, CompletedWasAttended
      <4>2. life' = life
        BY <2>4, <3>5, <4>1
      <4>3. seen[t] = TRUE /\ seen \in [Sources -> BOOLEAN]
        BY <2>4, <4>1
      <4>4. seen' = seen
        BY <2>4, <3>5, <4>3
      <4> QED BY <4>2, <4>4 DEF Lifecycle!vars
    <3> QED BY <3>2, <3>6, <3>7, <3>8
  <2> QED BY <2>3, <2>4
<1>5. CASE UNCHANGED <<status, ticket>>
  BY <1>5 DEF Lifecycle!vars, Life, Agrees
<1>6. Entries \subseteq Sources /\ Checks \subseteq Sources
  BY DEF Sources
<1> QED
  BY <1>1, <1>2, <1>3, <1>4, <1>5, <1>6
  DEF Lifecycle!Next, Next, Begin, Step, Sweep, BecomeOverdue, BeginRaiseTicket,
      BeginEditEntry, BeginCreateSession, BeginEditSession, WriteSession, RefuseSession,
      DecideSession, LoseRaiseTicket, CommitEditEntry, FailRequest, BeginScan, Nudge,
      CommitScan, FailScan,
      rows, vars

\* The rows implement the promise: whatever requests interleave, each commit is
\* one stage of one ticket, or changes no stage at all.
THEOREM RefinesLifecycle == Spec => ImplementsLifecycle
<1> QED
  BY InvHolds, InvInit, LifecycleInit, LifecycleStep, PTL
  DEF Spec, ImplementsLifecycle, Lifecycle!Spec

-----------------------------------------------------------------------------
(* One transaction at a time.  What a request has read is then what is     *)
(* committed, up to entries and tickets created beside it.                 *)

\* What a request in flight has read or checked still holds.
Fresh(r) ==
  LET q == request[r] IN
    /\ q \in SessionRequest =>
         /\ Linked(q.form) => q.row = ticket[q.form.ticket]
         /\ q.phase # "begun" => ~ShiftTaken(q)
         /\ q.kind = "create" => session[q.session] = Nil
         /\ q.kind = "edit" => /\ session[q.session] # Nil
                               /\ ~UndoesCompletion(session[q.session], q.form)
    /\ q \in EditRequest => q.carried = detail[q.entry]

SerialRows ==
  /\ ResolvedPushedOnce
  /\ BreakdownShowsTicket
  /\ OneSessionPerShift
  /\ CompletionIsClaimed

SerialInv == Inv /\ SerialRows /\ \A r \in Requests : Fresh(r)

\* The only ticket a step creates beside a request is one nobody had.
OnlyNewTickets ==
  \A t \in Sources : ticket'[t] = ticket[t] \/ (ticket[t] = NoTicket /\ ticket'[t] = OpenTicket)

\* A request that moves is the only one there is.
LEMMA Alone ==
  ASSUME TypeOK, OneAtATime, OneAtATime', NEW r \in Requests,
         Begin(r) \/ Step(r) \/ FailRequest(r), NEW o \in Requests, o # r
  PROVE  request'[o] = Idle
<1>1. CASE Begin(r)
  <2>1. request'[r] # Idle
    BY <1>1 DEF Begin, BeginRaiseTicket, BeginEditEntry, BeginCreateSession, BeginEditSession,
                TypeOK, Idle
  <2> QED BY <2>1 DEF OneAtATime, Busy
<1>2. CASE Step(r) \/ FailRequest(r)
  <2>1. request[r] # Idle /\ request'[o] = request[o]
    BY <1>2 DEF Step, FailRequest, WriteSession, RefuseSession, DecideSession, CommitSession,
                CommitRaiseTicket, LoseRaiseTicket, CommitEditEntry, Working, End, TypeOK, Idle
  <2> QED BY <2>1 DEF OneAtATime, Busy
<1> QED BY <1>1, <1>2

\* A request that is not there holds nothing.
LEMMA IdleIsFresh ==
  ASSUME NEW r \in Requests, request'[r] = Idle
  PROVE  Fresh(r)'
BY DEF Fresh, Idle, SessionRequest, EditRequest

\* Entries and tickets that appear beside a request are none of its own.
LEMMA KeptFresh ==
  ASSUME Inv, NEW r \in Requests, Fresh(r), UNCHANGED <<session, detail>>, OnlyNewTickets,
         request'[r] = request[r]
  PROVE  Fresh(r)'
<1> DEFINE q == request[r]
<1>1. ASSUME q \in SessionRequest, Linked(q.form) PROVE ticket'[q.form.ticket] = ticket[q.form.ticket]
  <2>1. q.form.ticket \in Sources
    BY <1>1, FormFacts
  <2> QED BY <1>1, <2>1 DEF Inv, RequestsBehind, Behind, OnlyNewTickets, NoTicket
<1>2. ASSUME q \in SessionRequest, UndoesCompletion(session[q.session], q.form)',
             session[q.session] # Nil
      PROVE  UndoesCompletion(session[q.session], q.form)
  <2>1. session[q.session] \in Forms
    BY <1>2 DEF Inv, TypeOK, SessionRequest
  <2>2. session[q.session].ticket \in Sources
    BY <1>2, <2>1 DEF Forms, UndoesCompletion
  <2> QED BY <1>2, <2>2 DEF UndoesCompletion, OnlyNewTickets, OpenTicket, NoTicket
<1> QED BY <1>1, <1>2 DEF Fresh, ShiftTaken

\* Nor do they change what the rows say.
LEMMA KeptRows ==
  ASSUME SerialRows, UNCHANGED <<session, detail, resolvedPushes>>, OnlyNewTickets,
         Breakdowns \subseteq Sources
  PROVE  SerialRows'
BY DEF SerialRows, ResolvedPushedOnce, BreakdownShowsTicket, OneSessionPerShift,
       CompletionIsClaimed, OnlyNewTickets, OpenTicket, NoTicket

\* A request begins with what is committed.
LEMMA BeginIsFresh ==
  ASSUME Inv, NEW r \in Requests, Begin(r)
  PROVE  Fresh(r)'
<1> USE SourcesAssumption
<1>1. ASSUME NEW e \in Complaints \cup Coolants, BeginRaiseTicket(r, e) PROVE Fresh(r)'
  BY <1>1 DEF BeginRaiseTicket, Inv, TypeOK, Fresh, SessionRequest, EditRequest
<1>2. ASSUME NEW b \in Breakdowns, BeginEditEntry(r, b) PROVE Fresh(r)'
  BY <1>2 DEF BeginEditEntry, Inv, TypeOK, Fresh, SessionRequest, rows
<1>3. ASSUME NEW s \in Sessions, NEW f \in Forms, BeginCreateSession(r, s, f) PROVE Fresh(r)'
  BY <1>3 DEF BeginCreateSession, Inv, TypeOK, Fresh, EditRequest, rows, RowOf
<1>4. ASSUME NEW s \in Sessions, NEW f \in Forms, BeginEditSession(r, s, f) PROVE Fresh(r)'
  BY <1>4 DEF BeginEditSession, Inv, TypeOK, Fresh, EditRequest, rows, RowOf, UndoesCompletion
<1> QED BY <1>1, <1>2, <1>3, <1>4 DEF Begin

\* Whichever way the identity map answers, it answers what is committed.
LEMMA ReloadIsFresh ==
  ASSUME Inv, NEW r \in Requests, Fresh(r), WriteSession(r) \/ DecideSession(r)
  PROVE  Fresh(r)'
<1> DEFINE q == request[r]
<1>1. q \in SessionRequest
  BY SessionPhases DEF WriteSession, DecideSession, Working, Inv
<1>2. PICK row \in Loaded(q), phase \in {"written", "decided"} :
        request' = [request EXCEPT ![r].phase = phase, ![r].row = row]
  BY DEF WriteSession, DecideSession
<1>3. request'[r] = [q EXCEPT !.phase = phase, !.row = row]
  BY <1>2 DEF Inv, TypeOK
<1>4. Linked(q.form) => row = ticket[q.form.ticket]
  BY <1>1 DEF Fresh, Loaded
<1>5. ~ShiftTaken(q)
  BY <1>1 DEF WriteSession, DecideSession, Working, Fresh
<1>6. UNCHANGED <<ticket, session>>
  BY DEF WriteSession, DecideSession, rows
<1>7. request'[r].form = q.form /\ request'[r].kind = q.kind /\ request'[r].session = q.session
      /\ request'[r].row = row
  BY <1>1, <1>3 DEF SessionRequest
<1>8. request'[r] \notin EditRequest
  BY <1>1, <1>3 DEF SessionRequest, EditRequest
<1> QED BY <1>1, <1>4, <1>5, <1>6, <1>7, <1>8 DEF Fresh, ShiftTaken, UndoesCompletion

\* What a session's commit leaves behind when its request held the rows as they are.
LEMMA CommitKeepsSerialRows ==
  ASSUME SerialInv, NEW r \in Requests, CommitSession(r)
  PROVE  SerialRows'
<1> USE SourcesAssumption
<1> DEFINE q == request[r]
           t == q.form.ticket
<1>1. q \in SessionRequest /\ q.form.when # Nil /\ q.phase = "decided"
  BY CommitFacts, FormFacts DEF SerialInv, CommitSession, Working
<1>2. /\ Linked(q.form) => q.row = ticket[t]
      /\ ~ShiftTaken(q)
      /\ session[q.session] # Nil => ~UndoesCompletion(session[q.session], q.form)
  BY <1>1 DEF SerialInv, Fresh, SessionRequest
<1>3. q.session \in Sessions /\ q.form \in Forms
  BY <1>1 DEF SessionRequest
<1>4. /\ session'[q.session] = q.form
      /\ \A s \in Sessions : s # q.session => session'[s] = session[s]
  BY <1>3 DEF CommitSession, SerialInv, Inv, TypeOK
<1>5. /\ \A u \in Sources : u # t => ticket'[u] = ticket[u]
      /\ t \in Sources =>
           /\ ticket'[t].status = IF Completes(q) THEN "completed" ELSE ticket[t].status
           /\ ticket'[t].attended_at = IF Attends(q) THEN q.form.when ELSE ticket[t].attended_at
           /\ ticket'[t].completed_at = IF Completes(q) THEN q.form.when ELSE ticket[t].completed_at
  BY CommitFacts DEF SerialInv
<1>6. ResolvedPushedOnce'
  <2> SUFFICES ASSUME NEW b \in Breakdowns PROVE resolvedPushes'[b] <= 1
    BY DEF ResolvedPushedOnce
  <2>1. resolvedPushes'[b] = IF b = t /\ Completes(q) THEN resolvedPushes[b] + 1 ELSE resolvedPushes[b]
    BY DEF CommitSession, PushesAfter
  <2>2. ASSUME b = t, Completes(q) PROVE resolvedPushes[b] = 0
    <3>1. ticket[b].status # "completed"
      BY <1>1, <1>2, <2>2, FormFacts DEF Completes
    <3>2. status[b] # "resolved"
      BY <3>1 DEF SerialInv, Inv, EntryFollowsTicket, Agrees, Entries
    <3> QED BY <3>2 DEF SerialInv, Inv, ResolvedWasPushed, TypeOK
  <2> QED BY <2>1, <2>2 DEF SerialInv, SerialRows, ResolvedPushedOnce
<1>7. BreakdownShowsTicket'
  <2> SUFFICES ASSUME NEW b \in Breakdowns
               PROVE  /\ detail'[b].attended_time = ticket'[b].attended_at
                      /\ detail'[b].resolved_at = ticket'[b].completed_at
    BY DEF BreakdownShowsTicket
  <2>1. /\ detail[b].attended_time = ticket[b].attended_at
        /\ detail[b].resolved_at = ticket[b].completed_at
    BY DEF SerialInv, SerialRows, BreakdownShowsTicket
  <2>2. b \in Sources /\ detail[b] \in DetailRows
    BY DEF Sources, Entries, SerialInv, Inv, TypeOK
  <2>3. detail'[b] = IF b = t THEN DetailAfter(q, detail[b]) ELSE detail[b]
    BY DEF CommitSession
  <2>4. /\ DetailAfter(q, detail[b]).attended_time
             = IF Attends(q) THEN q.form.when ELSE detail[b].attended_time
        /\ DetailAfter(q, detail[b]).resolved_at
             = IF Completes(q) THEN q.form.when ELSE detail[b].resolved_at
    BY <2>2 DEF DetailAfter, DetailRows
  <2> QED BY <1>5, <2>1, <2>2, <2>3, <2>4
<1>8. OneSessionPerShift'
  <2> SUFFICES ASSUME NEW s1 \in Sessions, NEW s2 \in Sessions, s1 # s2,
                      session'[s1] # Nil, session'[s2] # Nil, Linked(session'[s1])
               PROVE  <<session'[s1].ticket, session'[s1].when>>
                        # <<session'[s2].ticket, session'[s2].when>>
    BY DEF OneSessionPerShift, Linked
  <2>1. CASE s1 # q.session /\ s2 # q.session
    BY <1>4, <2>1 DEF SerialInv, SerialRows, OneSessionPerShift, Linked
  <2>2. CASE s1 = q.session
    BY <1>2, <1>4, <2>2 DEF ShiftTaken, Linked
  <2>3. CASE s2 = q.session
    BY <1>2, <1>4, <2>3 DEF ShiftTaken, Linked
  <2> QED BY <2>1, <2>2, <2>3
<1>9. CompletionIsClaimed'
  <2> SUFFICES ASSUME NEW u \in Sources, ticket'[u].status = "completed"
               PROVE  \E s \in Sessions : session'[s] # Nil /\ session'[s].ticket = u
                                            /\ session'[s].completes_ticket
    BY DEF CompletionIsClaimed
  <2>1. q.form # Nil
    BY <1>3, FormsAssumption
  <2>2. CASE u = t /\ q.form.completes_ticket
    BY <1>3, <1>4, <2>1, <2>2
  <2>3. CASE ~(u = t /\ q.form.completes_ticket)
    <3>1. ticket[u].status = "completed"
      BY <1>5, <2>3 DEF Completes
    <3>2. PICK s \in Sessions : session[s] # Nil /\ session[s].ticket = u /\ session[s].completes_ticket
      BY <3>1 DEF SerialInv, SerialRows, CompletionIsClaimed
    <3>3. CASE s # q.session
      BY <1>4, <3>2, <3>3
    <3>4. CASE s = q.session
      BY <1>2, <2>3, <3>1, <3>2, <3>4 DEF UndoesCompletion
    <3> QED BY <3>3, <3>4
  <2> QED BY <2>2, <2>3
<1> QED BY <1>6, <1>7, <1>8, <1>9 DEF SerialRows

LEMMA SerialInit == Init => SerialInv
<1> SUFFICES ASSUME Init PROVE SerialInv
  OBVIOUS
<1>1. Inv
  BY InvInit
<1>2. ResolvedPushedOnce /\ OneSessionPerShift
  BY DEF Init, ResolvedPushedOnce, OneSessionPerShift
<1>3. BreakdownShowsTicket /\ CompletionIsClaimed
  BY DEF Init, BreakdownShowsTicket, CompletionIsClaimed, NewDetail, NoTicket, Sources, Entries
<1>4. \A r \in Requests : Fresh(r)
  BY DEF Init, Fresh, Idle, SessionRequest, EditRequest
<1> QED BY <1>1, <1>2, <1>3, <1>4 DEF SerialInv, SerialRows

\* A step of a request leaves the others idle, so only its own has to stay fresh.
LEMMA SerialStep == SerialInv /\ OneAtATime /\ OneAtATime' /\ [Next]_vars => SerialInv'
<1> SUFFICES ASSUME SerialInv, OneAtATime, OneAtATime', [Next]_vars PROVE SerialInv'
  OBVIOUS
<1> USE SourcesAssumption
<1>1. Inv /\ TypeOK /\ Inv' /\ SerialRows /\ \A o \in Requests : Fresh(o)
  BY InvStep DEF SerialInv, Inv
<1>2. Breakdowns \subseteq Sources /\ Entries \subseteq Sources /\ Checks \subseteq Sources
  BY DEF Sources, Entries
<1>3. ASSUME UNCHANGED <<session, detail, resolvedPushes, request>>, OnlyNewTickets PROVE SerialInv'
  BY <1>1, <1>2, <1>3, KeptFresh, KeptRows DEF SerialInv
<1>4. ASSUME NEW r \in Requests, Begin(r) \/ Step(r) \/ FailRequest(r), Fresh(r)', SerialRows'
      PROVE  SerialInv'
  BY <1>1, <1>4, Alone, IdleIsFresh DEF SerialInv
<1>5. ASSUME NEW r \in Requests, UNCHANGED <<session, detail, resolvedPushes>>, OnlyNewTickets,
             Begin(r) \/ Step(r) \/ FailRequest(r), Fresh(r)'
      PROVE  SerialInv'
  BY <1>1, <1>2, <1>4, <1>5, KeptRows
<1>6. ASSUME UNCHANGED ticket PROVE OnlyNewTickets
  BY <1>6 DEF OnlyNewTickets
<1>7. ASSUME NEW e \in Entries, CreateEntry(e) PROVE SerialInv'
  <2>1. ticket[e] = NoTicket
    BY <1>1, <1>2, <1>7 DEF CreateEntry, Inv, EntryFollowsTicket, Agrees, AbsentIsBlank
  <2>2. OnlyNewTickets
    BY <1>1, <1>2, <1>7, <2>1 DEF CreateEntry, OnlyNewTickets, TypeOK
  <2> QED BY <1>3, <1>7, <2>2 DEF CreateEntry, history
<1>8. ASSUME NEW k \in Checks, RecordFailedCheck(k) PROVE SerialInv'
  <2>1. OnlyNewTickets
    BY <1>1, <1>2, <1>8 DEF RecordFailedCheck, OnlyNewTickets, TypeOK
  <2> QED BY <1>3, <1>8, <2>1 DEF RecordFailedCheck, history
<1>9. ASSUME NEW b \in Breakdowns, BecomeOverdue(b) PROVE SerialInv'
  BY <1>3, <1>6, <1>9 DEF BecomeOverdue, rows, history
<1>10. ASSUME NEW r \in Requests, Begin(r) PROVE SerialInv'
  <2>1. UNCHANGED <<session, detail, resolvedPushes, ticket>>
    BY <1>10 DEF Begin, BeginRaiseTicket, BeginEditEntry, BeginCreateSession, BeginEditSession,
                 rows, history
  <2> QED BY <1>1, <1>5, <1>6, <1>10, <2>1, BeginIsFresh
<1>11. ASSUME NEW r \in Requests, Step(r) PROVE SerialInv'
  <2>1. CASE WriteSession(r) \/ DecideSession(r)
    <3>1. UNCHANGED <<session, detail, resolvedPushes, ticket>>
      BY <2>1 DEF WriteSession, DecideSession, rows, history
    <3> QED BY <1>1, <1>5, <1>6, <1>11, <2>1, <3>1, ReloadIsFresh
  <2>2. ASSUME request' = [request EXCEPT ![r] = Idle] PROVE Fresh(r)'
    BY <1>1, <2>2, IdleIsFresh DEF TypeOK
  <2>3. CASE RefuseSession(r) \/ LoseRaiseTicket(r)
    BY <1>5, <1>6, <1>11, <2>2, <2>3 DEF RefuseSession, LoseRaiseTicket, End, rows, history
  <2>4. CASE CommitRaiseTicket(r)
    <3>1. OnlyNewTickets
      BY <1>1, <2>4 DEF CommitRaiseTicket, OnlyNewTickets, TypeOK
    <3> QED BY <1>5, <1>11, <2>2, <2>4, <3>1 DEF CommitRaiseTicket, End, history
  <2>5. CASE CommitSession(r)
    BY <1>4, <1>11, <2>2, <2>5, CommitKeepsSerialRows DEF CommitSession, End
  <2>6. CASE CommitEditEntry(r)
    <3>1. request[r] \in EditRequest
      BY <1>1, <2>6 DEF CommitEditEntry, Working, TypeOK, Idle, SessionRequest, EditRequest,
                        RaiseRequest
    <3>2. request[r].carried = detail[request[r].entry]
      BY <1>1, <3>1 DEF Fresh
    <3>3. UNCHANGED <<session, detail, resolvedPushes, ticket>>
      BY <1>1, <2>6, <3>2 DEF CommitEditEntry, TypeOK, history
    <3> QED BY <1>5, <1>6, <1>11, <2>2, <2>6, <3>3 DEF CommitEditEntry, End
  <2> QED BY <1>11, <2>1, <2>3, <2>4, <2>5, <2>6 DEF Step
<1>12. ASSUME NEW r \in Requests, FailRequest(r) PROVE SerialInv'
  <2>1. Fresh(r)'
    BY <1>1, <1>12, IdleIsFresh DEF FailRequest, End, TypeOK
  <2> QED BY <1>5, <1>6, <1>12, <2>1 DEF FailRequest, rows, history
<1>13. CASE CommitScan
  <2>1. \A r \in Requests : request'[r] = Idle
    BY <1>13 DEF CommitScan, OneAtATime, Busy
  <2>2. \A b \in Breakdowns : /\ detail'[b].attended_time = detail[b].attended_time
                              /\ detail'[b].resolved_at = detail[b].resolved_at
    BY <1>1, <1>13 DEF CommitScan, TypeOK, DetailRows
  <2>3. SerialRows'
    BY <1>1, <1>13, <2>2 DEF CommitScan, SerialRows, ResolvedPushedOnce, BreakdownShowsTicket,
           OneSessionPerShift, CompletionIsClaimed, history
  <2> QED BY <1>1, <2>1, <2>3, IdleIsFresh DEF SerialInv
<1>14. CASE BeginScan \/ FailScan \/ \E b \in Breakdowns : Nudge(b)
  BY <1>3, <1>6, <1>14 DEF BeginScan, FailScan, Nudge, rows, history
<1>15. CASE UNCHANGED vars
  BY <1>3, <1>6, <1>15 DEF vars
<1> QED
  BY <1>7, <1>8, <1>9, <1>10, <1>11, <1>12, <1>13, <1>14, <1>15 DEF Next, Sweep

\* As long as no two transactions overlap, a breakdown's push goes out once, its
\* own columns are its ticket's, a shift has one session, and a completed ticket
\* a session that claims it.
THEOREM SerialTickets ==
  Spec /\ []OneAtATime =>
    [](ResolvedPushedOnce /\ BreakdownShowsTicket /\ OneSessionPerShift /\ CompletionIsClaimed)
<1>1. SerialInv => ResolvedPushedOnce /\ BreakdownShowsTicket /\ OneSessionPerShift /\ CompletionIsClaimed
  BY DEF SerialInv, SerialRows
<1> QED BY SerialInit, SerialStep, <1>1, PTL DEF Spec

\* The instance of the run, which is serial or not as a whole.
LEMMA FlaggedSerial == MCSpec => [](serial => OneAtATime /\ SerialInv)
<1> DEFINE Flag == serial => OneAtATime /\ SerialInv
<1>1. MCInit => Flag
  <2> SUFFICES ASSUME Init PROVE OneAtATime /\ SerialInv
    BY DEF MCInit
  <2> QED BY SerialInit DEF Init, OneAtATime, Busy
<1>2. Flag /\ [MCNext]_<<vars, serial>> => Flag'
  <2> SUFFICES ASSUME Flag, [MCNext]_<<vars, serial>>, serial' PROVE (OneAtATime /\ SerialInv)'
    OBVIOUS
  <2>1. [Next]_vars /\ OneAtATime /\ SerialInv
    BY DEF MCNext
  <2>2. OneAtATime'
    <3>1. CASE MCNext
      BY <3>1 DEF MCNext
    <3>2. CASE UNCHANGED <<vars, serial>>
      BY <2>1, <3>2 DEF vars, OneAtATime, Busy
    <3> QED BY <3>1, <3>2
  <2> QED BY <2>1, <2>2, SerialStep
<1> QED BY <1>1, <1>2, PTL DEF MCSpec

\* The "resolved" push of a breakdown goes out once: its one completion is decided
\* from the ticket as it is.
THEOREM PushedOnce == MCSpec => []PushedOnceSerially
<1>1. (serial => OneAtATime /\ SerialInv) => PushedOnceSerially
  BY DEF SerialInv, SerialRows, PushedOnceSerially
<1> QED BY FlaggedSerial, <1>1, PTL

\* A breakdown's own columns are the moments of its ticket through every edit: what
\* an edit carries across is what it loaded, and that is still what is there.
THEOREM BreakdownMirrorsTicket == MCSpec => []BreakdownShowsTicketSerially
<1>1. (serial => OneAtATime /\ SerialInv) => BreakdownShowsTicketSerially
  BY DEF SerialInv, SerialRows, BreakdownShowsTicketSerially
<1> QED BY FlaggedSerial, <1>1, PTL

\* No two sessions of one ticket share a date and shift: the trigger's look at the
\* committed sessions is still right when its own session commits.
THEOREM OneSessionAShift == MCSpec => []OneSessionSerially
<1>1. (serial => OneAtATime /\ SerialInv) => OneSessionSerially
  BY DEF SerialInv, SerialRows, OneSessionSerially
<1> QED BY FlaggedSerial, <1>1, PTL
=============================================================================
