------------------------------- MODULE Tickets -------------------------------
(***************************************************************************)
(* The ticket spine of one site: register entries, the tickets raised from *)
(* them, the Work Done sessions logged against the tickets, and the SLA    *)
(* sweep over open breakdowns.                                             *)
(*                                                                         *)
(* Every HTTP request and every sweep is one READ COMMITTED transaction on *)
(* its own database session, with no SELECT ... FOR UPDATE and no version  *)
(* column.  The module splits a request where another transaction's commit *)
(* can change what it sees: what it loads first, the flush that runs the   *)
(* shift trigger, the read its ticket side effects are decided from, and   *)
(* the commit.  Variables hold committed rows; what a request has flushed  *)
(* but not committed is in its own record.                                 *)
(***************************************************************************)
EXTENDS Naturals, FiniteSets

CONSTANTS
  Breakdowns, Complaints, Coolants, \* ids of the entries of each register
  Checks,         \* ids of failed inspection lines, the other ticket source
  Sessions,       \* ids of Work Done entries
  Whens,          \* date, shift and clock time of a session, as one value
  Requests,       \* HTTP requests in flight at once
  MaxConcurrent,  \* transactions open at once; 1 makes the system serial
  MaxPushes,      \* bound: sweeps that may nudge for one breakdown
  MaxFailures,    \* bound: sweeps that die after they pushed
  Nil

Entries == Breakdowns \cup Complaints \cup Coolants
Sources == Entries \cup Checks

ASSUME SourcesAssumption ==
  /\ Breakdowns \cap Complaints = {}
  /\ Breakdowns \cap Coolants = {}
  /\ Complaints \cap Coolants = {}
  /\ Checks \cap Entries = {}
  /\ Nil \notin Sources /\ Nil \notin Whens /\ Nil \notin Sessions
ASSUME BoundsAssumption ==
  /\ MaxConcurrent \in Nat \ {0} /\ MaxPushes \in Nat /\ MaxFailures \in Nat

VARIABLES
  status,         \* entries.status, "absent" before the row exists
  detail,         \* the server-owned columns of breakdown_entries
  overdue,        \* created_at is behind the SLA cutoff
  ticket,         \* tickets, keyed by their (unique) source
  session,        \* work_done_entries joined with their entry header
  request,        \* what each HTTP request has read and flushed
  scan,           \* the SLA sweep's list, and whom it has pushed for
  slaPushes,      \* history: SLA pushes sent per breakdown
  resolvedPushes, \* history: "resolved" pushes sent per breakdown
  completer,      \* history: the session whose commit completed the ticket
  failures        \* history: sweeps that died half way

vars == <<status, detail, overdue, ticket, session, request, scan,
          slaPushes, resolvedPushes, completer, failures>>

EntryStatus  == {"absent", "open", "done", "resolved"}
TicketStatus == {"absent", "open", "completed"}
Moments      == Whens \cup {Nil}

TicketRows == [status : TicketStatus, attended_at : Moments, completed_at : Moments]
DetailRows == [attended_time : Moments, resolved_at : Moments, sla_notified : BOOLEAN]

\* A Work Done form that validates: completes_ticket requires a ticket_id.
Forms == {f \in [ticket : Sources \cup {Nil}, when : Whens, completes_ticket : BOOLEAN] :
            f.completes_ticket => f.ticket # Nil}
ASSUME FormsAssumption == Nil \notin Forms

NoTicket   == [status |-> "absent", attended_at |-> Nil, completed_at |-> Nil]
OpenTicket == [NoTicket EXCEPT !.status = "open"]
NewDetail  == [attended_time |-> Nil, resolved_at |-> Nil, sla_notified |-> FALSE]

Idle == [phase |-> "idle"]
SessionRequest ==
  [phase : {"begun", "written", "decided"}, kind : {"create", "edit"},
   session : Sessions, form : Forms, pinned : BOOLEAN, row : TicketRows]
EditRequest  == [phase : {"editing"}, entry : Breakdowns, carried : DetailRows]
RaiseRequest == [phase : {"raising"}, entry : Complaints \cup Coolants]
NoScan       == [phase |-> "idle"]
Scans        == [phase : {"scanning"}, todo : SUBSET Breakdowns, sent : SUBSET Breakdowns]

TypeOK ==
  /\ status \in [Entries -> EntryStatus]
  /\ detail \in [Breakdowns -> DetailRows]
  /\ overdue \in [Breakdowns -> BOOLEAN]
  /\ ticket \in [Sources -> TicketRows]
  /\ session \in [Sessions -> Forms \cup {Nil}]
  /\ request \in [Requests -> {Idle} \cup SessionRequest \cup EditRequest \cup RaiseRequest]
  /\ scan \in {NoScan} \cup Scans
  /\ slaPushes \in [Breakdowns -> Nat]
  /\ resolvedPushes \in [Breakdowns -> Nat]
  /\ completer \in [Sources -> Sessions \cup {Nil}]
  /\ failures \in Nat

Init ==
  /\ status = [e \in Entries |-> "absent"]
  /\ detail = [b \in Breakdowns |-> NewDetail]
  /\ overdue = [b \in Breakdowns |-> FALSE]
  /\ ticket = [t \in Sources |-> NoTicket]
  /\ session = [s \in Sessions |-> Nil]
  /\ request = [r \in Requests |-> Idle]
  /\ scan = NoScan
  /\ slaPushes = [b \in Breakdowns |-> 0]
  /\ resolvedPushes = [b \in Breakdowns |-> 0]
  /\ completer = [t \in Sources |-> Nil]
  /\ failures = 0

-----------------------------------------------------------------------------
(* Transactions.                                                           *)

Busy == {r \in Requests : request[r] # Idle}
Open == Cardinality(Busy) + (IF scan = NoScan THEN 0 ELSE 1)
CanBegin(r) == request[r] = Idle /\ Open < MaxConcurrent

Working(r, phases) == request[r].phase \in phases
End(r) == request' = [request EXCEPT ![r] = Idle]

rows    == <<status, detail, ticket, session>>
history == <<slaPushes, resolvedPushes, completer, failures>>

-----------------------------------------------------------------------------
(* Entries and the tickets raised from them.                               *)

\* POST /entries: a breakdown or a complaint opens with its ticket in the same
\* transaction, a coolant top-up is done and has none.  Nobody else can see
\* the new entry before the commit, so the request is one step.
CreateEntry(e) ==
  /\ status[e] = "absent"
  /\ status' = [status EXCEPT ![e] = IF e \in Coolants THEN "done" ELSE "open"]
  /\ ticket' = IF e \in Coolants THEN ticket ELSE [ticket EXCEPT ![e] = OpenTicket]
  /\ UNCHANGED <<detail, overdue, session, request, scan, history>>

\* record_inspection: a `not_ok` line gets a ticket of its own.
RecordFailedCheck(k) ==
  /\ ticket[k] = NoTicket
  /\ ticket' = [ticket EXCEPT ![k] = OpenTicket]
  /\ UNCHANGED <<status, detail, overdue, session, request, scan, history>>

\* POST /entries/{id}/raise_ticket finds no ticket for the entry ...
BeginRaiseTicket(r, e) ==
  /\ CanBegin(r)
  /\ status[e] # "absent" /\ ticket[e] = NoTicket
  /\ request' = [request EXCEPT ![r] = [phase |-> "raising", entry |-> e]]
  /\ UNCHANGED <<rows, overdue, scan, history>>

\* Broken: the loser of the race overwrites the ticket that is there.
CommitRaiseTicketUpsert(r) ==
  /\ Working(r, {"raising"})
  /\ ticket' = [ticket EXCEPT ![request[r].entry] = OpenTicket]
  /\ status' = [status EXCEPT ![request[r].entry] = "open"]
  /\ End(r)
  /\ UNCHANGED <<detail, overdue, session, scan, history>>

\* Broken: the entry keeps its status.
CommitRaiseTicketOnly(r) ==
  /\ Working(r, {"raising"})
  /\ ticket[request[r].entry] = NoTicket
  /\ ticket' = [ticket EXCEPT ![request[r].entry] = OpenTicket]
  /\ End(r)
  /\ UNCHANGED <<status, detail, overdue, session, scan, history>>

\* ... and inserts one; tickets.source_entry_id is unique, so a request that
\* lost the race fails there and its status change is rolled back with it.
CommitRaiseTicket(r) ==
  /\ Working(r, {"raising"})
  /\ LET e == request[r].entry IN
       /\ ticket[e] = NoTicket
       /\ ticket' = [ticket EXCEPT ![e] = OpenTicket]
       /\ status' = [status EXCEPT ![e] = "open"]
  /\ End(r)
  /\ UNCHANGED <<detail, overdue, session, scan, history>>

\* The loser of the race: its insert runs into the unique key.
LoseRaiseTicket(r) ==
  /\ Working(r, {"raising"})
  /\ ticket[request[r].entry] # NoTicket
  /\ End(r)
  /\ UNCHANGED <<rows, overdue, scan, history>>

\* PUT /entries/{id} of a breakdown loads the row it is about to replace ...
BeginEditEntry(r, b) ==
  /\ CanBegin(r)
  /\ status[b] # "absent"
  /\ request' = [request EXCEPT ![r] =
                   [phase |-> "editing", entry |-> b, carried |-> detail[b]]]
  /\ UNCHANGED <<rows, overdue, scan, history>>

\* Broken: the rebuilt row starts afresh.
CommitEditEntryAfresh(r) ==
  /\ Working(r, {"editing"})
  /\ detail' = [detail EXCEPT ![request[r].entry] = NewDetail]
  /\ End(r)
  /\ UNCHANGED <<status, overdue, ticket, session, scan, history>>

\* ... deletes it and inserts the form's, with the server-owned columns carried
\* across from what was loaded.  The delete locks the row up to the commit: a
\* transaction that has to wait for it finds no row and fails (FailRequest).
CommitEditEntry(r) ==
  /\ Working(r, {"editing"})
  /\ detail' = [detail EXCEPT ![request[r].entry] = request[r].carried]
  /\ End(r)
  /\ UNCHANGED <<status, overdue, ticket, session, scan, history>>

-----------------------------------------------------------------------------
(* Work Done sessions.                                                     *)

Linked(f) == f.ticket # Nil
RowOf(f)  == IF Linked(f) THEN ticket[f.ticket] ELSE NoTicket
Exists(f) == Linked(f) => ticket[f.ticket] # NoTicket

\* The ticket row a session.get returns.  The identity map answers while
\* something still holds the object: an edit's own ticket is held by the loaded
\* detail; an inspection's ticket sits in a reference cycle with its result and
\* is there until the collector runs; any other ticket is read again.
Loaded(q) ==
  IF q.pinned \/ ~Linked(q.form) THEN {q.row}
  ELSE IF q.form.ticket \in Checks THEN {q.row, ticket[q.form.ticket]}
  ELSE {ticket[q.form.ticket]}

\* POST /entries for a Work Done session reads the linked ticket's bus.
BeginCreateSession(r, s, f) ==
  /\ CanBegin(r)
  /\ session[s] = Nil
  /\ \A q \in Busy : request[q].phase \in {"begun", "written", "decided"}
                        => request[q].session # s
  /\ Exists(f)
  /\ request' = [request EXCEPT ![r] =
                   [phase |-> "begun", kind |-> "create", session |-> s, form |-> f,
                    pinned |-> FALSE, row |-> RowOf(f)]]
  /\ UNCHANGED <<rows, overdue, scan, history>>

\* _reject_undoing_completion: the session claims its ticket's completion, the
\* form no longer does, and the ticket is completed.
UndoesCompletion(old, f) ==
  /\ old.completes_ticket
  /\ ~(f.completes_ticket /\ f.ticket = old.ticket)
  /\ ticket[old.ticket].status = "completed"

\* PUT /entries/{id} of a Work Done session.
BeginEditSession(r, s, f) ==
  /\ CanBegin(r)
  /\ session[s] # Nil
  /\ Exists(f)
  /\ ~UndoesCompletion(session[s], f)
  /\ request' = [request EXCEPT ![r] =
                   [phase |-> "begun", kind |-> "edit", session |-> s, form |-> f,
                    pinned |-> (Linked(f) /\ f.ticket = session[s].ticket),
                    row |-> RowOf(f)]]
  /\ UNCHANGED <<rows, overdue, scan, history>>

\* Broken: an edit locks its session when it loads it, and waits for the others
\* that did.
LockedOutOnLoad(r) ==
  \E o \in Busy \ {r} :
    /\ Working(o, {"begun", "written", "decided"})
    /\ \/ request[o].session = request[r].session
       \/ request[o].kind = "create" /\ request[r].kind = "create"

\* The display-id counter row is locked by whoever creates a session, and the
\* session's own row by whoever rewrites it, from here to the commit.
LockedOut(r) ==
  \E o \in Busy \ {r} :
    /\ Working(o, {"written", "decided"})
    /\ \/ request[o].session = request[r].session
       \/ request[o].kind = "create" /\ request[r].kind = "create"

\* _resolve_ticket: a completed ticket takes no new session; an edit may
\* resubmit its own.
Attachable(q, row) == Linked(q.form) => (row.status # "completed" \/ q.pinned)

\* Broken: a trigger for INSERTs of new sessions only.
ShiftTakenOnCreate(q) ==
  /\ q.kind = "create" /\ Linked(q.form)
  /\ \E s \in Sessions \ {q.session} :
       /\ session[s] # Nil
       /\ session[s].ticket = q.form.ticket /\ session[s].when = q.form.when

\* The check_work_done_shift_uniqueness trigger: it sees committed sessions.
ShiftTaken(q) ==
  /\ Linked(q.form)
  /\ \E s \in Sessions \ {q.session} :
       /\ session[s] # Nil
       /\ session[s].ticket = q.form.ticket
       /\ session[s].when = q.form.when

\* Build the detail row and flush it.
WriteSession(r) ==
  /\ Working(r, {"begun"})
  /\ ~LockedOut(r)
  /\ ~ShiftTaken(request[r])
  /\ \E row \in Loaded(request[r]) :
       /\ Attachable(request[r], row)
       /\ request' = [request EXCEPT ![r].phase = "written", ![r].row = row]
  /\ UNCHANGED <<rows, overdue, scan, history>>

\* Either check answers 409 and the transaction is rolled back.
RefuseSession(r) ==
  /\ Working(r, {"begun"})
  /\ ~LockedOut(r)
  /\ \/ ShiftTaken(request[r])
     \/ \E row \in Loaded(request[r]) : ~Attachable(request[r], row)
  /\ End(r)
  /\ UNCHANGED <<rows, overdue, scan, history>>

\* _apply_ticket_side_effects loads the ticket; what it decides is in memory
\* until the next flush, after the recipients are queried.
DecideSession(r) ==
  /\ Working(r, {"written"})
  /\ \E row \in Loaded(request[r]) :
       request' = [request EXCEPT ![r].phase = "decided", ![r].row = row]
  /\ UNCHANGED <<rows, overdue, scan, history>>

\* Broken: a completed ticket is completed again.
CompletesAgain(q) == q.form.completes_ticket

\* mark_attended and complete_ticket, decided from the row that was loaded.
Attends(q)   == Linked(q.form) /\ q.row.attended_at = Nil
Completes(q) == q.form.completes_ticket /\ q.row.status # "completed"

Attended(row, at)  == [row EXCEPT !.attended_at = at]
Completed(row, at) == [row EXCEPT !.status = "completed", !.completed_at = at]

\* Columns of the ticket the commit writes; the others keep what is there.
TicketAfter(q, row) ==
  LET attended == IF Attends(q) THEN Attended(row, q.form.when) ELSE row
  IN  IF Completes(q) THEN Completed(attended, q.form.when) ELSE attended

\* The same moments on a breakdown's own row.
DetailAfter(q, d) ==
  LET attended == IF Attends(q) THEN [d EXCEPT !.attended_time = q.form.when] ELSE d
  IN  IF Completes(q) THEN [attended EXCEPT !.resolved_at = q.form.when] ELSE attended

PushesAfter(q, n) == IF Completes(q) THEN n + 1 ELSE n

\* The session row, the ticket, its source entry and the breakdown's columns are
\* committed together; a breakdown's completion is pushed.
CommitSession(r) ==
  /\ Working(r, {"decided"})
  /\ LET q == request[r]
         t == q.form.ticket
     IN  /\ session' = [session EXCEPT ![q.session] = q.form]
         /\ ticket' = [u \in Sources |-> IF u = t THEN TicketAfter(q, ticket[u]) ELSE ticket[u]]
         /\ detail' = [b \in Breakdowns |-> IF b = t THEN DetailAfter(q, detail[b]) ELSE detail[b]]
         /\ status' = [e \in Entries |->
                         IF e = t /\ Completes(q) THEN "resolved" ELSE status[e]]
         /\ resolvedPushes' = [b \in Breakdowns |->
                         IF b = t THEN PushesAfter(q, resolvedPushes[b])
                                  ELSE resolvedPushes[b]]
         /\ completer' = [u \in Sources |->
                         IF u = t /\ Completes(q) THEN q.session ELSE completer[u]]
  /\ End(r)
  /\ UNCHANGED <<overdue, scan, slaPushes, failures>>

\* Any other way a request ends without a commit: a validation error, a
\* constraint, a row that vanished under an UPDATE, a dropped connection.
FailRequest(r) ==
  /\ request[r] # Idle
  /\ End(r)
  /\ UNCHANGED <<rows, overdue, scan, history>>

-----------------------------------------------------------------------------
(* The SLA sweep, a background job of its own.                             *)

\* The breakdown has been open past the SLA window.
BecomeOverdue(b) ==
  /\ status[b] = "open" /\ ~overdue[b]
  /\ overdue' = [overdue EXCEPT ![b] = TRUE]
  /\ UNCHANGED <<rows, request, scan, history>>

\* Broken: a bus that was visited is no longer watched.
StaleUnattended == {b \in Breakdowns : /\ status[b] = "open" /\ overdue[b]
                                       /\ ~detail[b].sla_notified
                                       /\ detail[b].attended_time = Nil
                                       /\ slaPushes[b] < MaxPushes}
Stale == {b \in Breakdowns : /\ status[b] = "open" /\ overdue[b]
                             /\ ~detail[b].sla_notified
                             /\ slaPushes[b] < MaxPushes}

BeginScan ==
  /\ scan = NoScan
  /\ Open < MaxConcurrent
  /\ Stale # {}
  /\ scan' = [phase |-> "scanning", todo |-> Stale, sent |-> {}]
  /\ UNCHANGED <<rows, overdue, request, history>>

\* fan_out pushes at once; sla_notified_at waits for the sweep's one commit.
Nudge(b) ==
  /\ scan # NoScan
  /\ b \in scan.todo
  /\ scan' = [scan EXCEPT !.todo = @ \ {b}, !.sent = @ \cup {b}]
  /\ slaPushes' = [slaPushes EXCEPT ![b] = @ + 1]
  /\ UNCHANGED <<rows, overdue, request, resolvedPushes, completer, failures>>

CommitScan ==
  /\ scan # NoScan
  /\ scan.todo = {}
  /\ detail' = [b \in Breakdowns |->
                  IF b \in scan.sent THEN [detail[b] EXCEPT !.sla_notified = TRUE]
                                     ELSE detail[b]]
  /\ scan' = NoScan
  /\ UNCHANGED <<status, overdue, ticket, session, request, history>>

\* The sweep dies, or its commit fails: everything is rolled back but the pushes.
FailScan ==
  /\ scan # NoScan
  /\ failures < MaxFailures
  /\ failures' = failures + 1
  /\ scan' = NoScan
  /\ UNCHANGED <<rows, overdue, request, slaPushes, resolvedPushes, completer>>

-----------------------------------------------------------------------------
Step(r) ==
  \/ WriteSession(r)
  \/ RefuseSession(r)
  \/ DecideSession(r)
  \/ CommitSession(r)
  \/ CommitRaiseTicket(r)
  \/ LoseRaiseTicket(r)
  \/ CommitEditEntry(r)

Begin(r) ==
  \/ \E e \in Complaints \cup Coolants : BeginRaiseTicket(r, e)
  \/ \E b \in Breakdowns : BeginEditEntry(r, b)
  \/ \E s \in Sessions, f \in Forms : BeginCreateSession(r, s, f)
  \/ \E s \in Sessions, f \in Forms : BeginEditSession(r, s, f)

Sweep ==
  \/ BeginScan
  \/ \E b \in Breakdowns : Nudge(b)
  \/ CommitScan

Next ==
  \/ \E e \in Entries : CreateEntry(e)
  \/ \E k \in Checks : RecordFailedCheck(k)
  \/ \E b \in Breakdowns : BecomeOverdue(b)
  \/ \E r \in Requests : Begin(r) \/ Step(r) \/ FailRequest(r)
  \/ Sweep
  \/ FailScan

Spec == Init /\ [][Next]_vars

\* The event loop runs every request it accepted and the scheduler fires the
\* sweep again and again; nobody has to begin a request, or to fail.  A request
\* that waits for a row lock is granted it in turn (PostgreSQL queues waiters),
\* though others may take the lock before: strong fairness.
FairSpec ==
  /\ Spec
  /\ WF_vars(Sweep)
  /\ \A r \in Requests : /\ WF_vars(Step(r))
                         /\ SF_vars(WriteSession(r) \/ RefuseSession(r))

-----------------------------------------------------------------------------
(* What holds however transactions interleave.                             *)

Agrees(e) == <<status[e], ticket[e].status>> \in
  {<<"absent", "absent">>, <<"done", "absent">>, <<"open", "open">>, <<"resolved", "completed">>}

\* An entry is open exactly while its ticket is, and resolved exactly when its
\* ticket is completed: the Home counters and the alert scan read the entry,
\* the Work Done picker reads the ticket, and no edit, race or lost raise_ticket
\* may leave one saying what the other does not.
EntryFollowsTicket == \A e \in Entries : Agrees(e)

\* A completed ticket stays completed ("there is no un-resolve"), and its entry
\* with it, whatever a request that loaded them earlier writes later.
CompletionIsFinal ==
  [][\A t \in Sources : ticket[t].status = "completed"
                           => ticket'[t].status = "completed"]_vars

\* "Time taken" needs both ends: a completed ticket was attended, by its own
\* completing session if by no other.
CompletedWasAttended ==
  \A t \in Sources :
    /\ ticket[t].status = "completed" <=> ticket[t].completed_at # Nil
    /\ ticket[t].status = "completed" => ticket[t].attended_at # Nil

\* Somebody was told: every breakdown that is resolved was pushed as resolved,
\* since no path but complete_ticket resolves one.
ResolvedWasPushed ==
  \A b \in Breakdowns : status[b] = "resolved" <=> resolvedPushes[b] > 0

-----------------------------------------------------------------------------
(* What the code promises and keeps as long as no two transactions overlap. *)

OneAtATime ==
  /\ \A r1, r2 \in Busy : r1 = r2
  /\ scan # NoScan => Busy = {}

\* The first completion is the only one: neither the moment nor the session it
\* is credited to changes, and its push goes out once.
CompletedOnce ==
  [][\A t \in Sources : ticket[t].status = "completed"
        => /\ ticket'[t].completed_at = ticket[t].completed_at
           /\ completer'[t] = completer[t]]_vars
ResolvedPushedOnce == \A b \in Breakdowns : resolvedPushes[b] <= 1

\* attended_at is set once, from the first session logged against the ticket.
AttendedOnce ==
  [][\A t \in Sources : ticket[t].attended_at # Nil
        => ticket'[t].attended_at = ticket[t].attended_at]_vars

\* A breakdown's own columns say when it was attended and resolved, the same
\* moments as its ticket, through every edit of the breakdown.
BreakdownShowsTicket ==
  \A b \in Breakdowns :
    /\ detail[b].attended_time = ticket[b].attended_at
    /\ detail[b].resolved_at = ticket[b].completed_at

\* A completed ticket has a session that claims the completion; an edit cannot
\* leave it "completed with no session claiming the completion".
CompletionIsClaimed ==
  \A t \in Sources : ticket[t].status = "completed" =>
    \E s \in Sessions : /\ session[s] # Nil
                         /\ session[s].ticket = t /\ session[s].completes_ticket

\* One Work Done session per ticket, date and shift, through creations and edits.
OneSessionPerShift ==
  \A s1, s2 \in Sessions :
    (s1 # s2 /\ session[s1] # Nil /\ session[s2] # Nil /\ Linked(session[s1]))
      => <<session[s1].ticket, session[s1].when>> # <<session[s2].ticket, session[s2].when>>

\* "Fires at most once per breakdown (guarded by sla_notified_at)."
NudgedAtMostOnce == \A b \in Breakdowns : slaPushes[b] <= 1

\* Nobody is told that a breakdown is still open after it was resolved.
NudgedWhileOpen ==
  [][\A b \in Breakdowns : slaPushes'[b] # slaPushes[b] => status[b] = "open"]_vars

\* "Only the one session that actually completed the ticket is locked": the
\* sessions whose claim may not be edited away are the completers.
OnlyCompleterIsLocked ==
  \A s \in Sessions :
    (/\ session[s] # Nil /\ session[s].completes_ticket
     /\ ticket[session[s].ticket].status = "completed")
      => completer[session[s].ticket] = s

-----------------------------------------------------------------------------
(* The promise, and how the rows implement it.                             *)

\* A check has no status of its own; an entry whose status and ticket disagree
\* is at no stage of the promise.
Life(t) ==
  IF t \in Entries /\ ~Agrees(t) THEN "torn"
  ELSE IF ticket[t].status # "absent" THEN ticket[t].status
  ELSE IF t \in Entries /\ status[t] = "done" THEN "done" ELSE "none"

Lifecycle == INSTANCE TicketLifecycle WITH
  life <- [t \in Sources |-> Life(t)],
  attended <- [t \in Sources |-> ticket[t].attended_at # Nil]

\* Whatever the interleaving, each step is one stage of one ticket or none:
\* a second raise_ticket or a second completion that lost its race moves nothing.
ImplementsLifecycle == Lifecycle!Spec

-----------------------------------------------------------------------------
(* What must eventually happen.                                            *)

\* A request ends: no chain of counter and row locks keeps it for ever.
RequestEnds == \A r \in Requests : (request[r] # Idle) ~> (request[r] = Idle)

\* A breakdown open past the window is nudged for, or resolved first.
OverdueIsNudged ==
  \A b \in Breakdowns : overdue[b] ~> (slaPushes[b] > 0 \/ status[b] = "resolved")
=============================================================================
