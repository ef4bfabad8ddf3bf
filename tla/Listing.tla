------------------------------- MODULE Listing -------------------------------
(***************************************************************************)
(* What readers are shown of the registers and tickets of a site: the list *)
(* of entries page by page, the export, one entry, the search for tickets, *)
(* one ticket.  A reading is several statements; under READ COMMITTED each *)
(* sees what was committed by then, and a list is walked by many requests. *)
(***************************************************************************)
EXTENDS Integers, SequencesExt

CONSTANTS
  Breakdowns,   \* breakdown entries, each with its ticket
  Sessions,     \* work done entries
  Checks,       \* inspection results with a ticket of their own
  Photo,
  Imported,     \* entries the importer wrote
  MaxDay,       \* bound: days 1..MaxDay, the last of them today
  MonthStart,
  PageSize,
  MaxPhotos,    \* MAX_TICKET_PHOTOS
  Queries,      \* the query parameters readers list with
  Reader,
  MaxWork       \* bound: requests that change something

VARIABLES
  entry,     \* entries: their date and rank of created_at
  source,    \* of a session, the ticket it works on
  closer,    \* of a completed ticket, the session that completed it
  photo,     \* entry_photos: the entry, and the rank of created_at
  reading,   \* the reading each reader is at
  work       \* see MaxWork

ListingAssumption ==
  /\ IsFiniteSet(Breakdowns \cup Sessions)
  /\ PageSize \in Nat \ {0}

book == <<entry, source, closer, photo>>
vars == <<entry, source, closer, photo, reading, work>>

Entries == Breakdowns \cup Sessions
Ticket == Breakdowns \cup Checks
Day == 1..MaxDay
Rank == 1..Cardinality(Entries)
None == "none"
NoDate == 0
NoEntry == [day |-> NoDate]
NoPhoto == [of |-> None]
NoReading == [stage |-> "none"]

Filed == {e \in Entries : entry[e] # NoEntry}
Raised == {t \in Ticket : t \in (Filed \ Imported) \cup Checks}
Completed(t) == closer[t] # None
SessionsOf(t) == {s \in Sessions \cap Filed : source[s] = t}
PhotosOf(e) == {p \in Photo : photo[p].of = e}

-----------------------------------------------------------------------------
(* The list.                                                               *)
\* resolve_period: explicit dates win over the period.
Period(period, from, to) ==
  CASE from # NoDate \/ to # NoDate -> <<from, to>>
    [] from = NoDate /\ to = NoDate /\ period = "today" -> <<MaxDay, MaxDay>>
    [] from = NoDate /\ to = NoDate /\ period = "last7" -> <<MaxDay - 6, MaxDay>>
    [] from = NoDate /\ to = NoDate /\ period = "month" -> <<MonthStart, MaxDay>>
    [] OTHER -> <<NoDate, NoDate>>

\* _filters
Asked(q) ==
  [register |-> q.register, span |-> Period(q.period, q.from, q.to),
   status |-> q.status, origin |-> q.origin, open |-> q.open]

\* apply_filters
Status(e) == IF e \in Breakdowns /\ Completed(e) THEN "resolved" ELSE "open"
Linked(e) == e \in Sessions /\ source[e] # None
Origin(e) ==
  {"any"} \cup (IF e \in Imported THEN {"imported"} ELSE IF Linked(e) THEN {} ELSE {"manual"})
          \cup (IF Linked(e) THEN {"linked"} ELSE {})
Matches(e, f) ==
  /\ f.register = "breakdown" => e \in Breakdowns
  /\ f.register = "work_done" => e \in Sessions
  /\ f.span[1] # NoDate => entry[e].day >= f.span[1]
  /\ f.span[2] # NoDate => entry[e].day <= f.span[2]
  /\ f.status # "any" => e \in Breakdowns /\ Status(e) = f.status
  /\ f.origin \in Origin(e)
  /\ f.open # "any" => (f.open = "yes") = (e \in Raised /\ ~Completed(e))
Matching(f) == {e \in Filed : Matches(e, f)}

\* Newest date first, then newest created.
Before(a, b) ==
  \/ entry[a].day > entry[b].day
  \/ entry[a].day = entry[b].day /\ entry[a].made > entry[b].made
\* The rows of the list that come before an entry.
Place(e, f) == Cardinality({x \in Matching(f) : Before(x, e)})

\* Broken: pages are counted from nought.
OffsetFromOne(page) == page * PageSize
\* Pagination.offset, of a page counted from one.
Offset(page) == (page - 1) * PageSize
PageOf(f, page) ==
  {e \in Matching(f) : Place(e, f) \in Offset(page) .. Offset(page) + PageSize - 1}

-----------------------------------------------------------------------------
(* Tickets.                                                                *)
\* Photos of a ticket: the source's own after every session's, the newest
\* session first, in the order they were taken within one entry.
ShownBefore(p, q, t) ==
  LET a == photo[p].of  b == photo[q].of IN
  CASE a = b -> photo[p].made < photo[q].made
    [] a # b /\ t \in {a, b} -> b = t
    [] OTHER -> Before(a, b)
Capped(photos) == SubSeq(photos, 1, Min({MaxPhotos, Len(photos)}))
CappedPhotos(t) ==
  LET shown == {p \in Photo : photo[p].of \in SessionsOf(t) \cup {t}}
  IN  Capped(SetToSortSeq(shown, LAMBDA p, q : ShownBefore(p, q, t)))

\* search_tickets: entry tickets, and those of checks unless another kind is asked.
Search(kind, status) ==
  {t \in Raised :
     /\ kind # "any" => (kind = "breakdown") = (t \in Breakdowns)
     /\ status # "all" => (status = "open") = ~Completed(t)}

-----------------------------------------------------------------------------
(* What changes meanwhile: each a request that has committed.              *)
Counted == work < MaxWork /\ work' = work + 1

\* A walk is undisturbed while what it lists keeps its order, whatever joins.
InOrder(f) ==
  /\ Matching(f) \subseteq Matching(f)'
  /\ \A a, b \in Matching(f) : Before(a, b)' = Before(a, b)
Kept(r) ==
  IF reading[r].stage \in {"walk", "rows"} /\ \E f \in {reading[r].filter} : ~InOrder(f)
  THEN [reading[r] EXCEPT !.owed = {}] ELSE reading[r]
Watched == reading' = [r \in Reader |-> Kept(r)]

\* created_at is stamped before the commit: entries become visible in any order.
File(e, day) ==
  /\ Counted
  /\ entry[e] = NoEntry
  /\ \E made \in Rank \ {entry[x].made : x \in Filed} :
       entry' = [entry EXCEPT ![e] = [day |-> day, made |-> made]]
  /\ IF e \in Breakdowns THEN UNCHANGED source
     ELSE \E t \in {None} \cup {t \in Raised : ~Completed(t)} :
            source' = [source EXCEPT ![e] = t]
  /\ UNCHANGED <<closer, photo>>
  /\ Watched
\* An edit moves the entry to another date.
Correct(e, day) ==
  /\ Counted
  /\ e \in Filed
  /\ entry' = [entry EXCEPT ![e].day = day]
  /\ UNCHANGED <<source, closer, photo>>
  /\ Watched
\* A session is saved as the one that completes its ticket.
Complete(s) ==
  /\ Counted
  /\ s \in Filed /\ source[s] # None /\ ~Completed(source[s])
  /\ closer' = [closer EXCEPT ![source[s]] = s]
  /\ UNCHANGED <<entry, source, photo>>
  /\ Watched
AddPhoto(p, e) ==
  /\ Counted
  /\ photo[p] = NoPhoto /\ e \in Filed
  /\ photo' = [photo EXCEPT ![p] = [of |-> e, made |-> Cardinality({q \in Photo : photo[q] # NoPhoto})]]
  /\ UNCHANGED <<entry, source, closer, reading>>

-----------------------------------------------------------------------------
(* Readings.                                                               *)
Becomes(r, to) == reading' = [reading EXCEPT ![r] = to] /\ UNCHANGED <<book, work>>

\* A reader walks the pages of one filter; `owed` is what was there when it
\* began and it has not been shown.
BeginWalk(r, f) ==
  /\ reading[r] = NoReading
  /\ Becomes(r, [stage |-> "walk", filter |-> f, page |-> 1, owed |-> Matching(f),
                 rows |-> {}, items |-> {}])
\* list_entries: the rows of the page (their number is counted before and plays
\* no part), then the tickets of those rows.
Shown(e) == [id |-> e, status |-> Status(e)]
\* bulk_ticket_status
TicketStatus(rows) ==
  {[id |-> row.id, status |-> row.status,
    completed |-> row.id \in Breakdowns /\ Completed(row.id)] : row \in rows}
ShownOn(w) == {Shown(e) : e \in PageOf(w.filter, w.page)}
Turned(w, items) ==
  [w EXCEPT !.stage = IF Cardinality(items) = PageSize THEN "walk" ELSE "walked",
            !.page = @ + 1, !.owed = @ \ {i.id : i \in items}, !.rows = {}, !.items = items]
\* Broken: the tickets are read before the rows.
TicketsFirst(w) ==
  IF w.stage = "walk"
  THEN [w EXCEPT !.stage = "rows", !.items = {}, !.rows = TicketStatus(ShownOn(w))]
  ELSE Turned(w, {[row EXCEPT !.status = Status(row.id)] : row \in w.rows})
RowsFirst(w) ==
  IF w.stage = "walk"
  THEN [w EXCEPT !.stage = "rows", !.items = {}, !.rows = ShownOn(w)]
  ELSE Turned(w, TicketStatus(w.rows))
ReadPage(r) ==
  /\ reading[r].stage \in {"walk", "rows"}
  /\ Becomes(r, RowsFirst(reading[r]))

\* get_entry: the entry, the sessions of its ticket, the ticket's status.
ReadEntry(r, e) ==
  /\ reading[r] = NoReading
  /\ e \in Filed
  /\ Becomes(r, [stage |-> "entry", row |-> Shown(e)])
LinkedSessions(e) == IF e \in Breakdowns THEN SessionsOf(e) ELSE {}
ReadLinked(r) ==
  /\ reading[r].stage = "entry"
  /\ Becomes(r, [stage |-> "linked", row |-> reading[r].row,
                 sessions |-> LinkedSessions(reading[r].row.id)])
ReadTicketStatus(r) ==
  /\ reading[r].stage = "linked"
  /\ Becomes(r, [stage |-> "detail", items |-> TicketStatus({reading[r].row}),
                 sessions |-> reading[r].sessions])

\* get_ticket of a ticket that was found: the ticket, its sessions, its photos.
SearchTickets(r, kind, status) ==
  /\ reading[r] = NoReading
  /\ Becomes(r, [stage |-> "found", tickets |-> Search(kind, status)])
TicketFirst(w, t) ==
  IF w.stage = "found" THEN [stage |-> "ticket", id |-> t, completed |-> Completed(t), by |-> closer[t]]
  ELSE [stage |-> "card", id |-> w.id, completed |-> w.completed, by |-> w.by,
        sessions |-> SessionsOf(t)]
ReadTicket(r, t) ==
  /\ \/ reading[r].stage = "found" /\ t \in reading[r].tickets
     \/ reading[r].stage = "ticket" /\ t = reading[r].id
  /\ Becomes(r, TicketFirst(reading[r], t))
Leave(r) == reading[r].stage \in {"walked", "detail", "card", "found"} /\ Becomes(r, NoReading)

Init ==
  /\ entry = [e \in Entries |-> NoEntry]
  /\ source = [s \in Sessions |-> None]
  /\ closer = [t \in Ticket |-> None]
  /\ photo = [p \in Photo |-> NoPhoto]
  /\ reading = [r \in Reader |-> NoReading]
  /\ work = 0

Next ==
  \/ \E e \in Entries, day \in Day : File(e, day) \/ Correct(e, day)
  \/ \E s \in Sessions : Complete(s)
  \/ \E p \in Photo, e \in Entries : AddPhoto(p, e)
  \/ \E r \in Reader, q \in Queries : BeginWalk(r, Asked(q))
  \/ \E r \in Reader :
       ReadPage(r) \/ ReadLinked(r) \/ ReadTicketStatus(r) \/ Leave(r)
  \/ \E r \in Reader, e \in Entries : ReadEntry(r, e)
  \/ \E r \in Reader, kind \in {"any", "breakdown", "check"}, status \in {"open", "all"} :
       SearchTickets(r, kind, status)
  \/ \E r \in Reader, t \in Ticket : ReadTicket(r, t)

Spec == Init /\ [][Next]_vars

-----------------------------------------------------------------------------
\* A walk through the pages misses no entry that was listed when it began,
\* whatever is filed meanwhile, unless an edit or a completion takes what it
\* lists out of its place (api/entries.py:144-152).
WalkMissesNothing ==
  \A r \in Reader : reading[r].stage = "walked" => reading[r].owed = {}

\* The answer that calls a breakdown resolved also calls its ticket completed:
\* the ticket is read after the entry (api/entries.py:157, :346).
ResolvedShowsCompleted ==
  \A r \in Reader : "items" \in DOMAIN reading[r] =>
    \A i \in reading[r].items : i.status = "resolved" => i.completed

\* A ticket shown as completed is shown with the session that completed it
\* (api/tickets.py:118).
CompletedShowsItsSession ==
  \A r \in Reader : reading[r].stage = "card" /\ reading[r].completed =>
    reading[r].by \in reading[r].sessions

\* The photos a ticket shows are the first of what would be listed session by
\* session, newest first, and then of the source (services/entries.py:1022-1028).
PhotosAsAggregated ==
  LET taken(e) == SetToSortSeq(PhotosOf(e), LAMBDA p, q : photo[p].made < photo[q].made)
      newest(S) == SetToSortSeq(S, Before)
  IN  \A t \in Ticket :
        LET sessions == newest(SessionsOf(t))
            whole == FlattenSeq([i \in DOMAIN sessions |-> taken(sessions[i])]) \o taken(t)
        IN  CappedPhotos(t) = Capped(whole)
=============================================================================
