----------------------------- MODULE Registers -----------------------------
(***************************************************************************)
(* The registers of a site as their forms see them: what an entry refers   *)
(* to, and what becomes of the reference when the fleet, the roster or a   *)
(* master list moves on between filing the entry, reading its form back    *)
(* and saving it again.  The photos of an entry are rows here and files on *)
(* a disk no transaction covers.                                           *)
(*                                                                         *)
(* A request is atomic: module Tickets has what happens inside one.        *)
(* Breakdowns stand for the registers whose entries carry a ticket,        *)
(* Sessions for Work Done.                                                 *)
(***************************************************************************)
EXTENDS Integers, FiniteSets

CONSTANTS
  Bus, Person,
  Row, Code,    \* a list resolved by what is typed: drivers, defect types, sources
  Breakdowns, Sessions,
  Client,       \* open entry forms
  Photo,
  MaxWork       \* bound: requests that change something

Entry == Breakdowns \cup Sessions
None == "none"

\* A NULL column names nothing.
RegistersAssumption == MaxWork \in Nat /\ None \notin Row \cup Code \cup Person \cup Entry

VARIABLES
  open,       \* sites.is_active
  retired,    \* buses with vehicles.is_active off
  roster,     \* user_site_access of the site
  staffed,    \* who the platform staffs at the site
  row,        \* the list: its code and is_active
  entry,      \* entries with their detail rows
  completed,  \* breakdowns whose ticket is completed
  form,       \* what a client got from GET /entries/{id}, and the row it meant
  photo,      \* entry_photos: the entry each is of
  files,      \* storage: the files on disk
  moving,     \* uploads and removals between the file and the row
  work        \* see MaxWork

site == <<open, retired, roster, staffed, row>>
book == <<entry, completed>>
disk == <<photo, files, moving>>
vars == <<open, retired, roster, staffed, row, entry, completed, form, photo, files, moving, work>>

\* The `data` of an entry as it travels: the code, not the row, of what it names.
Data == [bus : Bus, code : Code \cup {None}, who : Person \cup {None},
         ticket : Breakdowns \cup {None}, completes : BOOLEAN]
\* WorkDoneData's validator; only Work Done has crew and ticket.
Valid(e, data) ==
  /\ data.completes => data.ticket # None
  /\ e \in Breakdowns => data.who = None /\ data.ticket = None
NoEntry == [bus |-> None]
NoForm == [entry |-> None]
Saved == [bus : Bus, named : Row \cup {None}, who : Person \cup {None},
          ticket : Breakdowns \cup {None}, completes : BOOLEAN]
Filed == {e \in Entry : entry[e] # NoEntry}

TypeOK ==
  /\ open \in BOOLEAN /\ retired \subseteq Bus
  /\ roster \subseteq Person /\ staffed \subseteq Person
  /\ row \in [Row -> [code : Code \cup {None}, active : BOOLEAN]]
  /\ entry \in [Entry -> Saved \cup {NoEntry}]
  /\ completed \subseteq Breakdowns
  /\ form \in [Client -> [entry : Entry, data : Data, named : Row \cup {None}] \cup {NoForm}]
  /\ photo \in [Photo -> Entry \cup {None}] /\ files \subseteq Photo
  /\ moving \in [Photo -> {"idle", "saving", "removing"}]
  /\ work \in 0..MaxWork

-----------------------------------------------------------------------------
(* Resolving what a form names.                                            *)
Listed(c) == {r \in Row : row[r].code = c}
\* Broken: a hidden row no longer resolves.
KnownShown(c) == {r \in Listed(c) : row[r].active}
\* Hidden rows resolve too.
Known(c) == Listed(c)

\* _ticket_vehicle_id: the bus of the ticket, even if it has been retired.
\* Broken: a retired bus takes no session at all.
ExemptNone(data) == {}
Exempt(data) == IF data.ticket = None THEN {} ELSE {entry[data.ticket].bus}
BusTaken(data) == data.bus \notin retired \/ data.bus \in Exempt(data)

\* _resolve_ticket: a completed ticket only if the entry had it already.
Attachable(ticket, old) == ticket \in Filed /\ (ticket \in completed => ticket = old)

\* _reject_undoing_completion.
Undoes(e, data) ==
  /\ entry[e].completes /\ entry[e].ticket \in completed
  /\ ~(data.completes /\ data.ticket = entry[e].ticket)

Accepted(e, data, old) ==
  /\ BusTaken(data)
  /\ data.code # None => Known(data.code) # {}
  /\ data.who # None => data.who \in roster
  /\ data.ticket # None => Attachable(data.ticket, old)

\* GET /master/staff: whom the form offers as crew.
Offered == roster \cup staffed

Meant(data) == IF data.code = None THEN {None} ELSE Known(data.code)
Write(e, data, named) ==
  /\ entry' = [entry EXCEPT ![e] = [bus |-> data.bus, named |-> named, who |-> data.who,
                                    ticket |-> data.ticket, completes |-> data.completes]]
  /\ completed' = completed \cup (IF data.completes THEN {data.ticket} ELSE {})

Counted == work < MaxWork /\ work' = work + 1

\* POST /entries
CreateEntry(e, data) ==
  /\ Counted /\ open
  /\ e \notin Filed
  /\ Valid(e, data)
  /\ Accepted(e, data, None)
  /\ \E r \in Meant(data) : Write(e, data, r)
  /\ UNCHANGED <<site, form, disk>>

\* PUT /entries/{id}: the form whole, on a site that may be closed by now.
Update(e, data) ==
  /\ e \in Filed
  /\ Valid(e, data)
  /\ Accepted(e, data, entry[e].ticket)
  /\ ~Undoes(e, data)
  /\ \E r \in Meant(data) : Write(e, data, r)

\* serialize_data, what GET answers.
CodeOf(r) == IF r = None THEN None ELSE row[r].code
DataOf(e) == [bus |-> entry[e].bus, code |-> CodeOf(entry[e].named), who |-> entry[e].who,
              ticket |-> entry[e].ticket, completes |-> entry[e].completes]

OpenForm(c, e) ==
  /\ form[c] = NoForm
  /\ e \in Filed
  /\ form' = [form EXCEPT ![c] = [entry |-> e, data |-> DataOf(e), named |-> entry[e].named]]
  /\ UNCHANGED <<site, book, disk, work>>
CloseForm(c) ==
  /\ form[c] # NoForm
  /\ form' = [form EXCEPT ![c] = NoForm]
  /\ UNCHANGED <<site, book, disk, work>>

\* The form goes back as it came, or changed in one field.
SaveBack(c) ==
  /\ Counted
  /\ form[c] # NoForm
  /\ Update(form[c].entry, form[c].data)
  /\ form' = [form EXCEPT ![c] = NoForm]
  /\ UNCHANGED <<site, disk>>
SaveChanged(c, data) ==
  /\ Counted
  /\ form[c] # NoForm
  /\ Cardinality({k \in DOMAIN data : data[k] # form[c].data[k]}) = 1
  /\ Update(form[c].entry, data)
  /\ form' = [form EXCEPT ![c] = NoForm]
  /\ UNCHANGED <<site, disk>>

-----------------------------------------------------------------------------
(* The lists, the fleet, the roster and the site.                          *)
\* The check that a code is free looks at hidden rows too.
Taken(r, c) == \E q \in Row \ {r} : row[q].code = c

CreateRow(r, c) ==
  /\ Counted
  /\ row[r].code = None
  /\ ~Taken(r, c)
  /\ row' = [row EXCEPT ![r] = [code |-> c, active |-> TRUE]]
  /\ UNCHANGED <<open, retired, roster, staffed, book, form, disk>>
RenameRow(r, c) ==
  /\ Counted
  /\ row[r].code \notin {None, c}
  /\ ~Taken(r, c)
  /\ row' = [row EXCEPT ![r].code = c]
  /\ UNCHANGED <<open, retired, roster, staffed, book, form, disk>>
SetRowActive(r) ==
  /\ Counted
  /\ row[r].code # None
  /\ row' = [row EXCEPT ![r].active = ~@]
  /\ UNCHANGED <<open, retired, roster, staffed, book, form, disk>>

SetVehicleActive(b) ==
  /\ Counted
  /\ retired' = IF b \in retired THEN retired \ {b} ELSE retired \cup {b}
  /\ UNCHANGED <<open, roster, staffed, row, book, form, disk>>
SetAccess(p) ==
  /\ Counted
  /\ roster' = IF p \in roster THEN roster \ {p} ELSE roster \cup {p}
  /\ UNCHANGED <<open, retired, staffed, row, book, form, disk>>
\* The platform staffs someone at the site, or no longer.
SetStaffed(p) ==
  /\ Counted
  /\ staffed' = IF p \in staffed THEN staffed \ {p} ELSE staffed \cup {p}
  /\ UNCHANGED <<open, retired, roster, row, book, form, disk>>
SetSiteActive ==
  /\ Counted
  /\ open' = ~open
  /\ UNCHANGED <<retired, roster, staffed, row, book, form, disk>>

-----------------------------------------------------------------------------
(* Photos.  An upload writes the file and then commits the row; a removal  *)
(* commits first and then deletes the file.                                *)
BeginUpload(p, e) ==
  /\ Counted
  /\ moving[p] = "idle" /\ photo[p] = None /\ p \notin files
  /\ e \in Filed
  /\ files' = files \cup {p}
  /\ moving' = [moving EXCEPT ![p] = "saving"]
  /\ UNCHANGED <<site, book, form, photo>>
CommitUpload(p, e) ==
  /\ moving[p] = "saving"
  /\ e \in Filed
  /\ photo' = [photo EXCEPT ![p] = e]
  /\ moving' = [moving EXCEPT ![p] = "idle"]
  /\ UNCHANGED <<site, book, form, files, work>>

\* Broken: the file goes before the row.
DeleteFileFirst(p) ==
  /\ Counted
  /\ moving[p] = "idle" /\ photo[p] # None
  /\ files' = files \ {p}
  /\ moving' = [moving EXCEPT ![p] = "removing"]
  /\ UNCHANGED <<site, book, form, photo>>
DeletePhoto(p) ==
  /\ Counted
  /\ moving[p] = "idle" /\ photo[p] # None
  /\ photo' = [photo EXCEPT ![p] = None]
  /\ moving' = [moving EXCEPT ![p] = "removing"]
  /\ UNCHANGED <<site, book, form, files>>
RemoveFile(p) ==
  /\ moving[p] = "removing"
  /\ files' = files \ {p}
  /\ moving' = [moving EXCEPT ![p] = "idle"]
  /\ UNCHANGED <<site, book, form, photo, work>>
\* The request dies between the two; a file may stay that no row names.
Die(p) ==
  /\ moving[p] # "idle"
  /\ moving' = [moving EXCEPT ![p] = "idle"]
  /\ UNCHANGED <<site, book, form, photo, files, work>>

-----------------------------------------------------------------------------
Init ==
  /\ open = TRUE /\ retired = {} /\ roster = Person /\ staffed = {}
  /\ row = [r \in Row |-> [code |-> None, active |-> TRUE]]
  /\ entry = [e \in Entry |-> NoEntry] /\ completed = {}
  /\ form = [c \in Client |-> NoForm]
  /\ photo = [p \in Photo |-> None] /\ files = {}
  /\ moving = [p \in Photo |-> "idle"]
  /\ work = 0

Next ==
  \/ \E e \in Entry, data \in Data : CreateEntry(e, data)
  \/ \E c \in Client :
       \/ \E e \in Entry : OpenForm(c, e)
       \/ CloseForm(c)
       \/ SaveBack(c)
       \/ \E data \in Data : SaveChanged(c, data)
  \/ \E r \in Row : SetRowActive(r) \/ \E c \in Code : CreateRow(r, c) \/ RenameRow(r, c)
  \/ \E b \in Bus : SetVehicleActive(b)
  \/ \E p \in Person : SetAccess(p) \/ SetStaffed(p)
  \/ SetSiteActive
  \/ \E p \in Photo :
       \/ \E e \in Entry : BeginUpload(p, e) \/ CommitUpload(p, e)
       \/ DeletePhoto(p)
       \/ RemoveFile(p)
       \/ Die(p)

Spec == Init /\ [][Next]_vars

-----------------------------------------------------------------------------
\* An entry that was just read can be saved back as it is, whatever was hidden,
\* renamed or completed since it was filed, as long as its bus and its crew are
\* still the site's.
ReadsBack ==
  \A e \in Filed :
    /\ entry[e].bus \notin retired
    /\ entry[e].who \in roster \cup {None}
    => Accepted(e, DataOf(e), entry[e].ticket) /\ ~Undoes(e, DataOf(e))

\* Saving a form that still says what it said leaves the entry with the row it
\* named when the form was read, whatever happened to the lists since, unless
\* that row was renamed meanwhile.
NobodyIsRelabelled ==
  [][\A c \in Client :
       LET f == form[c]
           now == entry'[f.entry].named
       IN  f # NoForm /\ form'[c] = NoForm /\ book' # book /\ CodeOf(now) = f.data.code =>
             now = f.named \/ CodeOf(f.named) # f.data.code]_vars

\* A ticket that is open can be attended and completed as long as the site takes
\* entries and has someone to do it, even if its bus was retired meanwhile.
NoTicketIsOrphaned ==
  \A t \in (Breakdowns \cap Filed) \ completed : \A p \in roster, s \in Sessions :
    open => Accepted(s, [bus |-> entry[t].bus, code |-> None, who |-> p,
                         ticket |-> t, completes |-> TRUE], None)

\* Not kept by the code: whoever the form offers as crew can be named.
OfferedIsAccepted ==
  \A p \in Offered, e \in Filed \cap Sessions :
    LET data == [DataOf(e) EXCEPT !.who = p]
    IN  Accepted(e, DataOf(e), entry[e].ticket) => Accepted(e, data, entry[e].ticket)

\* Every photo the entry lists can be shown: uploads and removals that die half
\* way leave files nobody lists, never the other way round.
EveryPhotoHasItsFile == \A p \in Photo : photo[p] # None => p \in files
=============================================================================
