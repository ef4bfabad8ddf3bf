---------------------------- MODULE SiteSettings ----------------------------
(***************************************************************************)
(* What a manager sets of a site: its own row, its configuration - the     *)
(* columns, the service plans and the shift windows, sent and replaced as  *)
(* one form - and its inspection cycles.  Requests overlap.  A statement   *)
(* sees what was committed when it began; a delete waits for whoever is    *)
(* deleting the same row and skips it once it is gone; an update writes    *)
(* the columns that differ from the row that was loaded.                   *)
(***************************************************************************)
EXTENDS Integers, FiniteSets

CONSTANTS
  Site, Link,      \* sites; sites of the platform
  DefaultShifts,   \* DEFAULT_SHIFTS
  WorkType,
  DefaultCycles,   \* DEFAULT_INSPECTION_PLANS: work type -> cycle
  Forms,           \* configurations a manager may send, all of them coherent
  CycleForms,      \* lists of cycles a manager may send
  NewCategories,   \* operating categories a site may be created with
  Worker,          \* requests in flight
  MaxDay, MaxWork  \* bounds: days of the calendar, requests ever made

VARIABLES
  site, config,
  plan, shift,     \* service_plans, shift_windows; `by` is the request that wrote a row
  cycle,           \* inspection_plans
  seeded,          \* categories whose checklists the site was given
  filed,           \* entries: their site and date
  today, txn, work

rows == <<site, config, plan, shift, cycle, seeded, filed, today>>
vars == <<rows, txn, work>>

NoSite == [active |-> "no site"]
NoRow == [columns |-> "no row"]
NoLink == "no link"
NoCycle == [days |-> 0]
Seeding == 0     \* the writer of a default row
Early == 0       \* EARLIEST_PLAUSIBLE_RECORD
Idle == [kind |-> "idle"]

\* Two scalars stand for all of them.
Column == {"reminder_lead", "docking_slot"}
NewConfig(categories) ==
  [columns |-> [c \in Column |-> "default"], categories |-> categories]

Of(s, R) == {r \in R : r.site = s}
Plans(s, codes, by) == [site : {s}, code : codes, by : {by}]
Windows(s, shifts, by) == [site : {s}, window : shifts, by : {by}]

-----------------------------------------------------------------------------
(* The form as it is read: the row, then the plans, then the shifts.       *)
Request == work < MaxWork /\ work' = work + 1
Begin(w, t) == txn[w] = Idle /\ Request /\ txn' = [txn EXCEPT ![w] = t]
Becomes(w, t) == txn' = [txn EXCEPT ![w] = t] /\ UNCHANGED work
Fail(w) == Becomes(w, Idle) /\ UNCHANGED rows

\* Broken: a site is given its shifts whenever it has none.
WithoutShifts(s) == Of(s, shift) = {}
\* get_or_create: a site is given its shifts with its row.
Untouched(s) == config[s] = NoRow

\* Two first touches meet on the primary key: the later one fails.
InsertedByOther(w) ==
  \E q \in Worker \ {w} : txn[q].kind = "put" /\ txn[q].site = txn[w].site /\ txn[q].inserted

Read(w, s) ==
  /\ site[s] # NoSite
  /\ Begin(w, [kind |-> "get", site |-> s, first |-> Untouched(s), row |-> config[s],
               stage |-> "plans", codes |-> {}])
  /\ UNCHANGED rows

Form(row, codes, windows) ==
  [columns |-> row.columns, categories |-> row.categories,
   codes |-> codes, windows |-> windows]
Codes(R) == {r.code : r \in R}
WindowsOf(R) == {r.window : r \in R}
Shown(s, form) == [kind |-> "form", site |-> s, form |-> form]

FirstRead(w) ==
  LET s == txn[w].site
  IN  /\ txn[w].kind = "get" /\ txn[w].first
      /\ ~InsertedByOther(w)
      /\ IF Untouched(s)
         THEN /\ config' = [config EXCEPT ![s] = NewConfig({"bus"})]
              /\ shift' = shift \cup Windows(s, DefaultShifts, Seeding)
              /\ Becomes(w, Shown(s, Form(NewConfig({"bus"}), {}, DefaultShifts)))
              /\ UNCHANGED <<site, plan, cycle, seeded, filed, today>>
         ELSE Fail(w)

LoadPlans(w) ==
  /\ txn[w].kind = "get" /\ ~txn[w].first /\ txn[w].stage = "plans"
  /\ Becomes(w, [txn[w] EXCEPT !.stage = "shifts", !.codes = Codes(Of(txn[w].site, plan))])
  /\ UNCHANGED rows
LoadShifts(w) ==
  LET t == txn[w]
  IN  /\ t.kind = "get" /\ ~t.first /\ t.stage = "shifts"
      /\ Becomes(w, Shown(t.site, Form(t.row, t.codes, WindowsOf(Of(t.site, shift)))))
      /\ UNCHANGED rows

-----------------------------------------------------------------------------
(* The form as it is saved.                                                *)
Load(s, form) ==
  [kind |-> "put", site |-> s, form |-> form, row |-> config[s], inserted |-> FALSE,
   stage |-> "plans", hit |-> {}, gone |-> {}, by |-> work + 1]
Save(w, s, form) ==
  /\ site[s] # NoSite
  /\ Begin(w, Load(s, form))
  /\ UNCHANGED rows
\* The form that was shown is sent as it is.
SaveShown(w) ==
  /\ txn[w].kind = "form" /\ txn[w].form.codes # {}
  /\ Request /\ txn' = [txn EXCEPT ![w] = Load(txn[w].site, txn[w].form)]
  /\ UNCHANGED rows
CloseForm(w) == txn[w].kind = "form" /\ Fail(w)

Deleting(w) ==
  UNION {txn[q].gone : q \in {x \in Worker \ {w} : txn[x].kind = "put"}}

DeletePlans(w) ==
  LET t == txn[w]
      first == t.row = NoRow
  IN  /\ t.kind = "put" /\ t.stage = "plans"
      /\ first => ~InsertedByOther(w)
      /\ IF first /\ ~Untouched(t.site) THEN Fail(w)
         ELSE /\ Becomes(w, [t EXCEPT !.stage = "shifts", !.inserted = first,
                                      !.hit = Of(t.site, plan)])
              /\ UNCHANGED rows
DeleteShifts(w) ==
  LET t == txn[w]
  IN  /\ t.kind = "put" /\ t.stage = "shifts"
      /\ t.hit \cap Deleting(w) = {}
      /\ Becomes(w, [t EXCEPT !.stage = "write", !.gone = t.hit \cap plan,
                              !.hit = Of(t.site, shift)])
      /\ UNCHANGED rows

\* The columns that differ from what was loaded.
Dirty(old, new) ==
  [columns |-> {c \in Column : old.columns[c] # new.columns[c]},
   categories |-> old.categories # new.categories]
Written(row, old, new) ==
  LET d == Dirty(old, new)
  IN  [columns |-> [c \in Column |-> IF c \in d.columns THEN new.columns[c] ELSE row.columns[c]],
       categories |-> IF d.categories THEN new.categories ELSE row.categories]

\* Broken: the checklists follow the reminder.
SeedsWithReminder(old, new) == old.columns["reminder_lead"] # new.columns["reminder_lead"]
\* categories_changed.
Seeds(old, new) == Dirty(old, new).categories

\* The two unique keys, of the rows this request leaves standing.
Standing(w) == (plan \ txn[w].gone) \cup (shift \ txn[w].hit)
Clash(w, r) ==
  r.site = txn[w].site /\ IF r \in plan THEN r.code \in txn[w].form.codes
                                         ELSE r.window \in txn[w].form.windows
Clashes(w) == {r \in Standing(w) : Clash(w, r)}

Write(w) ==
  LET t == txn[w]
      s == t.site
      f == t.form
      old == IF t.inserted THEN NewConfig({"bus"}) ELSE t.row
  IN  /\ t.kind = "put" /\ t.stage = "write"
      /\ (t.hit \cup Clashes(w)) \cap Deleting(w) = {}
      /\ IF Clashes(w) # {} THEN Fail(w)
         ELSE /\ config' = [config EXCEPT ![s] = Written(IF t.inserted THEN old ELSE @, old, f)]
              /\ plan' = (plan \ t.gone) \cup Plans(s, f.codes, t.by)
              /\ shift' = (shift \ t.hit) \cup Windows(s, f.windows, t.by)
              /\ seeded' = [seeded EXCEPT ![s] = @ \cup IF Seeds(old, f) THEN f.categories ELSE {}]
              /\ Becomes(w, Idle)
              /\ UNCHANGED <<site, cycle, filed, today>>

-----------------------------------------------------------------------------
(* The inspection cycles, replaced wholesale.                              *)
SaveCycles(w, s, form) ==
  /\ site[s] # NoSite
  /\ Begin(w, [kind |-> "cycles", site |-> s, form |-> form, loaded |-> cycle[s]])
  /\ UNCHANGED rows

Differ(c, d) == {x \in {"days", "cap"} : c[x] # d[x]}
Merged(c, old, new) == [x \in {"days", "cap"} |-> IF x \in Differ(old, new) THEN new[x] ELSE c[x]]
\* Another request added the row this one adds, or dropped the one it updates.
Lost(w, k) ==
  LET old == txn[w].loaded[k]
      now == cycle[txn[w].site][k]
  IN  IF old = NoCycle THEN now # NoCycle ELSE now = NoCycle /\ Differ(old, txn[w].form[k]) # {}
CycleRow(old, now, new) ==
  IF old = NoCycle THEN new ELSE IF now = NoCycle THEN NoCycle ELSE Merged(now, old, new)

ReplacePlans(w) ==
  LET t == txn[w]
  IN  /\ t.kind = "cycles"
      /\ IF \E k \in DOMAIN t.form : Lost(w, k) THEN Fail(w)
         ELSE /\ cycle' = [cycle EXCEPT ![t.site] = [k \in WorkType |->
                   IF k \in DOMAIN t.form THEN CycleRow(t.loaded[k], @[k], t.form[k])
                   ELSE IF t.loaded[k] # NoCycle THEN NoCycle ELSE @[k]]]
              /\ Becomes(w, Idle)
              /\ UNCHANGED <<site, config, plan, shift, seeded, filed, today>>

-----------------------------------------------------------------------------
(* The site itself.  One step each: what a request checks is also kept by  *)
(* a key.  The fleet sync a new link starts is FleetSync's.                *)
Linked(others) == {site[o].link : o \in {x \in others : site[x] # NoSite}}
Free(s, l) == l \notin Linked(Site \ {s}) \ {NoLink}

\* apply_catalogue, of the categories the row holds by then.
Catalogued(categories) == categories
\* ensure_default_plans.
EnsureDefaultPlans(s) ==
  cycle' = [cycle EXCEPT ![s] =
    [k \in WorkType |-> IF k \in DOMAIN DefaultCycles THEN DefaultCycles[k] ELSE @[k]]]

CreateSite(s, l, categories, floor) ==
  /\ site[s] = NoSite /\ Free(s, l)
  /\ Request
  /\ site' = [site EXCEPT ![s] = [active |-> TRUE, floor |-> floor, link |-> l]]
  /\ config' = [config EXCEPT ![s] = NewConfig(categories)]
  /\ shift' = shift \cup Windows(s, DefaultShifts, Seeding)
  /\ seeded' = [seeded EXCEPT ![s] = Catalogued(categories)]
  /\ EnsureDefaultPlans(s)
  /\ UNCHANGED <<plan, filed, today, txn>>

Relinked(row, l) == IF l = NoLink THEN row.link ELSE l
UpdateSite(s, l, floor) ==
  /\ site[s] # NoSite
  /\ l # site[s].link => Free(s, l)
  /\ Request
  /\ site' = [site EXCEPT ![s] =
       [site[s] EXCEPT !.link = Relinked(site[s], l), !.floor = floor]]
  /\ UNCHANGED <<config, plan, shift, cycle, seeded, filed, today, txn>>
SetSiteActive(s, active) ==
  /\ site[s] # NoSite
  /\ Request
  /\ site' = [site EXCEPT ![s].active = active]
  /\ UNCHANGED <<config, plan, shift, cycle, seeded, filed, today, txn>>

\* An entry is checked against the site, then written.
Accepts(s) == site[s] # NoSite /\ site[s].active
Plausible(s, day) == day <= today + 1 /\ day >= site[s].floor
CheckEntry(w, s, day) ==
  /\ Accepts(s) /\ Plausible(s, day)
  /\ Begin(w, [kind |-> "entry", site |-> s, day |-> day])
  /\ UNCHANGED rows
FileEntry(w) ==
  /\ txn[w].kind = "entry"
  /\ filed' = filed \cup {[site |-> txn[w].site, day |-> txn[w].day]}
  /\ Becomes(w, Idle)
  /\ UNCHANGED <<site, config, plan, shift, cycle, seeded, today>>
\* A correction is let through at a deactivated site.
CorrectEntry(e, day) ==
  /\ Plausible(e.site, day)
  /\ Request
  /\ filed' = (filed \ {e}) \cup {[e EXCEPT !.day = day]}
  /\ UNCHANGED <<site, config, plan, shift, cycle, seeded, today, txn>>
NextDay ==
  /\ today < MaxDay /\ today' = today + 1
  /\ UNCHANGED <<site, config, plan, shift, cycle, seeded, filed, txn, work>>

Init ==
  \* A site from before configurations has no row; its lists came by migration.
  /\ site \in [Site -> {NoSite, [active |-> TRUE, floor |-> Early, link |-> NoLink]}]
  /\ config = [s \in Site |-> NoRow]
  /\ plan = {} /\ shift = {} /\ filed = {}
  /\ cycle = [s \in Site |-> [k \in WorkType |-> NoCycle]]
  /\ seeded = [s \in Site |-> IF site[s] = NoSite THEN {} ELSE {"bus"}]
  /\ today = 1
  /\ txn = [w \in Worker |-> Idle]
  /\ work = 0

Step(w) ==
  \/ FirstRead(w) \/ LoadPlans(w) \/ LoadShifts(w) \/ CloseForm(w)
  \/ SaveShown(w) \/ DeletePlans(w) \/ DeleteShifts(w) \/ Write(w)
  \/ ReplacePlans(w) \/ FileEntry(w)
Next ==
  \/ \E w \in Worker : Step(w)
  \/ \E w \in Worker, s \in Site :
       \/ Read(w, s)
       \/ \E f \in Forms : Save(w, s, f)
       \/ \E f \in CycleForms : SaveCycles(w, s, f)
       \/ \E d \in 1..MaxDay : CheckEntry(w, s, d)
  \/ \E s \in Site, l \in Link \cup {NoLink}, d \in {Early, 1} :
       \/ \E c \in NewCategories : CreateSite(s, l, c, d)
       \/ UpdateSite(s, l, d)
  \/ \E s \in Site, on \in BOOLEAN : SetSiteActive(s, on)
  \/ \E e \in filed, d \in 1..MaxDay : CorrectEntry(e, d)
  \/ NextDay

Spec == Init /\ [][Next]_vars

-----------------------------------------------------------------------------
\* "A manager who clears or edits them is not overruled": once a site's form
\* was saved none of its shifts is a default nobody sent, whoever was touching
\* the site for the first time meanwhile (services/site_config.py:22-26).
NotOverruled ==
  \A s \in Site : Of(s, plan) # {} => \A r \in Of(s, shift) : r.by # Seeding

\* A category a site operates in has been given its checklists, whatever saves
\* were made side by side and whichever of them wrote the column.
OperatedIsSeeded ==
  \A s \in Site : config[s] # NoRow => config[s].categories \subseteq seeded[s]

\* "PUT replaces the whole aggregate - plans and shifts included."
SaveIsWhole ==
  \A s \in Site : Cardinality({r.by : r \in Of(s, plan \cup shift)}) <= 1

\* "A deactivated site ... accepts no new entries."
ClosedTakesNothing ==
  [][\A e \in filed' \ filed : work' = work => site[e.site].active]_vars
=============================================================================
