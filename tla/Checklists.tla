----------------------------- MODULE Checklists -----------------------------
(***************************************************************************)
(* The checklists of a site for one kind of inspection, the inspections    *)
(* that answer them, and who writes both: the checklist editor, the        *)
(* standard catalogue, the migrations that seed it and the script that     *)
(* reads the depot's workbooks.                                            *)
(*                                                                         *)
(* A sheet is for a variant of bus, for a rung of the docking ladder, for  *)
(* both or for neither.  A line that was answered is never deleted, it is  *)
(* retired; a line of the same wording brings it back.                     *)
(*                                                                         *)
(* A request loads what it needs, decides, and commits later.  `raced` is  *)
(* a history variable: the sheets a request rewrote after they had changed *)
(* since it loaded them.                                                   *)
(***************************************************************************)
EXTENDS Integers, FiniteSets

CONSTANTS
  Bus, Variant, Rung,
  Label,        \* section and wording of a line
  Day,
  Migrations,   \* the seeding migrations, applied in order: 1..Migrations
  Catalogue,    \* what each of them ships, sheet -> form; last, the docking
                \* sheets by rung, which no migration ships
  ItemId, InspectionId, Request,   \* bounds
  SentForms,    \* bound: the forms the editor sends
  MaxWork       \* bound: requests ever started

None == "none"
Sheet == [variant : Variant \cup {None}, km : Rung \cup {None}]
AllSheets == [variant |-> None, km |-> None]

VARIABLES
  sheets,       \* checklist_templates: the keys of those that exist
  items,        \* checklist_items
  inspections,  \* inspection_entries with their results
  variant,      \* vehicles.checklist_variant
  retired,      \* vehicles that left the fleet
  head,         \* migrations applied
  txn,          \* what each request under way has loaded and decided
  raced, work   \* see above

vars == <<sheets, items, inspections, variant, retired, head, txn, raced, work>>

Gone == [row |-> "none"]
\* `keyed`: the line feeds the control chart.
Line == [required : BOOLEAN, keyed : BOOLEAN]
Item == [sheet : Sheet, label : Label, line : Line, active : BOOLEAN]
Result == {"done", "na"}   \* ok and not ok are both an answer
Answers == UNION {[I -> Result] : I \in SUBSET ItemId}
Inspection == [bus : Bus, day : Day, answers : Answers]
Form == UNION {[L -> Line] : L \in SUBSET Label}
Idle == [kind |-> "idle"]

\* What an instance must provide.
ChecklistAssumption ==
  /\ Migrations \in Nat /\ MaxWork \in Nat
  /\ None \notin Variant \cup Rung
  /\ IsFiniteSet(ItemId) /\ IsFiniteSet(Sheet) /\ IsFiniteSet(Label)
  /\ SentForms \subseteq Form
  /\ \A m \in 1..Migrations + 1 : \A s \in DOMAIN Catalogue[m] :
       s \in Sheet /\ Catalogue[m][s] \in Form /\ (s.km = None <=> m <= Migrations)
  \* No two catalogues ship one sheet.
  /\ \A m, n \in 1..Migrations + 1 :
       m # n => DOMAIN Catalogue[m] \cap DOMAIN Catalogue[n] = {}

Exists(i) == items[i] # Gone
Lines(s) == {i \in ItemId : Exists(i) /\ items[i].sheet = s}
Asked(s) == {i \in Lines(s) : items[i].active}
Recorded == {n \in InspectionId : inspections[n] # Gone}
Answered == UNION {DOMAIN inspections[n].answers : n \in Recorded}
Labels(I) == {items[i].label : i \in I}

TypeOK ==
  /\ sheets \subseteq Sheet
  /\ items \in [ItemId -> Item \cup {Gone}]
  /\ inspections \in [InspectionId -> Inspection \cup {Gone}]
  /\ variant \in [Bus -> Variant \cup {None}]
  /\ retired \subseteq Bus
  /\ head \in 0..Migrations /\ work \in 0..MaxWork
  /\ raced \subseteq Sheet

-----------------------------------------------------------------------------
(* Writing lines.                                                          *)
NewLine(s, l, line) == [sheet |-> s, label |-> l, line |-> line, active |-> TRUE]
Standard == [required |-> TRUE, keyed |-> FALSE]

\* Rows for lines that have none yet, on ids no row has and no request
\* remembers: `add` is a set of <<sheet, label, line>>.
Held(i) ==
  \E r \in Request :
    \/ txn[r].kind = "replace" /\ i \in DOMAIN txn[r].saw
    \/ txn[r].kind = "inspect" /\ \E b \in DOMAIN txn[r].book : i \in DOMAIN txn[r].book[b]
Unused == {i \in ItemId : ~Exists(i) /\ ~Held(i)}
Room(add) == Cardinality(add) <= Cardinality(Unused)
Placed(add) ==
  CHOOSE f \in [add -> Unused] :
    \A x, y \in add : x # y => f[x] # f[y]
WithLines(rows, add) ==
  LET at == Placed(add)
      used == {at[x] : x \in add}
      put(i) == CHOOSE x \in add : at[x] = i
  IN  [i \in ItemId |->
         IF i \in used THEN NewLine(put(i)[1], put(i)[2], put(i)[3]) ELSE rows[i]]

\* replace_items: what goes, what is retired, which row each line of the form
\* reuses, which lines need a row.
Dropped(s, form) == {i \in Lines(s) : items[i].label \notin DOMAIN form}
\* Broken: a line that comes back is given a row of its own.
ReusableActive(s, l) == {i \in Asked(s) : items[i].label = l}
Reusable(s, l) == {i \in Lines(s) : items[i].label = l}
Decided(s, form) ==
  LET old == {l \in DOMAIN form : Reusable(s, l) # {}}
  IN  [kind |-> "replace", sheet |-> s, form |-> form, made |-> {s} \ sheets,
       saw |-> [i \in Lines(s) |-> items[i]],
       removed |-> Dropped(s, form) \ Answered,
       retired |-> Dropped(s, form) \cap Answered,
       reused |-> [l \in old |-> CHOOSE i \in Reusable(s, l) : TRUE],
       added |-> {<<s, l, form[l]>> : l \in DOMAIN form \ old}]

\* Broken: a line taken off the sheet stops feeding its chart.
RetiredUnkeyed(item) == [item EXCEPT !.active = FALSE, !.line.keyed = FALSE]
Retired(item) == [item EXCEPT !.active = FALSE]
Rewritten(q) ==
  LET by(i) == {l \in DOMAIN q.reused : q.reused[l] = i}
  IN  [i \in ItemId |->
         IF i \in q.removed THEN Gone
         ELSE IF ~Exists(i) THEN items[i]
         ELSE IF i \in q.retired THEN Retired(items[i])
         ELSE IF by(i) # {} THEN NewLine(q.sheet, items[i].label, q.form[items[i].label])
         ELSE items[i]]

\* What the database refuses: a second template of one key, and the deletion
\* of a line a result points at.  An UPDATE of a row that is gone fails too.
FreshKeys(made) == made \cap sheets = {}
\* Broken: results go with their line (ON DELETE CASCADE).
CascadesFrom(I) == TRUE
Unanswered(I) == I \cap Answered = {}
StillThere(q) == \A l \in DOMAIN q.reused : Exists(q.reused[l])

Start(r) == txn[r] = Idle /\ work < MaxWork /\ work' = work + 1
Finish(r) == txn' = [txn EXCEPT ![r] = Idle]

\* PUT /sites/{code}/checklists/{work_type_id}
BeginReplace(r, s, form) ==
  /\ Start(r)
  /\ txn' = [txn EXCEPT ![r] = Decided(s, form)]
  /\ UNCHANGED <<sheets, items, inspections, variant, retired, head, raced>>

CommitReplace(r) ==
  LET q == txn[r]
  IN  /\ q.kind = "replace"
      /\ FreshKeys(q.made) /\ Unanswered(q.removed) /\ StillThere(q) /\ Room(q.added)
      /\ sheets' = sheets \cup q.made
      /\ items' = WithLines(Rewritten(q), q.added)
      /\ raced' = IF [i \in Lines(q.sheet) |-> items[i]] = q.saw
                    THEN raced ELSE raced \cup {q.sheet}
      /\ Finish(r)
      /\ UNCHANGED <<inspections, variant, retired, head, work>>

-----------------------------------------------------------------------------
(* The catalogue: a sheet with lines belongs to the depot, retired lines   *)
(* included.                                                               *)
Shipped == UNION {DOMAIN Catalogue[m] : m \in 1..Migrations + 1}
LinesOf(S, m) ==
  UNION {{<<s, l, Catalogue[m][s][l]>> : l \in DOMAIN Catalogue[m][s]} :
           s \in S \cap DOMAIN Catalogue[m]}
Blank(S) == {s \in S : Lines(s) = {}}

\* POST .../sync-catalogue, and the last step of onboarding a site.
BeginSync(r) ==
  /\ Start(r)
  /\ txn' = [txn EXCEPT ![r] =
       [kind |-> "sync", made |-> Shipped \ sheets, blank |-> Blank(Shipped),
        added |-> UNION {LinesOf(Blank(Shipped), m) : m \in 1..Migrations + 1}]]
  /\ UNCHANGED <<sheets, items, inspections, variant, retired, head, raced>>

CommitSync(r) ==
  LET q == txn[r]
  IN  /\ q.kind = "sync"
      /\ FreshKeys(q.made) /\ Room(q.added)
      /\ sheets' = sheets \cup q.made
      /\ items' = WithLines(items, q.added)
      /\ raced' = raced \cup {s \in q.blank : Lines(s) # {}}
      /\ Finish(r)
      /\ UNCHANGED <<inspections, variant, retired, head, work>>

\* alembic upgrade by one seeding migration.
Upgrade ==
  LET m == head + 1
      add == LinesOf(Blank(Sheet), m)
  IN  /\ m <= Migrations /\ Room(add)
      /\ head' = m
      /\ sheets' = sheets \cup DOMAIN Catalogue[m]
      /\ items' = WithLines(items, add)
      /\ UNCHANGED <<inspections, variant, retired, txn, raced, work>>

\* alembic downgrade: the lines it shipped, by wording and variant, whatever
\* sheet and hand they come from, unless they were answered.
Downgrade ==
  /\ head > 0
  /\ head' = head - 1
  /\ LET out == {i \in ItemId : Exists(i) /\ \E s \in DOMAIN Catalogue[head] :
                   items[i].sheet.variant = s.variant
                   /\ items[i].label \in DOMAIN Catalogue[head][s]}
     IN  items' = [i \in ItemId |-> IF i \in out \ Answered THEN Gone ELSE items[i]]
  /\ UNCHANGED <<sheets, inspections, variant, retired, txn, raced, work>>

\* scripts.seed_checklists: the sheet of a variant is replaced with the lines
\* of the workbook and the buses it names are marked.
SeedWorkbook(v, L, B) ==
  LET s == [variant |-> v, km |-> None]
      q == Decided(s, [l \in L |-> Standard])
  IN  /\ work < MaxWork /\ work' = work + 1
      /\ Room(q.added)
      /\ sheets' = sheets \cup {s}
      /\ items' = WithLines(Rewritten(q), q.added)
      /\ variant' = [b \in Bus |-> IF b \in B THEN v ELSE variant[b]]
      /\ UNCHANGED <<inspections, retired, head, txn, raced>>

\* GET /sites/{code}/checklists: the sheet for all buses is made on first read.
ListChecklists ==
  /\ AllSheets \notin sheets
  /\ sheets' = sheets \cup {AllSheets}
  /\ UNCHANGED <<items, inspections, variant, retired, head, txn, raced, work>>

-----------------------------------------------------------------------------
(* Inspections.                                                            *)
\* template_for: the sheet of the rung if it ever had a line, else the one of
\* the variant, else the one for all buses.
SheetFor(b, km) ==
  LET v == variant[b]
      rung == [variant |-> v, km |-> km]
      all == [variant |-> v, km |-> None]
  IN  IF v # None /\ km # None /\ Lines(rung) # {} THEN rung
      ELSE IF v # None /\ all \in sheets THEN all
      ELSE IF AllSheets \in sheets THEN AllSheets
      ELSE rung     \* made empty
Demanded(s) == {i \in Asked(s) : items[i].line.required}

InspectedOn(b, d) == \E n \in Recorded : inspections[n].bus = b /\ inspections[n].day = d

\* One bus, or the batch form: any bus that is refused fails them all.  `book`
\* gives the answers for each bus, on rows that exist when they are sent.
BeginInspect(r, d, km, book) ==
  /\ Start(r)
  /\ \A b \in DOMAIN book :
       /\ b \notin retired
       /\ ~InspectedOn(b, d)
       /\ Demanded(SheetFor(b, km)) \subseteq DOMAIN book[b]
  /\ txn' = [txn EXCEPT ![r] =
       [kind |-> "inspect", day |-> d, book |-> book,
        made |-> {SheetFor(b, km) : b \in DOMAIN book} \ sheets]]
  /\ UNCHANGED <<sheets, items, inspections, variant, retired, head, raced>>

\* A result must point at a line; nothing keeps a bus from two inspections.
CommitInspect(r) ==
  LET q == txn[r]
      B == DOMAIN q.book
      free == {n \in InspectionId : inspections[n] = Gone}
  IN  /\ q.kind = "inspect"
      /\ FreshKeys(q.made)
      /\ \A b \in B : \A i \in DOMAIN q.book[b] : Exists(i)
      /\ \E at \in [B -> free] :
           /\ \A b, c \in B : b # c => at[b] # at[c]
           /\ inspections' = [n \in InspectionId |->
                IF \E b \in B : at[b] = n
                THEN LET b == CHOOSE b \in B : at[b] = n
                     IN  [bus |-> b, day |-> q.day, answers |-> q.book[b]]
                ELSE inspections[n]]
      /\ sheets' = sheets \cup q.made
      /\ Finish(r)
      /\ UNCHANGED <<items, variant, retired, head, raced, work>>

\* A request the database refuses, or that dies, leaves nothing behind.
Abandon(r) ==
  /\ txn[r] # Idle
  /\ Finish(r)
  /\ UNCHANGED <<sheets, items, inspections, variant, retired, head, raced, work>>

\* PUT .../vehicles: the variant a bus takes, or its retirement.
SetVariant(b, v) ==
  /\ variant[b] # v /\ work < MaxWork /\ work' = work + 1
  /\ variant' = [variant EXCEPT ![b] = v]
  /\ UNCHANGED <<sheets, items, inspections, retired, head, txn, raced>>
SetActive(b) ==
  /\ work < MaxWork /\ work' = work + 1
  /\ retired' = IF b \in retired THEN retired \ {b} ELSE retired \cup {b}
  /\ UNCHANGED <<sheets, items, inspections, variant, head, txn, raced>>

-----------------------------------------------------------------------------
(* The control charts that read the inspections: active buses down, days   *)
(* across.                                                                 *)
Fleet == Bus \ retired
\* D.I and 10-day service: a mark for every day the inspection was attended.
Attended == {<<inspections[n].bus, inspections[n].day>> : n \in Recorded}
\* Tyre pressure and washing: a mark where a nominated line was answered,
\* other than with "not applicable".
Tells(n) == {i \in DOMAIN inspections[n].answers :
               items[i].line.keyed /\ inspections[n].answers[i] # "na"}
Ticks == {<<inspections[n].bus, inspections[n].day>> : n \in {m \in Recorded : Tells(m) # {}}}
Available == \E i \in ItemId : Exists(i) /\ items[i].line.keyed
Chart(marks, D) == [b \in Fleet |-> {d \in D : <<b, d>> \in marks}]

-----------------------------------------------------------------------------
Init ==
  /\ sheets = {}
  /\ items = [i \in ItemId |-> Gone]
  /\ inspections = [n \in InspectionId |-> Gone]
  /\ variant \in [Bus -> Variant \cup {None}]
  /\ retired = {}
  /\ head = 0
  /\ txn = [r \in Request |-> Idle]
  /\ raced = {} /\ work = 0

Next ==
  \/ \E r \in Request :
       \/ \E s \in Sheet, form \in SentForms : BeginReplace(r, s, form)
       \/ CommitReplace(r)
       \/ BeginSync(r)
       \/ CommitSync(r)
       \/ \E d \in Day, km \in Rung \cup {None}, B \in SUBSET Bus \ {{}} :
            \E book \in [B -> UNION {[I -> Result] : I \in SUBSET {i \in ItemId : Exists(i)}}] :
              BeginInspect(r, d, km, book)
       \/ CommitInspect(r)
       \/ Abandon(r)
  \/ Upgrade
  \/ Downgrade
  \/ \E v \in Variant, L \in SUBSET Label, B \in SUBSET Bus : SeedWorkbook(v, L, B)
  \/ ListChecklists
  \/ \E b \in Bus : SetActive(b) \/ \E v \in Variant \cup {None} : SetVariant(b, v)

Spec == Init /\ [][Next]_vars

-----------------------------------------------------------------------------
\* The results of an inspection keep pointing at the line that was answered,
\* with its wording and on its sheet, whoever rewrites or withdraws the sheet
\* meanwhile.
AnswersKeepTheirLine ==
  [][\A n \in Recorded :
       /\ inspections'[n] = inspections[n]
       /\ \A i \in DOMAIN inspections[n].answers :
            Exists(i)' /\ items'[i].label = items[i].label /\ items'[i].sheet = items[i].sheet]_vars

\* A tick of a chart goes only when the depot takes the nomination off a line
\* that stays on its sheet; taking the line off the sheet keeps the past.
TicksOutliveTheSheet ==
  [][Ticks \ Ticks' # {} =>
       \E i \in ItemId : /\ Exists(i) /\ items[i].line.keyed
                         /\ Exists(i)' /\ items'[i].active /\ ~items'[i].line.keyed]_vars

\* Unless two requests crossed on it, a sheet has one row for a wording, in use
\* or retired: a line that comes back is the line that was answered.
OneLineOnce ==
  \A s \in Sheet \ raced : \A i, j \in Lines(s) :
    items[i].label = items[j].label => i = j
=============================================================================
