\* The sheets of Imports.cfg, against what the preview showed.
SPECIFICATION MCSpec
CONSTANTS
  b1 = b1  b2 = b2
  complaint = complaint  repair = repair  sweep = sweep  listing = listing
  blank = blank  na = na  wide = wide  bd = bd  di = di  brake = brake  BRAKE = BRAKE  r1 = r1
  now = now  junk = junk  word = word  bus0 = bus0  work0 = work0  iso = iso  theirs = theirs
  both = both  plain = plain  columns = columns  p1 = p1  t1 = t1  t2 = t2  w1 = w1
  Blank = blank
  SheetBus = {b1, b2, bus0, wide}
  NotABus = na
  FleetWide = wide
  WorkCode = {bd, di, work0}
  FoldOf <- MCFoldOf
  Readable = {now}
  DayText = {iso, theirs, both, word}
  Format = {plain, columns}
  Plain = plain
  ReadAs <- MCReadAs
  Heading <- MCHeading
  Grids <- MCGrids
  Profile = {p1}
  Mappings <- MCMappings
  Seeded = p1
  SeedMapping <- Everything
  MaxAsked = 4
  Breakdown = {1, 2}
  Check = {f1}
  FiledDay = {1, 2}
  YearOf <- MCYearOf
  Text = {t1, t2}
  Lower <- MCLower
  Driver = {k1, k2, k3}
  Part = {x1}
  Photo = {1}
  WorkType = {w1}
  Code = {di, other}
  KindOf <- MCKindOf
  None = none
  MaxRequests = 2
  Site = {s1, s2}
  Bus = {b1, b2}
  Row = {complaint, repair, sweep, listing}
  BusOf <- MCBusOf
  Kind <- MCKind
  Sheets <- MCSheets
  Worker = {q1, q2}
  Token = {k1, k2, k3}
  Nobody = Nobody
SYMMETRY Symmetry
CHECK_DEADLOCK FALSE
PROPERTY AppliedAsPreviewed
