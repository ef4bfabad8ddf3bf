\* One breakdown, one coolant top-up and, serially, one failed check; two
\* sessions, and two requests beside the sweep.
CONSTANTS
  Breakdowns = {b1}
  Complaints = {}
  Coolants = {c1}
  Checks = {k1}
  Sessions = {s1, s2}
  Whens = {d1, d2}
  Requests = {r1, r2}
  MaxConcurrent = 2
  MaxPushes = 1
  MaxFailures = 1
  Nil = Nil
SPECIFICATION MCSpec
SYMMETRY Symmetry
CHECK_DEADLOCK FALSE
INVARIANTS
  
  BreakdownShowsTicketSerially
  OneSessionSerially
  EntryFollowsTicket
PROPERTIES
  ImplementsLifecycle
