------------------------------ MODULE MCTickets ------------------------------
(***************************************************************************)
(* Instances of Tickets for TLC.  Everything the code promises is explored *)
(* over all registers with one transaction open at a time; what it keeps   *)
(* under every interleaving, with two, over the entries alone.  Requests   *)
(* that overlap a sweep are in TicketsLive.cfg.                            *)
(***************************************************************************)
EXTENDS Tickets, TLC

Symmetry == Permutations(Requests) \cup Permutations(Sessions) \cup Permutations(Whens)

VARIABLE serial   \* no two transactions overlap

WhensIn(s, q) ==
  {s[i].when : i \in {i \in Sessions : s[i] # Nil}}
    \cup {q[r].form.when : r \in {r \in Requests : "form" \in DOMAIN q[r]}}

MCInit == Init /\ serial \in BOOLEAN
MCNext ==
  /\ Next
  /\ UNCHANGED serial
  /\ serial => OneAtATime'
  /\ ~serial => /\ \A b \in Breakdowns : ~overdue'[b]
                /\ \A k \in Checks : ticket'[k] = NoTicket
                /\ Cardinality(WhensIn(session', request')) <= 1
MCSpec == MCInit /\ [][MCNext]_<<vars, serial>>

\* What the code keeps as long as no two transactions overlap.
PushedOnceSerially == serial => ResolvedPushedOnce
BreakdownShowsTicketSerially == serial => BreakdownShowsTicket
ClaimedSerially == serial => CompletionIsClaimed
OneSessionSerially == serial => OneSessionPerShift
=============================================================================
