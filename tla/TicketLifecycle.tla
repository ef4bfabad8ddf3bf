--------------------------- MODULE TicketLifecycle ---------------------------
(***************************************************************************)
(* What the ticket spine promises, without requests or rows: each source   *)
(* of work is recorded, may have a ticket, is attended and is completed,   *)
(* one source at a time, and never goes back.                              *)
(***************************************************************************)
CONSTANT Sources
VARIABLES life, attended

vars == <<life, attended>>
Stages == {"none", "done", "open", "completed"}

Init ==
  /\ life = [s \in Sources |-> "none"]
  /\ attended = [s \in Sources |-> FALSE]

\* Recorded, as finished work or as work with an open ticket.
Record(s) ==
  /\ life[s] = "none"
  /\ \E stage \in {"done", "open"} : life' = [life EXCEPT ![s] = stage]
  /\ UNCHANGED attended

\* Finished work is reopened by raising a ticket for it.
Raise(s) ==
  /\ life[s] = "done"
  /\ life' = [life EXCEPT ![s] = "open"]
  /\ UNCHANGED attended

\* A first session is logged.
Attend(s) ==
  /\ life[s] = "open" /\ ~attended[s]
  /\ attended' = [attended EXCEPT ![s] = TRUE]
  /\ UNCHANGED life

\* A session completes the ticket, having attended it at the latest then.
Complete(s) ==
  /\ life[s] = "open"
  /\ life' = [life EXCEPT ![s] = "completed"]
  /\ attended' = [attended EXCEPT ![s] = TRUE]

Next == \E s \in Sources : Record(s) \/ Raise(s) \/ Attend(s) \/ Complete(s)

Spec == Init /\ [][Next]_vars
=============================================================================
