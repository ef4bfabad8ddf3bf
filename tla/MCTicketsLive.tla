---------------------------- MODULE MCTicketsLive ----------------------------
(* Requests that overlap the sweep, fairly scheduled. *)
EXTENDS Tickets
=============================================================================
