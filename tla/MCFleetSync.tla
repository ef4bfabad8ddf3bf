---------------------------- MODULE MCFleetSync ----------------------------
(* Two sites, one bus of the platform's and the placeholder, the night and  *)
(* one manager.                                                             *)
EXTENDS FleetSync

CONSTANTS s1, s2

MCOrder == <<s1, s2>>
=============================================================================
