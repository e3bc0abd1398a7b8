-------------------------- MODULE MCServerMonitor --------------------------
(* Model values for the game servers of ServerMonitor. *)
EXTENDS ServerMonitor

CONSTANTS a, b

MCHosts == {a, b}
=============================================================================
