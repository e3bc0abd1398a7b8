-------------------------- MODULE MCClimateControl --------------------------
(* Instances of ClimateControl for TLC. *)
EXTENDS ClimateControl

\* A room can be too cold, well or too hot.
SomeTemps == 1 .. 4
SomeDewpts == 1 .. 3
DewptMargin == -1
=============================================================================
