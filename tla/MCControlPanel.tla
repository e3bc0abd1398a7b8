--------------------------- MODULE MCControlPanel ---------------------------
(* Instance of ControlPanel for TLC. *)
EXTENDS ControlPanel

CONSTANT h175

UnnamedAndNamed == <<0, 8>>
OneMachineEach == <<1, 2>>
Rigs == <<"rig", "rig">>
=============================================================================
