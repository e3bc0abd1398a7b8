---------------------------- MODULE MCStatusPage ----------------------------
(* Instance of StatusPage for TLC. *)
EXTENDS StatusPage, TLC

CONSTANTS tab1, tab2, serverA, serverB

TwoPages == {tab1, tab2}
PageSymmetry == Permutations(TwoPages)
=============================================================================
