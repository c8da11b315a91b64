------------------------ MODULE MCAutomaticDispatch ------------------------
(* Two branches, and three jobs that can be started: two of one branch.     *)
EXTENDS AutomaticDispatch, TLC

CONSTANTS north, south, j1, j2, j3

TwoAndOne == (j1 :> north) @@ (j2 :> north) @@ (j3 :> south)
=============================================================================
