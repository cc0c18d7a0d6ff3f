-------------------------- MODULE MC_ServiceManager -------------------------
(***************************************************************************)
(* Three operators and two strategies for two seats.                       *)
(***************************************************************************)
EXTENDS ServiceManager

CONSTANTS s1, s2

MC_Operators   == 1..3
MC_Solochain   == 1..3
MC_Strategies  == {s1, s2}
MC_Multipliers == {0, 2}

\* Stakes for which ties happen, within a strategy and across the two.
MC_Allocations == (s1 :> {0, 1}) @@ (s2 :> {1})

=============================================================================
