-------------------------- MODULE MC_EthereumClient -------------------------
(***************************************************************************)
(* Periods of five slots, a bit more than three of them.                   *)
(***************************************************************************)
EXTENDS EthereumClient

\* Finality two slots behind.
Regular(a) == Max({0, a - 2})

\* The same, and a course in which finality stalls across the end of a period.
MC_Finalities ==
    {[a \in 0..MaxSlot |-> Regular(a)],
     [a \in 0..MaxSlot |-> IF a \in 9..11 THEN 6 ELSE Regular(a)]}

=============================================================================
