-------------------- MODULE MC_ExternalValidatorsRewards --------------------
(***************************************************************************)
(* Instances of ExternalValidatorsRewards for TLC.  Weights are whole      *)
(* percents, so Perbill has an accuracy of 100.                            *)
(***************************************************************************)
EXTENDS ExternalValidatorsRewards

CONSTANTS v1, v2, v3     \* model values

MC_Two == {v1, v2}
MC_Three == {v1, v2, v3}
MC_Whitelisted == {v2}

=============================================================================
