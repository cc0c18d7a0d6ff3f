--------------------- MODULE MC_ValidatorSetSubmission ---------------------
(***************************************************************************)
(* The hand-over pipeline on small instances: two validators with keys,    *)
(* one whitelisted at genesis.                                             *)
(***************************************************************************)
EXTENDS ValidatorSetSubmission

CONSTANTS a, b, r

MC_ValidatorId == {a, b}
MC_KeyHolders  == {a, b}

\* The sets Ethereum can build: none (the call reverts), one validator, and one
\* more than the bound of one.
MC_ValidatorLists == {<<>>, <<b>>, <<a, b>>}

MC_GenesisWhitelisted == <<a>>
MC_GenesisExternal    == <<>>

MC_Relayers == {r}

=============================================================================
