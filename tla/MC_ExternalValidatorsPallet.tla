-------------------- MODULE MC_ExternalValidatorsPallet --------------------
(***************************************************************************)
(* Small instances of the era machine: three validators, one of them       *)
(* without session keys.                                                   *)
(***************************************************************************)
EXTENDS ExternalValidatorsPallet

CONSTANTS a, b, c

MC_ValidatorId == {a, b, c}
MC_KeyHolders  == {a, b}

\* A list with a duplicate of a whitelisted validator, one longer than the
\* bound of two, one whose member has no keys, and the empty list.
MC_ValidatorLists == {<<>>, <<b>>, <<c, a, b>>}

MC_GenesisWhitelisted == <<a>>
MC_GenesisExternal    == <<b, a>>

MC_ForceModes == {"NotForcing", "ForceNew", "ForceNone", "ForceAlways"}

=============================================================================
