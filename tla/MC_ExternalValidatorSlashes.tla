-------------------- MODULE MC_ExternalValidatorSlashes --------------------
(***************************************************************************)
(* Small instances of the slashes pallet.                                  *)
(***************************************************************************)
EXTENDS ExternalValidatorSlashes, TLC

CONSTANTS v1, v2, babe, grandpa

\* The set of whitelists is closed under renaming of validators, and no step
\* treats one kind of offence differently from another.
Symmetry == Permutations(Validator) \cup Permutations(Kind)

=============================================================================
