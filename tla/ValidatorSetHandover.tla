------------------------ MODULE ValidatorSetHandover ------------------------
(***************************************************************************)
(* What validator-set synchronisation promises, whatever the submitter,    *)
(* the relayers and the two chains do: eras follow each other, and for     *)
(* every era at most one validator set is ever accepted, always in the     *)
(* era just before it.                                                     *)
(***************************************************************************)
EXTENDS Integers

CONSTANT Sets           \* the validator sets Ethereum can hand over

VARIABLES
    era,                \* the active era
    accepted            \* target era -> the set accepted for it

Init ==
    /\ era = 0
    /\ accepted = <<>>

Advance ==
    /\ era' = era + 1
    /\ UNCHANGED accepted

Accept ==
    /\ era + 1 \notin DOMAIN accepted
    /\ \E set \in Sets :
           accepted' = [e \in DOMAIN accepted \cup {era + 1} |->
                           IF e = era + 1 THEN set ELSE accepted[e]]
    /\ UNCHANGED era

Next == Advance \/ Accept

Spec == Init /\ [][Next]_<<era, accepted>>

=============================================================================
