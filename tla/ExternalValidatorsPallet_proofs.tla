------------------- MODULE ExternalValidatorsPallet_proofs ------------------
(***************************************************************************)
(* Proofs about the era machine, for every era length, history depth and   *)
(* set of validators, and for every interleaving of session rotations with *)
(* extrinsics, forced eras and bridge messages.                            *)
(***************************************************************************)
EXTENDS ExternalValidatorsPallet, TLAPS

\* The indices are natural numbers.
IndicesOK ==
    /\ CurrentEra \in Nat
    /\ ActiveEra \in Nat
    /\ CurrentIndex \in Nat
    /\ \A e \in DOMAIN ErasStartSessionIndex : ErasStartSessionIndex[e] \in Nat

(***************************************************************************)
(* The inductive invariant.  EraWindow is not inductive alone: that a      *)
(* rotation cannot plan a second era ahead follows from EraHistory, by     *)
(* which a planned era starts with the very next session.                  *)
(***************************************************************************)
EraInv == IndicesOK /\ EraWindow /\ EraHistory

-----------------------------------------------------------------------------
\* Genesis leaves era 0 active, with era 1 planned if eras last one session.
LEMMA InitEraInv == Init => EraInv
  <1> SUFFICES ASSUME Init PROVE EraInv
    OBVIOUS
  <1>1. /\ CurrentEra \in {0, 1} /\ ActiveEra = 0 /\ CurrentIndex = 0
        /\ ErasStartSessionIndex = [e \in 0..CurrentEra |-> e]
    BY DEF Init
  <1> QED
    BY <1>1, EraLengthAssumption DEF EraInv, IndicesOK, EraWindow, EraHistory

\* A rotation starts an era exactly when one has been planned.
LEMMA StartsPlannedEra ==
    ASSUME EraInv
    PROVE  /\ StartsEra(CurrentIndex + 1) <=> CurrentEra = ActiveEra + 1
           /\ EndsEra(CurrentIndex) <=> CurrentEra = ActiveEra + 1
           /\ CurrentEra \in DOMAIN ErasStartSessionIndex
           /\ ActiveEra \in DOMAIN ErasStartSessionIndex
  BY EraLengthAssumption
     DEF EraInv, IndicesOK, EraWindow, EraHistory, StartsEra, EndsEra

\* After start_session the active era is the latest planned one.
LEMMA StartSessionCatchesUp ==
    ASSUME EraInv, start_session(CurrentIndex + 1)
    PROVE  ActiveEra' = CurrentEra
  BY StartsPlannedEra DEF start_session, start_era, EraInv, IndicesOK, EraWindow

\* Planning an era for the session after next, once the active era has caught
\* up, keeps the invariant.
LEMMA TriggerEraInv ==
    ASSUME EraInv, CurrentIndex' = CurrentIndex + 1, ActiveEra' = CurrentEra,
           trigger_new_era(CurrentIndex + 2)
    PROVE  EraInv'
  <1> DEFINE C == CurrentEra
             D == DOMAIN ErasStartSessionIndex
  <1>1. /\ CurrentEra' = C + 1
        /\ ErasStartSessionIndex' = InsertEraStart(C + 1, CurrentIndex + 2)
    BY DEF trigger_new_era
  <1>2. /\ C \in Nat /\ ActiveEra \in Nat /\ CurrentIndex \in Nat
        /\ \A e \in D : ErasStartSessionIndex[e] \in Nat
        /\ D = {e \in 0..C : e + HistoryDepth >= C}
    BY DEF EraInv, IndicesOK, EraHistory
  <1>3. /\ DOMAIN ErasStartSessionIndex' = (D \cup {C + 1}) \ {(C + 1) - (HistoryDepth + 1)}
        /\ \A e \in DOMAIN ErasStartSessionIndex' :
               ErasStartSessionIndex'[e] = IF e = C + 1 THEN CurrentIndex + 2
                                           ELSE ErasStartSessionIndex[e]
    BY <1>1, <1>2, EraLengthAssumption DEF InsertEraStart
  <1>4. DOMAIN ErasStartSessionIndex' = {e \in 0..(C + 1) : e + HistoryDepth >= C + 1}
    BY <1>2, <1>3, EraLengthAssumption
  <1>5. \A e \in D : ErasStartSessionIndex[e] <= CurrentIndex + 1
    <2> SUFFICES ASSUME NEW e \in D PROVE ErasStartSessionIndex[e] <= CurrentIndex + 1
      OBVIOUS
    <2>1. C \in D /\ ErasStartSessionIndex[C] <= CurrentIndex + 1
      BY <1>2, StartsPlannedEra DEF EraInv, EraWindow, EraHistory
    <2>2. CASE e = C
      BY <2>1, <2>2
    <2>3. CASE e < C
      BY <1>2, <2>1, <2>3 DEF EraInv, EraHistory
    <2> QED
      BY <1>2, <2>2, <2>3
  <1>6. IndicesOK'
    BY <1>1, <1>2, <1>3, <1>4 DEF IndicesOK
  <1>7. EraWindow'
    BY <1>1 DEF EraWindow
  <1>8. \A e, f \in DOMAIN ErasStartSessionIndex' :
            e < f => ErasStartSessionIndex'[e] < ErasStartSessionIndex'[f]
    <2> SUFFICES ASSUME NEW e \in DOMAIN ErasStartSessionIndex',
                        NEW f \in DOMAIN ErasStartSessionIndex', e < f
                 PROVE  ErasStartSessionIndex'[e] < ErasStartSessionIndex'[f]
      OBVIOUS
    <2>1. e \in D /\ e # C + 1 /\ ErasStartSessionIndex'[e] = ErasStartSessionIndex[e]
      BY <1>2, <1>3, <1>4
    <2>2. CASE f = C + 1
      BY <1>2, <1>3, <1>5, <2>1, <2>2
    <2>3. CASE f # C + 1
      BY <1>3, <2>1, <2>3 DEF EraInv, EraHistory
    <2> QED
      BY <2>2, <2>3
  <1>9. EraHistory'
    <2>1. C \in DOMAIN ErasStartSessionIndex' /\ C + 1 \in DOMAIN ErasStartSessionIndex'
      BY <1>2, <1>4, EraLengthAssumption
    <2>2. ErasStartSessionIndex'[C] <= CurrentIndex + 1
      BY <1>2, <1>3, <1>5, <2>1, StartsPlannedEra
    <2> QED
      BY <1>1, <1>2, <1>3, <1>4, <1>8, <2>1, <2>2 DEF EraHistory
  <1> QED
    BY <1>6, <1>7, <1>9 DEF EraInv

\* A rotation preserves the invariant.
LEMMA RotateEraInv ==
    ASSUME EraInv, rotate_session
    PROVE  EraInv'
  <1>1. CurrentIndex' = CurrentIndex + 1 /\ ActiveEra' = CurrentEra
    BY StartSessionCatchesUp DEF rotate_session
  <1>2. CASE trigger_new_era(CurrentIndex + 2)
    BY <1>1, <1>2, TriggerEraInv
  <1>3. CASE keep_era(CurrentIndex + 2)
    <2>1. CurrentEra' = CurrentEra /\ ErasStartSessionIndex' = ErasStartSessionIndex
      BY <1>3 DEF keep_era
    <2>2. ErasStartSessionIndex[CurrentEra] <= CurrentIndex + 1
      BY StartsPlannedEra DEF EraInv, IndicesOK, EraWindow, EraHistory
    <2> QED
      BY <1>1, <2>1, <2>2 DEF EraInv, IndicesOK, EraWindow, EraHistory
  <1> QED
    BY <1>2, <1>3 DEF rotate_session, new_session

\* Nothing but a rotation moves the era clocks.
LEMMA NextEraInv == EraInv /\ [Next]_vars => EraInv'
  <1> SUFFICES ASSUME EraInv, [Next]_vars PROVE EraInv'
    OBVIOUS
  <1> DEFINE Quiet == UNCHANGED <<CurrentEra, ActiveEra, ErasStartSessionIndex, CurrentIndex>>
  <1>1. Quiet => EraInv'
    BY DEF EraInv, IndicesOK, EraWindow, EraHistory
  <1>2. ASSUME NEW skip \in BOOLEAN, skip_external_validators(skip) PROVE Quiet
    BY <1>2 DEF skip_external_validators, eraVars, sessionVars
  <1>3. ASSUME NEW who \in ValidatorId, add_whitelisted(who) PROVE Quiet
    BY <1>3 DEF add_whitelisted, eraVars, sessionVars
  <1>4. ASSUME NEW who \in ValidatorId, remove_whitelisted(who) PROVE Quiet
    BY <1>4 DEF remove_whitelisted, eraVars, sessionVars
  <1>5. ASSUME NEW mode \in ForceModes, force_era(mode) PROVE Quiet
    BY <1>5 DEF force_era, eraVars, sessionVars
  <1>6. ASSUME NEW list \in ValidatorLists, NEW t \in 0..(ActiveEra + 2),
               set_external_validators(list, t)
        PROVE  Quiet
    BY <1>6 DEF set_external_validators, eraVars, sessionVars
  <1>7. CASE on_finalize
    BY <1>1, <1>7 DEF on_finalize, sessionVars
  <1>8. CASE rotate_session
    BY <1>8, RotateEraInv
  <1>9. CASE UNCHANGED vars
    BY <1>1, <1>9 DEF vars, eraVars, sessionVars
  <1> QED
    BY <1>1, <1>2, <1>3, <1>4, <1>5, <1>6, <1>7, <1>8, <1>9 DEF Next

\* The invariant holds in every reachable state.
THEOREM EraInvariance == Spec => []EraInv
  BY InitEraInv, NextEraInv, PTL DEF Spec

\* Planning never runs two eras ahead of the active era and never falls behind,
\* whatever is forced between rotations.
THEOREM EraWindowHolds == Spec => []EraWindow
  <1>1. EraInv => EraWindow
    BY DEF EraInv
  <1> QED
    BY <1>1, EraInvariance, PTL

\* The start sessions kept are exactly those of the last HistoryDepth + 1 planned
\* eras, they increase, and the active era is among them.
THEOREM EraHistoryKept == Spec => []EraHistory
  <1>1. EraInv => EraHistory
    BY DEF EraInv
  <1> QED
    BY <1>1, EraInvariance, PTL

\* OnEraEnd and OnEraStart come in pairs: the rotation that starts an era first
\* reports the end of the one before, and no session is ever skipped.
THEOREM EraEndPairsWithStart == Spec => []EndPairsWithStart
  <1>1. EraInv => EndPairsWithStart
    BY StartsPlannedEra DEF EndPairsWithStart
  <1> QED
    BY <1>1, EraInvariance, PTL

=============================================================================
