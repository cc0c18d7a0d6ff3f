--------------------------- MODULE EthereumClient ---------------------------
(***************************************************************************)
(* pallet ethereum-client: a light client of the beacon chain.  It follows *)
(* finalized headers signed by the sync committee of their period, keeps   *)
(* the last of them in a ring buffer, and verifies that a block is one of  *)
(* them or an ancestor that their block_roots reach.                       *)
(*                                                                         *)
(* The beacon chain is external.  Its committees are numbered by period,   *)
(* "finality" gives the slot that the state of each attested slot has      *)
(* finalized, and a root is <<chain, slot>>: a minority of a committee may *)
(* sign headers of another chain, a supermajority never does.  Merkle      *)
(* branches and aggregate signatures are valid exactly when what they      *)
(* attest is true.                                                         *)
(***************************************************************************)
EXTENDS Integers, FiniteSets, Sequences, FiniteSetsExt

CONSTANTS
    SLOTS_PER_EPOCH,
    EPOCHS_PER_SYNC_COMMITTEE_PERIOD,
    SLOTS_PER_HISTORICAL_ROOT,
    SYNC_COMMITTEE_SIZE,
    MaxFinalizedHeadersToKeep,
    FreeHeadersInterval,
    Finalities,             \* the courses finality may take: attested slot -> finalized slot
    MaxSlot,                \* bound on attested slots
    MaxCheckpoints          \* bound on forced checkpoints

ASSUME EthereumClientAssumption ==
    /\ SLOTS_PER_EPOCH \in Nat \ {0}
    /\ EPOCHS_PER_SYNC_COMMITTEE_PERIOD \in Nat \ {0}
    /\ SLOTS_PER_HISTORICAL_ROOT \in Nat \ {0}
    /\ SYNC_COMMITTEE_SIZE \in Nat \ {0}
    /\ MaxFinalizedHeadersToKeep \in Nat \ {0}
    /\ FreeHeadersInterval \in Nat

VARIABLES
    LatestFinalizedBlockRoot,
    FinalizedBeaconState,           \* root -> slot
    FinalizedBeaconStateIndex,
    FinalizedBeaconStateMapping,    \* ring buffer index -> root
    CurrentSyncCommittee,
    NextSyncCommittee,
    LatestSyncCommitteeUpdatePeriod,
    OperatingMode,
    finality,                       \* the beacon chain
    imported,                       \* history: slots stored since the last checkpoint
    checkpoints,                    \* history: forced checkpoints so far
    restored,                       \* history: a header was stored while the ring still held it
    freed                           \* history: periods whose committee update was free, since
                                    \* the last checkpoint or update that was charged for

ringVars      == <<FinalizedBeaconState, FinalizedBeaconStateIndex, FinalizedBeaconStateMapping>>
committeeVars == <<CurrentSyncCommittee, NextSyncCommittee, LatestSyncCommitteeUpdatePeriod>>

vars == <<LatestFinalizedBlockRoot, ringVars, committeeVars, OperatingMode, finality, imported,
          checkpoints, restored, freed>>

None    == -1
NoRoot  == <<"none", 0>>
Root(slot) == <<"beacon", slot>>

compute_epoch(slot) == slot \div SLOTS_PER_EPOCH

compute_period(slot) == compute_epoch(slot) \div EPOCHS_PER_SYNC_COMMITTEE_PERIOD

Periods == 0..compute_period(MaxSlot)

Init ==
    /\ LatestFinalizedBlockRoot = NoRoot
    /\ FinalizedBeaconState = <<>>
    /\ FinalizedBeaconStateIndex = 0
    /\ FinalizedBeaconStateMapping = <<>>
    /\ CurrentSyncCommittee = None
    /\ NextSyncCommittee = None
    /\ LatestSyncCommitteeUpdatePeriod = 0
    /\ OperatingMode = "Normal"
    /\ finality \in Finalities
    /\ imported = <<>>
    /\ checkpoints = 0
    /\ restored = FALSE
    /\ freed = {}

Bootstrapped == LatestFinalizedBlockRoot \in DOMAIN FinalizedBeaconState

LatestSlot == FinalizedBeaconState[LatestFinalizedBlockRoot]

-----------------------------------------------------------------------------
(***************************************************************************)
(* RingBufferMapImpl                                                       *)
(***************************************************************************)
Put(map, key, value) == [k \in DOMAIN map \cup {key} |-> IF k = key THEN value ELSE map[k]]
Remove(map, key)     == [k \in DOMAIN map \ {key} |-> map[k]]

NextIndex ==
    IF FinalizedBeaconStateIndex + 1 >= MaxFinalizedHeadersToKeep
    THEN 0 ELSE FinalizedBeaconStateIndex + 1

\* Faulty variant: the older state is removed last.
RingInsert_RemovesLast(root, slot) ==
    /\ FinalizedBeaconStateMapping' = Put(FinalizedBeaconStateMapping, NextIndex, root)
    /\ FinalizedBeaconStateIndex' = NextIndex
    /\ FinalizedBeaconState' =
           IF NextIndex \in DOMAIN FinalizedBeaconStateMapping
           THEN Remove(Put(FinalizedBeaconState, root, slot), FinalizedBeaconStateMapping[NextIndex])
           ELSE Put(FinalizedBeaconState, root, slot)

RingInsert(root, slot) ==
    LET older == IF NextIndex \in DOMAIN FinalizedBeaconStateMapping
                 THEN Remove(FinalizedBeaconState, FinalizedBeaconStateMapping[NextIndex])
                 ELSE FinalizedBeaconState
    IN  /\ FinalizedBeaconStateMapping' = Put(FinalizedBeaconStateMapping, NextIndex, root)
        /\ FinalizedBeaconStateIndex' = NextIndex
        /\ FinalizedBeaconState' = Put(older, root, slot)

store_finalized_header(root, slot) ==
    /\ RingInsert(root, slot)
    /\ restored' = (restored \/ root \in DOMAIN FinalizedBeaconState)
    /\ LatestFinalizedBlockRoot' = root

-----------------------------------------------------------------------------
(***************************************************************************)
(* force_checkpoint -> process_checkpoint_update                           *)
(***************************************************************************)
force_checkpoint(slot) ==
    /\ checkpoints < MaxCheckpoints
    /\ checkpoints' = checkpoints + 1
    /\ CurrentSyncCommittee' = compute_period(slot)
    /\ NextSyncCommittee' = None
    /\ store_finalized_header(Root(slot), slot)
    /\ imported' = <<slot>>
    /\ freed' = {}
    /\ UNCHANGED <<LatestSyncCommitteeUpdatePeriod, OperatingMode, finality>>

-----------------------------------------------------------------------------
(***************************************************************************)
(* submit -> process_update.  An update is                                 *)
(*   [chain, attested, finalized, signature (slots), next (carries the     *)
(*    next committee of the attested state), participants].                *)
(***************************************************************************)

\* Faulty variant: half of the committee is enough.
supermajority_Half(participants) == participants * 2 >= SYNC_COMMITTEE_SIZE - 1

supermajority(participants) == participants * 3 >= SYNC_COMMITTEE_SIZE * 2

SignaturePeriodOK(u) ==
    LET store_period     == compute_period(LatestSlot)
        signature_period == compute_period(u.signature)
    IN  IF NextSyncCommittee # None THEN signature_period \in store_period..(store_period + 1)
                                    ELSE signature_period = store_period

\* Faulty variant: an update that only brings the next committee is irrelevant.
Relevant_HeaderOnly(u) == u.attested > LatestSlot

Relevant(u) ==
    \/ u.attested > LatestSlot
    \/ /\ NextSyncCommittee = None
       /\ u.next
       /\ compute_period(u.attested) = compute_period(LatestSlot)

\* Faulty variant: one period and two slots.
GapOK_Wider(u) == LatestSlot + SLOTS_PER_HISTORICAL_ROOT + 2 >= u.finalized

GapOK(u) == LatestSlot + SLOTS_PER_HISTORICAL_ROOT >= u.finalized

\* The next committee must be the one already stored, and must come along
\* when the finalized header leaves the period.
NextCommitteeOK(u) ==
    LET store_period == compute_period(LatestSlot)
    IN  \/ /\ u.next
           /\ (compute_period(u.attested) = store_period /\ NextSyncCommittee # None)
                  => compute_period(u.attested) + 1 = NextSyncCommittee
        \/ ~u.next /\ compute_period(u.finalized) = store_period

\* fast_aggregate_verify with the committee the client believes in.
Signed(u) ==
    compute_period(u.signature) =
        IF compute_period(u.signature) = compute_period(LatestSlot)
        THEN CurrentSyncCommittee ELSE NextSyncCommittee

verify_update(u) ==
    /\ supermajority(u.participants)
    /\ u.signature > u.attested /\ u.attested >= u.finalized
    /\ Bootstrapped
    /\ SignaturePeriodOK(u)
    /\ Relevant(u)
    /\ GapOK(u)
    /\ NextCommitteeOK(u)
    /\ Signed(u)

\* Free for the committee it brings.
FreeForCommittee(u) ==
    /\ u.next
    /\ \/ NextSyncCommittee = None
       \/ compute_period(u.finalized) > LatestSyncCommitteeUpdatePeriod

\* The update is free (Pays::No).
check_refundable(u) ==
    \/ FreeForCommittee(u)
    \/ u.finalized >= LatestSlot + FreeHeadersInterval

\* Faulty variant: the period of the finalized header is not looked at.
ApplyNextCommittee_Shifts(u) ==
    /\ CurrentSyncCommittee' = IF NextSyncCommittee = None THEN CurrentSyncCommittee
                                                            ELSE NextSyncCommittee
    /\ NextSyncCommittee' = compute_period(u.attested) + 1

ApplyNextCommittee(u) ==
    LET store_period     == compute_period(LatestSlot)
        finalized_period == compute_period(u.finalized)
        committee        == compute_period(u.attested) + 1
    IN  \/ /\ NextSyncCommittee = None
           /\ finalized_period = store_period
           /\ NextSyncCommittee' = committee
           /\ UNCHANGED CurrentSyncCommittee
        \/ /\ NextSyncCommittee # None
           /\ finalized_period = store_period + 1
           /\ CurrentSyncCommittee' = NextSyncCommittee
           /\ NextSyncCommittee' = committee
        \/ /\ NextSyncCommittee # None
           /\ finalized_period # store_period + 1
           /\ UNCHANGED <<CurrentSyncCommittee, NextSyncCommittee>>

\* Faulty variant: the period of the committee update is not remembered.
apply_update_Forgets(u) ==
    /\ \/ u.next /\ ApplyNextCommittee(u) /\ UNCHANGED LatestSyncCommitteeUpdatePeriod
       \/ ~u.next /\ UNCHANGED committeeVars
    /\ \/ /\ u.finalized > LatestSlot
          /\ store_finalized_header(<<u.chain, u.finalized>>, u.finalized)
          /\ imported' = Append(imported, u.finalized)
       \/ /\ u.finalized <= LatestSlot
          /\ UNCHANGED <<ringVars, LatestFinalizedBlockRoot, imported, restored>>

apply_update(u) ==
    /\ \/ /\ u.next
          /\ ApplyNextCommittee(u)
          /\ LatestSyncCommitteeUpdatePeriod' = compute_period(u.finalized)
       \/ ~u.next /\ UNCHANGED committeeVars
    /\ \/ /\ u.finalized > LatestSlot
          /\ store_finalized_header(<<u.chain, u.finalized>>, u.finalized)
          /\ imported' = Append(imported, u.finalized)
       \/ /\ u.finalized <= LatestSlot
          /\ UNCHANGED <<ringVars, LatestFinalizedBlockRoot, imported, restored>>

submit(u) ==
    /\ OperatingMode = "Normal"
    /\ verify_update(u)
    /\ apply_update(u)
    /\ freed' = IF ~check_refundable(u) THEN {}
                ELSE IF FreeForCommittee(u) THEN freed \cup {compute_period(u.finalized)}
                ELSE freed
    /\ UNCHANGED <<OperatingMode, finality, checkpoints>>

set_operating_mode(mode) ==
    /\ OperatingMode' = mode
    /\ UNCHANGED <<LatestFinalizedBlockRoot, ringVars, committeeVars, finality, imported,
                   checkpoints, restored, freed>>

-----------------------------------------------------------------------------
(***************************************************************************)
(* Verifier::verify -> verify_execution_proof, for the block of a slot.    *)
(***************************************************************************)

\* The slot whose root stands at index slot % N of the block_roots of a state.
BlockRootAt(index, state) ==
    CHOOSE s \in (state - SLOTS_PER_HISTORICAL_ROOT)..(state - 1) :
        s % SLOTS_PER_HISTORICAL_ROOT = index

verify_ancestry_proof(slot, finalized_block_root) ==
    /\ finalized_block_root \in DOMAIN FinalizedBeaconState
    /\ slot < FinalizedBeaconState[finalized_block_root]
    /\ BlockRootAt(slot % SLOTS_PER_HISTORICAL_ROOT, FinalizedBeaconState[finalized_block_root])
           = slot

verify_execution_proof(slot) ==
    /\ Bootstrapped
    /\ slot <= LatestSlot
    /\ \/ \E root \in DOMAIN FinalizedBeaconState : verify_ancestry_proof(slot, root)
       \/ Root(slot) \in DOMAIN FinalizedBeaconState

-----------------------------------------------------------------------------
\* What relayers can submit: true updates of the beacon chain, whose signature
\* may come a slot late, and updates that a minority signed for another chain.
Updates ==
    {[chain |-> c, attested |-> a, finalized |-> finality[a], signature |-> a + late, next |-> n,
      participants |-> IF c = "fork" THEN 1 ELSE SYNC_COMMITTEE_SIZE] :
        c \in {"beacon", "fork"}, a \in 0..MaxSlot, late \in {1, 2}, n \in BOOLEAN}

Next ==
    \/ \E slot \in {finality[a] : a \in 0..MaxSlot} : force_checkpoint(slot)
    \/ \E u \in Updates : submit(u)
    \/ \E mode \in {"Normal", "Halted"} : set_operating_mode(mode)

Spec == Init /\ [][Next]_vars

-----------------------------------------------------------------------------
(***************************************************************************)
(* Properties.                                                             *)
(***************************************************************************)

\* The client always trusts the right committees: the current one is that of the
\* period of the latest finalized header, the next one, once known, that of the
\* period after it, through every order of updates, late updates and checkpoints.
CommitteesMatchPeriod ==
    Bootstrapped =>
        /\ CurrentSyncCommittee = compute_period(LatestSlot)
        /\ NextSyncCommittee \in {None, compute_period(LatestSlot) + 1}

\* Only headers of the beacon chain are stored, whatever minorities sign, and
\* each under its own slot.
OnlyFinalizedHeaders ==
    \A root \in DOMAIN FinalizedBeaconState :
        /\ root = Root(FinalizedBeaconState[root])
        /\ \E a \in 0..MaxSlot : finality[a] = FinalizedBeaconState[root]

\* Storage is bounded by the ring buffer, and wrapping around never removes the
\* latest header, even when a checkpoint stored the same header twice: once
\* bootstrapped the client stays bootstrapped.
RingKeepsLatest ==
    /\ FinalizedBeaconStateIndex \in 0..(MaxFinalizedHeadersToKeep - 1)
    /\ DOMAIN FinalizedBeaconStateMapping \subseteq 0..(MaxFinalizedHeadersToKeep - 1)
    /\ DOMAIN FinalizedBeaconState \subseteq {FinalizedBeaconStateMapping[i] :
                                                 i \in DOMAIN FinalizedBeaconStateMapping}
    /\ Cardinality(DOMAIN FinalizedBeaconState) <= MaxFinalizedHeadersToKeep
    /\ checkpoints > 0 => Bootstrapped

\* "The gap between the finalized headers is larger than the sync committee
\* period, rendering execution headers unprovable": no block falls into such a
\* gap.  Every block from the last header that was pruned since the checkpoint to
\* the latest one can be proved.
EveryBlockProvable ==
    imported # <<>> =>
        LET kept == Max({1, Len(imported) - MaxFinalizedHeadersToKeep})
        IN  \A slot \in imported[kept]..LatestSlot : verify_execution_proof(slot)

\* It holds as long as no checkpoint makes the client store a header again that
\* the ring buffer still holds: the place of the first copy, when it is reused,
\* takes the state of the second one with it.
NoUnprovableGap == ~restored => EveryBlockProvable

\* The client cannot lock itself out: in every state, some true update moves it
\* on towards the last finalized header, by a header or by the next committee.
NeverStuck ==
    (Bootstrapped /\ LatestSlot < finality[MaxSlot]) =>
        \E u \in Updates :
            /\ verify_update(u)
            /\ NextSyncCommittee = None => compute_period(u.finalized) = compute_period(LatestSlot)
            /\ u.finalized > LatestSlot \/ (u.next /\ NextSyncCommittee = None)

\* "If the sync committee update is in a period that we have not received an
\* update for, the update is free": a period gives one free committee update, in
\* whatever order the updates come, until a checkpoint or an update that is paid
\* for.  The paid one is excepted because apply_update sets
\* LatestSyncCommitteeUpdatePeriod to the period of the update it applies, also
\* when it was not free and its period is an earlier one.
PeriodFreeOnce ==
    \A u \in Updates :
        verify_update(u) /\ FreeForCommittee(u) => compute_period(u.finalized) \notin freed

=============================================================================
