---------------------- MODULE ExternalValidatorsPallet ----------------------
(***************************************************************************)
(* The era machine of pallet-external-validators, driven by pallet-session *)
(* (operator/pallets/external-validators/src/lib.rs).                      *)
(*                                                                         *)
(* Two clocks run side by side.  A session rotation plans the validators   *)
(* of the session after next, and the plan of a new era becomes visible    *)
(* only one session later: trigger_new_era takes the snapshots that        *)
(* start_era publishes.  Extrinsics and bridge messages arrive in between. *)
(*                                                                         *)
(* Storage items keep their names.  The only history variable is           *)
(* "planned": what trigger_new_era saw when it planned each era.           *)
(***************************************************************************)
EXTENDS Integers, Sequences, SequencesExt

CONSTANTS
    ValidatorId,              \* T::ValidatorId
    KeyHolders,               \* validators with session keys (external)
    ValidatorLists,           \* the lists a message or a root call may carry
    ForceModes,               \* the modes root may set with force_era
    GenesisWhitelisted,       \* GenesisConfig::whitelisted_validators
    GenesisExternal,          \* GenesisConfig::external_validators
    MaxWhitelistedValidators,
    MaxExternalValidators,
    SessionsPerEra,
    HistoryDepth,
    MaxSession                \* bound on the session index

ASSUME ValidatorsAssumption ==
    /\ KeyHolders \subseteq ValidatorId
    /\ ValidatorLists \subseteq Seq(ValidatorId)

ASSUME EraLengthAssumption ==
    /\ SessionsPerEra \in Nat \ {0}
    /\ HistoryDepth \in Nat \ {0}
    /\ MaxSession \in Nat

ASSUME GenesisAssumption ==
    /\ MaxWhitelistedValidators \in Nat
    /\ MaxExternalValidators \in Nat
    /\ GenesisWhitelisted \in Seq(ValidatorId)
    /\ GenesisExternal \in Seq(ValidatorId)
    /\ Len(GenesisWhitelisted) <= MaxWhitelistedValidators
    /\ Len(GenesisExternal) <= MaxExternalValidators
    /\ \A i, j \in DOMAIN GenesisWhitelisted :
           GenesisWhitelisted[i] = GenesisWhitelisted[j] => i = j

VARIABLES
    WhitelistedValidators,
    WhitelistedValidatorsActiveEra,
    WhitelistedValidatorsActiveEraPending,
    ExternalValidators,
    SkipExternalValidators,
    CurrentEra,
    ActiveEra,                \* ActiveEraInfo::index
    ActiveEraStarted,         \* ActiveEraInfo::start is Some
    ErasStartSessionIndex,
    ForceEra,
    ExternalIndex,
    PendingExternalIndex,
    CurrentExternalIndex,
    CurrentIndex,             \* pallet-session: the session index
    Validators,               \* pallet-session: the validators of this session
    QueuedValidators,         \* pallet-session: QueuedKeys, the next session's
    planned                   \* history: what each unfinished era was planned with

inputVars    == <<WhitelistedValidators, ExternalValidators,
                  SkipExternalValidators, ExternalIndex>>
eraVars      == <<CurrentEra, ActiveEra, ActiveEraStarted, ErasStartSessionIndex>>
snapshotVars == <<WhitelistedValidatorsActiveEra, WhitelistedValidatorsActiveEraPending,
                  PendingExternalIndex, CurrentExternalIndex>>
sessionVars  == <<CurrentIndex, Validators, QueuedValidators>>

vars == <<inputVars, eraVars, snapshotVars, sessionVars, ForceEra, planned>>

Forcing == {"NotForcing", "ForceNew", "ForceNone", "ForceAlways"}

ASSUME ForceModesAssumption == ForceModes \subseteq Forcing

-----------------------------------------------------------------------------
(***************************************************************************)
(* The validator list.                                                     *)
(***************************************************************************)
remove_duplicates(input) ==
    FoldLeft(LAMBDA result, item :
                 IF Contains(result, item) THEN result ELSE Append(result, item),
             <<>>, input)

\* Whitelisted validators first, the external ones after them unless skipped.
validators(whitelisted, external, skip) ==
    remove_duplicates(IF skip THEN whitelisted ELSE whitelisted \o external)

\* BoundedVec::truncate_from
Truncate(list, bound) ==
    SubSeq(list, 1, IF Len(list) <= bound THEN Len(list) ELSE bound)

\* pallet-session drops the validators whose keys it cannot load.
LoadKeys(list) == SelectSeq(list, LAMBDA v : v \in KeyHolders)

-----------------------------------------------------------------------------
(***************************************************************************)
(* Genesis: the pallet's build, then pallet-session's build, which plans   *)
(* sessions 0 and 1 and starts session 0.  An era of one session is        *)
(* planned twice before the first start_era takes the pending snapshots.   *)
(***************************************************************************)
GenesisValidators(skip) ==
    LoadKeys(validators(GenesisWhitelisted, GenesisExternal, skip))

GenesisPlan(skip) ==
    [whitelisted |-> GenesisWhitelisted, external |-> GenesisExternal, index |-> 0,
     validators |-> GenesisValidators(skip)]

Init ==
    /\ WhitelistedValidators = GenesisWhitelisted
    /\ WhitelistedValidatorsActiveEra = GenesisWhitelisted
    /\ WhitelistedValidatorsActiveEraPending = <<>>
    /\ ExternalValidators = GenesisExternal
    /\ SkipExternalValidators \in BOOLEAN
    /\ CurrentEra = (IF SessionsPerEra = 1 THEN 1 ELSE 0)
    /\ ActiveEra = 0
    /\ ActiveEraStarted = FALSE
    /\ ErasStartSessionIndex = [e \in 0..CurrentEra |-> e]
    /\ ForceEra = "NotForcing"
    /\ ExternalIndex = 0
    /\ PendingExternalIndex = 0
    /\ CurrentExternalIndex = 0
    /\ CurrentIndex = 0
    /\ Validators = GenesisValidators(SkipExternalValidators)
    /\ QueuedValidators = GenesisValidators(SkipExternalValidators)
    /\ planned = [e \in 0..CurrentEra |-> GenesisPlan(SkipExternalValidators)]

-----------------------------------------------------------------------------
(***************************************************************************)
(* Extrinsics and the bridge call.                                         *)
(***************************************************************************)
skip_external_validators(skip) ==
    /\ SkipExternalValidators' = skip
    /\ UNCHANGED <<WhitelistedValidators, ExternalValidators, ExternalIndex,
                   eraVars, snapshotVars, sessionVars, ForceEra, planned>>

add_whitelisted(who) ==
    /\ who \in KeyHolders
    /\ ~Contains(WhitelistedValidators, who)
    /\ Len(WhitelistedValidators) < MaxWhitelistedValidators
    /\ WhitelistedValidators' = Append(WhitelistedValidators, who)
    /\ UNCHANGED <<ExternalValidators, SkipExternalValidators, ExternalIndex,
                   eraVars, snapshotVars, sessionVars, ForceEra, planned>>

remove_whitelisted(who) ==
    /\ Contains(WhitelistedValidators, who)
    /\ WhitelistedValidators' = RemoveFirst(WhitelistedValidators, who)
    /\ UNCHANGED <<ExternalValidators, SkipExternalValidators, ExternalIndex,
                   eraVars, snapshotVars, sessionVars, ForceEra, planned>>

force_era(mode) ==
    /\ ForceEra' = mode
    /\ UNCHANGED <<inputVars, eraVars, snapshotVars, sessionVars, planned>>

\* Faulty variant: the TargetEraTooNew check is missing.
validate_target_era_AnyFuture(target_era) ==
    /\ target_era > ActiveEra
    /\ target_era > ExternalIndex

validate_target_era(target_era) ==
    /\ target_era > ActiveEra
    /\ target_era <= ActiveEra + 1
    /\ target_era > ExternalIndex

set_external_validators(list, external_index) ==
    /\ validate_target_era(external_index)
    /\ ExternalValidators' = Truncate(list, MaxExternalValidators)
    /\ ExternalIndex' = external_index
    /\ UNCHANGED <<WhitelistedValidators, SkipExternalValidators,
                   eraVars, snapshotVars, sessionVars, ForceEra, planned>>

on_finalize ==
    /\ ~ActiveEraStarted
    /\ ActiveEraStarted' = TRUE
    /\ UNCHANGED <<inputVars, CurrentEra, ActiveEra, ErasStartSessionIndex,
                   snapshotVars, sessionVars, ForceEra, planned>>

-----------------------------------------------------------------------------
(***************************************************************************)
(* The session manager.  One rotation ends session s, starts s + 1 with    *)
(* the queued validators and plans s + 2.                                  *)
(***************************************************************************)

\* Faulty variant: a planned era starts one session late.
StartsEra_Late(i) ==
    /\ ActiveEra + 1 \in DOMAIN ErasStartSessionIndex
    /\ ErasStartSessionIndex[ActiveEra + 1] < i

\* The era of session i has been planned: start_session(i) starts it.
StartsEra(i) ==
    /\ ActiveEra + 1 \in DOMAIN ErasStartSessionIndex
    /\ ErasStartSessionIndex[ActiveEra + 1] <= i

\* Faulty variant: the end is compared with the session itself.
EndsEra_Late(i) ==
    /\ ActiveEra + 1 \in DOMAIN ErasStartSessionIndex
    /\ ErasStartSessionIndex[ActiveEra + 1] = i

\* end_session(i) reports the end of the active era to OnEraEnd.
EndsEra(i) ==
    /\ ActiveEra + 1 \in DOMAIN ErasStartSessionIndex
    /\ ErasStartSessionIndex[ActiveEra + 1] = i + 1

\* Faulty variant: the index is read when the era starts.
start_era_LiveIndex ==
    /\ ActiveEra' = ActiveEra + 1
    /\ ActiveEraStarted' = FALSE
    /\ WhitelistedValidatorsActiveEra' = WhitelistedValidatorsActiveEraPending
    /\ CurrentExternalIndex' = ExternalIndex

start_era ==
    /\ ActiveEra' = ActiveEra + 1
    /\ ActiveEraStarted' = FALSE
    /\ WhitelistedValidatorsActiveEra' = WhitelistedValidatorsActiveEraPending
    /\ CurrentExternalIndex' = PendingExternalIndex

start_session(i) ==
    \/ StartsEra(i) /\ start_era
    \/ ~StartsEra(i) /\ UNCHANGED <<ActiveEra, ActiveEraStarted,
                            WhitelistedValidatorsActiveEra, CurrentExternalIndex>>

\* StorageValue::take in start_era leaves the default behind.
AfterTake(i, pending, default) == IF StartsEra(i) THEN default ELSE pending

\* Faulty variant: the deadline must be met exactly.
TriggersNewEra_Exactly(i) ==
    \/ ForceEra \in {"ForceNew", "ForceAlways"}
    \/ /\ ForceEra = "NotForcing"
       /\ i - ErasStartSessionIndex[CurrentEra] = SessionsPerEra

TriggersNewEra(i) ==
    \/ ForceEra \in {"ForceNew", "ForceAlways"}
    \/ /\ ForceEra = "NotForcing"
       /\ i - ErasStartSessionIndex[CurrentEra] >= SessionsPerEra

\* Faulty variant: one era too few is kept.
InsertEraStart_Shorter(era, i) ==
    [e \in (DOMAIN ErasStartSessionIndex \cup {era}) \ {era - HistoryDepth} |->
        IF e = era THEN i ELSE ErasStartSessionIndex[e]]

\* HistoryDepth + 1 start sessions are kept.
InsertEraStart(era, i) ==
    [e \in (DOMAIN ErasStartSessionIndex \cup {era}) \ {era - (HistoryDepth + 1)} |->
        IF e = era THEN i ELSE ErasStartSessionIndex[e]]

trigger_new_era(i) ==
    /\ CurrentEra' = CurrentEra + 1
    /\ ErasStartSessionIndex' = InsertEraStart(CurrentEra + 1, i)
    /\ WhitelistedValidatorsActiveEraPending' = WhitelistedValidators
    /\ PendingExternalIndex' = ExternalIndex
    /\ QueuedValidators' = LoadKeys(validators(WhitelistedValidators, ExternalValidators,
                                               SkipExternalValidators))
    /\ ForceEra' = IF ForceEra = "ForceNew" THEN "NotForcing" ELSE ForceEra
    /\ planned' = [e \in ActiveEra'..CurrentEra' |->
                      IF e = CurrentEra'
                      THEN [whitelisted |-> WhitelistedValidators,
                            external |-> ExternalValidators, index |-> ExternalIndex,
                            validators |-> QueuedValidators']
                      ELSE planned[e]]

\* No new era: pallet-session queues the current validators again.
keep_era(i) ==
    /\ WhitelistedValidatorsActiveEraPending' =
           AfterTake(i - 1, WhitelistedValidatorsActiveEraPending, <<>>)
    /\ PendingExternalIndex' = AfterTake(i - 1, PendingExternalIndex, 0)
    /\ QueuedValidators' = LoadKeys(Validators')
    /\ planned' = [e \in ActiveEra'..CurrentEra |-> planned[e]]
    /\ UNCHANGED <<CurrentEra, ErasStartSessionIndex, ForceEra>>

new_session(i) ==
    \/ TriggersNewEra(i) /\ trigger_new_era(i)
    \/ ~TriggersNewEra(i) /\ keep_era(i)

\* pallet-session's rotate_session, called from on_initialize: the block that
\* started the era has run on_finalize, and BABE never rotates in block 1.
rotate_session ==
    /\ CurrentIndex < MaxSession
    /\ ActiveEraStarted
    /\ CurrentIndex' = CurrentIndex + 1
    /\ Validators' = QueuedValidators
    /\ start_session(CurrentIndex + 1)
    /\ new_session(CurrentIndex + 2)
    /\ UNCHANGED inputVars

-----------------------------------------------------------------------------
Next ==
    \/ \E skip \in BOOLEAN : skip_external_validators(skip)
    \/ \E who \in ValidatorId : add_whitelisted(who)
    \/ \E who \in ValidatorId : remove_whitelisted(who)
    \/ \E mode \in ForceModes : force_era(mode)
    \/ \E list \in ValidatorLists, target_era \in 0..(ActiveEra + 2) :
           set_external_validators(list, target_era)
    \/ on_finalize
    \/ rotate_session

Spec == Init /\ [][Next]_vars

\* BABE keeps ending epochs and every block is finalized by the runtime.
FairSpec == Spec /\ WF_vars(on_finalize) /\ WF_vars(rotate_session)

-----------------------------------------------------------------------------
(***************************************************************************)
(* Properties.                                                             *)
(***************************************************************************)

\* "CurrentEra is either ActiveEra or ActiveEra + 1 if the new era validators
\* have been queued": planning never runs two eras ahead, however ForceEra is
\* switched between rotations, and never falls behind.
EraWindow == CurrentEra \in {ActiveEra, ActiveEra + 1}

\* ErasStartSessionIndex holds exactly the last HistoryDepth + 1 planned eras,
\* in strictly increasing order, so "active era must always be in history";
\* a planned era starts with the very next session.
EraHistory ==
    /\ DOMAIN ErasStartSessionIndex = {e \in 0..CurrentEra : e + HistoryDepth >= CurrentEra}
    /\ \A e, f \in DOMAIN ErasStartSessionIndex :
           e < f => ErasStartSessionIndex[e] < ErasStartSessionIndex[f]
    /\ ErasStartSessionIndex[ActiveEra] <= CurrentIndex
    /\ CurrentEra # ActiveEra => ErasStartSessionIndex[CurrentEra] = CurrentIndex + 1

\* The rotation that starts an era is the one whose end_session reported the end
\* of the era before it: OnEraEnd and OnEraStart always come in pairs, and the
\* "session appears to have been skipped" arm of start_session is dead.
EndPairsWithStart == EndsEra(CurrentIndex) <=> StartsEra(CurrentIndex + 1)

\* The active era runs with what trigger_new_era read when it planned the era:
\* the index it reports, its validators, and the whitelist that decides whom not
\* to reward belong together, although each is a snapshot of its own.  An index
\* names one list: eras that report the same index were planned with the same
\* external validators, and the latest index stands for the current list.
EraAsPlanned ==
    /\ CurrentExternalIndex = planned[ActiveEra].index
    /\ Validators = LoadKeys(planned[ActiveEra].validators)
    /\ WhitelistedValidatorsActiveEra = planned[ActiveEra].whitelisted
    /\ \A e \in DOMAIN planned :
          /\ planned[e].index = ExternalIndex => planned[e].external = ExternalValidators
          /\ \A f \in DOMAIN planned :
                 planned[e].index = planned[f].index => planned[e].external = planned[f].external

\* A set accepted for target era t is first used by era t or by era t + 1, each
\* set at most once: the index of the active era only grows.
IndexApplication ==
    [][CurrentExternalIndex' # CurrentExternalIndex =>
           /\ CurrentExternalIndex' > CurrentExternalIndex
           /\ CurrentExternalIndex' \in {ActiveEra' - 1, ActiveEra'}]_vars

\* An era whose sessions fit below the bound ends, unless ForceNone is set on
\* the way.
EraProgress ==
    \A e \in 0..(MaxSession - SessionsPerEra - 1) :
        (ActiveEra = e /\ CurrentIndex + SessionsPerEra + 1 <= MaxSession)
            ~> (ActiveEra > e \/ ForceEra = "ForceNone")

=============================================================================
