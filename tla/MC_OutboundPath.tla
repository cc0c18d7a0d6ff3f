--------------------------- MODULE MC_OutboundPath --------------------------
(***************************************************************************)
(* The path of a rewards message, layer by layer: the rewards pallet, the  *)
(* ring of unsent messages, the outbound queue.  Each layer meets its      *)
(* environment as its own module describes it; in a behaviour one of the   *)
(* three moves and the others stay as they start, so a state of this       *)
(* instance is a state of one of them.                                     *)
(***************************************************************************)
EXTENDS OutboundQueue, UnsentQueue

CONSTANTS
    Validator, Whitelisted, BaseInflation, HistoryDepth, MaxEra, MaxEraBlocks,
    Accuracy, BasePointsPerBlock, BlockAuthoringWeight, LivenessWeight, FairShareCap,
    ExpectedBlocksPerEra, MinInflationPercent, MaxInflationPercent, TreasuryProportion,
    transfer, system, r1, r2, v1, v2, e1, e2, e3, e4, e5      \* model values

VARIABLES
    ActiveEra, BlocksAuthoredInSession, BlocksProducedInEra, RewardPointsForEra,
    RewardsAccount, promised, sent, refused,
    palletQueue, palletExpired   \* queue and expired of the rewards pallet

palletVars == <<ActiveEra, BlocksAuthoredInSession, BlocksProducedInEra, RewardPointsForEra,
                palletQueue, RewardsAccount, promised, sent, palletExpired, refused>>

Pallet == INSTANCE ExternalValidatorsRewards WITH
    queue <- palletQueue, expired <- palletExpired

ASSUME PathAssumption ==
    /\ Pallet!PerformanceAssumption
    /\ Pallet!RewardsAssumption

PathInit == Init /\ Pallet!Init /\ QueueInit

\* The order of the hashes does not matter to the other two.
OutboundIdle == Init /\ hashOrder = CHOOSE order \in HashOrders : TRUE

PathNext ==
    \/ Next /\ Pallet!Init /\ QueueInit /\ UNCHANGED <<palletVars, queueVars>>
    \/ Pallet!Next /\ OutboundIdle /\ QueueInit /\ UNCHANGED <<vars, queueVars>>
    \/ QueueNext /\ OutboundIdle /\ Pallet!Init /\ UNCHANGED <<vars, palletVars>>

PathSpec == PathInit /\ [][PathNext]_<<vars, palletVars, queueVars>> /\ QueueFairness

-----------------------------------------------------------------------------
(***************************************************************************)
(* The properties of the pallet, under their own names.                    *)
(***************************************************************************)

\* What waits in the pallet's ring are the points and the inflation of the end of
\* the era.
QueuedAsPromised == Pallet!QueuedAsPromised

\* Every era that was minted for is sent once, waiting, refused or expired.
EraAccounting == Pallet!EraAccounting

-----------------------------------------------------------------------------
(***************************************************************************)
(* Instances.  Outbound: two origins, messages with and without a fee, one *)
(* that is too large; rising, falling and mixed hashes.                    *)
(***************************************************************************)
MC_Origins  == {transfer, system}
MC_Relayers == {r1, r2}
MC_Outgoing == {[origin |-> transfer, size |-> 1, fee |-> 2],
                [origin |-> system, size |-> 1, fee |-> 0],
                [origin |-> system, size |-> 2, fee |-> 0]}

MC_HashOrders ==
    {[n \in 0..10 |-> n + 1], [n \in 0..10 |-> 11 - n], [n \in 0..10 |-> 1 + ((7 * n) % 11)]}

\* Pallet: two validators, one of them whitelisted.
MC_Validator   == {v1, v2}
MC_Whitelisted == {v2}

\* Ring: five entries for three usable slots, one that is always refused.
MC_Entry         == {e1, e2, e3, e4, e5}
MC_Undeliverable == {e1}

=============================================================================
