------------------------- MODULE SessionPerformance -------------------------
(***************************************************************************)
(* The arithmetic of the rewards pallet: the performance points of a       *)
(* session, the inflation of an era, and the split of an era's inflation   *)
(* among operators.                                                        *)
(*                                                                         *)
(* A Perbill is its number of parts out of Accuracy (10^9 in the runtime). *)
(* Points and blocks are far below the u32 bound at which the code         *)
(* saturates, and are left unbounded here.                                 *)
(***************************************************************************)
EXTENDS Integers, FiniteSets, FiniteSetsExt, Functions

CONSTANTS
    Accuracy,               \* Perbill::ACCURACY
    BasePointsPerBlock,
    BlockAuthoringWeight,   \* Perbill
    LivenessWeight,         \* Perbill
    FairShareCap,           \* Perbill
    ExpectedBlocksPerEra,
    MinInflationPercent,    \* whole percent
    MaxInflationPercent,    \* whole percent
    TreasuryProportion      \* Perbill

PerformanceAssumption ==
    /\ Accuracy \in Nat \ {0}
    /\ BasePointsPerBlock \in Nat
    /\ {BlockAuthoringWeight, LivenessWeight, FairShareCap, TreasuryProportion}
           \subseteq 0..Accuracy
    /\ {ExpectedBlocksPerEra, MinInflationPercent, MaxInflationPercent} \subseteq Nat

Least(a, b) == IF a <= b THEN a ELSE b
Greatest(a, b) == IF a >= b THEN a ELSE b

-----------------------------------------------------------------------------
(***************************************************************************)
(* sp_arithmetic::Perbill: sums are capped at one, products round down.    *)
(***************************************************************************)
PerbillAdd(p, q) == Least(p + q, Accuracy)
PerbillSub(p, q) == Greatest(p - q, 0)
PerbillMul(p, q) == (p * q) \div Accuracy
FromRational(p, q) == Least((p * Accuracy) \div q, Accuracy)
FromPercent(n) == (Least(n, 100) * Accuracy) \div 100
MulFloor(p, n) == (p * n) \div Accuracy

-----------------------------------------------------------------------------
(***************************************************************************)
(* award_session_performance_points                                        *)
(***************************************************************************)

\* Block, liveness and base weight.  The scaling arm compares the capped sum
\* with one.
Weights ==
    LET sum   == PerbillAdd(BlockAuthoringWeight, LivenessWeight)
        scale == FromRational(Accuracy, sum)
    IN  IF sum > Accuracy
        THEN [block |-> PerbillMul(scale, BlockAuthoringWeight),
              liveness |-> PerbillMul(scale, LivenessWeight), base |-> 0]
        ELSE [block |-> BlockAuthoringWeight, liveness |-> LivenessWeight,
              base |-> PerbillSub(PerbillSub(Accuracy, BlockAuthoringWeight), LivenessWeight)]

FairShare(total_blocks, validator_count) ==
    Greatest(IF validator_count = 0 THEN 1 ELSE total_blocks \div validator_count, 1)

\* Points of one validator that authored "authored" of total_blocks.
ValidatorPoints(authored, total_blocks, validator_count) ==
    LET fair_share   == FairShare(total_blocks, validator_count)
        max_credited == fair_share + MulFloor(FairShareCap, fair_share)
        credited     == Least(authored, max_credited)
        other_weight == PerbillAdd(IF authored > 0 THEN Weights.liveness ELSE 0, Weights.base)
        effective    == Greatest(total_blocks, validator_count)
        block_part   == MulFloor(Weights.block, credited * BasePointsPerBlock)
        other_part   == MulFloor(other_weight, effective * BasePointsPerBlock) \div validator_count
    IN  block_part + other_part

\* Points of a session: none for whitelisted validators.
SessionPoints(authored, validators, whitelisted) ==
    LET total == SumFunction(authored)
    IN  [v \in validators \ whitelisted |->
            ValidatorPoints(authored[v], total, Cardinality(validators))]

-----------------------------------------------------------------------------
(***************************************************************************)
(* calculate_scaled_inflation, and the treasury split of mint_inflation.   *)
(***************************************************************************)
calculate_scaled_inflation(blocks_produced, base_inflation) ==
    LET ratio == IF ExpectedBlocksPerEra > 0
                 THEN FromRational(Least(blocks_produced, ExpectedBlocksPerEra),
                                   ExpectedBlocksPerEra)
                 ELSE Accuracy
        percent == MinInflationPercent
                     + MulFloor(ratio, Greatest(MaxInflationPercent - MinInflationPercent, 0))
    IN  MulFloor(FromPercent(percent), base_inflation)

RewardsShare(total_amount) == total_amount - MulFloor(TreasuryProportion, total_amount)

-----------------------------------------------------------------------------
(***************************************************************************)
(* points_to_rewards: what each operator gets, and the dust that is left.  *)
(***************************************************************************)
OperatorRewards(points, inflation) ==
    LET total == SumFunction(points)
    IN  [v \in DOMAIN points |-> (points[v] * inflation) \div total]

Remainder(points, inflation) ==
    inflation - SumFunction(OperatorRewards(points, inflation))

=============================================================================
