--------------------------- MODULE ServiceManager ---------------------------
(***************************************************************************)
(* contracts/src/DataHavenServiceManager.sol: the contract through which   *)
(* EigenLayer operators become DataHaven validators.  It keeps two maps    *)
(* between operators and solochain addresses, an allowlist and a weight    *)
(* per restaking strategy; it selects the validator set that is sent to    *)
(* DataHaven, and turns rewards and slashes that come back, named by       *)
(* solochain address, into calls that name operators.                      *)
(*                                                                         *)
(* EigenLayer's AllocationManager (operator set, strategies, allocated     *)
(* stake) and RewardsCoordinator are external: each entry point of theirs  *)
(* that calls the contract, or is called by it, is one atomic transaction. *)
(* Operators are numbers, ordered as their addresses are; 0 is address(0). *)
(***************************************************************************)
EXTENDS Integers, FiniteSets, Sequences, SequencesExt, FiniteSetsExt

CONSTANTS
    Operators,              \* Ethereum addresses of operators
    Solochain,              \* their addresses on DataHaven
    Strategies,             \* restaking strategies
    Multipliers,            \* weights the owner may give them
    Allocations,            \* strategy -> the stakes an operator may allocate to it
    MAX_ACTIVE_VALIDATORS

ASSUME ServiceManagerAssumption ==
    /\ Operators \subseteq Nat \ {0}
    /\ Solochain \subseteq Nat \ {0}
    /\ Multipliers \subseteq Nat
    /\ MAX_ACTIVE_VALIDATORS \in Nat \ {0}

VARIABLES
    validatorsAllowlist,
    validatorEthAddressToSolochainAddress,
    validatorSolochainAddressToEthAddress,
    strategiesAndMultipliers,
    members,                \* AllocationManager: the validators operator set
    strategies,             \* AllocationManager: the strategies of that set
    allocatedStake,         \* AllocationManager: operator -> strategy -> stake
    allowance               \* ERC20: what the RewardsCoordinator may still pull

mappingVars  == <<validatorEthAddressToSolochainAddress, validatorSolochainAddressToEthAddress>>
strategyVars == <<strategiesAndMultipliers, strategies>>

vars == <<validatorsAllowlist, mappingVars, strategyVars, members, allocatedStake, allowance>>

Zero == 0

EthToSolo == validatorEthAddressToSolochainAddress
SoloToEth == validatorSolochainAddressToEthAddress

\* initialize: the strategies and their weights are set together.
Init ==
    /\ validatorsAllowlist = {}
    /\ validatorEthAddressToSolochainAddress = [o \in Operators |-> Zero]
    /\ validatorSolochainAddressToEthAddress = [a \in Solochain \cup {Zero} |-> Zero]
    /\ \E initial \in SUBSET Strategies : \E weights \in [initial -> Multipliers] :
           /\ strategies = initial
           /\ strategiesAndMultipliers =
                  [s \in Strategies |-> IF s \in initial THEN weights[s] ELSE 0]
    /\ members = {}
    /\ allocatedStake = [o \in Operators |-> [s \in Strategies |-> 0]]
    /\ allowance = 0

-----------------------------------------------------------------------------
(***************************************************************************)
(* Membership.                                                             *)
(***************************************************************************)
addValidatorToAllowlist(o) ==
    /\ validatorsAllowlist' = validatorsAllowlist \cup {o}
    /\ UNCHANGED <<mappingVars, strategyVars, members, allocatedStake, allowance>>

\* A member that leaves the allowlist stays a member.
removeValidatorFromAllowlist(o) ==
    /\ validatorsAllowlist' = validatorsAllowlist \ {o}
    /\ UNCHANGED <<mappingVars, strategyVars, members, allocatedStake, allowance>>

\* AllocationManager.registerForOperatorSets -> registerOperator
registerOperator(o, a) ==
    /\ o \notin members
    /\ members' = members \cup {o}
    /\ o \in validatorsAllowlist
    /\ EthToSolo[o] = Zero
    /\ a # Zero
    /\ SoloToEth[a] = Zero
    /\ validatorEthAddressToSolochainAddress' = [EthToSolo EXCEPT ![o] = a]
    /\ validatorSolochainAddressToEthAddress' = [SoloToEth EXCEPT ![a] = o]
    /\ UNCHANGED <<validatorsAllowlist, strategyVars, allocatedStake, allowance>>

\* AllocationManager.deregisterFromOperatorSets, called by the operator or by
\* the owner through deregisterOperatorFromOperatorSets -> deregisterOperator
deregisterOperator(o) ==
    /\ o \in members
    /\ members' = members \ {o}
    /\ EthToSolo[o] # Zero
    /\ validatorEthAddressToSolochainAddress' = [EthToSolo EXCEPT ![o] = Zero]
    /\ validatorSolochainAddressToEthAddress' = [SoloToEth EXCEPT ![EthToSolo[o]] = Zero]
    /\ UNCHANGED <<validatorsAllowlist, strategyVars, allocatedStake, allowance>>

\* Faulty variant: the operator's former address still leads to it.
updateSolochainAddressForValidator_KeepsOld(o, a) ==
    /\ o \in members
    /\ a # Zero
    /\ EthToSolo[o] # a
    /\ SoloToEth[a] = Zero
    /\ validatorEthAddressToSolochainAddress' = [EthToSolo EXCEPT ![o] = a]
    /\ validatorSolochainAddressToEthAddress' = [SoloToEth EXCEPT ![a] = o]
    /\ UNCHANGED <<validatorsAllowlist, strategyVars, members, allocatedStake, allowance>>

updateSolochainAddressForValidator(o, a) ==
    /\ o \in members
    /\ a # Zero
    /\ EthToSolo[o] # a
    /\ SoloToEth[a] = Zero
    /\ validatorEthAddressToSolochainAddress' = [EthToSolo EXCEPT ![o] = a]
    /\ validatorSolochainAddressToEthAddress' =
           [SoloToEth EXCEPT ![EthToSolo[o]] = Zero, ![a] = o]
    /\ UNCHANGED <<validatorsAllowlist, strategyVars, members, allocatedStake, allowance>>

-----------------------------------------------------------------------------
(***************************************************************************)
(* Strategies.  The owner passes arrays; "weights" is a function from the  *)
(* strategies named to their multipliers.  A call that fails half-way is   *)
(* undone as a whole.                                                      *)
(***************************************************************************)
SetMultipliers(weights) ==
    [s \in Strategies |->
        IF s \in DOMAIN weights THEN weights[s] ELSE strategiesAndMultipliers[s]]

removeStrategiesFromValidatorsSupportedStrategies(removed) ==
    /\ removed \subseteq strategies
    /\ strategies' = strategies \ removed
    /\ strategiesAndMultipliers' = SetMultipliers([s \in removed |-> 0])
    /\ UNCHANGED <<validatorsAllowlist, mappingVars, members, allocatedStake, allowance>>

addStrategiesToValidatorsSupportedStrategies(weights) ==
    /\ DOMAIN weights \cap strategies = {}
    /\ strategies' = strategies \cup DOMAIN weights
    /\ strategiesAndMultipliers' = SetMultipliers(weights)
    /\ UNCHANGED <<validatorsAllowlist, mappingVars, members, allocatedStake, allowance>>

\* Faulty variant: the StrategyNotInOperatorSet check is missing.
setStrategiesAndMultipliers_Any(weights) ==
    /\ strategiesAndMultipliers' = SetMultipliers(weights)
    /\ UNCHANGED <<strategies, validatorsAllowlist, mappingVars, members, allocatedStake,
                   allowance>>

setStrategiesAndMultipliers(weights) ==
    /\ DOMAIN weights \subseteq strategies
    /\ strategiesAndMultipliers' = SetMultipliers(weights)
    /\ UNCHANGED <<strategies, validatorsAllowlist, mappingVars, members, allocatedStake,
                   allowance>>

\* AllocationManager.modifyAllocations
modifyAllocations(o, s, stake) ==
    /\ allocatedStake' = [allocatedStake EXCEPT ![o][s] = stake]
    /\ UNCHANGED <<validatorsAllowlist, mappingVars, strategyVars, members, allowance>>

-----------------------------------------------------------------------------
(***************************************************************************)
(* The validator set that is sent to DataHaven.                            *)
(***************************************************************************)
WeightedStake(o) ==
    MapThenSumSet(LAMBDA s : allocatedStake[o][s] * strategiesAndMultipliers[s], strategies)

\* Faulty variant: an operator that comes later wins a tie.
_isBetterCandidate_Ties(a, b) == a.stake >= b.stake

_isBetterCandidate(a, b) ==
    IF a.stake # b.stake THEN a.stake > b.stake ELSE a.operator < b.operator

\* The candidates, in the order in which getMembers lists the operators.
Candidates(listed) ==
    LET candidate(o) == [operator |-> o, solochain |-> EthToSolo[o], stake |-> WeightedStake(o)]
        counts(o)    == EthToSolo[o] # Zero /\ WeightedStake(o) # 0
        chosen       == SelectSeq(listed, counts)
    IN  [i \in DOMAIN chosen |-> candidate(chosen[i])]

Swap(s, i, j) == [s EXCEPT ![i] = s[j], ![j] = s[i]]

\* One round of the partial selection sort: the best of the rest comes to i.
SelectionRound(candidates, i) ==
    LET better(best, j) == IF _isBetterCandidate(candidates[j], candidates[best])
                           THEN j ELSE best
        rest == [k \in 1..(Len(candidates) - i) |-> i + k]
    IN  Swap(candidates, i, FoldLeft(better, i, rest))

Rounds(n) == [i \in 1..n |-> i]

\* Empty where the contract reverts with EmptyValidatorSet.
buildNewValidatorSetMessageForEra(listed) ==
    LET candidates  == Candidates(listed)
        selectCount == Min({Len(candidates), MAX_ACTIVE_VALIDATORS})
        sorted      == FoldLeft(SelectionRound, candidates, Rounds(selectCount))
    IN  [i \in 1..selectCount |-> sorted[i].solochain]

-----------------------------------------------------------------------------
(***************************************************************************)
(* Rewards and slashes, named by solochain address.                        *)
(***************************************************************************)

\* A batch is a sequence of [operator |-> solochain address, amount |-> Nat].
Translate(batch) ==
    LET known == SelectSeq(batch, LAMBDA reward : SoloToEth[reward.operator] # Zero)
    IN  [i \in DOMAIN known |-> [known[i] EXCEPT !.operator = SoloToEth[known[i].operator]]]

\* Faulty variant: nothing is moved.
_sortOperatorRewards_Off(rewards) == FoldLeft(Append, <<>>, rewards)

\* Insertion sort: the key goes behind the last entry that is not greater.
_sortOperatorRewards(rewards) ==
    LET insert(sorted, key) ==
            LET j == Cardinality({i \in DOMAIN sorted : sorted[i].operator <= key.operator})
            IN  InsertAt(sorted, j + 1, key)
    IN  FoldLeft(insert, <<>>, rewards)

TotalAmount(rewards) == FoldLeft(LAMBDA sum, reward : sum + reward.amount, 0, rewards)

\* RewardsCoordinator: the operators of a submission must be strictly ascending.
CoordinatorAccepts(rewards) ==
    \A i \in 1..(Len(rewards) - 1) : rewards[i].operator < rewards[i + 1].operator

\* The coordinator pulls what it was asked to distribute; nothing is called when
\* no address is known.
submitRewards(batch) ==
    LET translated == Translate(batch)
        sorted     == _sortOperatorRewards(translated)
    IN  /\ \/ translated = <<>> /\ UNCHANGED allowance
           \/ /\ translated # <<>>
              /\ CoordinatorAccepts(sorted)
              /\ allowance' = allowance + TotalAmount(translated) - TotalAmount(sorted)
        /\ UNCHANGED <<validatorsAllowlist, mappingVars, strategyVars, members, allocatedStake>>

\* AllocationManager.slashOperator takes half of the stake here; it reverts the
\* call when a strategy has left the operator set.
slashValidatorsOperator(batch, slashed) ==
    LET hit == {SoloToEth[a] : a \in batch} \ {Zero}
    IN  /\ hit # {} => slashed \subseteq strategies
        /\ hit \subseteq members
        /\ allocatedStake' =
               [o \in Operators |-> [s \in Strategies |->
                   IF o \in hit /\ s \in slashed THEN allocatedStake[o][s] \div 2
                                                 ELSE allocatedStake[o][s]]]
        /\ UNCHANGED <<validatorsAllowlist, mappingVars, strategyVars, members, allowance>>

-----------------------------------------------------------------------------
\* DataHaven names a validator at most once in a batch, in any order.
RewardBatches ==
    {[i \in DOMAIN b |-> [operator |-> b[i], amount |-> i]] :
        b \in UNION {SetToSeqs(named) : named \in SUBSET Solochain}}

WeightTables == UNION {[named -> Multipliers] : named \in SUBSET Strategies \ {{}}}

Next ==
    \/ \E o \in Operators :
          \/ addValidatorToAllowlist(o)
          \/ removeValidatorFromAllowlist(o)
          \/ deregisterOperator(o)
          \/ \E a \in Solochain : registerOperator(o, a) \/ updateSolochainAddressForValidator(o, a)
          \/ \E s \in Strategies : \E stake \in Allocations[s] : modifyAllocations(o, s, stake)
    \/ \E removed \in SUBSET Strategies \ {{}} :
          removeStrategiesFromValidatorsSupportedStrategies(removed)
    \/ \E weights \in WeightTables :
          \/ addStrategiesToValidatorsSupportedStrategies(weights)
          \/ setStrategiesAndMultipliers(weights)
    \/ \E batch \in RewardBatches : submitRewards(batch)
    \/ \E batch \in SUBSET Solochain \ {{}}, slashed \in SUBSET Strategies \ {{}} :
          slashValidatorsOperator(batch, slashed)

Spec == Init /\ [][Next]_vars

-----------------------------------------------------------------------------
(***************************************************************************)
(* Properties.                                                             *)
(***************************************************************************)

\* Operator set and maps agree through every sequence of registrations, changes of
\* address and deregistrations.  The two maps are inverse to each other; a member
\* always has an address, so it can be selected, paid and slashed, and nobody else
\* has; address(0), which updateSolochainAddressForValidator may delete, is
\* never anyone's.
AddressesInSync ==
    /\ EthToSolo \in [Operators -> Solochain \cup {Zero}]
    /\ SoloToEth \in [Solochain \cup {Zero} -> Operators \cup {Zero}]
    /\ \A o \in Operators, a \in Solochain : EthToSolo[o] = a <=> SoloToEth[a] = o
    /\ SoloToEth[Zero] = Zero
    /\ members = {o \in Operators : EthToSolo[o] # Zero}

\* "Keep strategy list and multipliers in sync": a strategy outside the operator
\* set never carries a weight that would count when it is added again.
MultipliersInSync ==
    \A s \in Strategies : strategiesAndMultipliers[s] # 0 => s \in strategies

\* The selected set depends on the stakes alone, not on the order in which
\* EigenLayer lists the members: it is the list of the best candidates, the
\* heaviest first and the lower operator first among equals, without repetition.
SelectionIsRanked ==
    LET eligible == {o \in members : WeightedStake(o) > 0}
        above(o, p) == \/ WeightedStake(o) > WeightedStake(p)
                       \/ WeightedStake(o) = WeightedStake(p) /\ o < p
        selected == buildNewValidatorSetMessageForEra(SetToSeq(members))
        seated   == [i \in DOMAIN selected |-> SoloToEth[selected[i]]]
    IN  /\ Len(seated) = Min({Cardinality(eligible), MAX_ACTIVE_VALIDATORS})
        /\ \A i \in DOMAIN seated :
              /\ seated[i] \in eligible
              /\ \A o \in eligible \ {seated[j] : j \in 1..i} : above(seated[i], o)
        /\ \A listed \in SetToSeqs(members) :
              buildNewValidatorSetMessageForEra(listed) = selected

\* However the addresses of a batch of rewards have changed hands since DataHaven
\* sent it, EigenLayer takes the translated batch: its operators are distinct,
\* ascending and members, nobody else's reward is lost with an unknown address,
\* and the coordinator is allowed to pull exactly what it distributes.
RewardsAreAccepted ==
    /\ allowance = 0
    /\ \A batch \in RewardBatches :
          LET sent  == _sortOperatorRewards(Translate(batch))
              known == {i \in DOMAIN batch : batch[i].operator \in {EthToSolo[o] : o \in members}}
          IN  /\ CoordinatorAccepts(sent)
              /\ Range(sent) = {[operator |-> SoloToEth[batch[i].operator],
                                 amount   |-> batch[i].amount] : i \in known}

=============================================================================
