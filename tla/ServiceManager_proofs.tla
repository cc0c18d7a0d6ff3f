------------------------ MODULE ServiceManager_proofs -----------------------
(***************************************************************************)
(* The address book and the weights of DataHavenServiceManager stay        *)
(* consistent for any number of operators, addresses and strategies.       *)
(***************************************************************************)
EXTENDS ServiceManager, TLAPS

\* The steps that leave operator set and maps alone.
LEMMA BookUntouched ==
    ASSUME AddressesInSync, UNCHANGED <<mappingVars, members>>
    PROVE  AddressesInSync'
  BY DEF AddressesInSync, mappingVars, EthToSolo, SoloToEth

\* registerOperator gives a free address to an operator without one.
LEMMA RegisterKeepsBook ==
    ASSUME AddressesInSync, NEW o \in Operators, NEW a \in Solochain, registerOperator(o, a)
    PROVE  AddressesInSync'
  <1> USE ServiceManagerAssumption DEF AddressesInSync, registerOperator, EthToSolo, SoloToEth, Zero
  <1>1. o # Zero /\ a # Zero
    OBVIOUS
  <1>2. EthToSolo' \in [Operators -> Solochain \cup {Zero}]
    OBVIOUS
  <1>3. SoloToEth' \in [Solochain \cup {Zero} -> Operators \cup {Zero}]
    OBVIOUS
  <1>4. \A p \in Operators, b \in Solochain : (EthToSolo[p] = b <=> SoloToEth[b] = p)'
    BY <1>1
  <1>5. SoloToEth'[Zero] = Zero
    BY <1>1
  <1>6. members' = {p \in Operators : EthToSolo'[p] # Zero}
    BY <1>1
  <1> QED
    BY <1>2, <1>3, <1>4, <1>5, <1>6

\* deregisterOperator frees the address of a member.
LEMMA DeregisterKeepsBook ==
    ASSUME AddressesInSync, NEW o \in Operators, deregisterOperator(o)
    PROVE  AddressesInSync'
  <1> USE ServiceManagerAssumption
      DEF AddressesInSync, deregisterOperator, EthToSolo, SoloToEth, Zero
  <1>1. o # Zero /\ EthToSolo[o] \in Solochain
    OBVIOUS
  <1>2. EthToSolo' \in [Operators -> Solochain \cup {Zero}]
    OBVIOUS
  <1>3. SoloToEth' \in [Solochain \cup {Zero} -> Operators \cup {Zero}]
    OBVIOUS
  <1>4. \A p \in Operators, b \in Solochain : (EthToSolo[p] = b <=> SoloToEth[b] = p)'
    BY <1>1
  <1>5. SoloToEth'[Zero] = Zero
    OBVIOUS
  <1>6. members' = {p \in Operators : EthToSolo'[p] # Zero}
    OBVIOUS
  <1> QED
    BY <1>2, <1>3, <1>4, <1>5, <1>6

\* updateSolochainAddressForValidator moves a member to a free address and frees
\* the old one, which is not address(0) because a member has an address.
LEMMA UpdateKeepsBook ==
    ASSUME AddressesInSync, NEW o \in Operators, NEW a \in Solochain,
           updateSolochainAddressForValidator(o, a)
    PROVE  AddressesInSync'
  <1> USE ServiceManagerAssumption
      DEF AddressesInSync, updateSolochainAddressForValidator, EthToSolo, SoloToEth, Zero
  <1>1. o # Zero /\ a # Zero /\ EthToSolo[o] \in Solochain /\ EthToSolo[o] # a
    OBVIOUS
  <1>2. EthToSolo' \in [Operators -> Solochain \cup {Zero}]
    OBVIOUS
  <1>3. SoloToEth' \in [Solochain \cup {Zero} -> Operators \cup {Zero}]
    OBVIOUS
  <1>4. \A p \in Operators, b \in Solochain : (EthToSolo[p] = b <=> SoloToEth[b] = p)'
    BY <1>1
  <1>5. SoloToEth'[Zero] = Zero
    BY <1>1
  <1>6. members' = {p \in Operators : EthToSolo'[p] # Zero}
    BY <1>1
  <1> QED
    BY <1>2, <1>3, <1>4, <1>5, <1>6

\* Operator set and maps of the service manager agree, whatever the numbers of
\* operators and addresses: AddressesInSync is inductive as it stands.
THEOREM AddressesStayInSync == Spec => []AddressesInSync
  <1>1. Init => AddressesInSync
    BY ServiceManagerAssumption DEF Init, AddressesInSync, EthToSolo, SoloToEth, Zero
  <1>2. AddressesInSync /\ [Next]_vars => AddressesInSync'
    <2> SUFFICES ASSUME AddressesInSync, [Next]_vars
                 PROVE  AddressesInSync'
      OBVIOUS
    <2>1. ASSUME NEW o \in Operators,
                 addValidatorToAllowlist(o) \/ removeValidatorFromAllowlist(o)
          PROVE  AddressesInSync'
      BY <2>1, BookUntouched DEF addValidatorToAllowlist, removeValidatorFromAllowlist
    <2>2. ASSUME NEW o \in Operators, deregisterOperator(o)
          PROVE  AddressesInSync'
      BY <2>2, DeregisterKeepsBook
    <2>3. ASSUME NEW o \in Operators, NEW a \in Solochain,
                 registerOperator(o, a) \/ updateSolochainAddressForValidator(o, a)
          PROVE  AddressesInSync'
      BY <2>3, RegisterKeepsBook, UpdateKeepsBook
    <2>4. ASSUME NEW o \in Operators, NEW s \in Strategies, NEW stake \in Allocations[s],
                 modifyAllocations(o, s, stake)
          PROVE  AddressesInSync'
      BY <2>4, BookUntouched DEF modifyAllocations
    <2>5. ASSUME NEW removed \in SUBSET Strategies \ {{}},
                 removeStrategiesFromValidatorsSupportedStrategies(removed)
          PROVE  AddressesInSync'
      BY <2>5, BookUntouched DEF removeStrategiesFromValidatorsSupportedStrategies
    <2>6. ASSUME NEW weights \in WeightTables,
                 \/ addStrategiesToValidatorsSupportedStrategies(weights)
                 \/ setStrategiesAndMultipliers(weights)
          PROVE  AddressesInSync'
      BY <2>6, BookUntouched
         DEF addStrategiesToValidatorsSupportedStrategies, setStrategiesAndMultipliers
    <2>7. ASSUME NEW batch \in RewardBatches, submitRewards(batch)
          PROVE  AddressesInSync'
      <3>1. UNCHANGED <<mappingVars, members>>
        BY <2>7 DEF submitRewards
      <3> QED
        BY <3>1, BookUntouched
    <2>8. ASSUME NEW batch \in SUBSET Solochain \ {{}}, NEW slashed \in SUBSET Strategies \ {{}},
                 slashValidatorsOperator(batch, slashed)
          PROVE  AddressesInSync'
      BY <2>8, BookUntouched DEF slashValidatorsOperator
    <2>9. CASE UNCHANGED vars
      BY <2>9, BookUntouched DEF vars
    <2> QED
      BY <2>1, <2>2, <2>3, <2>4, <2>5, <2>6, <2>7, <2>8, <2>9 DEF Next
  <1> QED
    BY <1>1, <1>2, PTL DEF Spec

\* The weights with the types of the two variables they are kept in.
WeightInv ==
    /\ strategies \subseteq Strategies
    /\ strategiesAndMultipliers \in [Strategies -> Nat]
    /\ MultipliersInSync

\* No sequence of additions, removals and changes of strategies leaves a weight
\* behind: the owner can add a strategy again without reviving an old weight.
THEOREM MultipliersStayInSync == Spec => []MultipliersInSync
  <1>1. Init => WeightInv
    <2> SUFFICES ASSUME Init
                 PROVE  WeightInv
      OBVIOUS
    <2>1. PICK initial \in SUBSET Strategies : \E weights \in [initial -> Multipliers] :
              /\ strategies = initial
              /\ strategiesAndMultipliers =
                     [s \in Strategies |-> IF s \in initial THEN weights[s] ELSE 0]
      BY DEF Init
    <2>2. PICK weights \in [initial -> Multipliers] :
              strategiesAndMultipliers =
                  [s \in Strategies |-> IF s \in initial THEN weights[s] ELSE 0]
      BY <2>1
    <2>3. \A s \in initial : weights[s] \in Nat
      BY <2>2, ServiceManagerAssumption
    <2> QED
      BY <2>1, <2>2, <2>3 DEF WeightInv, MultipliersInSync
  <1>2. WeightInv /\ [Next]_vars => WeightInv'
    <2> SUFFICES ASSUME WeightInv, [Next]_vars
                 PROVE  WeightInv'
      OBVIOUS
    <2>0. ASSUME UNCHANGED strategyVars
          PROVE  WeightInv'
      BY <2>0 DEF WeightInv, MultipliersInSync, strategyVars
    <2>1. ASSUME NEW removed \in SUBSET Strategies \ {{}},
                 removeStrategiesFromValidatorsSupportedStrategies(removed)
          PROVE  WeightInv'
      BY <2>1 DEF removeStrategiesFromValidatorsSupportedStrategies, SetMultipliers,
                  WeightInv, MultipliersInSync
    <2>2. ASSUME NEW weights \in WeightTables,
                 \/ addStrategiesToValidatorsSupportedStrategies(weights)
                 \/ setStrategiesAndMultipliers(weights)
          PROVE  WeightInv'
      <3>1. PICK named \in SUBSET Strategies : weights \in [named -> Multipliers]
        BY DEF WeightTables
      <3>2. strategiesAndMultipliers' = SetMultipliers(weights)
        BY <2>2 DEF addStrategiesToValidatorsSupportedStrategies, setStrategiesAndMultipliers
      <3>3. strategies' = strategies \cup named
        BY <2>2, <3>1 DEF addStrategiesToValidatorsSupportedStrategies, setStrategiesAndMultipliers
      <3> QED
        BY <3>1, <3>2, <3>3, ServiceManagerAssumption
           DEF SetMultipliers, WeightInv, MultipliersInSync
    <2>3. ASSUME NEW batch \in RewardBatches, submitRewards(batch)
          PROVE  UNCHANGED strategyVars
      BY <2>3 DEF submitRewards
    <2>4. ASSUME NEW o \in Operators,
                 \/ addValidatorToAllowlist(o)
                 \/ removeValidatorFromAllowlist(o)
                 \/ deregisterOperator(o)
                 \/ \E a \in Solochain :
                       registerOperator(o, a) \/ updateSolochainAddressForValidator(o, a)
                 \/ \E s \in Strategies : \E stake \in Allocations[s] :
                       modifyAllocations(o, s, stake)
          PROVE  UNCHANGED strategyVars
      BY <2>4 DEF addValidatorToAllowlist, removeValidatorFromAllowlist, deregisterOperator,
                  registerOperator, updateSolochainAddressForValidator, modifyAllocations
    <2>5. ASSUME NEW batch \in SUBSET Solochain \ {{}}, NEW slashed \in SUBSET Strategies \ {{}},
                 slashValidatorsOperator(batch, slashed)
          PROVE  UNCHANGED strategyVars
      BY <2>5 DEF slashValidatorsOperator
    <2>6. CASE UNCHANGED vars
      BY <2>0, <2>6 DEF vars
    <2> QED
      BY <2>0, <2>1, <2>2, <2>3, <2>4, <2>5, <2>6 DEF Next
  <1>3. WeightInv => MultipliersInSync
    BY DEF WeightInv
  <1> QED
    BY <1>1, <1>2, <1>3, PTL DEF Spec

=============================================================================
