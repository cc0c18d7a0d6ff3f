-------------------- MODULE ValidatorSetSubmission_proofs -------------------
(***************************************************************************)
(* The hand-over of validator sets, end to end, for any number of          *)
(* transactions, restarts, reorganisations, relayers and sessions: the     *)
(* pipeline implements ValidatorSetHandover, and the daemon never asks for *)
(* an era beyond the next one.                                             *)
(***************************************************************************)
EXTENDS ValidatorSetSubmission, TLAPS

Transaction == [era : Int, status : {"pending", "success", "reverted"}]
Event       == [era : Int, list : ValidatorLists \ {<<>>}]

\* What the steps of the pipeline pass on to each other.
HandoverTypes ==
    /\ ActiveEra \in Nat
    /\ ExternalIndex \in Nat
    /\ finalized.ActiveEra \in Nat
    /\ target \in Int
    /\ submittedEra \in Int
    /\ txs \in Seq(Transaction)
    /\ gateway \in Seq(Event)
    /\ ethFinalized \in Nat

\* The daemon reads finalized state, which is behind the chain.
TargetsBehind ==
    /\ finalized.ActiveEra <= ActiveEra
    /\ target <= ActiveEra + 1

(***************************************************************************)
(* The inductive invariant.  NeverAhead needs TargetsBehind: the era of a  *)
(* transaction is a target computed earlier.  The refinement needs that    *)
(* ExternalIndex remembers the last era a set was accepted for.            *)
(***************************************************************************)
HandoverInv ==
    /\ HandoverTypes
    /\ TargetsBehind
    /\ NeverAhead
    /\ DOMAIN applied \subseteq 0..ExternalIndex

-----------------------------------------------------------------------------
\* Nothing is under way at genesis.
LEMMA InitHandoverInv == SystemInit => HandoverInv
  <1> SUFFICES ASSUME SystemInit PROVE HandoverInv
    OBVIOUS
  <1>1. HandoverTypes /\ TargetsBehind
    BY DEF SystemInit, Init, Storage, HandoverTypes, TargetsBehind, None
  <1>2. NeverAhead
    BY DEF SystemInit, Init, NeverAhead, None
  <1>3. DOMAIN applied = {}
    BY DEF SystemInit
  <1> QED
    BY <1>1, <1>2, <1>3 DEF HandoverInv

\* The chain's own steps keep the era or move to the next one, and touch
\* neither the external index nor the sets accepted so far.
LEMMA ChainStep ==
    ASSUME HandoverInv, Chain, UNCHANGED applied
    PROVE  /\ ActiveEra' \in {ActiveEra, ActiveEra + 1}
           /\ ExternalIndex' = ExternalIndex
  <1>1. CASE on_finalize
    BY <1>1 DEF on_finalize, inputVars
  <1>2. CASE rotate_session
    BY <1>2 DEF rotate_session, start_session, start_era, inputVars
  <1>3. ASSUME NEW mode \in ForceModes, force_era(mode)
        PROVE  ActiveEra' = ActiveEra /\ ExternalIndex' = ExternalIndex
    BY <1>3 DEF force_era, eraVars, inputVars
  <1> QED
    BY <1>1, <1>2, <1>3 DEF Chain

\* A relayed message that the pallet accepts is for the next era, for which no
\* set was accepted before.
LEMMA RelayStep ==
    ASSUME HandoverInv, NEW relayer \in Relayers, NEW i \in DOMAIN gateway, relay(relayer, i)
    PROVE  /\ gateway[i].era = ActiveEra + 1
           /\ ActiveEra + 1 \notin DOMAIN applied
           /\ ActiveEra' = ActiveEra
           /\ ExternalIndex' = ActiveEra + 1
           /\ ExternalIndex < ActiveEra + 1
           /\ ExternalValidators' = Truncate(gateway[i].list, MaxExternalValidators)
           /\ gateway[i].list \in ValidatorLists \ {<<>>}
           /\ applied' = [e \in DOMAIN applied \cup {ActiveEra + 1} |->
                             IF e = ActiveEra + 1 THEN ExternalValidators' ELSE applied[e]]
  <1>1. set_external_validators(gateway[i].list, gateway[i].era)
    BY DEF relay, submit, process_message, ReceiveValidators
  <1>2. /\ gateway[i].era \in Int /\ gateway[i].list \in ValidatorLists \ {<<>>}
        /\ ActiveEra \in Nat /\ ExternalIndex \in Nat
    <2>1. gateway[i] \in Event
      BY DEF HandoverInv, HandoverTypes
    <2> QED
      BY <2>1 DEF Event, HandoverInv, HandoverTypes
  <1>3. gateway[i].era = ActiveEra + 1 /\ ExternalIndex < ActiveEra + 1
    BY <1>1, <1>2 DEF set_external_validators, validate_target_era
  <1>4. ActiveEra + 1 \notin DOMAIN applied
    BY <1>2, <1>3 DEF HandoverInv
  <1>5. /\ ActiveEra' = ActiveEra
        /\ ExternalIndex' = ActiveEra + 1
        /\ ExternalValidators' = Truncate(gateway[i].list, MaxExternalValidators)
    BY <1>1, <1>3 DEF set_external_validators, eraVars
  <1>6. applied' = [e \in DOMAIN applied \cup {ActiveEra + 1} |->
                       IF e = ActiveEra + 1 THEN ExternalValidators' ELSE applied[e]]
    BY <1>3 DEF relay
  <1> QED
    BY <1>2, <1>3, <1>4, <1>5, <1>6

\* What the daemon does between sending and the next tick concerns its own
\* variables; a new target, and an era it remembers, is at most the next era.
LEMMA DaemonStep ==
    ASSUME HandoverInv, Daemon \/ restart,
           UNCHANGED <<chainVars, inboundVars, finalized, ethereumVars>>
    PROVE  HandoverInv'
  <1>1. /\ ActiveEra' = ActiveEra /\ ExternalIndex' = ExternalIndex /\ applied' = applied
        /\ finalized' = finalized /\ txs' = txs /\ gateway' = gateway
        /\ ethFinalized' = ethFinalized
    BY DEF chainVars, vars, inputVars, eraVars, ethereumVars
  <1>2. /\ ActiveEra \in Nat /\ finalized.ActiveEra \in Nat
        /\ target \in Int /\ submittedEra \in Int
        /\ finalized.ActiveEra <= ActiveEra
        /\ target <= ActiveEra + 1 /\ submittedEra <= ActiveEra + 1
    BY DEF HandoverInv, HandoverTypes, TargetsBehind, NeverAhead
  <1>3. /\ target' \in {target, None, finalized.ActiveEra + 1}
        /\ submittedEra' \in {submittedEra, target, None}
    BY DEF Daemon, watchValue, getActiveEra, getExternalIndex, isLastSessionOfEra_Era,
           isLastSessionOfEra_Start, isLastSessionOfEra_Session, waitForReceipt, tickError,
           restart, EndTick, computeTargetEra
  <1>4. /\ target' \in Int /\ target' <= ActiveEra + 1
        /\ submittedEra' \in Int /\ submittedEra' <= ActiveEra + 1
    BY <1>2, <1>3 DEF None
  <1> QED
    BY <1>1, <1>4 DEF HandoverInv, HandoverTypes, TargetsBehind, NeverAhead

\* A transaction asks for the daemon's target.
LEMMA SendStep ==
    ASSUME HandoverInv, writeContract, UNCHANGED <<chainVars, inboundVars, finalized>>
    PROVE  HandoverInv'
  <1>1. /\ ActiveEra' = ActiveEra /\ ExternalIndex' = ExternalIndex /\ applied' = applied
        /\ finalized' = finalized /\ gateway' = gateway /\ submittedEra' = submittedEra
        /\ ethFinalized' = ethFinalized
    BY DEF chainVars, vars, inputVars, eraVars, writeContract
  <1>2. target' \in {target, None}
    BY DEF writeContract, EndTick
  <1>3. target' \in Int /\ target' <= ActiveEra + 1
    BY <1>2 DEF HandoverInv, HandoverTypes, TargetsBehind, None
  <1>4. /\ txs' \in Seq(Transaction)
        /\ \A i \in DOMAIN txs' : txs'[i].era <= ActiveEra + 1
    <2>1. CASE txs' = txs
      BY <2>1 DEF HandoverInv, HandoverTypes, NeverAhead
    <2>2. CASE txs' = Append(txs, [era |-> target, status |-> "pending"])
      <3>1. [era |-> target, status |-> "pending"] \in Transaction
        BY DEF HandoverInv, HandoverTypes, Transaction
      <3>2. txs' \in Seq(Transaction)
        BY <2>2, <3>1 DEF HandoverInv, HandoverTypes
      <3>3. ASSUME NEW i \in DOMAIN txs' PROVE txs'[i].era <= ActiveEra + 1
        <4>1. CASE i \in DOMAIN txs
          BY <2>2, <4>1 DEF HandoverInv, HandoverTypes, NeverAhead
        <4>2. CASE i = Len(txs) + 1
          BY <2>2, <4>2 DEF HandoverInv, HandoverTypes, TargetsBehind
        <4> QED
          BY <2>2, <3>3, <4>1, <4>2 DEF HandoverInv, HandoverTypes
      <3> QED
        BY <3>2, <3>3
    <2> QED
      BY <2>1, <2>2 DEF writeContract
  <1> QED
    BY <1>1, <1>3, <1>4 DEF HandoverInv, HandoverTypes, TargetsBehind, NeverAhead

\* What happens on Ethereum: a message carries the era of its transaction, and
\* finality and reorganisations only shorten what is there.
LEMMA EthereumStep ==
    ASSUME HandoverInv,
           \/ \E i \in DOMAIN txs, list \in ValidatorLists : sendNewValidatorSetForEra(i, list)
           \/ ethereumFinalizes
           \/ ethereumReorg,
           UNCHANGED <<chainVars, inboundVars, finalized, daemonVars>>
    PROVE  HandoverInv'
  <1>1. /\ ActiveEra' = ActiveEra /\ ExternalIndex' = ExternalIndex /\ applied' = applied
        /\ finalized' = finalized /\ target' = target /\ submittedEra' = submittedEra
    BY DEF chainVars, vars, inputVars, eraVars, daemonVars
  <1> DEFINE Fine == /\ txs' \in Seq(Transaction)
                     /\ \A i \in DOMAIN txs' : txs'[i].era <= ActiveEra + 1
                     /\ ethFinalized' \in Nat
                     /\ gateway' \in Seq(Event)
                     /\ \A i \in DOMAIN gateway' : gateway'[i].era <= ActiveEra + 1
  <1>2. ASSUME NEW i \in DOMAIN txs, NEW list \in ValidatorLists, sendNewValidatorSetForEra(i, list)
        PROVE  Fine
    <2>1. /\ txs \in Seq(Transaction) /\ txs[i] \in Transaction /\ gateway \in Seq(Event)
          /\ ethFinalized \in Nat /\ ethFinalized' = ethFinalized
          /\ \A k \in DOMAIN txs : txs[k].era <= ActiveEra + 1
          /\ \A k \in DOMAIN gateway : gateway[k].era <= ActiveEra + 1
      BY <1>2 DEF HandoverInv, HandoverTypes, NeverAhead, sendNewValidatorSetForEra
    <2>2. ASSUME NEW status \in {"success", "reverted"}, txs' = SetStatus(i, status)
          PROVE  txs' \in Seq(Transaction) /\ \A k \in DOMAIN txs' : txs'[k].era <= ActiveEra + 1
      <3>1. [txs[i] EXCEPT !.status = status] \in Transaction
        BY <2>1 DEF Transaction
      <3>2. [txs[i] EXCEPT !.status = status].era = txs[i].era
        BY <2>1 DEF Transaction
      <3>3. txs' = [txs EXCEPT ![i] = [txs[i] EXCEPT !.status = status]]
        BY <2>1, <2>2 DEF SetStatus
      <3> QED
        BY <2>1, <3>1, <3>2, <3>3
    <2>3. CASE /\ list # <<>>
               /\ gateway' = Append(gateway, [era |-> txs[i].era, list |-> list])
               /\ txs' = SetStatus(i, "success")
      <3> DEFINE ev == [era |-> txs[i].era, list |-> list]
      <3>1. ev \in Event /\ ev.era <= ActiveEra + 1
        BY <2>1, <2>3 DEF Event, Transaction
      <3> HIDE DEF ev
      <3>2. gateway' = Append(gateway, ev)
        BY <2>3 DEF ev
      <3>3. gateway' \in Seq(Event)
        BY <2>1, <3>1, <3>2
      <3>4. \A k \in DOMAIN gateway' : gateway'[k].era <= ActiveEra + 1
        BY <2>1, <3>1, <3>2
      <3> QED
        BY <2>1, <2>2, <2>3, <3>3, <3>4
    <2>4. CASE txs' = SetStatus(i, "reverted") /\ UNCHANGED gateway
      BY <2>1, <2>2, <2>4
    <2> QED
      BY <1>2, <2>3, <2>4 DEF sendNewValidatorSetForEra
  <1>3. ASSUME ethereumFinalizes PROVE Fine
    BY <1>3 DEF ethereumFinalizes, HandoverInv, HandoverTypes, NeverAhead
  <1>4. ASSUME ethereumReorg PROVE Fine
    <2>1. /\ txs' = txs /\ ethFinalized' = ethFinalized
          /\ gateway' = SubSeq(gateway, 1, Len(gateway) - 1)
          /\ ethFinalized < Len(gateway)
      BY <1>4 DEF ethereumReorg, Front
    <2>2. /\ txs \in Seq(Transaction) /\ gateway \in Seq(Event) /\ ethFinalized \in Nat
          /\ \A k \in DOMAIN txs : txs[k].era <= ActiveEra + 1
          /\ \A k \in DOMAIN gateway : gateway[k].era <= ActiveEra + 1
      BY DEF HandoverInv, HandoverTypes, NeverAhead
    <2>3. Len(gateway) \in Nat \ {0}
      BY <2>1, <2>2
    <2>4. gateway' \in Seq(Event)
      BY <2>1, <2>2, <2>3
    <2>5. \A k \in DOMAIN gateway' : k \in DOMAIN gateway /\ gateway'[k] = gateway[k]
      BY <2>1, <2>2, <2>3
    <2> QED
      BY <2>1, <2>2, <2>4, <2>5
  <1>5. Fine
    BY <1>2, <1>3, <1>4
  <1> QED
    BY <1>1, <1>5 DEF HandoverInv, HandoverTypes, TargetsBehind, NeverAhead

\* Every step of the system keeps the invariant.
LEMMA NextHandoverInv == HandoverInv /\ [SystemNext]_systemVars => HandoverInv'
  <1> SUFFICES ASSUME HandoverInv, [SystemNext]_systemVars PROVE HandoverInv'
    OBVIOUS
  <1>1. ASSUME Daemon \/ restart, UNCHANGED <<chainVars, inboundVars, finalized, ethereumVars>>
        PROVE  HandoverInv'
    BY <1>1, DaemonStep
  <1>2. ASSUME writeContract, UNCHANGED <<chainVars, inboundVars, finalized>>
        PROVE  HandoverInv'
    BY <1>2, SendStep
  <1>3. ASSUME \/ \E i \in DOMAIN txs, list \in ValidatorLists : sendNewValidatorSetForEra(i, list)
               \/ ethereumFinalizes
               \/ ethereumReorg,
               UNCHANGED <<chainVars, inboundVars, finalized, daemonVars>>
        PROVE  HandoverInv'
    BY <1>3, EthereumStep
  <1>4. ASSUME NEW relayer \in Relayers, NEW i \in DOMAIN gateway, relay(relayer, i),
               UNCHANGED <<finalized, daemonVars, ethereumVars>>
        PROVE  HandoverInv'
    <2>1. /\ ActiveEra' = ActiveEra /\ ExternalIndex' = ActiveEra + 1
          /\ ExternalIndex < ActiveEra + 1
          /\ DOMAIN applied' = DOMAIN applied \cup {ActiveEra + 1}
      BY <1>4, RelayStep
    <2>2. DOMAIN applied' \subseteq 0..ExternalIndex'
      BY <2>1 DEF HandoverInv, HandoverTypes
    <2> QED
      BY <1>4, <2>1, <2>2
         DEF HandoverInv, HandoverTypes, TargetsBehind, NeverAhead, daemonVars, ethereumVars
  <1>5. ASSUME NEW mode \in {"Normal", "Halted"}, set_operating_mode(mode),
               UNCHANGED <<chainVars, finalized, daemonVars, ethereumVars>>
        PROVE  HandoverInv'
    BY <1>5 DEF HandoverInv, HandoverTypes, TargetsBehind, NeverAhead, chainVars, vars,
                inputVars, eraVars, daemonVars, ethereumVars
  <1>6. ASSUME Chain, UNCHANGED <<applied, inboundVars, finalized, daemonVars, ethereumVars>>
        PROVE  HandoverInv'
    <2>1. ActiveEra' \in {ActiveEra, ActiveEra + 1} /\ ExternalIndex' = ExternalIndex
      BY <1>6, ChainStep
    <2>2. ActiveEra \in Nat /\ ActiveEra' \in Nat /\ ActiveEra <= ActiveEra'
      BY <2>1 DEF HandoverInv, HandoverTypes
    <2>3. /\ finalized' = finalized /\ target' = target /\ submittedEra' = submittedEra
          /\ txs' = txs /\ gateway' = gateway /\ ethFinalized' = ethFinalized
          /\ applied' = applied
      BY <1>6 DEF daemonVars, ethereumVars
    <2>4. HandoverTypes'
      BY <2>1, <2>2, <2>3 DEF HandoverInv, HandoverTypes
    <2>5. \A e \in Int : /\ e <= ActiveEra => e <= ActiveEra'
                         /\ e <= ActiveEra + 1 => e <= ActiveEra' + 1
      <3> SUFFICES ASSUME NEW n \in Nat, NEW m \in Nat, n <= m, NEW e \in Int
                   PROVE  (e <= n => e <= m) /\ (e <= n + 1 => e <= m + 1)
        BY <2>2
      <3> QED
        OBVIOUS
    <2>6. TargetsBehind'
      <3>1. /\ finalized.ActiveEra \in Int /\ finalized.ActiveEra <= ActiveEra
            /\ target \in Int /\ target <= ActiveEra + 1
        BY DEF HandoverInv, HandoverTypes, TargetsBehind
      <3>2. finalized.ActiveEra <= ActiveEra' /\ target <= ActiveEra' + 1
        BY <2>5, <3>1
      <3> QED
        BY <2>3, <3>2 DEF TargetsBehind
    <2>7. /\ \A i \in DOMAIN txs : txs[i].era \in Int
          /\ \A i \in DOMAIN gateway : gateway[i].era \in Int
      <3>1. \A i \in DOMAIN txs : txs[i] \in Transaction
        BY DEF HandoverInv, HandoverTypes
      <3>2. \A i \in DOMAIN gateway : gateway[i] \in Event
        BY DEF HandoverInv, HandoverTypes
      <3> QED
        BY <3>1, <3>2 DEF Transaction, Event
    <2>8. NeverAhead'
      <3>1. /\ \A i \in DOMAIN txs : txs[i].era <= ActiveEra + 1
            /\ \A i \in DOMAIN gateway : gateway[i].era <= ActiveEra + 1
            /\ submittedEra \in Int /\ submittedEra <= ActiveEra + 1
        BY DEF HandoverInv, HandoverTypes, NeverAhead
      <3>2. /\ \A i \in DOMAIN txs : txs[i].era <= ActiveEra' + 1
            /\ \A i \in DOMAIN gateway : gateway[i].era <= ActiveEra' + 1
            /\ submittedEra <= ActiveEra' + 1
        BY <2>5, <2>7, <3>1
      <3> QED
        BY <2>3, <3>2 DEF NeverAhead
    <2> QED
      BY <2>1, <2>3, <2>4, <2>6, <2>8 DEF HandoverInv
  <1>7. ASSUME dataHavenFinalizes, UNCHANGED <<chainVars, inboundVars, daemonVars, ethereumVars>>
        PROVE  HandoverInv'
    <2>1. finalized'.ActiveEra = ActiveEra
      BY <1>7 DEF dataHavenFinalizes, Storage
    <2> QED
      BY <1>7, <2>1 DEF HandoverInv, HandoverTypes, TargetsBehind, NeverAhead, chainVars, vars,
                        inputVars, eraVars, daemonVars, ethereumVars
  <1>8. CASE UNCHANGED systemVars
    BY <1>8 DEF HandoverInv, HandoverTypes, TargetsBehind, NeverAhead, systemVars, chainVars,
                vars, inputVars, eraVars, daemonVars, ethereumVars
  <1> QED
    BY <1>1, <1>2, <1>3, <1>4, <1>5, <1>6, <1>7, <1>8 DEF SystemNext

\* The invariant holds in every reachable state.
THEOREM HandoverInvariance == SystemSpec => []HandoverInv
  BY InitHandoverInv, NextHandoverInv, PTL DEF SystemSpec

\* However stale the reads of the daemon and however late its transactions are
\* mined, no message asks for an era beyond the next one.
THEOREM DaemonNeverAhead == SystemSpec => []NeverAhead
  <1>1. HandoverInv => NeverAhead
    BY DEF HandoverInv
  <1> QED
    BY <1>1, HandoverInvariance, PTL

-----------------------------------------------------------------------------
\* Every step of the system is a step of the abstract hand-over, or changes
\* neither the era nor the sets accepted.
LEMMA StepImplementsHandover ==
    ASSUME HandoverInv, [SystemNext]_systemVars
    PROVE  [H!Next]_<<ActiveEra, applied>>
  <1> DEFINE Idle == UNCHANGED <<ActiveEra, applied>>
  <1>1. ASSUME UNCHANGED chainVars PROVE Idle
    BY <1>1 DEF chainVars, vars, eraVars
  <1>2. ASSUME NEW relayer \in Relayers, NEW i \in DOMAIN gateway, relay(relayer, i)
        PROVE  H!Accept
    <2> DEFINE set == Truncate(gateway[i].list, MaxExternalValidators)
    <2>1. set \in {Truncate(list, MaxExternalValidators) : list \in ValidatorLists \ {<<>>}}
      BY <1>2, RelayStep
    <2>2. applied' = [e \in DOMAIN applied \cup {ActiveEra + 1} |->
                         IF e = ActiveEra + 1 THEN set ELSE applied[e]]
      BY <1>2, RelayStep
    <2>3. ActiveEra + 1 \notin DOMAIN applied /\ ActiveEra' = ActiveEra
      BY <1>2, RelayStep
    <2> HIDE DEF set
    <2> QED
      BY <2>1, <2>2, <2>3 DEF H!Accept
  <1>3. ASSUME Chain, UNCHANGED applied PROVE H!Advance \/ Idle
    BY <1>3, ChainStep DEF H!Advance
  <1>4. CASE UNCHANGED systemVars
    BY <1>1, <1>4 DEF systemVars
  <1> QED
    BY <1>1, <1>2, <1>3, <1>4 DEF SystemNext, H!Next

\* "At most one canonical validator-set apply per target era", always in the era
\* just before it: the pipeline of daemon, Ethereum, relayers, inbound queue and
\* era machine implements the abstract hand-over.
THEOREM PipelineImplementsHandover == SystemSpec => ImplementsHandover
  <1>1. SystemInit => H!Init
    BY DEF SystemInit, Init, H!Init
  <1>2. HandoverInv /\ [SystemNext]_systemVars => [H!Next]_<<ActiveEra, applied>>
    BY StepImplementsHandover
  <1> QED
    BY <1>1, <1>2, HandoverInvariance, PTL DEF SystemSpec, ImplementsHandover, H!Spec

=============================================================================
