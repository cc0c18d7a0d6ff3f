----------------------- MODULE ValidatorSetSubmission -----------------------
(***************************************************************************)
(* The validator-set hand-over from Ethereum, end to end:                  *)
(*                                                                         *)
(*   submitter daemon   test/tools/validator-set-submitter                 *)
(*     -> Ethereum      sendNewValidatorSetForEra, the gateway's event log *)
(*     -> relayers      pallet inbound-queue-v2 (module InboundQueue)      *)
(*     -> processor     primitives/bridge EigenLayerMessageProcessor       *)
(*     -> era machine   pallet external-validators                         *)
(*                                                                         *)
(* Every await of the daemon is a step of its own, and reads the finalized *)
(* state of DataHaven at that moment.  A transaction may be mined long     *)
(* after the daemon gave up on it, a mined one may be reorganised away,    *)
(* the daemon may be restarted at any point, and messages are relayed late,*)
(* out of order, repeatedly or never.                                      *)
(***************************************************************************)
EXTENDS ExternalValidatorsPallet, InboundQueue

CONSTANTS
    FirstNonce,         \* the gateway's next nonce when the model starts
    MaxTxs,             \* bound on submitted transactions
    MaxRestarts,        \* bound on restarts of the daemon
    MaxReorgs           \* bound on Ethereum reorganisations

ASSUME SubmissionAssumption ==
    /\ FirstNonce \in Nat
    /\ MaxTxs \in Nat /\ MaxRestarts \in Nat /\ MaxReorgs \in Nat

VARIABLES
    finalized,          \* DataHaven's finalized storage, as the daemon reads it
    watched,            \* the last session index the subscription emitted
    tick,               \* where the tick handler stands
    target,             \* its targetEraValue
    read,               \* the value its last await returned
    submittedEra,       \* the closure's submittedEra
    txs,                \* the daemon's transactions, in the order they were sent
    runs,               \* history: restarts of the daemon so far
    gateway,            \* Ethereum: OutboundMessageAccepted events, by nonce
    ethFinalized,       \* Ethereum: how many of them are final
    reorgs,             \* history: reorganisations so far
    applied             \* history: target era -> the list accepted for it

chainVars    == <<vars, applied>>
daemonVars   == <<watched, tick, target, read, submittedEra, runs>>
ethereumVars == <<txs, gateway, ethFinalized, reorgs>>

systemVars == <<chainVars, inboundVars, finalized, daemonVars, ethereumVars>>

None == -1

Storage ==
    [ActiveEra |-> ActiveEra, ErasStartSessionIndex |-> ErasStartSessionIndex,
     CurrentIndex |-> CurrentIndex, ExternalIndex |-> ExternalIndex]

SystemInit ==
    /\ Init
    /\ InboundInit
    /\ finalized = Storage
    /\ watched = None
    /\ tick = "idle"
    /\ target = None
    /\ read = None
    /\ submittedEra = None
    /\ txs = <<>>
    /\ runs = 0
    /\ gateway = <<>>
    /\ ethFinalized = 0
    /\ reorgs = 0
    /\ applied = <<>>

-----------------------------------------------------------------------------
(***************************************************************************)
(* The daemon.                                                             *)
(***************************************************************************)
EndTick == tick' = "idle" /\ target' = None /\ read' = None

\* watchValue("finalized") emits a changed session index; exhaustMap drops the
\* emission when the handler is still busy with an earlier one.
watchValue ==
    /\ watched # finalized.CurrentIndex
    /\ watched' = finalized.CurrentIndex
    /\ tick' = IF tick = "idle" THEN "getActiveEra" ELSE tick
    /\ UNCHANGED <<target, read, submittedEra, runs>>

\* Faulty variant: the target is the era after next.
computeTargetEra_Ahead(activeEra) == activeEra + 2

computeTargetEra(activeEra) == activeEra + 1

getActiveEra ==
    /\ tick = "getActiveEra"
    /\ LET targetEraValue == computeTargetEra(finalized.ActiveEra)
       IN  \/ /\ submittedEra = targetEraValue
              /\ EndTick
           \/ /\ submittedEra # targetEraValue
              /\ tick' = "getExternalIndex"
              /\ target' = targetEraValue
              /\ UNCHANGED read
    /\ UNCHANGED <<watched, submittedEra, runs>>

getExternalIndex ==
    /\ tick = "getExternalIndex"
    /\ \/ /\ finalized.ExternalIndex >= target
          /\ submittedEra' = target
          /\ EndTick
       \/ /\ finalized.ExternalIndex < target
          /\ tick' = "lastEra"
          /\ UNCHANGED <<target, read, submittedEra>>
    /\ UNCHANGED <<watched, runs>>

\* isLastSessionOfEra awaits three storage reads.
isLastSessionOfEra_Era ==
    /\ tick = "lastEra"
    /\ tick' = "lastStart"
    /\ read' = finalized.ActiveEra
    /\ UNCHANGED <<watched, target, submittedEra, runs>>

isLastSessionOfEra_Start ==
    /\ tick = "lastStart"
    /\ \/ /\ read \in DOMAIN finalized.ErasStartSessionIndex
          /\ tick' = "lastSession"
          /\ read' = finalized.ErasStartSessionIndex[read]
          /\ UNCHANGED target
       \/ /\ read \notin DOMAIN finalized.ErasStartSessionIndex
          /\ EndTick
    /\ UNCHANGED <<watched, submittedEra, runs>>

IsLast(session, start) == session >= start + SessionsPerEra - 1

isLastSessionOfEra_Session ==
    /\ tick = "lastSession"
    /\ \/ /\ IsLast(finalized.CurrentIndex, read)
          /\ tick' = "send"
          /\ UNCHANGED <<target, read>>
       \/ /\ ~IsLast(finalized.CurrentIndex, read)
          /\ EndTick
    /\ UNCHANGED <<watched, submittedEra, runs>>

\* submitForEra: writeContract either throws or returns a hash to wait for.
writeContract ==
    /\ tick = "send"
    /\ \/ EndTick /\ UNCHANGED txs
       \/ /\ Len(txs) < MaxTxs
          /\ txs' = Append(txs, [era |-> target, status |-> "pending"])
          /\ tick' = "wait"
          /\ UNCHANGED <<target, read>>
    /\ UNCHANGED <<watched, submittedEra, runs, gateway, ethFinalized, reorgs>>

\* Faulty variant: a receipt that never comes is waited for forever.
waitForReceipt_Forever ==
    /\ tick = "wait"
    /\ txs[Len(txs)].status # "pending"
    /\ submittedEra' = IF txs[Len(txs)].status = "success" THEN target ELSE submittedEra
    /\ EndTick
    /\ UNCHANGED <<watched, runs>>

\* The receipt; or the timeout or an error, whether or not the transaction was
\* mined meanwhile.  Only a confirmed submission is remembered.
waitForReceipt ==
    /\ tick = "wait"
    /\ \/ txs[Len(txs)].status = "success" /\ submittedEra' = target
       \/ UNCHANGED submittedEra
    /\ EndTick
    /\ UNCHANGED <<watched, runs>>

\* A storage read throws; the subscription logs the error and goes on.
tickError ==
    /\ tick \notin {"idle", "send", "wait"}
    /\ EndTick
    /\ UNCHANGED <<watched, submittedEra, runs>>

\* The process exits (signal, subscription error, crash) and is started again.
restart ==
    /\ runs < MaxRestarts
    /\ runs' = runs + 1
    /\ watched' = None
    /\ submittedEra' = None
    /\ EndTick

-----------------------------------------------------------------------------
(***************************************************************************)
(* Ethereum.                                                               *)
(***************************************************************************)
SetStatus(i, status) == [txs EXCEPT ![i].status = status]

\* A transaction is mined: the message for the era, with the validators of that
\* moment, enters the gateway's log; or the call reverts.
sendNewValidatorSetForEra(i, list) ==
    /\ txs[i].status = "pending"
    /\ \/ /\ list # <<>>
          /\ gateway' = Append(gateway, [era |-> txs[i].era, list |-> list])
          /\ txs' = SetStatus(i, "success")
       \/ /\ list = <<>>
          /\ txs' = SetStatus(i, "reverted")
          /\ UNCHANGED gateway
    /\ UNCHANGED <<ethFinalized, reorgs>>

ethereumFinalizes ==
    /\ ethFinalized < Len(gateway)
    /\ ethFinalized' = Len(gateway)
    /\ UNCHANGED <<txs, gateway, reorgs>>

\* The block of the last message is replaced; its transaction is not mined again.
ethereumReorg ==
    /\ reorgs < MaxReorgs
    /\ ethFinalized < Len(gateway)
    /\ reorgs' = reorgs + 1
    /\ gateway' = Front(gateway)
    /\ UNCHANGED <<txs, ethFinalized>>

-----------------------------------------------------------------------------
(***************************************************************************)
(* DataHaven.                                                              *)
(***************************************************************************)

\* Faulty variant: the pallet's own entry point, without the era check.
ReceiveValidators_Unchecked(message) ==
    /\ ExternalValidators' = Truncate(message.list, MaxExternalValidators)
    /\ ExternalIndex' = message.era
    /\ UNCHANGED <<WhitelistedValidators, SkipExternalValidators,
                   eraVars, snapshotVars, sessionVars, ForceEra, planned>>

\* Faulty variant: the set must be for the era that is already active.
ReceiveValidators_Current(message) ==
    /\ message.era = ActiveEra
    /\ set_external_validators(message.list, message.era)

\* EigenLayerMessageProcessor::process_message
ReceiveValidators(message) == set_external_validators(message.list, message.era)

\* A relayer proves the i-th event of the gateway to the inbound queue.
relay(relayer, i) ==
    /\ submit(relayer, FirstNonce + i - 1, i <= ethFinalized,
              ReceiveValidators(gateway[i]))
    /\ applied' = [e \in DOMAIN applied \cup {gateway[i].era} |->
                      IF e = gateway[i].era THEN ExternalValidators' ELSE applied[e]]

dataHavenFinalizes ==
    /\ finalized # Storage
    /\ finalized' = Storage

-----------------------------------------------------------------------------
Daemon ==
    \/ watchValue \/ getActiveEra \/ getExternalIndex
    \/ isLastSessionOfEra_Era \/ isLastSessionOfEra_Start \/ isLastSessionOfEra_Session
    \/ waitForReceipt
    \/ tickError

Chain ==
    \/ on_finalize
    \/ rotate_session
    \/ \E mode \in ForceModes : force_era(mode)

SystemNext ==
    \/ Daemon /\ UNCHANGED <<chainVars, inboundVars, finalized, ethereumVars>>
    \/ writeContract /\ UNCHANGED <<chainVars, inboundVars, finalized>>
    \/ restart /\ UNCHANGED <<chainVars, inboundVars, finalized, ethereumVars>>
    \/ /\ \/ \E i \in DOMAIN txs, list \in ValidatorLists : sendNewValidatorSetForEra(i, list)
          \/ ethereumFinalizes
          \/ ethereumReorg
       /\ UNCHANGED <<chainVars, inboundVars, finalized, daemonVars>>
    \/ /\ \E relayer \in Relayers, i \in DOMAIN gateway : relay(relayer, i)
       /\ UNCHANGED <<finalized, daemonVars, ethereumVars>>
    \/ /\ \E mode \in {"Normal", "Halted"} : set_operating_mode(mode)
       /\ UNCHANGED <<chainVars, finalized, daemonVars, ethereumVars>>
    \/ Chain /\ UNCHANGED <<applied, inboundVars, finalized, daemonVars, ethereumVars>>
    \/ dataHavenFinalizes /\ UNCHANGED <<chainVars, inboundVars, daemonVars, ethereumVars>>

SystemSpec == SystemInit /\ [][SystemNext]_systemVars

\* The daemon's process is scheduled, both chains make progress and finalize,
\* pending transactions are mined, and every final message is relayed by
\* someone.  Nothing is assumed of restarts, reorganisations, mode changes and
\* force_era.
FairSystemSpec ==
    /\ SystemSpec
    /\ WF_systemVars((Daemon /\ UNCHANGED <<chainVars, inboundVars, finalized, ethereumVars>>)
                     \/ (writeContract /\ UNCHANGED <<chainVars, inboundVars, finalized>>))
    /\ WF_systemVars((on_finalize \/ rotate_session)
                     /\ UNCHANGED <<applied, inboundVars, finalized, daemonVars, ethereumVars>>)
    /\ WF_systemVars(dataHavenFinalizes
                     /\ UNCHANGED <<chainVars, inboundVars, daemonVars, ethereumVars>>)
    /\ WF_systemVars(ethereumFinalizes
                     /\ UNCHANGED <<chainVars, inboundVars, finalized, daemonVars>>)
    /\ \A i \in 1..MaxTxs :
           WF_systemVars(/\ i \in DOMAIN gateway
                         /\ \E relayer \in Relayers : relay(relayer, i)
                         /\ UNCHANGED <<finalized, daemonVars, ethereumVars>>)

-----------------------------------------------------------------------------
(***************************************************************************)
(* Properties.                                                             *)
(***************************************************************************)

\* However stale the daemon's reads and however late a transaction is mined, no
\* message ever asks for an era beyond the next one: TargetEraTooNew is never
\* the reason for rejecting a message of the daemon.
NeverAhead ==
    /\ \A i \in DOMAIN txs : txs[i].era <= ActiveEra + 1
    /\ \A i \in DOMAIN gateway : gateway[i].era <= ActiveEra + 1
    /\ submittedEra <= ActiveEra + 1

\* What the pallet holds for a target era is what some final Ethereum message
\* for that era carried, and the nonce of that message is spent: neither a
\* reorganisation nor a late duplicate can leave another set in place.  Each
\* accepted set was paid for exactly once, a rejected one never.
AcceptedWasSent ==
    /\ \A e \in DOMAIN applied :
          \E i \in 1..ethFinalized :
              /\ gateway[i].era = e
              /\ applied[e] = Truncate(gateway[i].list, MaxExternalValidators)
              /\ NonceGet(FirstNonce + i - 1)
    /\ MapThenSumSet(LAMBDA r : Rewards[r], Relayers) = RelayerFee * Cardinality(DOMAIN applied)

\* "Delayed messages for past eras are rejected and never applied to later eras",
\* "no late-era spillover": a set takes effect at the start of the era it was sent
\* for, or not at all.  set_external_validators accepts a set for the next era until
\* that era starts, and the daemon sends in the last session before it.
AppliedInTargetEra ==
    [][CurrentExternalIndex' # CurrentExternalIndex =>
           CurrentExternalIndex' = ActiveEra']_systemVars

H == INSTANCE ValidatorSetHandover
     WITH Sets <- {Truncate(list, MaxExternalValidators) : list \in ValidatorLists \ {<<>>}},
          era <- ActiveEra, accepted <- applied

\* "At most one canonical validator-set apply per target era": the whole
\* pipeline implements the abstract hand-over.
ImplementsHandover == H!Spec

\* The handler always comes back to idle, whatever happens to its transaction:
\* the receipt timeout is what keeps exhaustMap from dropping every later session.
TickEnds == (tick # "idle") ~> (tick = "idle")

\* A final message for the next era is accepted, unless the era starts first,
\* another message for it is accepted first, or the queue is halted.
AcceptedInTime ==
    \A e \in 1..MaxSession :
        (e = ActiveEra + 1 /\ \E i \in 1..ethFinalized : gateway[i].era = e)
            ~> (OperatingMode = "Halted" \/ ExternalIndex >= e \/ ActiveEra >= e)

=============================================================================
