----------------------------- MODULE TokenBridge ----------------------------
(***************************************************************************)
(* The native token and its wrapped form on Ethereum: NativeTransfer and   *)
(* SystemV2, which send over the outbound path (OutboundChannel, which     *)
(* OutboundQueue implements), the gateway contract (external), and         *)
(* InboundQueue, which brings the transfers back.                          *)
(***************************************************************************)
EXTENDS NativeTransfer, InboundQueue, FiniteSetsExt

CONSTANTS
    OtherToken,               \* a token that is not the native one
    NoClaimer,
    Amounts, Fees,
    MaxMessages,              \* bound on outbound messages
    MaxBurns,                 \* bound on transfers from Ethereum
    MaxSwitches               \* bound on calls that pause, halt, upgrade or set the gateway's mode

VARIABLES
    tokens,                   \* gateway: token ids registered on Ethereum
    gatewayMode,              \* gateway: "Normal" or "RejectingOutboundMessages"
    wrapped,                  \* gateway: supply of the wrapped native token
    burns,                    \* gateway: transfers to this chain, by nonce
    lost,                     \* history: amounts of the mints that failed on Ethereum
    switches                  \* history: counts against MaxSwitches

gatewayVars == <<tokens, gatewayMode, wrapped, burns, lost>>

vars == <<channelVars, systemVars, transferVars, inboundVars, gatewayVars, switches>>

Init ==
    /\ ChannelInit
    /\ SystemInit
    /\ TransferInit
    /\ InboundInit
    /\ tokens = {}
    /\ gatewayMode = "Normal"
    /\ wrapped = 0
    /\ burns = <<>>
    /\ lost = 0
    /\ switches = 0

-----------------------------------------------------------------------------
(***************************************************************************)
(* The two pallets that send, and the pause.                               *)
(***************************************************************************)
Sent == Len(accepted) + SumFunction([o \in Origins |-> Len(queued[o])])

TransferToEthereum(who, amount, fee) ==
    /\ Sent < MaxMessages
    /\ transfer_to_ethereum(who, amount, fee)
    /\ UNCHANGED <<systemVars, inboundVars, gatewayVars, switches>>

RegisterToken(sender, location) ==
    /\ Sent < MaxMessages
    /\ register_token(sender, location)
    /\ UNCHANGED <<transferVars, inboundVars, gatewayVars, switches>>

Upgrade ==
    /\ Sent < MaxMessages
    /\ switches < MaxSwitches
    /\ switches' = switches + 1
    /\ \E impl_address, impl_code_hash \in 0..1 : upgrade(impl_address, impl_code_hash)
    /\ UNCHANGED <<transferVars, inboundVars, gatewayVars>>

SetGatewayMode(mode) ==
    /\ Sent < MaxMessages
    /\ switches < MaxSwitches
    /\ switches' = switches + 1
    /\ gateway_set_operating_mode(mode)
    /\ UNCHANGED <<transferVars, inboundVars, gatewayVars>>

Pause ==
    /\ switches < MaxSwitches
    /\ switches' = switches + 1
    /\ pause(TRUE)
    /\ UNCHANGED <<channelVars, systemVars, inboundVars, gatewayVars>>

Unpause ==
    /\ Paused
    /\ pause(FALSE)
    /\ UNCHANGED <<channelVars, systemVars, inboundVars, gatewayVars, switches>>

Halt ==
    /\ switches < MaxSwitches
    /\ switches' = switches + 1
    /\ set_operating_mode("Halted")
    /\ UNCHANGED <<channelVars, systemVars, transferVars, gatewayVars>>

Resume ==
    /\ OperatingMode = "Halted"
    /\ set_operating_mode("Normal")
    /\ UNCHANGED <<channelVars, systemVars, transferVars, gatewayVars, switches>>

-----------------------------------------------------------------------------
(***************************************************************************)
(* The outbound path and the gateway.  A command that fails on Ethereum is *)
(* reported as such, and the message counts as dispatched all the same.    *)
(***************************************************************************)
AcceptMessage(origin) ==
    /\ Accept(origin)
    /\ UNCHANGED <<systemVars, transferVars, inboundVars, gatewayVars, switches>>

ExecuteMint(amount) ==
    /\ IF TokenIdOf[Here] \in tokens
       THEN wrapped' = wrapped + amount /\ UNCHANGED lost
       ELSE lost' = lost + amount /\ UNCHANGED wrapped
    /\ UNCHANGED <<tokens, gatewayMode, burns>>

Execute(message) ==
    \/ /\ message.command = "MintForeignToken"
       /\ ExecuteMint(message.arg)
    \/ /\ message.command = "RegisterForeignToken"
       /\ tokens' = tokens \cup {message.arg}
       /\ UNCHANGED <<gatewayMode, wrapped, burns, lost>>
    \/ /\ message.command = "SetOperatingMode"
       /\ gatewayMode' = message.arg
       /\ UNCHANGED <<tokens, wrapped, burns, lost>>
    \/ /\ message.command = "Upgrade"
       /\ UNCHANGED gatewayVars

DispatchMessage(nonce) ==
    /\ Dispatch(nonce)
    /\ Execute(accepted[nonce + 1])
    /\ UNCHANGED <<systemVars, transferVars, inboundVars, switches>>

\* A holder burns wrapped tokens, in one or in two assets or next to another
\* token, and may or may not name who claims the native ones.
AssetLists ==
    {<<[token_id |-> TokenIdOf[Here], value |-> v]>> : v \in Amounts}
    \cup {<<[token_id |-> TokenIdOf[Here], value |-> 1], [token_id |-> t, value |-> 1]>> :
             t \in {TokenIdOf[Here], OtherToken}}

Burnt(assets) ==
    FoldLeft(LAMBDA sum, a : sum + (IF a.token_id = TokenIdOf[Here] THEN a.value ELSE 0), 0, assets)

SendToken(assets, claimer) ==
    /\ gatewayMode = "Normal"
    /\ Len(burns) < MaxBurns
    /\ Burnt(assets) <= wrapped
    /\ wrapped' = wrapped - Burnt(assets)
    /\ burns' = Append(burns, [assets |-> assets, claimer |-> claimer])
    /\ UNCHANGED <<tokens, gatewayMode, lost, channelVars, systemVars, transferVars,
                   inboundVars, switches>>

\* Any relayer submits any event of the gateway, in any order.
Submit(relayer, nonce) ==
    /\ submit(relayer, nonce, nonce \in DOMAIN burns,
              NativeTokenTransfer_process_message(burns[nonce]))
    /\ UNCHANGED <<channelVars, systemVars, gatewayVars, switches>>

Next ==
    \/ \E who \in Users, amount \in Amounts, fee \in Fees : TransferToEthereum(who, amount, fee)
    \/ \E sender \in SenderOrigins, location \in Locations : RegisterToken(sender, location)
    \/ Upgrade
    \/ \E mode \in {"Normal", "RejectingOutboundMessages"} : SetGatewayMode(mode)
    \/ Pause
    \/ Unpause
    \/ Halt
    \/ Resume
    \/ \E origin \in Origins : AcceptMessage(origin)
    \/ \E nonce \in 0..(Len(accepted) - 1) : DispatchMessage(nonce)
    \/ \E assets \in AssetLists, claimer \in Users \cup {NoClaimer} : SendToken(assets, claimer)
    \/ \E relayer \in Relayers, nonce \in DOMAIN burns : Submit(relayer, nonce)

Spec == Init /\ [][Next]_vars

\* MessageQueue serves every queue, relayers bring what they are paid for, and
\* governance leaves neither the inbound queue halted nor the transfers paused.
Fairness ==
    /\ \A origin \in Origins : WF_vars(AcceptMessage(origin))
    /\ \A nonce \in 0..(MaxMessages - 1) :
           WF_vars(nonce < Len(accepted) /\ DispatchMessage(nonce))
    /\ WF_vars(Resume)
    /\ WF_vars(Unpause)
    /\ \A nonce \in 1..MaxBurns :
           WF_vars(nonce \in DOMAIN burns /\ \E relayer \in Relayers : Submit(relayer, nonce))

FairSpec == Spec /\ Fairness

-----------------------------------------------------------------------------
(***************************************************************************)
(* Properties.                                                             *)
(***************************************************************************)
\* The amounts of the mints that are queued or accepted and not dispatched.
MintsOf(s) ==
    FoldLeft(LAMBDA sum, m : sum + (IF m.command = "MintForeignToken" THEN m.arg ELSE 0), 0, s)

PendingMints ==
    SumFunction([o \in Origins |-> MintsOf(queued[o])])
    + SumFunction([n \in DOMAIN accepted |->
                      IF n - 1 \in dispatched THEN 0 ELSE MintsOf(<<accepted[n]>>)])

\* What was burnt and has not come back.
PendingUnlocks ==
    SumFunction([n \in DOMAIN burns |-> IF NonceGet(n) THEN 0 ELSE Burnt(burns[n].assets)])

\* Every token is accounted for.  The sovereign account holds exactly what exists
\* of the token elsewhere: the wrapped supply, the mints and the unlocks under way,
\* and the mints that failed on Ethereum, for which nothing comes back.  Every fee
\* attached to a message was paid to FeeRecipient, no balance goes below zero, and
\* no token appears or disappears on this chain.
FullyBacked ==
    /\ balance \in [Accounts -> Nat]
    /\ balance[EthereumSovereignAccount] = wrapped + PendingMints + PendingUnlocks + lost
    /\ balance[FeeRecipient] =
           FoldLeft(LAMBDA sum, m : sum + m.fee, 0, accepted)
           + SumFunction([o \in Origins |-> FoldLeft(LAMBDA sum, m : sum + m.fee, 0, queued[o])])
    /\ SumFunction(balance) = InitialBalance * Cardinality(Users)

WellFormed(message) ==
    /\ message.claimer \in Users
    /\ \A i \in DOMAIN message.assets : message.assets[i].token_id = TokenIdOf[Here]

\* A transfer from Ethereum that names a claimer and only the native token is paid
\* out in the end: in whatever order relayers submit, before or after transfers that
\* the processor rejects for good, and whatever mints failed on Ethereum, the
\* sovereign account is not short.  That governance ends every pause is assumed;
\* whether unlocking goes on during one is left open.
UnlockedEventually ==
    \A n \in 1..MaxBurns :
        (n \in DOMAIN burns /\ WellFormed(burns[n])) ~> NonceGet(n)

=============================================================================
