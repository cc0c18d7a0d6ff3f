--------------------------- MODULE OutboundChannel --------------------------
(***************************************************************************)
(* What the outbound path promises to the pallets that send messages to    *)
(* Ethereum: messages of one origin are numbered in the order they were    *)
(* sent, and each numbered message is dispatched at most once, in any      *)
(* order.                                                                  *)
(***************************************************************************)
EXTENDS Naturals, Sequences

CONSTANTS
    Origins,            \* Message::origin, one queue each
    Messages            \* what can be sent

VARIABLES
    queued,             \* origin -> messages waiting for a nonce
    accepted,           \* messages in the order of their nonces
    dispatched          \* nonces the gateway has dispatched

channelVars == <<queued, accepted, dispatched>>

ChannelInit ==
    /\ queued = [o \in Origins |-> <<>>]
    /\ accepted = <<>>
    /\ dispatched = {}

Send(message) ==
    /\ queued' = [queued EXCEPT ![message.origin] = Append(@, message)]
    /\ UNCHANGED <<accepted, dispatched>>

\* Nonces count from 0.
Accept(origin) ==
    /\ queued[origin] # <<>>
    /\ queued' = [queued EXCEPT ![origin] = Tail(@)]
    /\ accepted' = Append(accepted, Head(queued[origin]))
    /\ UNCHANGED dispatched

Dispatch(nonce) ==
    /\ nonce < Len(accepted)
    /\ nonce \notin dispatched
    /\ dispatched' = dispatched \cup {nonce}
    /\ UNCHANGED <<queued, accepted>>

ChannelNext ==
    \/ \E message \in Messages : Send(message)
    \/ \E origin \in Origins : Accept(origin)
    \/ \E nonce \in 0..(Len(accepted) - 1) : Dispatch(nonce)

ChannelSpec == ChannelInit /\ [][ChannelNext]_channelVars

=============================================================================
