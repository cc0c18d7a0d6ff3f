---------------------------- MODULE OutboundQueue ---------------------------
(***************************************************************************)
(* Messages to Ethereum: pallet outbound-queue-v2, the commitment store    *)
(* and the pallets of the runtime they work with.                          *)
(*                                                                         *)
(* A block runs the on_initialize hooks in the order of InitHooks, then    *)
(* extrinsics, on_idle and on_finalize.  MessageQueue hands messages to    *)
(* the outbound queue in two of these phases, the outbound queue commits   *)
(* the block's messages at its end, and the MMR leaf of the next block     *)
(* carries the commitment.  Relayers prove messages to the gateway with    *)
(* what an archive node serves for the block they were committed in.       *)
(***************************************************************************)
EXTENDS MerkleTree, FiniteSets, FiniteSetsExt

CONSTANTS
    Origins,                  \* Message::origin
    Outgoing,                 \* the messages the pallets send: [origin, size, fee]
    Relayers,
    MaxMessagePayloadSize,
    MaxMessagesPerBlock,
    HashOrders,               \* the ways hashes of messages may be ordered: nonce -> rank
    MaxBlocks,                \* bound on blocks
    MaxMessages,              \* bound on messages
    MaxLeaves                 \* bound on the leaves of the trees of ProofsVerify

ASSUME OutboundAssumption ==
    /\ \A m \in Outgoing : m.origin \in Origins /\ m.size \in Nat /\ m.fee \in Nat
    /\ MaxMessagesPerBlock \in Nat \ {0}
    /\ {MaxBlocks, MaxMessages, MaxLeaves} \subseteq Nat

VARIABLES
    phase,                    \* position in Phases
    queued,                   \* external, MessageQueue: origin -> messages
    MessageLeaves,
    Nonce,
    PendingOrders,            \* nonce -> fee
    LatestCommitment,         \* of the commitment store
    mmr,                      \* external: the commitments in the MMR leaves, one per block
    archive,                  \* external: MessageLeaves at the end of every block
    hashOrder,                \* external: the order of the messages' hashes
    dispatched,               \* external: nonces the gateway has dispatched
    Rewards,                  \* relayer -> what RewardPayment registered
    accepted,                 \* history: messages by nonce
    receipts                  \* history: nonces whose receipt was processed

blockVars  == <<phase, MessageLeaves, LatestCommitment, mmr, archive>>
orderVars  == <<PendingOrders, Rewards, receipts>>
vars == <<blockVars, queued, Nonce, orderVars, hashOrder, dispatched, accepted>>

NoCommitment == ZeroHash

\* Faulty variant: MessageQueue comes first.
InitHooks_QueueFirst == <<"Mmr", "MessageQueue", "EthereumOutboundQueueV2">>

\* The order of the pallets in the runtimes.
InitHooks == <<"Mmr", "EthereumOutboundQueueV2", "MessageQueue">>

Phases == InitHooks \o <<"extrinsics", "on_idle", "on_finalize">>

In(name) == Phases[phase] = name

Advance == phase' = (phase % Len(Phases)) + 1

Init ==
    /\ phase = 1
    /\ queued = [o \in Origins |-> <<>>]
    /\ MessageLeaves = <<>>
    /\ Nonce = 0
    /\ PendingOrders = <<>>
    /\ LatestCommitment = NoCommitment
    /\ mmr = <<>>
    /\ archive = <<>>
    /\ hashOrder \in HashOrders
    /\ dispatched = {}
    /\ Rewards = [r \in Relayers |-> 0]
    /\ accepted = <<>>
    /\ receipts = {}

Sent == Nonce + SumFunction([o \in Origins |-> Len(queued[o])])

-----------------------------------------------------------------------------
(***************************************************************************)
(* SendMessage, called by pallets in any phase of a block.                 *)
(***************************************************************************)
validate(message) == message.size < MaxMessagePayloadSize

deliver(message) ==
    /\ ~In("on_finalize")
    /\ Sent < MaxMessages
    /\ validate(message)
    /\ queued' = [queued EXCEPT ![message.origin] = Append(@, message)]
    /\ UNCHANGED <<blockVars, Nonce, orderVars, hashOrder, dispatched, accepted>>

-----------------------------------------------------------------------------
(***************************************************************************)
(* The hooks of a block.                                                   *)
(***************************************************************************)

\* pallet-mmr: the leaf of this block carries the latest commitment.
mmr_on_initialize ==
    /\ In("Mmr")
    /\ Len(mmr) < MaxBlocks
    /\ mmr' = Append(mmr, LatestCommitment)
    /\ Advance
    /\ UNCHANGED <<MessageLeaves, LatestCommitment, archive, queued, Nonce, orderVars,
                   hashOrder, dispatched, accepted>>

on_initialize ==
    /\ In("EthereumOutboundQueueV2")
    /\ MessageLeaves' = <<>>
    /\ Advance
    /\ UNCHANGED <<LatestCommitment, mmr, archive, queued, Nonce, orderVars,
                   hashOrder, dispatched, accepted>>

\* Faulty variant: a full block reports an error for which MessageQueue drops the message.
do_process_message_Drops(origin) ==
    LET message == Head(queued[origin])
    IN  IF Len(MessageLeaves) < MaxMessagesPerBlock
        THEN /\ MessageLeaves' = Append(MessageLeaves, Leaf(hashOrder[Nonce]))
             /\ PendingOrders' = [n \in DOMAIN PendingOrders \cup {Nonce} |->
                                     IF n = Nonce THEN message.fee ELSE PendingOrders[n]]
             /\ Nonce' = Nonce + 1
             /\ accepted' = Append(accepted, message)
        ELSE UNCHANGED <<MessageLeaves, PendingOrders, Nonce, accepted>>

\* Yields when the block is full.
do_process_message(origin) ==
    LET message == Head(queued[origin])
    IN  /\ Len(MessageLeaves) < MaxMessagesPerBlock
        /\ MessageLeaves' = Append(MessageLeaves, Leaf(hashOrder[Nonce]))
        /\ PendingOrders' = [n \in DOMAIN PendingOrders \cup {Nonce} |->
                                IF n = Nonce THEN message.fee ELSE PendingOrders[n]]
        /\ Nonce' = Nonce + 1
        /\ accepted' = Append(accepted, message)

\* MessageQueue serves the head of some queue, as long as weight is left.
process_message(origin) ==
    /\ In("MessageQueue") \/ In("on_idle")
    /\ queued[origin] # <<>>
    /\ do_process_message(origin)
    /\ queued' = [queued EXCEPT ![origin] = Tail(@)]
    /\ UNCHANGED <<phase, LatestCommitment, mmr, archive, Rewards, receipts,
                   hashOrder, dispatched>>

EndPhase ==
    /\ In("MessageQueue") \/ In("extrinsics") \/ In("on_idle")
    /\ Advance
    /\ UNCHANGED <<MessageLeaves, LatestCommitment, mmr, archive, queued, Nonce, orderVars,
                   hashOrder, dispatched, accepted>>

\* commit -> OnNewCommitment -> store_commitment
commit ==
    LatestCommitment' = IF MessageLeaves = <<>> THEN LatestCommitment
                                                ELSE merkle_root(MessageLeaves)

on_finalize ==
    /\ In("on_finalize")
    /\ commit
    /\ archive' = Append(archive, MessageLeaves)
    /\ Advance
    /\ UNCHANGED <<MessageLeaves, mmr, queued, Nonce, orderVars, hashOrder, dispatched, accepted>>

-----------------------------------------------------------------------------
(***************************************************************************)
(* Ethereum: the gateway takes a message with a proof of its leaf against  *)
(* the commitment in the MMR leaf of a finished block.                     *)
(***************************************************************************)
FinishedBlocks == Len(archive)

\* The runtime API, at the end of block b.
prove_message(b, leaf_index) == merkle_proof(archive[b], leaf_index)

\* A relayer finds the message by its leaf.
Provable(nonce) ==
    \E b \in 1..FinishedBlocks : \E k \in 0..(Len(archive[b]) - 1) :
        /\ archive[b][k + 1] = Leaf(hashOrder[nonce])
        /\ LET p == prove_message(b, k)
           IN  \E i \in 1..FinishedBlocks :
                   verify_proof(mmr[i], p.proof, p.number_of_leaves, p.leaf_index, p.leaf)

dispatch(nonce) ==
    /\ nonce \notin dispatched
    /\ Provable(nonce)
    /\ dispatched' = dispatched \cup {nonce}
    /\ UNCHANGED <<blockVars, queued, Nonce, orderVars, hashOrder, accepted>>

\* The receipts among the logs of Ethereum: one from the gateway for every message it
\* has dispatched, and the same event of another contract, for any nonce.
GatewayAddress == "gateway"

ReceiptLogs ==
    [gateway : {GatewayAddress}, nonce : dispatched]
    \cup [gateway : {"another contract"}, nonce : 0..(Nonce - 1)]

\* Faulty variant: the order stays.
process_delivery_receipt_KeepsOrder(relayer, receipt) ==
    /\ receipt.gateway = GatewayAddress
    /\ receipt.nonce \in DOMAIN PendingOrders
    /\ Rewards' = [Rewards EXCEPT ![relayer] = @ + PendingOrders[receipt.nonce]]
    /\ UNCHANGED PendingOrders

\* Whoever brings the receipt is paid, whether or not the dispatch succeeded.
process_delivery_receipt(relayer, receipt) ==
    /\ receipt.gateway = GatewayAddress
    /\ receipt.nonce \in DOMAIN PendingOrders
    /\ Rewards' = [Rewards EXCEPT ![relayer] = @ + PendingOrders[receipt.nonce]]
    /\ PendingOrders' = [n \in DOMAIN PendingOrders \ {receipt.nonce} |-> PendingOrders[n]]

\* The verifier proves that the log is in a finalized block, nothing more.
submit_delivery_receipt(relayer, receipt) ==
    /\ In("extrinsics")
    /\ process_delivery_receipt(relayer, receipt)
    /\ receipts' = receipts \cup {receipt.nonce}
    /\ UNCHANGED <<blockVars, queued, Nonce, hashOrder, dispatched, accepted>>

Next ==
    \/ \E message \in Outgoing : deliver(message)
    \/ mmr_on_initialize
    \/ on_initialize
    \/ \E origin \in Origins : process_message(origin)
    \/ EndPhase
    \/ on_finalize
    \/ \E nonce \in 0..(Nonce - 1) : dispatch(nonce)
    \/ \E relayer \in Relayers, receipt \in ReceiptLogs : submit_delivery_receipt(relayer, receipt)

Spec == Init /\ [][Next]_vars

-----------------------------------------------------------------------------
(***************************************************************************)
(* Properties.                                                             *)
(***************************************************************************)

\* "The Message Queue pallet has to be after the Snowbridge Outbound Queue V2
\* pallet": no accepted message is wiped before it is committed, and no
\* commitment is replaced before an MMR leaf carries it.  Every message that got
\* a nonce is in the block being built, or is proved by the commitment that the
\* next MMR leaf takes, or can be proved to the gateway.
EveryMessageProvable ==
    \A nonce \in 0..(Nonce - 1) :
        \/ Contains(MessageLeaves, Leaf(hashOrder[nonce]))
        \/ Provable(nonce)
        \/ /\ archive # <<>>
           /\ Contains(Last(archive), Leaf(hashOrder[nonce]))
           /\ LatestCommitment = merkle_root(Last(archive))

\* A relayer is paid once per message, after the message was dispatched, and
\* exactly its fee; until then the order waits.
OrdersSettle ==
    /\ receipts \subseteq dispatched
    /\ DOMAIN PendingOrders = (0..(Nonce - 1)) \ receipts
    /\ \A n \in DOMAIN PendingOrders : PendingOrders[n] = accepted[n + 1].fee
    /\ SumFunction(Rewards) = SumFunction([n \in receipts |-> accepted[n + 1].fee])

\* The leaves of the current block if it has n messages.
BlockOf(n) == [i \in 1..n |-> Leaf(hashOrder[Nonce - Len(MessageLeaves) + i - 1])]

\* Whatever the order of the hashes and the number of messages a block is
\* committed with: the proof merkle_proof builds for a leaf verifies against the
\* root, and it verifies no other leaf of the block.
ProofsVerify ==
    In("on_finalize") /\ MessageLeaves # <<>> =>
        /\ Len(MessageLeaves) <= MaxMessagesPerBlock
        /\ MessageLeaves = BlockOf(Len(MessageLeaves))
        /\ \A n \in 1..MaxLeaves :
            LET leaves == BlockOf(n)
                root   == merkle_root(leaves)
            IN  \A k \in 0..(n - 1) :
                    LET proof == merkle_proof(leaves, k).proof
                    IN  \A j \in 1..n :
                            verify_proof(root, proof, n, k, leaves[j]) <=> j = k + 1

\* MerkleUtils, on the same leaves and in both of its modes: the proof of a leaf,
\* with its position, leads to the root, and leads no other leaf there.  With sorted
\* pairs the verifier is OpenZeppelin's, without sorting it is the one of a tree that
\* hashes left and right as they come.
LibraryProofsVerify ==
    In("on_finalize") /\ MessageLeaves # <<>> =>
        \A n \in 1..MaxLeaves :
            LET leaves == BlockOf(n)
                sorted == calculateMerkleRoot(leaves, TRUE)
                plain  == calculateMerkleRoot(leaves, FALSE)
            IN  \A k \in 0..(n - 1) :
                    LET sortedProof == buildMerkleProof(leaves, k, TRUE)
                        plainProof  == buildMerkleProof(leaves, k, FALSE)
                    IN  \A j \in 1..n :
                            /\ (ProcessProof(sortedProof, leaves[j]) = sorted) <=> j = k + 1
                            /\ (ProcessProofAt(plainProof, leaves[j], k, n) = plain) <=> j = k + 1

Channel == INSTANCE OutboundChannel WITH Messages <- Outgoing

\* Seen by the pallets that send, all of this is a channel: messages of an origin
\* get rising nonces in the order they were sent, and each is dispatched at most
\* once.
ImplementsChannel == Channel!ChannelSpec

=============================================================================
