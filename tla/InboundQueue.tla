---------------------------- MODULE InboundQueue ----------------------------
(***************************************************************************)
(* pallet inbound-queue-v2 (operator/pallets/inbound-queue-v2/src/lib.rs): *)
(* messages of the Ethereum gateway, proved by anyone who relays them, are *)
(* handed to a message processor at most once each.                        *)
(*                                                                         *)
(* Nonces are remembered in a sparse bitmap, a map from bucket numbers to  *)
(* 128-bit words (here the set of the bits that are 1).  A call that fails *)
(* leaves no trace: the extrinsic is rolled back and can be sent again.    *)
(***************************************************************************)
EXTENDS Integers, FiniteSets

CONSTANTS
    Relayers,           \* accounts that submit proofs
    RelayerFee          \* Message::relayer_fee

VARIABLES
    OperatingMode,      \* "Normal" or "Halted"
    NonceBitmap,        \* bucket -> bits set
    Rewards             \* T::RewardPayment: what each relayer has been credited

inboundVars == <<OperatingMode, NonceBitmap, Rewards>>

BITS == 128

InboundInit ==
    /\ OperatingMode = "Normal"
    /\ NonceBitmap = <<>>
    /\ Rewards = [r \in Relayers |-> 0]

Bucket(bucket) == IF bucket \in DOMAIN NonceBitmap THEN NonceBitmap[bucket] ELSE {}

\* SparseBitmapImpl: (index >> 7, 1 << (index & 127))
compute_bucket_and_mask(index) == <<index \div BITS, index % BITS>>

NonceGet(nonce) ==
    LET at == compute_bucket_and_mask(nonce) IN at[2] \in Bucket(at[1])

NonceSet(nonce) ==
    LET at == compute_bucket_and_mask(nonce)
    IN  [b \in DOMAIN NonceBitmap \cup {at[1]} |->
            IF b = at[1] THEN Bucket(b) \cup {at[2]} ELSE NonceBitmap[b]]

\* Faulty variant: the nonce is not marked.
process_message_Unmarked(relayer, nonce, processed) ==
    /\ ~NonceGet(nonce)
    /\ processed
    /\ Rewards' = [Rewards EXCEPT ![relayer] = @ + RelayerFee]
    /\ UNCHANGED NonceBitmap

\* Faulty variant: only the latest nonce is remembered, an older one is late.
process_message_Rising(relayer, nonce, processed) ==
    /\ \A b \in DOMAIN NonceBitmap : \A bit \in NonceBitmap[b] : b * BITS + bit < nonce
    /\ processed
    /\ Rewards' = [Rewards EXCEPT ![relayer] = @ + RelayerFee]
    /\ NonceBitmap' = NonceSet(nonce)

\* The processor runs first; its error undoes the call, so the nonce of a
\* rejected message stays free.
process_message(relayer, nonce, processed) ==
    /\ ~NonceGet(nonce)
    /\ processed
    /\ Rewards' = [Rewards EXCEPT ![relayer] = @ + RelayerFee]
    /\ NonceBitmap' = NonceSet(nonce)

\* submit: "verified" says that the event is proved to be in a finalized block
\* (T::Verifier) and comes from GatewayAddress; "processed" is the step of the
\* message processor.
submit(relayer, nonce, verified, processed) ==
    /\ OperatingMode # "Halted"
    /\ verified
    /\ process_message(relayer, nonce, processed)
    /\ UNCHANGED OperatingMode

set_operating_mode(mode) ==
    /\ OperatingMode' = mode
    /\ UNCHANGED <<NonceBitmap, Rewards>>

=============================================================================
