------------------------------ MODULE SystemV2 ------------------------------
(***************************************************************************)
(* pallet system-v2 (operator/pallets/system-v2/src/lib.rs): governance    *)
(* registers tokens of this chain with the gateway on Ethereum, and        *)
(* controls the gateway, with messages of the outbound path.               *)
(***************************************************************************)
EXTENDS OutboundChannel, FiniteSets

CONSTANTS
    Locations,          \* of assets, seen from Ethereum (reanchored)
    TokenIdOf,          \* location -> TokenId
    RootOrigin,         \* message origin of the governance location
    SenderOrigins       \* message origins of the locations register_token may name as sender

ASSUME SystemAssumption ==
    /\ RootOrigin \in Origins /\ SenderOrigins \subseteq Origins
    /\ \A l, k \in Locations : TokenIdOf[l] = TokenIdOf[k] => l = k

VARIABLES
    NativeToForeignId,  \* location -> TokenId
    ForeignToNativeId   \* TokenId -> location

systemVars == <<NativeToForeignId, ForeignToNativeId>>

SystemInit ==
    /\ NativeToForeignId = <<>>
    /\ ForeignToNativeId = <<>>

Insert(map, key, value) ==
    [k \in DOMAIN map \cup {key} |-> IF k = key THEN value ELSE map[k]]

\* One command per message, sent without a fee.
send(origin, command, arg) ==
    Send([origin |-> origin, command |-> command, arg |-> arg, fee |-> 0])

\* The maps know the token at once, Ethereum when the message is dispatched.  A
\* token may be registered again, which only sends the message again.  The message
\* goes out under the origin of the sender the call names.
register_token(message_origin, location) ==
    LET token_id == TokenIdOf[location]
    IN  /\ IF token_id \in DOMAIN ForeignToNativeId THEN UNCHANGED systemVars
           ELSE /\ NativeToForeignId' = Insert(NativeToForeignId, location, token_id)
                /\ ForeignToNativeId' = Insert(ForeignToNativeId, token_id, location)
        /\ send(message_origin, "RegisterForeignToken", token_id)

gateway_set_operating_mode(mode) ==
    /\ send(RootOrigin, "SetOperatingMode", mode)
    /\ UNCHANGED systemVars

upgrade(impl_address, impl_code_hash) ==
    /\ impl_address # 0 /\ impl_code_hash # 0
    /\ send(RootOrigin, "Upgrade", impl_address)
    /\ UNCHANGED systemVars

\* MaybeEquivalence::convert_back, as a set of at most one
convert_back(location) ==
    IF location \in DOMAIN NativeToForeignId THEN {NativeToForeignId[location]} ELSE {}

=============================================================================
