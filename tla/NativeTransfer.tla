--------------------------- MODULE NativeTransfer ---------------------------
(***************************************************************************)
(* pallet datahaven-native-transfer and the processor of its messages from *)
(* Ethereum (NativeTokenTransferMessageProcessor): native tokens are       *)
(* locked in the sovereign account while wrapped tokens exist on Ethereum. *)
(***************************************************************************)
EXTENDS SystemV2, Integers, SequencesExt

CONSTANTS
    Users,
    EthereumSovereignAccount,
    FeeRecipient,
    Here,                     \* the location of the native token
    TransferOrigin,           \* H256::zero(), the message origin of transfers
    ExistentialDeposit,
    InitialBalance            \* of every user

VARIABLES
    balance,                  \* external, pallet-balances: account -> free balance
    Paused

transferVars == <<balance, Paused>>

Accounts == Users \cup {EthereumSovereignAccount, FeeRecipient}

TransferInit ==
    /\ balance = [a \in Accounts |-> IF a \in Users THEN InitialBalance ELSE 0]
    /\ Paused = FALSE

NativeTokenId == convert_back(Here)

\* Currency::transfer with Preservation::Preserve: the sender keeps the deposit,
\* and the receiver has it afterwards.
CanTransfer(b, from, to, amount) ==
    /\ b[from] >= amount + ExistentialDeposit
    /\ b[to] + amount >= ExistentialDeposit

Transfer(b, from, to, amount) == [b EXCEPT ![from] = @ - amount, ![to] = @ + amount]

-----------------------------------------------------------------------------
build_mint_message(amount, fee) ==
    [origin |-> TransferOrigin, command |-> "MintForeignToken", arg |-> amount, fee |-> fee]

\* The fee is paid first, then the amount is locked (lock_tokens); an error in
\* either, or in sending, undoes the call.
transfer_to_ethereum(who, amount, fee) ==
    LET paid == Transfer(balance, who, FeeRecipient, fee)
    IN  /\ ~Paused
        /\ NativeTokenId # {}
        /\ amount > 0 /\ fee > 0
        /\ CanTransfer(balance, who, FeeRecipient, fee)
        /\ CanTransfer(paid, who, EthereumSovereignAccount, amount)
        /\ balance' = Transfer(paid, who, EthereumSovereignAccount, amount)
        /\ Send(build_mint_message(amount, fee))
        /\ UNCHANGED Paused

pause(on) ==
    /\ Paused' = on
    /\ UNCHANGED balance

unlock_tokens(who, amount) ==
    /\ balance[EthereumSovereignAccount] - ExistentialDeposit >= amount
    /\ CanTransfer(balance, EthereumSovereignAccount, who, amount)
    /\ balance' = Transfer(balance, EthereumSovereignAccount, who, amount)

-----------------------------------------------------------------------------
(***************************************************************************)
(* The message processor.                                                  *)
(***************************************************************************)
NativeTokenTransfer_can_process_message(message) ==
    /\ NativeTokenId # {}
    /\ message.assets # <<>>
    /\ \A i \in DOMAIN message.assets : message.assets[i].token_id \in NativeTokenId

\* Faulty variant: only the first asset counts.
token_amount_First(message) == message.assets[1].value

token_amount(message) == FoldLeft(LAMBDA sum, asset : sum + asset.value, 0, message.assets)

NativeTokenTransfer_process_message(message) ==
    /\ NativeTokenTransfer_can_process_message(message)
    /\ token_amount(message) # 0
    /\ message.claimer \in Users
    /\ unlock_tokens(message.claimer, token_amount(message))
    /\ UNCHANGED Paused

=============================================================================
