------------------------ MODULE OutboundQueue_proofs ------------------------
(***************************************************************************)
(* The outbound queue implements OutboundChannel, for all messages,        *)
(* origins, block sizes and orders of hashes.  TokenBridge is built on     *)
(* that channel.                                                           *)
(***************************************************************************)
EXTENDS OutboundQueue, TLAPS

\* What the refinement rests on: the nonce counts the messages that
\* do_process_message has numbered.
ChannelInv ==
    /\ queued \in [Origins -> Seq(Outgoing)]
    /\ accepted \in Seq(Outgoing)
    /\ Nonce = Len(accepted)

\* At genesis nothing is queued or numbered.
LEMMA InitChannelInv == Init => ChannelInv
BY DEF Init, ChannelInv

\* Handing a message to a queue (deliver) keeps the invariant.
LEMMA DeliverKeepsInv ==
    ASSUME ChannelInv, NEW message \in Outgoing, deliver(message)
    PROVE  ChannelInv'
<1>1. message.origin \in Origins
  BY OutboundAssumption
<1>2. queued' \in [Origins -> Seq(Outgoing)]
  BY <1>1 DEF deliver, ChannelInv
<1> QED
  BY <1>2 DEF deliver, ChannelInv

\* Numbering the head of a queue (process_message, do_process_message) keeps the
\* invariant: the counter and the list of numbered messages grow together.
LEMMA ProcessKeepsInv ==
    ASSUME ChannelInv, NEW origin \in Origins, process_message(origin)
    PROVE  ChannelInv'
<1>1. queued[origin] \in Seq(Outgoing) /\ queued[origin] # <<>>
  BY DEF ChannelInv, process_message
<1>2. Head(queued[origin]) \in Outgoing /\ Tail(queued[origin]) \in Seq(Outgoing)
  BY <1>1
<1>3. queued' \in [Origins -> Seq(Outgoing)]
  BY <1>2 DEF ChannelInv, process_message
<1>4. accepted' = Append(accepted, Head(queued[origin])) /\ Nonce' = Nonce + 1
  BY DEF process_message, do_process_message
<1> QED
  BY <1>2, <1>3, <1>4 DEF ChannelInv

\* Every step of a block, of a relayer and of the gateway keeps the invariant.
LEMMA NextChannelInv == ChannelInv /\ [Next]_vars => ChannelInv'
<1> SUFFICES ASSUME ChannelInv, [Next]_vars PROVE ChannelInv'
  OBVIOUS
<1>1. ASSUME NEW message \in Outgoing, deliver(message) PROVE ChannelInv'
  BY <1>1, DeliverKeepsInv
<1>2. ASSUME NEW origin \in Origins, process_message(origin) PROVE ChannelInv'
  BY <1>2, ProcessKeepsInv
<1>3. ASSUME UNCHANGED <<queued, accepted, Nonce>> PROVE ChannelInv'
  BY <1>3 DEF ChannelInv
<1>4. CASE mmr_on_initialize \/ on_initialize \/ EndPhase \/ on_finalize
  BY <1>3, <1>4 DEF mmr_on_initialize, on_initialize, EndPhase, on_finalize
<1>5. ASSUME NEW nonce, dispatch(nonce) PROVE ChannelInv'
  BY <1>3, <1>5 DEF dispatch
<1>6. ASSUME NEW relayer, NEW receipt, submit_delivery_receipt(relayer, receipt) PROVE ChannelInv'
  BY <1>3, <1>6 DEF submit_delivery_receipt
<1>7. CASE UNCHANGED vars
  BY <1>3, <1>7 DEF vars
<1> QED
  BY <1>1, <1>2, <1>4, <1>5, <1>6, <1>7 DEF Next

\* What a pallet that sends may rely on: deliver is a Send, numbering a message is
\* an Accept of the head of its queue, the gateway's dispatch is a Dispatch of a
\* nonce not dispatched before, and hooks and receipts are invisible.
LEMMA StepImplementsChannel ==
    ChannelInv /\ [Next]_vars => [Channel!ChannelNext]_(Channel!channelVars)
<1> SUFFICES ASSUME ChannelInv, [Next]_vars
             PROVE  [Channel!ChannelNext]_(Channel!channelVars)
  OBVIOUS
<1> USE DEF Channel!ChannelNext, Channel!channelVars
<1>1. ASSUME NEW message \in Outgoing, deliver(message) PROVE Channel!Send(message)
  BY <1>1 DEF deliver, Channel!Send
<1>2. ASSUME NEW origin \in Origins, process_message(origin) PROVE Channel!Accept(origin)
  BY <1>2 DEF process_message, do_process_message, Channel!Accept
<1>3. ASSUME NEW nonce \in 0..(Nonce - 1), dispatch(nonce)
      PROVE  nonce \in 0..(Len(accepted) - 1) /\ Channel!Dispatch(nonce)
  <2>1. Len(accepted) \in Nat /\ Nonce = Len(accepted)
    BY DEF ChannelInv
  <2> QED
    BY <1>3, <2>1 DEF dispatch, Channel!Dispatch
<1>4. CASE mmr_on_initialize \/ on_initialize \/ EndPhase \/ on_finalize
  BY <1>4 DEF mmr_on_initialize, on_initialize, EndPhase, on_finalize
<1>5. ASSUME NEW relayer, NEW receipt, submit_delivery_receipt(relayer, receipt)
      PROVE  UNCHANGED Channel!channelVars
  BY <1>5 DEF submit_delivery_receipt
<1>6. CASE UNCHANGED vars
  BY <1>6 DEF vars
<1> QED
  BY <1>1, <1>2, <1>3, <1>4, <1>5, <1>6 DEF Next

\* Blocks, hooks, commitments and receipts together are the channel the sending
\* pallets count on.
THEOREM QueueImplementsChannel == Spec => ImplementsChannel
<1>1. Init => Channel!ChannelInit
  BY DEF Init, Channel!ChannelInit
<1> QED
  BY <1>1, InitChannelInv, NextChannelInv, StepImplementsChannel, PTL
     DEF Spec, ImplementsChannel, Channel!ChannelSpec

=============================================================================
