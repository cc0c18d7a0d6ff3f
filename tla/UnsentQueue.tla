----------------------------- MODULE UnsentQueue ----------------------------
(***************************************************************************)
(* The life of the unsent-message queue of one pallet: entries are pushed  *)
(* when a message has to wait, on_initialize tries the head once per       *)
(* block, governance retries a chosen entry, and entries expire.           *)
(*                                                                         *)
(* Whether the outbound queue accepts a message is the environment's       *)
(* choice, and some entries it never accepts.                              *)
(* "delivered" and "expired" are history variables; an entry is pushed     *)
(* once (an era's rewards, a batch of slashes with fresh ids).             *)
(***************************************************************************)
EXTENDS UnsentRing, FiniteSets

CONSTANTS
    Entry,
    Undeliverable    \* entries the outbound queue refuses every time

ASSUME UndeliverableAssumption == Undeliverable \subseteq Entry

VARIABLES
    queue,
    delivered,
    expired

queueVars == <<queue, delivered, expired>>

QueueInit ==
    /\ queue = EmptyQueue
    /\ delivered = {}
    /\ expired = {}

Waiting == {queue.slots[i] : i \in DOMAIN queue.slots}

push(e) ==
    /\ e \notin Waiting \cup delivered \cup expired
    /\ ~unsent_queue_full(queue)
    /\ queue' = unsent_queue_push(queue, e)
    /\ UNCHANGED <<delivered, expired>>

process_sent ==
    /\ ~unsent_queue_is_empty(queue)
    /\ HeadEntry(queue) \cap Undeliverable = {}
    /\ queue' = DropHead(queue)
    /\ delivered' = delivered \cup HeadEntry(queue)
    /\ UNCHANGED expired

process_failed ==
    /\ ~unsent_queue_is_empty(queue)
    /\ HeadEntry(queue) # {}
    /\ queue' = MoveHeadToBack(queue)
    /\ UNCHANGED <<delivered, expired>>

\* retry_unsent_slash_era, retry_unsent_reward_era: an extrinsic whose failed
\* send changes nothing.
retry(slot) ==
    /\ slot \in LiveSlots(queue) \cap DOMAIN queue.slots
    /\ queue.slots[slot] \notin Undeliverable
    /\ queue' = unsent_queue_remove_slot(queue, slot)
    /\ delivered' = delivered \cup {queue.slots[slot]}
    /\ UNCHANGED expired

\* The rewards pallet prunes an entry whose reward points are gone.
expire(slot) ==
    /\ slot \in LiveSlots(queue) \cap DOMAIN queue.slots
    /\ queue' = unsent_queue_remove_slot(queue, slot)
    /\ expired' = expired \cup {queue.slots[slot]}
    /\ UNCHANGED delivered

QueueNext ==
    \/ \E e \in Entry : push(e)
    \/ process_sent
    \/ process_failed
    \/ \E slot \in Slot : retry(slot)
    \/ \E slot \in Slot : expire(slot)

QueueSpec == QueueInit /\ [][QueueNext]_queueVars

\* Every block runs on_initialize, and the outbound queue does not refuse a
\* deliverable message for ever.
QueueFairness ==
    /\ WF_queueVars(process_sent \/ process_failed)
    /\ SF_queueVars(process_sent)

-----------------------------------------------------------------------------
\* The cursors are slots; the map holds entries.
TypeOK ==
    /\ DOMAIN queue = {"slots", "head", "tail"}
    /\ queue.head \in Slot
    /\ queue.tail \in Slot
    /\ DOMAIN queue.slots \subseteq Slot
    /\ \A i \in DOMAIN queue.slots : queue.slots[i] \in Entry
    /\ delivered \subseteq Entry
    /\ expired \subseteq Entry

\* The occupied slots are exactly those between head and tail: no removal,
\* requeue at a full buffer or wrap-around leaves a hole the scan would skip
\* or an entry outside the scan.  The "slot unexpectedly empty" arm is dead.
NoHoles == DOMAIN queue.slots = LiveSlots(queue)

\* An entry is in one place: waiting in one slot, delivered, or expired.  No
\* message is sent twice and none comes back after it was sent.
ExactlyOnce ==
    /\ \A i, j \in DOMAIN queue.slots : queue.slots[i] = queue.slots[j] => i = j
    /\ Waiting \cap (delivered \cup expired) = {}
    /\ delivered \cap expired = {}

\* The ring buffer is a bounded FIFO with rotation: its contents, read from
\* head to tail, behave as the line of RetryQueue.
Abstract == INSTANCE RetryQueue WITH
    Limit <- Capacity - 1,
    pending <- Contents(queue)

RefinesRetryQueue == Abstract!Spec

\* A deliverable entry is delivered or expires, however many entries that can
\* never be sent stand before it: failures do not block the head of the line.
EntryServed ==
    \A e \in Entry \ Undeliverable : (e \in Waiting) ~> (e \in delivered \cup expired)

=============================================================================
