----------------------------- MODULE UnsentRing -----------------------------
(***************************************************************************)
(* The ring buffer of messages that could not be sent.  The slashes and    *)
(* the rewards pallets hold one copy of this code each: a storage map from *)
(* slot to entry and two cursors.  A queue is a record                     *)
(*                                                                         *)
(*     slots : the storage map, defined on the occupied slots only         *)
(*     head  : next slot to be processed by on_initialize                  *)
(*     tail  : next slot to write                                          *)
(*                                                                         *)
(* and every helper of the pallets is an operator from queue to queue.     *)
(* The u32 arithmetic never overflows: cursors stay below Capacity, and    *)
(* tail.wrapping_sub(head) % 64 is (tail - head) % 64 because 64 divides   *)
(* 2^32.                                                                   *)
(***************************************************************************)
EXTENDS Integers, Sequences

CONSTANT Capacity        \* UNSENT_QUEUE_CAPACITY

ASSUME CapacityAssumption == Capacity \in Nat /\ Capacity >= 2

Slot == 0..(Capacity - 1)

After(slot) == (slot + 1) % Capacity

Before(slot) == IF slot = 0 THEN Capacity - 1 ELSE slot - 1

\* Steps from slot b forward to slot a.
Distance(a, b) == (a - b) % Capacity

EmptyQueue == [slots |-> [i \in {} |-> i], head |-> 0, tail |-> 0]

unsent_queue_is_empty(q) == q.head = q.tail

unsent_queue_len(q) == Distance(q.tail, q.head)

\* The slots a scan "while slot != tail" from head visits.
LiveSlots(q) == {i \in Slot : Distance(i, q.head) < unsent_queue_len(q)}

-----------------------------------------------------------------------------
(***************************************************************************)
(* StorageMap::insert and StorageMap::remove.                              *)
(***************************************************************************)
Insert(slots, slot, entry) ==
    [i \in DOMAIN slots \cup {slot} |-> IF i = slot THEN entry ELSE slots[i]]

Delete(slots, slot) == [i \in DOMAIN slots \ {slot} |-> slots[i]]

-----------------------------------------------------------------------------
\* Faulty variant: the full buffer goes unnoticed.
unsent_queue_full_Never(q) == q.head \notin Slot

unsent_queue_full(q) == After(q.tail) = q.head

\* The successful arm of push; the caller tests unsent_queue_full.
unsent_queue_push(q, entry) ==
    [q EXCEPT !.slots = Insert(q.slots, q.tail, entry),
              !.tail  = After(q.tail)]

\* Slots whose successor is copied into them: from slot up to the one before
\* the last, as long as the successor holds an entry.
Shifted(q, slot) ==
    {i \in Slot : /\ Distance(i, slot) < Distance(Before(q.tail), slot)
                  /\ After(i) \in DOMAIN q.slots}

\* Faulty variant: the slot is emptied, nothing is shifted.
unsent_queue_remove_slot_Hole(q, slot) ==
    [q EXCEPT !.slots = Delete(q.slots, slot)]

\* Faulty variant: the last entry is copied but not removed.
unsent_queue_remove_slot_Copy(q, slot) ==
    [q EXCEPT !.slots = [i \in DOMAIN q.slots |-> IF i \in Shifted(q, slot)
                                                 THEN q.slots[After(i)] ELSE q.slots[i]]]

unsent_queue_remove_slot(q, slot) ==
    LET last == Before(q.tail)
        kept == (DOMAIN q.slots \cup Shifted(q, slot)) \ {last}
    IN  [slots |-> [i \in kept |-> IF i \in Shifted(q, slot)
                                   THEN q.slots[After(i)] ELSE q.slots[i]],
         head  |-> IF q.head = q.tail THEN last ELSE q.head,
         tail  |-> last]

\* Faulty variant: the sent entry stays in the map.
DropHead_CursorOnly(q) == [q EXCEPT !.head = After(q.head)]

\* on_initialize after a successful send.  When the head slot is "unexpectedly
\* empty" the pallets only advance the cursor, which is the same update.
DropHead(q) ==
    [q EXCEPT !.slots = Delete(q.slots, q.head), !.head = After(q.head)]

\* Faulty variant: a failed entry keeps its place.
MoveHeadToBack_Blocks(q) == q

\* on_initialize after a failed send: the entry goes to the back, in the order
\* remove, advance head, insert at the old tail, advance tail.
MoveHeadToBack(q) ==
    [slots |-> Insert(Delete(q.slots, q.head), q.tail, q.slots[q.head]),
     head  |-> After(q.head),
     tail  |-> After(q.tail)]

-----------------------------------------------------------------------------
\* The entry on_initialize finds at the head, if any.
HeadEntry(q) == {q.slots[i] : i \in {q.head} \cap DOMAIN q.slots}

\* The entries in the order they will be tried.
Contents(q) ==
    [k \in 1..unsent_queue_len(q) |-> q.slots[(q.head + k - 1) % Capacity]]

=============================================================================
