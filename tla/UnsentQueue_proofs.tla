------------------------- MODULE UnsentQueue_proofs -------------------------
(***************************************************************************)
(* Proofs about the unsent-message queue, for every capacity of at least   *)
(* two and every set of entries: the ring never has holes, and an entry is *)
(* in one place only.                                                      *)
(***************************************************************************)
EXTENDS UnsentQueue, TLAPS

-----------------------------------------------------------------------------
(***************************************************************************)
(* Cursor arithmetic.                                                      *)
(***************************************************************************)

\* Stepping forward from a slot gives a slot, wrapping at the capacity.
LEMMA AfterSlot ==
    ASSUME NEW i \in Slot
    PROVE  /\ After(i) \in Slot
           /\ After(i) = IF i + 1 = Capacity THEN 0 ELSE i + 1
  BY CapacityAssumption DEF Slot, After

\* Stepping back from a slot gives a slot, and stepping forward undoes it.
LEMMA BeforeSlot ==
    ASSUME NEW i \in Slot
    PROVE  /\ Before(i) \in Slot
           /\ After(Before(i)) = i
           /\ Before(i) = IF i = 0 THEN Capacity - 1 ELSE i - 1
  BY CapacityAssumption DEF Slot, After, Before

\* The distance between slots, without the modulus.
LEMMA DistanceSlots ==
    ASSUME NEW a \in Slot, NEW b \in Slot
    PROVE  /\ Distance(a, b) \in Slot
           /\ Distance(a, b) = IF a >= b THEN a - b ELSE a - b + Capacity
  BY CapacityAssumption DEF Slot, Distance

-----------------------------------------------------------------------------
(***************************************************************************)
(* What the queue operators preserve.                                      *)
(***************************************************************************)

\* A queue whose occupied slots are exactly those between head and tail.
Compact(q) ==
    /\ DOMAIN q = {"slots", "head", "tail"}
    /\ q.head \in Slot
    /\ q.tail \in Slot
    /\ DOMAIN q.slots = LiveSlots(q)

\* Slot i is between the cursors, in linear arithmetic.
Between(i, head, tail) ==
    IF tail >= head THEN head <= i /\ i < tail ELSE head <= i \/ i < tail

\* The live slots, in terms of the cursors.
LEMMA LiveBetween ==
    ASSUME NEW q, q.head \in Slot, q.tail \in Slot
    PROVE  LiveSlots(q) = {i \in Slot : Between(i, q.head, q.tail)}
  <1> SUFFICES ASSUME NEW i \in Slot
               PROVE  Distance(i, q.head) < Distance(q.tail, q.head)
                          <=> Between(i, q.head, q.tail)
    BY DEF LiveSlots, unsent_queue_len
  <1>1. Distance(i, q.head) = IF i >= q.head THEN i - q.head ELSE i - q.head + Capacity
    BY DistanceSlots
  <1>2. Distance(q.tail, q.head) =
            IF q.tail >= q.head THEN q.tail - q.head ELSE q.tail - q.head + Capacity
    BY DistanceSlots
  <1> QED
    BY <1>1, <1>2, CapacityAssumption DEF Between, Slot

\* push into a buffer that is not full adds the tail slot.
LEMMA PushCompact ==
    ASSUME NEW q, NEW e, Compact(q), ~unsent_queue_full(q)
    PROVE  LET r == unsent_queue_push(q, e)
           IN  /\ Compact(r)
               /\ q.tail \notin DOMAIN q.slots
               /\ DOMAIN r.slots = DOMAIN q.slots \cup {q.tail}
               /\ \A i \in DOMAIN r.slots : r.slots[i] = IF i = q.tail THEN e ELSE q.slots[i]
  <1> DEFINE r == unsent_queue_push(q, e)
  <1>1. /\ DOMAIN r = {"slots", "head", "tail"}
        /\ r.slots = Insert(q.slots, q.tail, e)
        /\ r.head = q.head
        /\ r.tail = After(q.tail)
    BY DEF unsent_queue_push, Compact
  <1>2. r.head \in Slot /\ r.tail \in Slot
    BY <1>1, AfterSlot DEF Compact
  <1>3. /\ DOMAIN r.slots = DOMAIN q.slots \cup {q.tail}
        /\ \A i \in DOMAIN r.slots : r.slots[i] = IF i = q.tail THEN e ELSE q.slots[i]
    BY <1>1 DEF Insert
  <1> HIDE DEF r
  <1>4. /\ q.head \in Slot /\ q.tail \in Slot
        /\ DOMAIN q.slots = {i \in Slot : Between(i, q.head, q.tail)}
    BY LiveBetween DEF Compact
  <1>5. q.tail \notin DOMAIN q.slots
    BY <1>4, CapacityAssumption DEF Between, Slot
  <1>6. r.tail # q.head /\ r.tail = IF q.tail + 1 = Capacity THEN 0 ELSE q.tail + 1
    BY <1>1, <1>4, AfterSlot DEF unsent_queue_full
  <1>7. \A i \in Slot : Between(i, q.head, r.tail) <=> Between(i, q.head, q.tail) \/ i = q.tail
    BY <1>2, <1>4, <1>6, CapacityAssumption DEF Slot, Between
  <1>8. DOMAIN r.slots = LiveSlots(r)
    BY <1>1, <1>2, <1>3, <1>4, <1>7, LiveBetween
  <1> QED
    BY <1>1, <1>2, <1>3, <1>5, <1>8 DEF Compact, r

\* Dropping the head of a non-empty buffer frees the head slot.
LEMMA DropCompact ==
    ASSUME NEW q, Compact(q), ~unsent_queue_is_empty(q)
    PROVE  LET r == DropHead(q)
           IN  /\ Compact(r)
               /\ q.head \in DOMAIN q.slots
               /\ DOMAIN r.slots = DOMAIN q.slots \ {q.head}
               /\ \A i \in DOMAIN r.slots : r.slots[i] = q.slots[i]
  <1> DEFINE r == DropHead(q)
  <1>1. /\ DOMAIN r = {"slots", "head", "tail"}
        /\ r.slots = Delete(q.slots, q.head)
        /\ r.head = After(q.head)
        /\ r.tail = q.tail
    BY DEF DropHead, Compact
  <1>2. r.head \in Slot /\ r.tail \in Slot
    BY <1>1, AfterSlot DEF Compact
  <1>3. /\ DOMAIN r.slots = DOMAIN q.slots \ {q.head}
        /\ \A i \in DOMAIN r.slots : r.slots[i] = q.slots[i]
    BY <1>1 DEF Delete
  <1> HIDE DEF r
  <1>4. /\ q.head \in Slot /\ q.tail \in Slot /\ q.head # q.tail
        /\ DOMAIN q.slots = {i \in Slot : Between(i, q.head, q.tail)}
    BY LiveBetween DEF Compact, unsent_queue_is_empty
  <1>5. q.head \in DOMAIN q.slots
    BY <1>4, CapacityAssumption DEF Between, Slot
  <1>6. r.head = IF q.head + 1 = Capacity THEN 0 ELSE q.head + 1
    BY <1>1, <1>4, AfterSlot
  <1>7. \A i \in Slot : Between(i, r.head, q.tail) <=> Between(i, q.head, q.tail) /\ i # q.head
    BY <1>2, <1>4, <1>6, CapacityAssumption DEF Slot, Between
  <1>8. DOMAIN r.slots = LiveSlots(r)
    BY <1>1, <1>2, <1>3, <1>4, <1>7, LiveBetween
  <1> QED
    BY <1>1, <1>2, <1>3, <1>5, <1>8 DEF Compact, r

\* Requeueing frees the head slot and fills the tail slot, also when the buffer
\* is full and the freed slot is the one after the tail.
LEMMA RequeueCompact ==
    ASSUME NEW q, Compact(q), ~unsent_queue_is_empty(q)
    PROVE  LET r == MoveHeadToBack(q)
           IN  /\ Compact(r)
               /\ q.head \in DOMAIN q.slots
               /\ q.tail \notin DOMAIN q.slots
               /\ DOMAIN r.slots = (DOMAIN q.slots \ {q.head}) \cup {q.tail}
               /\ \A i \in DOMAIN r.slots :
                      r.slots[i] = IF i = q.tail THEN q.slots[q.head] ELSE q.slots[i]
  <1> DEFINE r == MoveHeadToBack(q)
  <1>1. /\ DOMAIN r = {"slots", "head", "tail"}
        /\ r.slots = Insert(Delete(q.slots, q.head), q.tail, q.slots[q.head])
        /\ r.head = After(q.head)
        /\ r.tail = After(q.tail)
    BY DEF MoveHeadToBack
  <1>2. r.head \in Slot /\ r.tail \in Slot
    BY <1>1, AfterSlot DEF Compact
  <1>3. /\ DOMAIN r.slots = (DOMAIN q.slots \ {q.head}) \cup {q.tail}
        /\ \A i \in DOMAIN r.slots :
               r.slots[i] = IF i = q.tail THEN q.slots[q.head] ELSE q.slots[i]
    BY <1>1 DEF Insert, Delete
  <1> HIDE DEF r
  <1>4. /\ q.head \in Slot /\ q.tail \in Slot /\ q.head # q.tail
        /\ DOMAIN q.slots = {i \in Slot : Between(i, q.head, q.tail)}
    BY LiveBetween DEF Compact, unsent_queue_is_empty
  <1>5. q.head \in DOMAIN q.slots /\ q.tail \notin DOMAIN q.slots
    BY <1>4, CapacityAssumption DEF Between, Slot
  <1>6. /\ r.head = IF q.head + 1 = Capacity THEN 0 ELSE q.head + 1
        /\ r.tail = IF q.tail + 1 = Capacity THEN 0 ELSE q.tail + 1
    BY <1>1, <1>4, AfterSlot
  <1>7. \A i \in Slot : Between(i, r.head, r.tail)
                           <=> (Between(i, q.head, q.tail) /\ i # q.head) \/ i = q.tail
    BY <1>2, <1>4, <1>6, CapacityAssumption DEF Slot, Between
  <1>8. DOMAIN r.slots = LiveSlots(r)
    BY <1>1, <1>2, <1>3, <1>4, <1>7, LiveBetween
  <1> QED
    BY <1>1, <1>2, <1>3, <1>5, <1>8 DEF Compact, r

\* Where the entry of slot i comes from when slot s is removed.
Origin(q, s, i) == IF i \in Shifted(q, s) THEN After(i) ELSE i

\* Removing a live slot shifts the later entries by one: the last slot is freed,
\* and the slots that stay hold, each once, the entries of all slots but the
\* removed one.
LEMMA RemoveCompact ==
    ASSUME NEW q, Compact(q), NEW s \in DOMAIN q.slots
    PROVE  LET r == unsent_queue_remove_slot(q, s)
           IN  /\ Compact(r)
               /\ \A i \in DOMAIN r.slots :
                      /\ Origin(q, s, i) \in DOMAIN q.slots \ {s}
                      /\ r.slots[i] = q.slots[Origin(q, s, i)]
               /\ \A i, j \in DOMAIN r.slots : Origin(q, s, i) = Origin(q, s, j) => i = j
  <1> DEFINE r == unsent_queue_remove_slot(q, s)
             last == Before(q.tail)
             kept == (DOMAIN q.slots \cup Shifted(q, s)) \ {last}
  <1>1. /\ q.head \in Slot /\ q.tail \in Slot /\ s \in Slot
        /\ DOMAIN q.slots = {i \in Slot : Between(i, q.head, q.tail)}
    BY LiveBetween DEF Compact
  <1>2. q.head # q.tail
    BY <1>1, CapacityAssumption DEF Between, Slot
  <1>3. last \in Slot /\ last = IF q.tail = 0 THEN Capacity - 1 ELSE q.tail - 1
    BY <1>1, BeforeSlot
  <1>4. /\ DOMAIN r = {"slots", "head", "tail"}
        /\ r.head = q.head
        /\ r.tail = last
        /\ DOMAIN r.slots = kept
        /\ \A i \in kept : r.slots[i] = q.slots[Origin(q, s, i)]
    BY <1>2 DEF unsent_queue_remove_slot, Origin
  <1> HIDE DEF r, last
  <1>5. \A i \in Slot : After(i) \in Slot /\ After(i) = IF i + 1 = Capacity THEN 0 ELSE i + 1
    BY AfterSlot
  <1>6. \A i \in Slot : i \in Shifted(q, s) <=> Between(i, s, last)
    <2> SUFFICES ASSUME NEW i \in Slot
                 PROVE  i \in Shifted(q, s) <=> Between(i, s, last)
      OBVIOUS
    <2>1. /\ Distance(i, s) = IF i >= s THEN i - s ELSE i - s + Capacity
          /\ Distance(last, s) = IF last >= s THEN last - s ELSE last - s + Capacity
      BY <1>1, <1>3, DistanceSlots
    <2>2. Distance(i, s) < Distance(last, s) <=> Between(i, s, last)
      BY <1>1, <1>3, <2>1, CapacityAssumption DEF Between, Slot
    <2>3. Between(s, q.head, q.tail)
      BY <1>1
    <2>4. Between(i, s, last) => Between(After(i), q.head, q.tail)
      BY <1>1, <1>2, <1>3, <1>5, <2>3, CapacityAssumption DEF Between, Slot
    <2>5. Between(i, s, last) => After(i) \in DOMAIN q.slots
      BY <1>1, <1>5, <2>4
    <2> QED
      BY <2>2, <2>5 DEF Shifted, last
  <1>7. Shifted(q, s) = {i \in Slot : Between(i, s, last)}
    BY <1>6 DEF Shifted
  <1>8. Between(s, q.head, q.tail)
    BY <1>1
  <1>9. \A i \in Slot :
           /\ Between(i, q.head, last) <=> Between(i, q.head, q.tail) /\ i # last
           /\ Between(i, s, last) => Between(i, q.head, last)
           /\ Between(i, s, last) => Between(After(i), q.head, q.tail) /\ After(i) # s
           /\ Between(i, q.head, last) /\ ~Between(i, s, last) => i # s
    BY <1>1, <1>2, <1>3, <1>5, <1>8, CapacityAssumption DEF Between, Slot
  <1>10. kept = {i \in Slot : Between(i, q.head, last)}
    BY <1>1, <1>3, <1>7, <1>9
  <1>11. Compact(r)
    BY <1>1, <1>3, <1>4, <1>10, LiveBetween DEF Compact
  <1>12. \A i \in kept : Origin(q, s, i) \in DOMAIN q.slots \ {s}
    BY <1>1, <1>5, <1>7, <1>9, <1>10 DEF Origin
  <1>13. ASSUME NEW i \in kept, NEW j \in kept, Origin(q, s, i) = Origin(q, s, j)
         PROVE  i = j
    <2>1. i \in Slot /\ j \in Slot /\ Between(i, q.head, last) /\ Between(j, q.head, last)
      BY <1>10
    <2>2. CASE Between(i, s, last) /\ Between(j, s, last)
      <3>1. After(i) = After(j)
        BY <1>7, <1>13, <2>1, <2>2 DEF Origin
      <3> QED
        BY <1>5, <2>1, <3>1, CapacityAssumption DEF Slot
    <2>3. CASE Between(i, s, last) /\ ~Between(j, s, last)
      <3>1. After(i) = j
        BY <1>7, <1>13, <2>1, <2>3 DEF Origin
      <3> QED
        BY <1>1, <1>2, <1>3, <1>5, <1>8, <2>1, <2>3, <3>1, CapacityAssumption DEF Slot, Between
    <2>4. CASE ~Between(i, s, last) /\ Between(j, s, last)
      <3>1. After(j) = i
        BY <1>7, <1>13, <2>1, <2>4 DEF Origin
      <3> QED
        BY <1>1, <1>2, <1>3, <1>5, <1>8, <2>1, <2>4, <3>1, CapacityAssumption DEF Slot, Between
    <2>5. CASE ~Between(i, s, last) /\ ~Between(j, s, last)
      BY <1>7, <1>13, <2>1, <2>5 DEF Origin
    <2> QED
      BY <2>2, <2>3, <2>4, <2>5
  <1> QED
    BY <1>4, <1>11, <1>12, <1>13 DEF r

-----------------------------------------------------------------------------
(***************************************************************************)
(* The inductive invariant: none of the three parts is inductive alone.    *)
(* Without NoHoles a removal could shift a hole over an entry, and without *)
(* ExactlyOnce a removed entry could still be waiting elsewhere.           *)
(***************************************************************************)
QueueInv == TypeOK /\ NoHoles /\ ExactlyOnce

\* The invariant in the form the lemmas above use.
LEMMA InvCompact ==
    ASSUME QueueInv
    PROVE  Compact(queue) /\ LiveSlots(queue) = DOMAIN queue.slots
  BY DEF QueueInv, TypeOK, NoHoles, Compact

\* An empty queue satisfies the invariant.
LEMMA InitInv == QueueInit => QueueInv
  <1> SUFFICES ASSUME QueueInit PROVE QueueInv
    OBVIOUS
  <1>1. /\ DOMAIN queue = {"slots", "head", "tail"}
        /\ DOMAIN queue.slots = {} /\ queue.head = 0 /\ queue.tail = 0
        /\ delivered = {} /\ expired = {}
    BY DEF QueueInit, EmptyQueue
  <1>2. LiveSlots(queue) = {}
    BY <1>1, LiveBetween, CapacityAssumption DEF Slot, Between
  <1> QED
    BY <1>1, <1>2, CapacityAssumption DEF QueueInv, TypeOK, NoHoles, ExactlyOnce, Waiting, Slot

\* A new entry takes the free tail slot.
LEMMA PushInv ==
    ASSUME QueueInv, NEW e \in Entry, push(e)
    PROVE  QueueInv'
  <1>1. Compact(queue) /\ ~unsent_queue_full(queue)
    BY InvCompact DEF push
  <1>2. /\ Compact(queue)'
        /\ queue.tail \notin DOMAIN queue.slots
        /\ DOMAIN queue'.slots = DOMAIN queue.slots \cup {queue.tail}
        /\ \A i \in DOMAIN queue'.slots :
               queue'.slots[i] = IF i = queue.tail THEN e ELSE queue.slots[i]
    BY <1>1, PushCompact DEF push
  <1>3. delivered' = delivered /\ expired' = expired /\ e \notin Waiting \cup delivered \cup expired
    BY DEF push
  <1>4. (TypeOK /\ NoHoles)'
    BY <1>2, <1>3 DEF QueueInv, TypeOK, NoHoles, Compact, LiveSlots
  <1>5. ExactlyOnce'
    BY <1>2, <1>3 DEF QueueInv, ExactlyOnce, Waiting
  <1> QED
    BY <1>4, <1>5 DEF QueueInv

\* on_initialize delivers the head entry.
LEMMA SentInv ==
    ASSUME QueueInv, process_sent
    PROVE  QueueInv'
  <1>1. Compact(queue) /\ ~unsent_queue_is_empty(queue)
    BY InvCompact DEF process_sent
  <1>2. /\ Compact(queue)'
        /\ queue.head \in DOMAIN queue.slots
        /\ DOMAIN queue'.slots = DOMAIN queue.slots \ {queue.head}
        /\ \A i \in DOMAIN queue'.slots : queue'.slots[i] = queue.slots[i]
    BY <1>1, DropCompact DEF process_sent
  <1>3. delivered' = delivered \cup {queue.slots[queue.head]} /\ expired' = expired
    BY <1>2 DEF process_sent, HeadEntry
  <1>4. (TypeOK /\ NoHoles)'
    BY <1>2, <1>3 DEF QueueInv, TypeOK, NoHoles, Compact, LiveSlots
  <1>5. ExactlyOnce'
    BY <1>2, <1>3 DEF QueueInv, ExactlyOnce, Waiting
  <1> QED
    BY <1>4, <1>5 DEF QueueInv

\* on_initialize moves a refused entry to the back.
LEMMA FailedInv ==
    ASSUME QueueInv, process_failed
    PROVE  QueueInv'
  <1>1. Compact(queue) /\ ~unsent_queue_is_empty(queue)
    BY InvCompact DEF process_failed
  <1>2. /\ Compact(queue)'
        /\ queue.head \in DOMAIN queue.slots
        /\ queue.tail \notin DOMAIN queue.slots
        /\ DOMAIN queue'.slots = (DOMAIN queue.slots \ {queue.head}) \cup {queue.tail}
        /\ \A i \in DOMAIN queue'.slots :
               queue'.slots[i] = IF i = queue.tail THEN queue.slots[queue.head]
                                 ELSE queue.slots[i]
    BY <1>1, RequeueCompact DEF process_failed
  <1>3. delivered' = delivered /\ expired' = expired
    BY DEF process_failed
  <1>4. (TypeOK /\ NoHoles)'
    BY <1>2, <1>3 DEF QueueInv, TypeOK, NoHoles, Compact, LiveSlots
  <1>5. ExactlyOnce'
    BY <1>2, <1>3 DEF QueueInv, ExactlyOnce, Waiting
  <1> QED
    BY <1>4, <1>5 DEF QueueInv

\* Removing the entry of a slot, whatever its fate, keeps the other entries
\* apart and takes this one out of the queue.
LEMMA RemovalInv ==
    ASSUME QueueInv, NEW s \in LiveSlots(queue) \cap DOMAIN queue.slots,
           queue' = unsent_queue_remove_slot(queue, s),
           \/ delivered' = delivered \cup {queue.slots[s]} /\ expired' = expired
           \/ delivered' = delivered /\ expired' = expired \cup {queue.slots[s]}
    PROVE  QueueInv'
  <1>1. Compact(queue)
    BY InvCompact
  <1>2. /\ Compact(queue)'
        /\ \A i \in DOMAIN queue'.slots :
               /\ Origin(queue, s, i) \in DOMAIN queue.slots \ {s}
               /\ queue'.slots[i] = queue.slots[Origin(queue, s, i)]
        /\ \A i, j \in DOMAIN queue'.slots :
               Origin(queue, s, i) = Origin(queue, s, j) => i = j
    BY <1>1, RemoveCompact
  <1>3. (TypeOK /\ NoHoles)'
    BY <1>2 DEF QueueInv, TypeOK, NoHoles, Compact, LiveSlots
  <1>4. ExactlyOnce'
    BY <1>2 DEF QueueInv, ExactlyOnce, Waiting
  <1> QED
    BY <1>3, <1>4 DEF QueueInv

\* Every step of the queue, and stuttering, preserves the invariant.
LEMMA NextInv == QueueInv /\ [QueueNext]_queueVars => QueueInv'
  <1> SUFFICES ASSUME QueueInv, [QueueNext]_queueVars PROVE QueueInv'
    OBVIOUS
  <1>1. ASSUME NEW e \in Entry, push(e) PROVE QueueInv'
    BY <1>1, PushInv
  <1>2. CASE process_sent
    BY <1>2, SentInv
  <1>3. CASE process_failed
    BY <1>3, FailedInv
  <1>4. ASSUME NEW s \in Slot, retry(s) PROVE QueueInv'
    BY <1>4, RemovalInv DEF retry
  <1>5. ASSUME NEW s \in Slot, expire(s) PROVE QueueInv'
    BY <1>5, RemovalInv DEF expire
  <1>6. CASE UNCHANGED queueVars
    BY <1>6 DEF queueVars, QueueInv, TypeOK, NoHoles, ExactlyOnce, Waiting, LiveSlots, unsent_queue_len
  <1> QED
    BY <1>1, <1>2, <1>3, <1>4, <1>5, <1>6 DEF QueueNext

\* The invariant holds in every reachable state.
THEOREM Invariance == QueueSpec => []QueueInv
  BY InitInv, NextInv, PTL DEF QueueSpec

\* Types: the cursors of the ring stay below the capacity for ever.
THEOREM TypeCorrect == QueueSpec => []TypeOK
  <1>1. QueueInv => TypeOK
    BY DEF QueueInv
  <1> QED
    BY <1>1, Invariance, PTL

\* No operation leaves a hole between head and tail or an entry outside them,
\* for every capacity: the "slot unexpectedly empty" arm of on_initialize is
\* dead code.
THEOREM RingHasNoHoles == QueueSpec => []NoHoles
  <1>1. QueueInv => NoHoles
    BY DEF QueueInv
  <1> QED
    BY <1>1, Invariance, PTL

\* No message waits twice, is sent twice, or waits after it was sent.
THEOREM EntriesExactlyOnce == QueueSpec => []ExactlyOnce
  <1>1. QueueInv => ExactlyOnce
    BY DEF QueueInv
  <1> QED
    BY <1>1, Invariance, PTL

=============================================================================
