----------------------------- MODULE RetryQueue -----------------------------
(***************************************************************************)
(* What an unsent-message queue promises, without slots and cursors: a     *)
(* bounded FIFO of entries, each delivered at most once, where a failed    *)
(* delivery goes to the back of the line and nothing disappears unless it  *)
(* is delivered or expires.                                                *)
(***************************************************************************)
EXTENDS Naturals, Sequences, SequencesExt

CONSTANTS Entry, Limit

VARIABLES
    pending,     \* the line
    delivered,   \* entries handed to the outbound queue
    expired      \* entries given up

vars == <<pending, delivered, expired>>

Init ==
    /\ pending = <<>>
    /\ delivered = {}
    /\ expired = {}

Known == ToSet(pending) \cup delivered \cup expired

Enqueue(e) ==
    /\ e \notin Known
    /\ Len(pending) < Limit
    /\ pending' = Append(pending, e)
    /\ UNCHANGED <<delivered, expired>>

DeliverFirst ==
    /\ pending # <<>>
    /\ delivered' = delivered \cup {Head(pending)}
    /\ pending' = Tail(pending)
    /\ UNCHANGED expired

RotateFirst ==
    /\ pending # <<>>
    /\ pending' = Append(Tail(pending), Head(pending))
    /\ UNCHANGED <<delivered, expired>>

DeliverAt(k) ==
    /\ delivered' = delivered \cup {pending[k]}
    /\ pending' = RemoveAt(pending, k)
    /\ UNCHANGED expired

ExpireAt(k) ==
    /\ expired' = expired \cup {pending[k]}
    /\ pending' = RemoveAt(pending, k)
    /\ UNCHANGED delivered

Next ==
    \/ \E e \in Entry : Enqueue(e)
    \/ DeliverFirst
    \/ RotateFirst
    \/ \E k \in DOMAIN pending : DeliverAt(k)
    \/ \E k \in DOMAIN pending : ExpireAt(k)

Spec == Init /\ [][Next]_vars

=============================================================================
