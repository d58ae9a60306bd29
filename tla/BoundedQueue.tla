---------------------------- MODULE BoundedQueue ----------------------------
(***************************************************************************)
(* The buffered channel of internal/queue: a FIFO of bounded length.  Both *)
(* controllers put work into it with TryEnqueue, which never blocks and    *)
(* reports whether there was room.                                         *)
(***************************************************************************)
EXTENDS Naturals, Sequences

\* Faulty variant: a channel made one slot too small.
HasRoomShort(q, size) == Len(q) + 1 < size

\* TryEnqueue succeeds exactly when the channel's buffer has a free slot.
HasRoom(q, size) == Len(q) < size

\* The buffer after a successful TryEnqueue.
Enqueued(q, x) == Append(q, x)

\* What a receive from Dequeue() yields and what it leaves behind.
Oldest(q) == Head(q)
Dequeued(q) == Tail(q)

\* x sits in the buffer.
Contains(q, x) == \E i \in 1..Len(q) : q[i] = x

\* No element sits in the buffer twice.
NoDuplicates(q) == \A i, j \in 1..Len(q) : q[i] = q[j] => i = j
=============================================================================
