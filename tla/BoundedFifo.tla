---------------------------- MODULE BoundedFifo ----------------------------
(***************************************************************************)
(* What a single-producer single-consumer ring promises to its two users:  *)
(* a queue of at most Cap items, in order, each handed over once.          *)
(***************************************************************************)
EXTENDS Naturals, Sequences

CONSTANTS Item, Cap

VARIABLES
    queue,   \* the items pushed and not yet taken
    out      \* the batch the consumer took last

Init == queue = <<>> /\ out = <<>>

Enqueue ==
    /\ Len(queue) < Cap
    /\ \E x \in Item : queue' = Append(queue, x)
    /\ UNCHANGED out

Dequeue ==
    \E k \in 1..Len(queue) :
      /\ out'   = SubSeq(queue, 1, k)
      /\ queue' = SubSeq(queue, k + 1, Len(queue))

(* The ring is dropped with what is left in it. *)
Discard == queue' = <<>> /\ UNCHANGED out

Next == Enqueue \/ Dequeue \/ Discard

Spec == Init /\ [][Next]_<<queue, out>>
=============================================================================
