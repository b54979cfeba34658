------------------------------ MODULE SpscRing ------------------------------
(***************************************************************************)
(* The lock-free ring that carries datagrams between shards and session    *)
(* epochs from the dispatcher to the workers (crates/yip-io/src/spsc.rs).  *)
(*                                                                         *)
(* One action per access to shared memory.  A load of the other side's     *)
(* index may return any value stored since this side's last load of it;    *)
(* the Acquire/Release pair makes the slots behind that value visible.     *)
(* pop is drain_batch with max = 1.                                        *)
(***************************************************************************)
EXTENDS Integers, Sequences

CONSTANTS
    Item, NoItem,   \* NoItem: an uninitialised or moved-out slot
    Cap,            \* CAP, a power of two
    Modulus,        \* 2^64: the indices are usize and wrap
    MaxBatch        \* bound: largest max given to drain_batch

(* What is assumed of the constants. *)
RingAssumption ==
    /\ NoItem \notin Item
    /\ Cap \in Nat \ {0}
    /\ MaxBatch \in Nat \ {0}
    /\ Modulus \in Nat \ {0} /\ Modulus % Cap = 0 /\ Modulus > Cap

VARIABLES
    head, tail, slots,         \* RingBuffer
    cachedTail, cachedHead,    \* of the two halves
    pcP, item,                 \* push: where it is, what it pushes
    pcC, max, batch,           \* drain_batch: where it is, its limit, items read
    out,                       \* what the last drain_batch returned
    alive                      \* what is not yet dropped

vars == <<head, tail, slots, cachedTail, cachedHead, pcP, item, pcC, max, batch,
          out, alive>>
producerVars == <<head, cachedTail, pcP, item>>
consumerVars == <<tail, cachedHead, pcC, max, batch, out>>

Index      == 0..(Modulus - 1)
Plus(a, k) == (a + k) % Modulus    \* wrapping_add
Sub(a, b)  == (a - b) % Modulus    \* wrapping_sub
Slot(i)    == i % Cap              \* i & (CAP - 1)

(* spsc_pair *)
Init ==
    /\ head = 0 /\ tail = 0
    /\ slots = [i \in 0..(Cap - 1) |-> NoItem]
    /\ cachedTail = 0 /\ cachedHead = 0
    /\ pcP = "idle" /\ item = NoItem
    /\ pcC = "idle" /\ max = 0 /\ batch = <<>> /\ out = <<>>
    /\ alive = {"producer", "consumer", "ring"}

(* The values a load of index may return to a thread that last saw seen. *)
Loaded(seen, index) == {Plus(seen, k) : k \in 0..Sub(index, seen)}

-----------------------------------------------------------------------------
(* push *)

(* Faulty variant: one slot too many. *)
FullLate(t) == Sub(head, t) > Cap

Full(t) == Sub(head, t) >= Cap

PushBegin ==
    /\ "producer" \in alive /\ pcP = "idle"
    /\ \E x \in Item : item' = x
    /\ pcP' = IF Full(cachedTail) THEN "load" ELSE "write"
    /\ UNCHANGED <<head, cachedTail, slots, consumerVars, alive>>

(* Full even so: Err(item), the caller has the item back. *)
PushLoad ==
    /\ pcP = "load"
    /\ \E t \in Loaded(cachedTail, tail) :
         /\ cachedTail' = t
         /\ IF Full(t) THEN pcP' = "idle" /\ item' = NoItem
                       ELSE pcP' = "write" /\ UNCHANGED item
    /\ UNCHANGED <<head, slots, consumerVars, alive>>

PushWrite ==
    /\ pcP = "write"
    /\ slots' = [slots EXCEPT ![Slot(head)] = item]
    /\ pcP' = "publish"
    /\ UNCHANGED <<head, cachedTail, item, consumerVars, alive>>

PushPublish ==
    /\ pcP = "publish"
    /\ head' = Plus(head, 1)
    /\ pcP' = "idle" /\ item' = NoItem
    /\ UNCHANGED <<cachedTail, slots, consumerVars, alive>>

-----------------------------------------------------------------------------
(* drain_batch and pop *)

DrainBegin ==
    /\ "consumer" \in alive /\ pcC = "idle"
    /\ \E m \in 1..MaxBatch :
         /\ max' = m
         /\ pcC' = IF Sub(cachedHead, tail) < m THEN "load" ELSE "read"
    /\ UNCHANGED <<tail, cachedHead, batch, out, slots, producerVars, alive>>

(* With nothing available it returns at once; a consumer being dropped     *)
(* stops then.                                                             *)
DrainLoad ==
    /\ pcC \in {"load", "closing"}
    /\ \E h \in Loaded(cachedHead, head) :
         /\ cachedHead' = h
         /\ IF h = tail
            THEN /\ pcC' = "idle" /\ max' = 0
                 /\ alive' = IF pcC = "closing" THEN alive \ {"consumer"} ELSE alive
            ELSE /\ pcC' = IF pcC = "closing" THEN "discard" ELSE "read"
                 /\ UNCHANGED <<max, alive>>
    /\ UNCHANGED <<tail, batch, out, slots, producerVars>>

ToDrain ==
    LET available == Sub(cachedHead, tail) IN
    IF available < max THEN available ELSE max

DrainRead ==
    /\ pcC = "read"
    /\ LET i == Slot(Plus(tail, Len(batch))) IN
         /\ batch' = Append(batch, slots[i])
         /\ slots' = [slots EXCEPT ![i] = NoItem]
    /\ pcC' = IF Len(batch) + 1 = ToDrain THEN "release" ELSE "read"
    /\ UNCHANGED <<tail, cachedHead, max, out, producerVars, alive>>

(* Faulty variant: the whole batch is taken for one item. *)
DrainReleaseOne ==
    /\ pcC = "release"
    /\ tail' = Plus(tail, 1)
    /\ out' = batch /\ batch' = <<>>
    /\ pcC' = "idle" /\ max' = 0
    /\ UNCHANGED <<cachedHead, slots, producerVars, alive>>

DrainRelease ==
    /\ pcC = "release"
    /\ tail' = Plus(tail, Len(batch))
    /\ out' = batch /\ batch' = <<>>
    /\ pcC' = "idle" /\ max' = 0
    /\ UNCHANGED <<cachedHead, slots, producerVars, alive>>

IsEmpty ==
    /\ "consumer" \in alive /\ pcC = "idle"
    /\ cachedHead' \in Loaded(cachedHead, head)
    /\ UNCHANGED <<tail, pcC, max, batch, out, slots, producerVars, alive>>

-----------------------------------------------------------------------------
(* Drop *)

ProducerDrop ==
    /\ "producer" \in alive /\ pcP = "idle"
    /\ alive' = alive \ {"producer"}
    /\ UNCHANGED <<head, tail, slots, cachedTail, cachedHead, pcP, item, pcC, max,
                   batch, out>>

(* Drop of the consumer: pop until there is nothing. *)
ConsumerDrop ==
    /\ "consumer" \in alive /\ pcC = "idle"
    /\ pcC' = IF cachedHead = tail THEN "closing" ELSE "discard"
    /\ max' = 1
    /\ UNCHANGED <<tail, cachedHead, batch, out, slots, producerVars, alive>>

(* One pop of that loop: read the slot, then store tail. *)
DiscardRead ==
    /\ pcC = "discard" /\ batch = <<>>
    /\ batch' = <<slots[Slot(tail)]>>
    /\ slots' = [slots EXCEPT ![Slot(tail)] = NoItem]
    /\ UNCHANGED <<tail, cachedHead, pcC, max, out, producerVars, alive>>

DiscardRelease ==
    /\ pcC = "discard" /\ batch # <<>>
    /\ tail' = Plus(tail, 1)
    /\ out' = batch /\ batch' = <<>>
    /\ pcC' = IF cachedHead = Plus(tail, 1) THEN "closing" ELSE "discard"
    /\ UNCHANGED <<cachedHead, max, slots, producerVars, alive>>

(* The last reference goes: drop what was pushed and never popped. *)
RingDrop ==
    /\ alive = {"ring"}
    /\ slots' = [i \in 0..(Cap - 1) |->
                   IF \E k \in 0..(Sub(head, tail) - 1) : Slot(Plus(tail, k)) = i
                   THEN NoItem ELSE slots[i]]
    /\ alive' = {}
    /\ UNCHANGED <<producerVars, consumerVars>>

Producer == PushBegin \/ PushLoad \/ PushWrite \/ PushPublish \/ ProducerDrop
Consumer == \/ DrainBegin \/ DrainLoad \/ DrainRead \/ DrainRelease \/ IsEmpty
            \/ ConsumerDrop \/ DiscardRead \/ DiscardRelease

Next == Producer \/ Consumer \/ RingDrop

Spec == Init /\ [][Next]_vars

-----------------------------------------------------------------------------
(* Properties *)

TypeOK ==
    /\ head \in Index /\ tail \in Index
    /\ cachedTail \in Index /\ cachedHead \in Index
    /\ slots \in [0..(Cap - 1) -> Item \cup {NoItem}]
    /\ pcP \in {"idle", "load", "write", "publish"}
    /\ item \in Item \cup {NoItem}
    /\ pcC \in {"idle", "load", "read", "release", "closing", "discard"}
    /\ max \in 0..MaxBatch
    /\ batch \in Seq(Item) /\ out \in Seq(Item)
    /\ alive \subseteq {"producer", "consumer", "ring"}

(* No slot is written while it holds an item or read while it holds none:  *)
(* what the SAFETY comments of push, pop and drain_batch rest on, however  *)
(* old the cached indices are and wherever they wrap.  Once the ring is    *)
(* gone it holds no item (the two Drop implementations).                   *)
SlotDiscipline ==
    /\ pcP = "write" => slots[Slot(head)] = NoItem
    /\ pcC = "read" => slots[Slot(Plus(tail, Len(batch)))] # NoItem
    /\ (pcC = "discard" /\ batch = <<>>) => slots[Slot(tail)] # NoItem
    /\ alive = {} => \A i \in 0..(Cap - 1) : slots[i] = NoItem

(* The ring is a bounded FIFO: items come out once, in the order they went *)
(* in, never more than CAP are held, and a batch is taken as a whole.  The *)
(* queue is what lies between the published indices; items the consumer    *)
(* has read but not released still count.                                  *)
Held ==
    IF alive = {} THEN <<>>
    ELSE [k \in 1..Sub(head, tail) |->
            IF k <= Len(batch) THEN batch[k] ELSE slots[Slot(Plus(tail, k - 1))]]

Fifo == INSTANCE BoundedFifo WITH queue <- Held

ImplementsFifo == Fifo!Spec
=============================================================================
