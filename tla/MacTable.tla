------------------------------ MODULE MacTable ------------------------------
(***************************************************************************)
(* The table of learned MAC addresses (bin/yipd/src/mac_table.rs): an      *)
(* index into a slab whose nodes are linked in the order they were last    *)
(* learned, beside that order as a plain sequence.                         *)
(***************************************************************************)
EXTENDS Integers, SequencesExt

CONSTANTS
    Mac,           \* learnable addresses
    MacCapacity,   \* capacity
    MacTtl,        \* ttl_ms
    MaxMacTime     \* bound: the clock

VARIABLES
    mac_now,
    table,      \* index, nodes, free, head and tail
    recency     \* reference: the addresses, last learned first, and when

macVars == <<mac_now, table, recency>>

Nil == 0   \* NIL; slots are numbered from 1

MacInit ==
    /\ mac_now = 0
    /\ table = [index |-> <<>>, nodes |-> <<>>, free |-> <<>>, head |-> Nil, tail |-> Nil]
    /\ recency = <<>>

(* Faulty variant: the tail is not repaired. *)
unlink_no_tail(t, s) ==
    LET p == t.nodes[s].prev  n == t.nodes[s].next IN
    [t EXCEPT !.nodes = [i \in DOMAIN t.nodes |->
                           CASE i = s -> [t.nodes[i] EXCEPT !.prev = Nil, !.next = Nil]
                             [] i = p -> [t.nodes[i] EXCEPT !.next = n]
                             [] i = n -> [t.nodes[i] EXCEPT !.prev = p]
                             [] OTHER -> t.nodes[i]],
              !.head = IF p = Nil THEN n ELSE @]

unlink(t, s) ==
    LET p == t.nodes[s].prev  n == t.nodes[s].next IN
    [t EXCEPT !.nodes = [i \in DOMAIN t.nodes |->
                           CASE i = s -> [t.nodes[i] EXCEPT !.prev = Nil, !.next = Nil]
                             [] i = p -> [t.nodes[i] EXCEPT !.next = n]
                             [] i = n -> [t.nodes[i] EXCEPT !.prev = p]
                             [] OTHER -> t.nodes[i]],
              !.head = IF p = Nil THEN n ELSE @,
              !.tail = IF n = Nil THEN p ELSE @]

push_front(t, s) ==
    [t EXCEPT !.nodes = [i \in DOMAIN t.nodes |->
                           CASE i = s      -> [t.nodes[i] EXCEPT !.prev = Nil, !.next = t.head]
                             [] i = t.head -> [t.nodes[i] EXCEPT !.prev = s]
                             [] OTHER      -> t.nodes[i]],
              !.head = s,
              !.tail = IF @ = Nil THEN s ELSE @]

move_to_front(t, s) == IF t.head = s THEN t ELSE push_front(unlink(t, s), s)

remove(t, m) ==
    [unlink(t, t.index[m]) EXCEPT
       !.index = [x \in DOMAIN t.index \ {m} |-> t.index[x]],
       !.free  = Append(@, t.index[m])]

evict_tail(t) == IF t.tail = Nil THEN t ELSE remove(t, t.nodes[t.tail].mac)

(* alloc and the insertion into the index and the list. *)
insert(t, m, seen) ==
    LET node == [mac |-> m, seen |-> seen, prev |-> Nil, next |-> Nil]
        slot == IF t.free # <<>> THEN Last(t.free) ELSE Len(t.nodes) + 1
        used == IF t.free # <<>>
                THEN [t EXCEPT !.free = Front(@), !.nodes[slot] = node]
                ELSE [t EXCEPT !.nodes = Append(@, node)]
    IN push_front([used EXCEPT !.index = [x \in DOMAIN @ \cup {m} |-> IF x = m THEN slot ELSE @[x]]],
                  slot)

Others(m) == SelectSeq(recency, LAMBDA r : r[1] # m)

learn(m) ==
    /\ table' = IF m \in DOMAIN table.index
                THEN LET s == table.index[m]
                     IN move_to_front([table EXCEPT !.nodes[s].seen = mac_now], s)
                ELSE insert(IF Cardinality(DOMAIN table.index) >= MacCapacity
                            THEN evict_tail(table) ELSE table,
                            m, mac_now)
    /\ recency' = LET r == <<<<m, mac_now>>>> \o Others(m)
                  IN SubSeq(r, 1, IF Len(r) > MacCapacity THEN MacCapacity ELSE Len(r))
    /\ UNCHANGED mac_now

Aged(seen) == mac_now - seen > MacTtl

(* sweep, in whatever order the hash map lists the aged entries. *)
sweep ==
    LET aged == {m \in DOMAIN table.index : Aged(table.nodes[table.index[m]].seen)} IN
    /\ \E order \in SetToSeqs(aged) : table' = FoldLeft(remove, table, order)
    /\ recency' = SelectSeq(recency, LAMBDA r : ~Aged(r[2]))
    /\ UNCHANGED mac_now

MacTime == mac_now < MaxMacTime /\ mac_now' = mac_now + 1 /\ UNCHANGED <<table, recency>>

MacNext == (\E m \in Mac : learn(m)) \/ sweep \/ MacTime

MacSpec == MacInit /\ [][MacNext]_macVars

-----------------------------------------------------------------------------
(* Properties *)

(* The links, followed from either end, list the addresses of the index in *)
(* the order they were last learned, so that the tail is the one to evict, *)
(* and every slot of the slab is either in the index or free, once         *)
(* (learn, remove, evict_tail, unlink, push_front, alloc).                 *)
LinksAreRecency ==
    LET n      == Len(recency)
        slot   == [i \in 1..n |-> table.index[recency[i][1]]]
        at(i)  == IF i \in 1..n THEN slot[i] ELSE Nil
    IN /\ DOMAIN table.index = {recency[i][1] : i \in 1..n}
       /\ table.head = at(1) /\ table.tail = at(n)
       /\ \A i \in 1..n : table.nodes[slot[i]] =
            [mac |-> recency[i][1], seen |-> recency[i][2], prev |-> at(i - 1), next |-> at(i + 1)]
       /\ IsInjective(slot \o table.free)
       /\ Range(slot \o table.free) = DOMAIN table.nodes
       /\ Len(table.nodes) <= MacCapacity
=============================================================================
