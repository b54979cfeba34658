----------------------------- MODULE ObjectTable -----------------------------
(***************************************************************************)
(* The open-addressed table of the reassembler (ObjectTable of             *)
(* crates/yip-transport/src/fec.rs): linear probing, and deletion that     *)
(* shifts the entries behind it back instead of leaving a mark.  The hash  *)
(* is an arbitrary function, chosen once.                                  *)
(***************************************************************************)
EXTENDS Integers, Sequences, FiniteSets, Folds

CONSTANTS
    ObjKey,    \* object keys
    Places     \* number of slots, a power of two

VARIABLES
    hash_key,   \* the hash function
    places,     \* the slots
    stored      \* history: the keys inserted and not removed

objVars == <<hash_key, places, stored>>

Place == 0..(Places - 1)
Empty == 0

ObjInit ==
    /\ hash_key \in [ObjKey -> Place]
    /\ places = [p \in Place |-> Empty]
    /\ stored = {}

Step(p, n) == (p + n) % Places

(* The slot where a probe for k ends: its own or the first empty one. *)
Probe(k) ==
    LET ends(n) == places[Step(hash_key[k], n)] \in {k, Empty}
    IN Step(hash_key[k], CHOOSE n \in Place : ends(n) /\ \A j \in 0..(n - 1) : ~ends(j))

Found(k) == places[Probe(k)] = k

(* A slot stays empty: the table has twice the capacity of the             *)
(* reassembler, which evicts before it inserts.                            *)
Insert(k) ==
    /\ Cardinality(stored \cup {k}) < Places
    /\ places' = [places EXCEPT ![Probe(k)] = k]
    /\ stored' = stored \cup {k}
    /\ UNCHANGED hash_key

(* Faulty variant: the table is taken for a line. *)
should_move_line(natural, idx, next) == natural <= idx

(* Whether the entry at next, whose hash is natural, belongs at or before  *)
(* the hole at idx.                                                        *)
should_move(natural, idx, next) ==
    IF next >= idx THEN natural <= idx \/ natural > next
    ELSE natural <= idx /\ natural > next

(* remove, with the backward shift over the run behind the hole. *)
Remove(k) ==
    LET hole == Probe(k)
        Free(n) == places[Step(hole, n)] = Empty
        run == (CHOOSE n \in 1..Places : (n = Places \/ Free(n)) /\ \A j \in 1..(n - 1) : ~Free(j)) - 1
        shift(n, t) ==
            LET next == Step(hole, n) IN
            IF should_move(hash_key[t.slots[next]], t.idx, next)
            THEN [slots |-> [t.slots EXCEPT ![t.idx] = t.slots[next], ![next] = Empty],
                  idx |-> next]
            ELSE t
        after == MapThenFoldSet(LAMBDA n, t : shift(n, t),
                                [slots |-> [places EXCEPT ![hole] = Empty], idx |-> hole],
                                LAMBDA n : n,
                                LAMBDA S : CHOOSE n \in S : \A m \in S : m <= n,
                                1..run)
    IN /\ Found(k)
       /\ places' = after.slots
       /\ stored' = stored \ {k}
       /\ UNCHANGED hash_key

ObjNext == \E k \in ObjKey : Insert(k) \/ Remove(k)

ObjSpec == ObjInit /\ [][ObjNext]_objVars

-----------------------------------------------------------------------------
(* Properties *)

(* For every hash function and every order of insertions and removals, a   *)
(* lookup finds exactly the objects that are in flight, and each is stored *)
(* once: no removal leaves an object behind a hole (find_index, insert,    *)
(* remove).                                                                *)
FindsStored ==
    /\ \A k \in ObjKey : Found(k) <=> k \in stored
    /\ \A p, q \in Place : places[p] = places[q] /\ places[p] # Empty => p = q
=============================================================================
