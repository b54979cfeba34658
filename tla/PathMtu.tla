------------------------------- MODULE PathMtu -------------------------------
(***************************************************************************)
(* The search for the path MTU (crates/yip-transport/src/plpmtu.rs) at the *)
(* two ends of a session, and what it does to the objects that cross.  The *)
(* size an end settles on is the one it cuts its own objects with and the  *)
(* one it expects of the objects of the other end (Transport::             *)
(* set_symbol_size); it is not part of a symbol.                           *)
(***************************************************************************)
EXTENDS Integers, Sequences, FiniteSets

CONSTANTS
    Ladder,        \* PLPMTU_LADDER
    FirstSize,     \* data_symbol_size: what a DataPlane starts with
    ObjectSizes,   \* sizes of sealed packets
    Repair,        \* repair symbols of a batch
    MaxAttempts,   \* MAX_PROBE_ATTEMPTS
    MaxFallbacks,  \* bound: fallbacks of one end, and so of probe ids
    MaxWire        \* bound: datagrams on their way

Ends == {"a", "b"}
Other(e) == IF e = "a" THEN "b" ELSE "a"
Tiers == DOMAIN Ladder
Converged == 0     \* the tier of a controller that probes no more

VARIABLES
    ctl,      \* PlpmtuController of each end
    size,     \* Transport::symbol_size of each end
    width,    \* the largest tier the path carries
    moved,    \* ends whose address changed and whose peer has not noticed
    wire,     \* probes, acknowledgements and batches on their way
    failed,   \* history: the sizes agreed or differed when a batch was not put together
    stale     \* history: an acknowledgement from before a fallback counted

vars == <<ctl, size, width, moved, wire, failed, stale>>

(* PlpmtuController::new; gen counts the fallbacks. *)
Init ==
    /\ ctl = [e \in Ends |-> [confirmed |-> 1, tier |-> 2, attempts |-> 0,
                              active |-> 1, next |-> 2, gen |-> 0]]
    /\ size = [e \in Ends |-> FirstSize]
    /\ width = Len(Ladder)
    /\ moved = {} /\ wire = {} /\ failed = {} /\ stale = FALSE

-----------------------------------------------------------------------------
(* FecEncoder::build and FecReassembler::push *)

source_count(o, s) == (o + s - 1) \div s

(* The symbols of an object of o bytes cut at s: index and length. *)
build(o, s) ==
    LET k == source_count(o, s) IN
    {[i |-> i, len |-> IF k = 1 THEN o ELSE IF i = k - 1 THEN o - (k - 1) * s ELSE s] :
       i \in 0..(k - 1 + Repair)}

(* Faulty variant: the short symbol is expected one place too late. *)
expected_late(i, o, s) ==
    IF i = source_count(o, s) THEN o - i * s ELSE IF o < s THEN o ELSE s

expected_wire_len(i, o, s) ==
    IF i = source_count(o, s) - 1 THEN o - i * s ELSE IF o < s THEN o ELSE s

(* Whether a receiver that holds nothing of the object completes it from   *)
(* the whole batch.                                                        *)
Rebuilds(o, cut, s) ==
    Cardinality({y \in build(o, cut) : y.len = expected_wire_len(y.i, o, s)})
      >= source_count(o, s)

-----------------------------------------------------------------------------
(* PlpmtuController *)

Room == Cardinality(wire) < MaxWire

(* on_tick: the next attempt, or none after the last; sent as a probe. *)
OnTick(e) ==
    LET c == ctl[e] IN
    /\ c.tier # Converged
    /\ IF c.attempts = MaxAttempts
       THEN ctl' = [ctl EXCEPT ![e].tier = Converged] /\ wire' = wire
       ELSE /\ Room
            /\ ctl' = [ctl EXCEPT ![e].attempts = @ + 1]
            /\ wire' = wire \cup {[type |-> "probe", from |-> e, id |-> c.active,
                                   tier |-> c.tier, gen |-> c.gen]}
    /\ UNCHANGED <<size, width, moved, failed, stale>>

(* Faulty variant: the probes after the fallback keep their id. *)
fallback_same_id(c) == [c EXCEPT !.confirmed = 1, !.tier = 2, !.attempts = 0, !.gen = @ + 1]

(* What on_blackhole and reset_to_floor share. *)
fallback(c) ==
    [c EXCEPT !.confirmed = 1, !.tier = 2, !.attempts = 0, !.gen = @ + 1,
              !.active = c.next, !.next = @ + 1]

(* A report of severe loss: on_blackhole. *)
OnBlackhole(e) ==
    /\ ctl[e].confirmed > 1 /\ ctl[e].gen < MaxFallbacks
    /\ ctl'  = [ctl EXCEPT ![e] = fallback(@)]
    /\ size' = [size EXCEPT ![e] = Ladder[1]]
    /\ UNCHANGED <<width, moved, wire, failed, stale>>

(* on_ack *)
Confirms(c, m) == c.tier # Converged /\ m.id = c.active /\ m.tier = c.tier

Promoted(c) ==
    IF c.tier < Len(Ladder)
    THEN [c EXCEPT !.confirmed = c.tier, !.tier = @ + 1, !.attempts = 0,
                   !.active = c.next, !.next = @ + 1]
    ELSE [c EXCEPT !.confirmed = c.tier, !.tier = Converged]

-----------------------------------------------------------------------------
(* The datagrams *)

(* An end moves to another address and with it to another path. *)
Roam(e) ==
    /\ ctl[Other(e)].gen < MaxFallbacks
    /\ moved' = moved \cup {e}
    /\ width' \in Tiers
    /\ UNCHANGED <<ctl, size, wire, failed, stale>>

Send(e, o) ==
    /\ Room
    /\ wire' = wire \cup {[type |-> "batch", from |-> e, object |-> o, cut |-> size[e]]}
    /\ UNCHANGED <<ctl, size, width, moved, failed, stale>>

Lose(m) ==
    /\ wire' = wire \ {m}
    /\ UNCHANGED <<ctl, size, width, moved, failed, stale>>

(* What an end does with a datagram.  An authentic one from a new address  *)
(* also redirects the session after it was handled: set_peer_addr, which   *)
(* falls back.                                                             *)
Handled(e, m) ==
    IF m.type = "ack" /\ Confirms(ctl[e], m)
    THEN [c |-> Promoted(ctl[e]), s |-> Ladder[m.tier]]
    ELSE [c |-> ctl[e], s |-> size[e]]

Deliver(m) ==
    LET e == Other(m.from)
        h == Handled(e, m)
        learns == m.from \in moved /\ ctl[e].gen < MaxFallbacks
    IN /\ m.type = "probe" => m.tier <= width
       /\ ctl'   = [ctl EXCEPT ![e] = IF learns THEN fallback(h.c) ELSE h.c]
       /\ size'  = [size EXCEPT ![e] = IF learns THEN Ladder[1] ELSE h.s]
       /\ moved' = moved \ {m.from}
       /\ wire'  = (wire \ {m}) \cup
            IF m.type # "probe" THEN {}
            ELSE {[type |-> "ack", from |-> e, id |-> m.id, tier |-> m.tier, gen |-> m.gen]}
       /\ failed' = failed \cup
            IF m.type = "batch" /\ ~Rebuilds(m.object, m.cut, size[e])
            THEN {IF m.cut = size[e] THEN "agreed" ELSE "differed"} ELSE {}
       /\ stale' = (stale \/ (m.type = "ack" /\ Confirms(ctl[e], m) /\ m.gen # ctl[e].gen))
       /\ width' = width

Next ==
    \/ \E e \in Ends : OnTick(e) \/ OnBlackhole(e) \/ Roam(e)
    \/ \E e \in Ends, o \in ObjectSizes : Send(e, o)
    \/ \E m \in wire : Deliver(m) \/ Lose(m)

Spec == Init /\ [][Next]_vars

-----------------------------------------------------------------------------
(* Properties *)

TypeOK ==
    /\ \A e \in Ends :
         /\ ctl[e].confirmed \in Tiers /\ ctl[e].tier \in Tiers \cup {Converged}
         /\ ctl[e].attempts \in 0..MaxAttempts
         /\ ctl[e].tier # Converged => ctl[e].tier = ctl[e].confirmed + 1
         /\ size[e] \in {FirstSize} \cup {Ladder[t] : t \in Tiers}
    /\ width \in Tiers /\ moved \subseteq Ends

(* A tier counts as confirmed only by a probe sent since the last          *)
(* fallback: an acknowledgement that was under way when the peer moved or  *)
(* a black hole was noticed is not taken for one of the new path (on_ack,  *)
(* on_blackhole, reset_to_floor).                                          *)
NoStaleAck == ~stale

(* Whatever the sizes, a batch cut and expected at the same size is put    *)
(* together: the lengths that build gives the symbols, the short last one  *)
(* and the only one included, are those that push expects.                 *)
RebuiltWhenAgreed == "agreed" \notin failed

(* A receiver that has nothing of an object completes it from a whole      *)
(* batch, as the comments on repair_object and repair_with_id say of a     *)
(* retransmission.                                                         *)
BatchSuffices == failed = {}
=============================================================================
