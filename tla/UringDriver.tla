----------------------------- MODULE UringDriver -----------------------------
(***************************************************************************)
(* The io_uring driver of a tunnel (crates/yip-io/src/uring.rs, with the   *)
(* grouping of gso.rs): send slots, receive slots and provided buffers     *)
(* that are lent to the kernel with a request and come back with its       *)
(* completion.  The kernel answers requests in any order, and with errors. *)
(* A request is <<kind, number>>.  The submission queue has room: push     *)
(* submits what is queued and tries again.                                 *)
(***************************************************************************)
EXTENDS Integers, SequencesExt

CONSTANTS
    SendSlots,    \* SEND_SLOTS
    RecvDepth,    \* UDP_RECV_DEPTH
    ReadDepth,    \* TUN_READ_DEPTH, each read with one of as many buffers
    MaxRun,       \* max_gso_run_len
    MaxPending,   \* MAX_PENDING_GSO_DATAGRAMS
    Shape         \* bound: the datagrams to send, with fate, dst and length

VARIABLES
    q,             \* in_flight slots, the submission queue, and what was dropped
    submitted,          \* requests the kernel has
    pool,          \* buffers the kernel may fill
    cqes,          \* completions not handled; the kernel chose their order
    pending_gso,   \* datagrams staged since the last flush
    gso_enabled,
    phase,         \* waiting, handling completions, or fallen back to polling
    made,          \* datagrams dispatched so far
    sent           \* history: how often each datagram went out

uringVars == <<q, submitted, pool, cqes, pending_gso, gso_enabled, phase, made, sent>>

Slots == 1..SendSlots
Free == [kind |-> "free", gso |-> FALSE, msgs |-> <<>>]
Receives == {<<"recv", i>> : i \in 1..RecvDepth} \cup {<<"read", i>> : i \in 1..ReadDepth}

(* UringDriver::new *)
UringInit ==
    /\ q = [slots |-> [s \in Slots |-> Free], sq |-> {}, lost |-> {}]
    /\ submitted = Receives /\ pool = 1..ReadDepth
    /\ cqes = {}
    /\ pending_gso = <<>>
    /\ gso_enabled = TRUE
    /\ phase = "wait"
    /\ made = 0
    /\ sent = [g \in DOMAIN Shape |-> 0]

-----------------------------------------------------------------------------
(* Sending *)

(* Faulty variant: a slot is free once its request is submitted. *)
is_free_early(t, s) == <<"send", s>> \notin t.sq

is_free(t, s) == t.slots[s] = Free

(* store_in_flight and the request for it; without a slot the datagrams    *)
(* are dropped.                                                            *)
Queue(t, kind, gso, msgs) ==
    LET free == {s \in Slots : is_free(t, s)} IN
    IF free = {} THEN [t EXCEPT !.lost = @ \cup Range(msgs)]
    ELSE LET s == CHOOSE s \in free : \A r \in free : s <= r IN
         [t EXCEPT !.slots[s] = [kind |-> kind, gso |-> gso, msgs |-> msgs],
                   !.sq = @ \cup {<<"send", s>>}]

queue_udp_send(t, g) == Queue(t, "udp", FALSE, <<g>>)
queue_tun_write(t) == Queue(t, "tun", FALSE, <<>>)

can_coalesce(run) ==
    /\ Len(run) >= 2
    /\ \A i, j \in DOMAIN run : i # j =>
         /\ Shape[run[i]].dst = Shape[run[j]].dst /\ Shape[run[i]].len = Shape[run[j]].len
         /\ Shape[run[i]].fate # Shape[run[j]].fate

Chunks(run) ==
    [i \in 1..((Len(run) + MaxRun - 1) \div MaxRun) |->
       SubSeq(run, (i - 1) * MaxRun + 1, IF i * MaxRun < Len(run) THEN i * MaxRun ELSE Len(run))]

(* queue_udp_batch_tagged; no slot comes free in between, so the rest of   *)
(* a batch is dropped with the datagram that finds none.                   *)
queue_udp_batch_tagged(t, run, allow_gso) ==
    IF allow_gso /\ gso_enabled /\ can_coalesce(run)
    THEN FoldLeft(LAMBDA u, c : Queue(u, "udp", TRUE, c), t, Chunks(run))
    ELSE FoldLeft(queue_udp_send, t, run)

(* One pass of flush_pending_gso over what is staged. *)
Pick(staged) ==
    FoldLeft(LAMBDA a, g :
               IF \E i \in DOMAIN a.chunk :
                    Shape[a.chunk[i]].fate = Shape[g].fate \/ Shape[a.chunk[1]].dst # Shape[g].dst
               THEN [a EXCEPT !.deferred = Append(@, g)]
               ELSE [a EXCEPT !.chunk = Append(@, g)],
             [chunk |-> <<>>, deferred |-> <<>>], staged)

flush_pending_gso(t, staged) ==
    FoldLeft(LAMBDA a, pass :
               LET p == Pick(a.staged)
               IN [t |-> queue_udp_batch_tagged(a.t, p.chunk, TRUE), staged |-> p.deferred],
             [t |-> t, staged |-> staged], staged).t

-----------------------------------------------------------------------------
(* The kernel *)

(* n is the number of segments that went out, or the buffer that is        *)
(* filled.  Handling reads nothing that a completion changes, so that the  *)
(* kernel need only move while the driver waits.                           *)
Complete(r, result, n) ==
    /\ phase = "wait"
    /\ submitted' = submitted \ {r}
    /\ cqes' = cqes \cup {[req |-> r, result |-> result, n |-> n]}
    /\ UNCHANGED <<q, pending_gso, gso_enabled, phase, made>>

(* A send goes out whole, fails, or ends after some of the segments. *)
KernelSend(s) ==
    LET m == q.slots[s]
        out(n) == sent' = [g \in DOMAIN sent |->
                             sent[g] + Cardinality({i \in 1..n : m.msgs[i] = g})]
    IN /\ <<"send", s>> \in submitted
       /\ UNCHANGED pool
       /\ \/ Complete(<<"send", s>>, "ok", Len(m.msgs)) /\ out(Len(m.msgs))
          \/ /\ m.gso
             /\ \E n \in 1..(Len(m.msgs) - 1) : Complete(<<"send", s>>, "ok", n) /\ out(n)
          \/ /\ \E e \in {"transient", IF m.gso THEN "unsupported" ELSE "fatal"} :
                  Complete(<<"send", s>>, e, 0)
             /\ UNCHANGED sent

KernelReceive(r) ==
    /\ r \in submitted \cap Receives
    /\ \/ /\ r[1] = "read" /\ pool # {}
          /\ \E b \in pool : Complete(r, "ok", b) /\ pool' = pool \ {b}
       \/ r[1] = "recv" /\ Complete(r, "ok", 0) /\ UNCHANGED pool
       \/ (\E e \in {"transient", "fatal"} : Complete(r, e, 0)) /\ UNCHANGED pool
    /\ UNCHANGED sent

-----------------------------------------------------------------------------
(* poll_once *)

(* The completions there are, or none when the wait ends at the tick. *)
Take ==
    /\ phase = "wait"
    /\ phase' = "handle"
    /\ UNCHANGED <<q, submitted, pool, cqes, pending_gso, gso_enabled, made, sent>>

release(t, s) == [t EXCEPT !.slots[s] = Free]

(* A fatal error: run_uring drops the driver and runs the poll loop. *)
FallBack ==
    /\ phase' = "poll"
    /\ q' = [slots |-> [s \in Slots |-> Free], sq |-> {}, lost |-> {}]
    /\ submitted' = {} /\ pool' = {} /\ cqes' = {} /\ pending_gso' = <<>>
    /\ UNCHANGED <<gso_enabled, made, sent>>

(* Faulty variant: after a partial completion everything is sent again. *)
unsent_all(m, n) == IF n = Len(m.msgs) THEN <<>> ELSE m.msgs

(* recover_gso_fallback_datagrams, recover_gso_unsent_datagrams *)
unsent(m, n) == SubSeq(m.msgs, n + 1, Len(m.msgs))

HandleSend(c) ==
    LET s == c.req[2]  m == q.slots[s] IN
    /\ phase = "handle" /\ c.req[1] = "send"
    /\ IF m.kind = "udp" /\ ~m.gso /\ c.result = "fatal" THEN FallBack
       ELSE /\ cqes' = cqes \ {c}
            /\ q' = IF m.gso
                    THEN FoldLeft(queue_udp_send, release(q, s), unsent(m, c.n))
                    ELSE [release(q, s) EXCEPT
                            !.lost = @ \cup IF c.result = "ok" THEN {} ELSE Range(m.msgs)]
            /\ gso_enabled' = (gso_enabled /\ c.result # "unsupported")
            /\ UNCHANGED <<submitted, pool, pending_gso, phase, made, sent>>

(* arm_udp_recv_slot, arm_tun_read *)
rearmed(t, c) == [t EXCEPT !.sq = @ \cup {c.req}]

New(n) == [i \in 1..n |-> made + i]

(* A datagram: on_udp may have a frame for the device and datagrams to     *)
(* send, which are never coalesced.                                        *)
HandleRecv(c) ==
    /\ phase = "handle" /\ c.req[1] = "recv"
    /\ IF c.result = "fatal" THEN FallBack
       ELSE /\ cqes' = cqes \ {c}
            /\ \E inner \in BOOLEAN, n \in {0, 1} :
                 /\ made + n <= Len(Shape)
                 /\ c.result = "transient" => ~inner /\ n = 0
                 /\ q' = rearmed(queue_udp_batch_tagged(
                           IF inner THEN queue_tun_write(q) ELSE q, New(n), FALSE), c)
                 /\ made' = made + n
            /\ UNCHANGED <<submitted, pool, pending_gso, gso_enabled, phase, sent>>

(* A frame: the datagrams of on_tun are staged. *)
HandleRead(c) ==
    /\ phase = "handle" /\ c.req[1] = "read"
    /\ IF c.result = "fatal" THEN FallBack
       ELSE /\ cqes' = cqes \ {c}
            /\ \E n \in 0..2 :
                 LET staged == pending_gso \o New(n)
                     full   == Len(staged) >= MaxPending
                     back   == IF c.result = "transient" THEN {} ELSE {<<"provide", c.n>>}
                     t      == IF full THEN flush_pending_gso(q, staged) ELSE q
                 IN /\ made + n <= Len(Shape)
                    /\ c.result = "transient" => n = 0
                    /\ pending_gso' = IF full THEN <<>> ELSE staged
                    /\ q' = rearmed([t EXCEPT !.sq = @ \cup back], c)
                    /\ made' = made + n
            /\ UNCHANGED <<submitted, pool, gso_enabled, phase, sent>>

(* The end of poll_once, with what tick sends, and the submission at the   *)
(* beginning of the next.                                                  *)
Finish ==
    /\ phase = "handle" /\ cqes = {}
    /\ \E n \in {0, 1} :
         LET t == FoldLeft(queue_udp_send, flush_pending_gso(q, pending_gso), New(n))
         IN /\ made + n <= Len(Shape)
            /\ made' = made + n
            /\ q' = [t EXCEPT !.sq = {}]
            /\ submitted' = submitted \cup {r \in t.sq : r[1] # "provide"}
            /\ pool' = pool \cup {r[2] : r \in {r \in t.sq : r[1] = "provide"}}
    /\ pending_gso' = <<>>
    /\ phase' = "wait"
    /\ UNCHANGED <<cqes, gso_enabled, sent>>

UringNext ==
    \/ \E s \in Slots : KernelSend(s)
    \/ \E r \in Receives : KernelReceive(r)
    \/ Take \/ Finish
    \/ \E c \in cqes : HandleSend(c) \/ HandleRecv(c) \/ HandleRead(c)

UringSpec == UringInit /\ [][UringNext]_uringVars

-----------------------------------------------------------------------------
(* Properties, until the driver falls back *)

Completed == {c.req : c \in cqes}

(* What is lent to the kernel comes back, once.  A slot is occupied        *)
(* exactly while one request for it is queued, with the kernel, or         *)
(* completed and not yet handled: no buffer is reused under the kernel and *)
(* no slot leaks (store_in_flight, release_in_flight_slot).  Every receive *)
(* returns to the kernel, whatever its completion said, and a read that    *)
(* the kernel has finds a buffer (arm_udp_recv_slot, arm_tun_read,         *)
(* reprovide_buffer).                                                      *)
LentRight ==
    phase # "poll" =>
      /\ {s \in Slots : q.slots[s] # Free} =
           {s \in Slots : <<"send", s>> \in q.sq \cup submitted \cup Completed}
      /\ \A s \in Slots :
           Cardinality({p \in 1..2 : <<"send", s>> \in <<q.sq, submitted>>[p]})
             + Cardinality({c \in cqes : c.req = <<"send", s>>}) <= 1
      /\ Receives \subseteq q.sq \cup submitted \cup Completed
      /\ Cardinality(pool) >= Cardinality({r \in submitted : r[1] = "read"})

Waiting(s) ==
    LET done == {c \in cqes : c.req = <<"send", s>>}
    IN Range(IF done = {} THEN q.slots[s].msgs
             ELSE unsent(q.slots[s], (CHOOSE c \in done : TRUE).n))

(* Each datagram is staged, waits in one slot, was dropped, or went out    *)
(* once: neither the fallback from a failed coalesced send nor the rest of *)
(* a partial one loses or repeats a datagram                               *)
(* (recover_gso_fallback_datagrams, recover_gso_unsent_datagrams).  Those  *)
(* sent together have one destination and one length, and no two of them   *)
(* are of one FEC object, so that no loss takes a symbol together with its *)
(* repair (can_coalesce, flush_pending_gso).                               *)
SentRight ==
    /\ phase # "poll" =>
         \A g \in 1..made :
           sent[g] + Cardinality({i \in DOMAIN pending_gso : pending_gso[i] = g})
             + Cardinality({s \in Slots : g \in Waiting(s)})
             + Cardinality({g} \cap q.lost) = 1
    /\ \A s \in Slots : \A i, j \in DOMAIN q.slots[s].msgs : i # j =>
         LET a == Shape[q.slots[s].msgs[i]]  b == Shape[q.slots[s].msgs[j]]
         IN a.dst = b.dst /\ a.len = b.len /\ a.fate # b.fate
=============================================================================
