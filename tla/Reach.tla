------------------------------- MODULE Reach --------------------------------
(***************************************************************************)
(* How two daemons find a way to each other: the ladder of path.rs from    *)
(* the configured endpoint over a punched address to the relay, the        *)
(* handshake that follows it over each of them (peer_manager/relay.rs,     *)
(* handshake.rs, tick_dispatch), and the rendezvous server between them.   *)
(* Datagrams on the direct way may be lost, late or doubled; the server    *)
(* keeps the order.  The elapsing of a window is a choice of the step.     *)
(* Rekeys of a running session are PeerSession's; of them only the part    *)
(* that moves a session to the relay is here.                              *)
(***************************************************************************)
EXTENDS Integers, Sequences, FiniteSets

CONSTANTS
    Lower, Higher, \* the daemons, in the order of their public keys
    Seen,          \* the address a daemon's datagrams come from
    Listed,        \* the first endpoint in its signed record, if any
    MaxInits,      \* bound: handshakes a daemon begins
    MaxWire,       \* bound: datagrams on the direct way
    MaxQueue       \* bound: datagrams of the server to one daemon

Node == {Lower, Higher}
Addr == {"endpoint", "reflexive"}
None == "none"

ASSUME ReachAssumption ==
    /\ Seen \in [Node -> Addr] /\ Listed \in [Node -> Addr \cup {None}]
    /\ {MaxInits, MaxWire, MaxQueue} \subseteq Nat

VARIABLES
    peer,      \* peer[n]: what n keeps of the other
    regs,      \* server: who has registered
    wire,      \* datagrams on the direct way
    queue      \* queue[n]: datagrams of the server on their way to n

vars == <<peer, regs, wire, queue>>

Other(n) == IF n = Lower THEN Higher ELSE Lower

(* A session is named by the Init that made it.  Init labels grow, so that *)
(* one number is both the ephemeral and the time stamp.                    *)
Session  == [by : Node, eph : 1..MaxInits]
Payload  == [type : {"Init", "Resp", "Data"}, sess : Session]
Epoch    == [sess : Session, to_server : BOOLEAN]
NoEpoch  == [sess |-> [by |-> Lower, eph |-> 0], to_server |-> FALSE]
Datagram == [to : Node, at : Addr, payload : Payload]
FromServer ==
    [type : {"PeerInfo", "PunchHint"}, node : Node, addr : Addr]
      \cup [type : {"RelayDeliver"}, payload : Payload]

Peer ==
    [state : {"Idle", "Handshaking", "Established"},
     stage : {"Direct", "Punching", "Relaying"}, candidate : Addr \cup {None},
     committed : BOOLEAN, relay_only : BOOLEAN, relay : BOOLEAN, endpoint : Addr \cup {None},
     target : Addr \cup {None}, via_relay : BOOLEAN,
     inits : 0..MaxInits, last_accepted : 0..MaxInits, cached : 0..MaxInits,
     current : Epoch \cup {NoEpoch}, next : Epoch \cup {NoEpoch}]

TypeOK ==
    /\ peer \in [Node -> Peer]
    /\ \A n \in Node : peer[n].state = "Handshaking" =>
         IF peer[n].via_relay THEN peer[n].relay ELSE peer[n].target \in Addr
    /\ regs \subseteq Node
    /\ wire \subseteq Datagram /\ Cardinality(wire) <= MaxWire
    /\ \A n \in Node : queue[n] \in Seq(FromServer) /\ Len(queue[n]) <= MaxQueue

(* PeerManager::new, PathState::new, relay_only: a configuration may name  *)
(* an endpoint of the peer, and a tls:// rendezvous leaves only the relay. *)
Init ==
    /\ \E HasEndpoint \in SUBSET Node, tls \in BOOLEAN :
         peer = [n \in Node |->
           [state |-> "Idle",
            stage |-> IF tls THEN "Relaying"
                      ELSE IF n \in HasEndpoint THEN "Direct" ELSE "Punching",
            candidate |-> None, committed |-> FALSE, relay_only |-> tls, relay |-> FALSE,
            endpoint |-> IF n \in HasEndpoint THEN "endpoint" ELSE None,
            target |-> None, via_relay |-> FALSE, inits |-> 0, last_accepted |-> 0,
            cached |-> 0, current |-> NoEpoch, next |-> NoEpoch]]
    /\ regs = {}
    /\ wire = {}
    /\ queue = [n \in Node |-> <<>>]

-----------------------------------------------------------------------------
(* What a handler did: the peer as it left it, the datagrams it sent       *)
(* directly, the payloads it sent by the relay, and whether it looked the  *)
(* other up.                                                               *)
Quiet(p) == [p |-> p, direct |-> {}, relayed |-> <<>>, lookup |-> FALSE]

(* PathState::advance: the peer with its stage, and what to do. *)
advance(p, elapsed) ==
    LET punch(q) == [p |-> [q EXCEPT !.stage = "Punching"],
                     act |-> IF q.candidate = None THEN "NeedLookup" ELSE q.candidate]
    IN
    CASE p.relay_only -> [p |-> p, act |-> "Relay"]
      [] ~p.relay_only /\ p.committed -> [p |-> p, act |-> "Idle"]
      [] ~p.relay_only /\ ~p.committed /\ p.stage = "Direct" ->
           IF ~elapsed THEN [p |-> p, act |-> "endpoint"] ELSE punch(p)
      [] ~p.relay_only /\ ~p.committed /\ p.stage = "Punching" ->
           IF ~elapsed THEN punch(p)
           ELSE [p |-> [p EXCEPT !.stage = "Relaying"], act |-> "Relay"]
      [] ~p.relay_only /\ ~p.committed /\ p.stage = "Relaying" -> [p |-> p, act |-> "Relay"]

(* PathState::on_peer_candidate *)
on_peer_candidate(p, addr) ==
    [p EXCEPT !.candidate = addr,
              !.stage = IF @ = "Direct" THEN "Punching" ELSE @]

(* The Init under which p has a handshake in flight. *)
Init_(p, n) == [type |-> "Init", sess |-> [by |-> n, eph |-> p.inits]]

(* begin_handshake: a fresh Init over the relay, or directly to an address *)
begin_handshake(p, n, act) ==
    LET q == [p EXCEPT !.state = "Handshaking", !.inits = @ + 1,
                       !.via_relay = (act = "Relay"),
                       !.target = IF act = "Relay" THEN None ELSE act,
                       !.relay = (act = "Relay") \/ @,
                       !.endpoint = IF act = "Relay" THEN @ ELSE act]
    IN IF act = "Relay"
       THEN [Quiet(q) EXCEPT !.relayed = <<Init_(q, n)>>]
       ELSE [Quiet(q) EXCEPT !.direct = {[at |-> act, payload |-> Init_(q, n)]}]

(* drive_path_idle; on_tun_dispatch does the same for an Idle peer. *)
drive_path_idle(p, n, elapsed) ==
    LET a == advance(p, elapsed) IN
    CASE a.act \in Addr \cup {"Relay"} -> begin_handshake(a.p, n, a.act)
      [] a.act = "NeedLookup" -> [Quiet(a.p) EXCEPT !.lookup = TRUE]
      [] a.act = "Idle" -> Quiet(a.p)

(* tick_dispatch for a Handshaking peer past its retry time: the same Init *)
(* again, over the relay when the peer is flagged so.                      *)
retransmit(p, n) ==
    IF p.relay THEN [Quiet(p) EXCEPT !.relayed = <<Init_(p, n)>>]
    ELSE [Quiet(p) EXCEPT !.direct = {[at |-> p.target, payload |-> Init_(p, n)]}]

(* Faulty: the endpoint of the abandoned candidate stays. *)
escalate_keeping_endpoint(p, n, elapsed) ==
    LET a == advance(p, elapsed) IN
    CASE a.act = "Relay" -> begin_handshake(a.p, n, "Relay")
      [] a.act \in Addr \ {p.target} -> begin_handshake([a.p EXCEPT !.relay = FALSE], n, a.act)
      [] a.act = "NeedLookup" -> [retransmit(a.p, n) EXCEPT !.lookup = TRUE]
      [] a.act \in {"Idle", p.target} -> retransmit(a.p, n)

(* tick_dispatch, the escalation of a direct or punch handshake in flight: *)
(* to the relay, or to another address, with a fresh Init; the endpoint is *)
(* cleared on the way to the relay.                                        *)
escalate(p, n, elapsed) ==
    LET a == advance(p, elapsed) IN
    CASE a.act = "Relay" -> begin_handshake([a.p EXCEPT !.endpoint = None], n, "Relay")
      [] a.act \in Addr \ {p.target} -> begin_handshake([a.p EXCEPT !.relay = FALSE], n, a.act)
      [] a.act = "NeedLookup" -> [retransmit(a.p, n) EXCEPT !.lookup = TRUE]
      [] a.act \in {"Idle", p.target} -> retransmit(a.p, n)

(* An Established peer's frame, from the device or from DataPlane::tick;   *)
(* a frame of an epoch stamped with the server's address that is not       *)
(* wrapped for the relay goes nowhere.                                     *)
frame(p, n) ==
    LET f == [type |-> "Data", sess |-> p.current.sess] IN
    CASE p.relay -> [Quiet(p) EXCEPT !.relayed = <<f>>]
      [] ~p.relay /\ ~p.current.to_server ->
           [Quiet(p) EXCEPT !.direct = {[at |-> Seen[Other(n)], payload |-> f]}]
      [] ~p.relay /\ p.current.to_server -> Quiet(p)

-----------------------------------------------------------------------------
(* The responder's session, over the way the Init came. *)
accept_fresh_init(p, sess) == sess.eph > p.last_accepted

Reply(q, sess, relayed, n) ==
    LET resp == [type |-> "Resp", sess |-> sess] IN
    IF relayed THEN [Quiet(q) EXCEPT !.relayed = <<resp>>]
    ELSE [Quiet(q) EXCEPT !.direct = {[at |-> Seen[Other(n)], payload |-> resp]}]

establish(p, sess, relayed, n) ==
    [p EXCEPT !.state = "Established", !.current = [sess |-> sess, to_server |-> relayed],
              !.next = NoEpoch, !.committed = TRUE, !.relay = relayed, !.via_relay = FALSE,
              !.target = None, !.endpoint = IF relayed THEN @ ELSE Seen[Other(n)]]

(* The Idle and Handshaking arms of handle_handshake_init and of           *)
(* relayed_handshake_init: the lower key keeps its own attempt.            *)
cold_init(p, sess, relayed, n) ==
    IF (p.state = "Handshaking" /\ n = Lower) \/ ~accept_fresh_init(p, sess)
    THEN Quiet(p)
    ELSE Reply([establish(p, sess, relayed, n) EXCEPT !.last_accepted = sess.eph,
                                                      !.cached = sess.eph],
               sess, relayed, n)

(* rekey_init_core *)
rekey_init_core(p, sess, relayed, n) ==
    CASE p.cached = sess.eph -> Reply(p, sess, relayed, n)
      [] p.cached # sess.eph /\ p.next.sess = sess ->
           Reply(p, sess, relayed, n)
      [] OTHER ->
           IF ~accept_fresh_init(p, sess) THEN Quiet(p)
           ELSE Reply([p EXCEPT !.next = [sess |-> sess, to_server |-> relayed],
                                !.last_accepted = sess.eph], sess, relayed, n)

(* handle_handshake_init: an Established peer answers a direct Init only   *)
(* when its own way is direct.                                             *)
handle_handshake_init(p, sess, n) ==
    CASE p.state = "Established" /\ p.relay -> Quiet(p)
      [] p.state = "Established" /\ ~p.relay -> rekey_init_core(p, sess, FALSE, n)
      [] p.state # "Established" -> cold_init(p, sess, FALSE, n)

(* Faulty: any fresh relayed Init moves an Established peer. *)
adopts_any(p, sess) == ~p.relay /\ accept_fresh_init(p, sess)

(* Faulty: an Established peer stays where it is. *)
adopts_never(p, sess) == FALSE

(* relayed_handshake_init: a peer that had answered a direct Init follows  *)
(* a fresh one to the relay.                                               *)
adopts(p, sess) ==
    /\ ~p.relay /\ p.last_accepted # 0
    /\ p.cached # sess.eph
    /\ accept_fresh_init(p, sess)

(* Faulty: a relayed rekey is answered whatever way the peer is on. *)
relayed_handshake_init_unflagged(p, sess, n) ==
    IF p.state = "Established" THEN rekey_init_core(p, sess, TRUE, n)
    ELSE cold_init(p, sess, TRUE, n)

relayed_handshake_init(p, sess, n) ==
    IF p.state = "Established"
    THEN LET q == IF adopts(p, sess) THEN [p EXCEPT !.relay = TRUE] ELSE p IN
         IF q.relay THEN rekey_init_core(q, sess, TRUE, n) ELSE Quiet(q)
    ELSE cold_init(p, sess, TRUE, n)

(* handle_handshake_resp and relayed_handshake_resp: an answer that does   *)
(* not fit the attempt ends it.                                            *)
handshake_resp(p, sess, relayed, n) ==
    CASE p.state # "Handshaking" \/ (~relayed /\ p.endpoint # Seen[Other(n)]) -> Quiet(p)
      [] OTHER ->
           IF sess = [by |-> n, eph |-> p.inits]
           THEN Quiet(establish(p, sess, relayed, n))
           ELSE Quiet([p EXCEPT !.state = "Idle"])

(* inbound_open: the first frame of the next epoch makes it the current. *)
inbound_open(p, sess) ==
    IF p.state = "Established" /\ p.next.sess = sess
    THEN Quiet([p EXCEPT !.current = p.next, !.next = NoEpoch])
    ELSE Quiet(p)

on_udp_dispatch(p, m, n) ==
    CASE m.type = "Init" -> handle_handshake_init(p, m.sess, n)
      [] m.type = "Resp" -> handshake_resp(p, m.sess, FALSE, n)
      [] m.type = "Data" -> inbound_open(p, m.sess)

(* on_relayed: a peer without a session is flagged first. *)
on_relayed(p, m, n) ==
    LET q == IF p.state = "Established" THEN p ELSE [p EXCEPT !.relay = TRUE] IN
    CASE m.type = "Init" -> relayed_handshake_init(q, m.sess, n)
      [] m.type = "Resp" -> handshake_resp(q, m.sess, TRUE, n)
      [] m.type = "Data" -> inbound_open(q, m.sess)

(* on_rdv: a hint counts when it names a peer. *)
on_rdv(p, m, n) ==
    CASE m.type = "RelayDeliver" -> on_relayed(p, m.payload, n)
      [] m.type = "PeerInfo" ->
           IF m.node = Other(n) /\ p.state # "Established"
           THEN Quiet(on_peer_candidate(p, IF Listed[m.node] = None THEN m.addr
                                           ELSE Listed[m.node]))
           ELSE Quiet(p)
      [] m.type = "PunchHint" ->
           IF m.node # Other(n) \/ p.state = "Established" THEN Quiet(p)
           ELSE IF p.state = "Idle" THEN begin_handshake(on_peer_candidate(p, m.addr), n, m.addr)
           ELSE Quiet(on_peer_candidate(p, m.addr))

-----------------------------------------------------------------------------
(* RendezvousServer::handle for a RelaySend and for a Lookup, which tells  *)
(* the asker and sends a hint to the one looked up.  A datagram of which a *)
(* copy is already on its way, or that finds no room, is lost.             *)
Room(q, ms) ==
    LET new == SelectSeq(ms, LAMBDA m : \A i \in DOMAIN q : q[i] # m) IN
    IF Len(q) + Len(new) <= MaxQueue THEN q \o new ELSE q

Handle(n, did, q, registered) ==
    LET m == Other(n)
        deliver == [i \in DOMAIN did.relayed |->
                      [type |-> "RelayDeliver", payload |-> did.relayed[i]]]
        hint == <<[type |-> "PunchHint", node |-> m, addr |-> Seen[n]]>>
        info == <<[type |-> "PeerInfo", node |-> m, addr |-> Seen[m]]>>
    IN IF m \notin registered THEN q
       ELSE [q EXCEPT ![m] = Room(@, deliver \o (IF did.lookup THEN hint ELSE <<>>)),
                      ![n] = Room(@, IF did.lookup THEN info ELSE <<>>)]

(* A datagram to an address its receiver does not have goes nowhere, and  *)
(* one the full wire has no room for is lost.                              *)
Emit(n, did, rest, q, registered) ==
    LET m == Other(n)
        sent == rest \cup {[to |-> m, at |-> d.at, payload |-> d.payload] :
                             d \in {x \in did.direct : x.at = Seen[m]}}
    IN
    /\ did.p.inits <= MaxInits
    /\ peer' = [peer EXCEPT ![n] = did.p]
    /\ wire' = IF Cardinality(sent) <= MaxWire THEN sent ELSE rest
    /\ queue' = Handle(n, did, q, registered)

(* tick_dispatch: the registration, then the peer by its state.  A relayed *)
(* handshake that has gone on for HANDSHAKE_TOTAL_MS is given up, and the  *)
(* ladder starts another in the same tick; nothing is in flight for so     *)
(* long.                                                                   *)
TickOf(n, elapsed, total) ==
    LET p == peer[n] IN
    CASE p.state = "Idle" -> drive_path_idle(p, n, elapsed)
      [] p.state = "Handshaking" ->
           IF ~p.via_relay THEN escalate(p, n, elapsed)
           ELSE IF total THEN drive_path_idle([p EXCEPT !.state = "Idle"], n, elapsed)
           ELSE retransmit(p, n)
      [] p.state = "Established" -> frame(p, n)

Tick(n, elapsed, total) ==
    /\ total => wire = {} /\ \A m \in Node : queue[m] = <<>>
    /\ regs' = regs \cup {n}
    /\ Emit(n, TickOf(n, elapsed, total), wire, queue, regs')

DirectArrives(n, kept) ==
    \E d \in wire :
      /\ d.to = n
      /\ Emit(n, on_udp_dispatch(peer[n], d.payload, n),
              IF kept THEN wire ELSE wire \ {d}, queue, regs)
      /\ UNCHANGED regs

DirectLost ==
    \E d \in wire : wire' = wire \ {d} /\ UNCHANGED <<peer, regs, queue>>

ServerArrives(n) ==
    /\ queue[n] # <<>>
    /\ Emit(n, on_rdv(peer[n], Head(queue[n]), n), wire,
            [queue EXCEPT ![n] = Tail(@)], regs)
    /\ UNCHANGED regs

Next ==
    \/ \E n \in Node, elapsed, total \in BOOLEAN : Tick(n, elapsed, total)
    \/ \E n \in Node, kept \in BOOLEAN : DirectArrives(n, kept)
    \/ DirectLost
    \/ \E n \in Node : ServerArrives(n)

(* The daemon loop ticks and reads; windows elapse. *)
Fairness ==
    \A n \in Node : WF_vars(Tick(n, TRUE, FALSE)) /\ WF_vars(ServerArrives(n))

Spec == Init /\ [][Next]_vars /\ Fairness

-----------------------------------------------------------------------------
(* on_tun_dispatch and tick_dispatch wrap for the relay by the peer's      *)
(* flag, whatever address the epoch was stamped with: an epoch stamped     *)
(* with the server's address never meets a cleared flag, or every frame    *)
(* would go to the server unwrapped and be lost.                           *)
NoBlackHole ==
    \A n \in Node :
      peer[n].state = "Established" /\ ~peer[n].relay =>
        /\ ~peer[n].current.to_server
        /\ ~peer[n].next.to_server

(* The ladder: whatever the direct way loses or delays, both daemons end   *)
(* up with a session and keep it, unless the bound on Inits stops one.     *)
Meets ==
    <>[]((\A n \in Node : peer[n].state = "Established")
          \/ \E n \in Node : peer[n].inits = MaxInits)

(* tick_dispatch clears the endpoint on the way to the relay, "a late      *)
(* direct Resp for the abandoned punch candidate must not match": a        *)
(* handshake by the relay is never ended by a datagram of the direct way.  *)
LateAnswerHarmless ==
    [][\A n \in Node :
         /\ peer[n].state = "Handshaking" /\ peer[n].via_relay
         /\ peer'[n].state = "Idle"
         => queue'[n] # queue[n]]_vars

(* A direct session goes to the relay only for an Init newer than any its  *)
(* owner has accepted, and only if it had accepted one.                    *)
NoStaleAdoption ==
    [][\A n \in Node :
         peer[n].state = "Established" /\ ~peer[n].relay /\ peer'[n].relay =>
           0 < peer[n].last_accepted /\ peer[n].last_accepted < peer'[n].last_accepted]_vars
=============================================================================
