------------------------------- MODULE Routes -------------------------------
(***************************************************************************)
(* A node that dials the TLS front of the rendezvous server                *)
(* (bin/yipd/src/relay_client.rs) and the tasks of its connections there:  *)
(* they are upgraded by a fresh registration (bin/yip-rendezvous/src/      *)
(* conn.rs), insert their route, pump and unwind (conn_tunnel.rs), while   *)
(* other connections relay frames to the node.  The lock of routes is held *)
(* for one step at a time.  The wall clock of the node does not go back.   *)
(***************************************************************************)
EXTENDS Integers, Sequences

CONSTANTS
    Conn,        \* bound: connections, numbered from 1 in the order of dialling
    Depth,       \* CHANNEL_DEPTH
    SeenTtl,     \* REG_TTL_MS
    Patience,    \* CLASSIFY_TIMEOUT
    MaxSeen      \* bound: the clock

VARIABLES
    clock,
    linked,      \* the node pumps its last connection
    dialled,     \* the connection it made last
    reg_counter, \* Counter: the number of its last registration
    reg_at,      \* when it sent that
    frame,       \* the registration on each connection
    tls_seen,    \* the last registration that upgraded a connection, and when
    now_ms,      \* the time the task of each connection read when it began
    conns,       \* how far the task of each connection is
    route,       \* the connection whose channel is filed for the node
    channel,     \* frames waiting in the channel of each connection
    inserted,    \* history: the connection that inserted its route last
    upgrades     \* history: registration and time of the upgrades

dialVars   == <<linked, dialled, reg_counter, reg_at, frame>>
frontVars  == <<tls_seen, now_ms, conns, route, channel, inserted, upgrades>>
routesVars == <<clock, dialVars, frontVars>>

NoConn == 0
NoSeen == [last_counter |-> 0, expiry |-> 0]

now_wall_clock_ms == clock

(* Counter::seeded_now *)
seeded_now == now_wall_clock_ms

RoutesInit ==
    /\ clock = 1
    /\ linked = FALSE /\ dialled = NoConn
    /\ reg_counter = seeded_now /\ reg_at = 0
    /\ frame = [c \in Conn |-> 0]
    /\ tls_seen = NoSeen
    /\ now_ms = [c \in Conn |-> 0]
    /\ conns = [c \in Conn |-> "new"]
    /\ route = NoConn
    /\ channel = [c \in Conn |-> 0]
    /\ inserted = NoConn
    /\ upgrades = {}

-----------------------------------------------------------------------------
(* The node *)

Larger(x, y) == IF x < y THEN y ELSE x

(* Counter::next.  Registrations are further apart than a tick of the      *)
(* clock: a handshake or a keepalive lies between them.                    *)
next_counter ==
    /\ reg_at < clock
    /\ reg_counter' = Larger(reg_counter, now_wall_clock_ms) + 1
    /\ reg_at' = clock

(* run and run_reality: a handshake that succeeds, and the registration    *)
(* first of all.                                                           *)
Dial ==
    LET c == dialled + 1 IN
    /\ ~linked /\ c \in Conn
    /\ next_counter
    /\ frame' = [frame EXCEPT ![c] = reg_counter']
    /\ linked' = TRUE /\ dialled' = c
    /\ conns' = [conns EXCEPT ![c] = "open"]
    /\ UNCHANGED <<clock, tls_seen, now_ms, route, channel, inserted, upgrades>>

(* REG_KEEPALIVE_MS; route ignores the registration on a tunnel. *)
Keepalive ==
    /\ linked
    /\ next_counter
    /\ UNCHANGED <<clock, linked, dialled, frame, frontVars>>

(* pump ends with an error, or with the end of the stream. *)
HangUp ==
    /\ linked /\ linked' = FALSE
    /\ UNCHANGED <<clock, dialled, reg_counter, reg_at, frame, frontVars>>

(* The daemon starts anew, later than it last registered. *)
Reboot ==
    /\ reg_at < clock
    /\ linked' = FALSE /\ reg_counter' = seeded_now
    /\ UNCHANGED <<clock, dialled, reg_at, frame, frontVars>>

-----------------------------------------------------------------------------
(* The front *)

(* handle_connection reads the clock once, before it waits for the frame. *)
Accept(c) ==
    /\ conns[c] = "open"
    /\ conns'  = [conns EXCEPT ![c] = "reading"]
    /\ now_ms' = [now_ms EXCEPT ![c] = clock]
    /\ UNCHANGED <<clock, dialVars, tls_seen, route, channel, inserted, upgrades>>

(* Faulty variant: a registration is remembered but not compared. *)
IsFreshAlways(c) == TRUE

IsFresh(c) == ~(tls_seen.expiry > now_ms[c] /\ frame[c] <= tls_seen.last_counter)

(* read_and_classify with register_if_fresh_tls: a fresh registration      *)
(* upgrades the connection, any other makes it a decoy's.                  *)
Classify(c) ==
    /\ conns[c] = "reading"
    /\ IF IsFresh(c)
       THEN /\ tls_seen' = [last_counter |-> frame[c], expiry |-> now_ms[c] + SeenTtl]
            /\ conns'    = [conns EXCEPT ![c] = "upgraded"]
            /\ upgrades' = upgrades \cup {<<c, frame[c], clock>>}
       ELSE /\ conns'    = [conns EXCEPT ![c] = "decoy"]
            /\ UNCHANGED <<tls_seen, upgrades>>
    /\ UNCHANGED <<clock, dialVars, now_ms, route, channel, inserted>>

(* The deadline of read_and_classify, or a frame that is no registration. *)
GiveUp(c) ==
    /\ conns[c] = "reading"
    /\ conns' = [conns EXCEPT ![c] = "decoy"]
    /\ UNCHANGED <<clock, dialVars, tls_seen, now_ms, route, channel, inserted, upgrades>>

(* run_tunnel, once the reply is written. *)
Enter(c) ==
    /\ conns[c] = "upgraded"
    /\ conns' = [conns EXCEPT ![c] = "pumping"]
    /\ route' = c /\ inserted' = c
    /\ UNCHANGED <<clock, dialVars, tls_seen, now_ms, channel, upgrades>>

(* Faulty variant: the channel has no bound. *)
RelayUnbounded ==
    /\ route # NoConn
    /\ channel' = [channel EXCEPT ![route] = @ + 1]
    /\ UNCHANGED <<clock, dialVars, tls_seen, now_ms, conns, route, inserted, upgrades>>

(* route: another connection relays a frame to the node; a full channel    *)
(* drops it.                                                               *)
Relay ==
    /\ route # NoConn
    /\ channel' = [channel EXCEPT ![route] = IF @ < Depth THEN @ + 1 ELSE @]
    /\ UNCHANGED <<clock, dialVars, tls_seen, now_ms, conns, route, inserted, upgrades>>

(* The pump writes a frame. *)
Write(c) ==
    /\ conns[c] = "pumping" /\ channel[c] > 0
    /\ channel' = [channel EXCEPT ![c] = @ - 1]
    /\ UNCHANGED <<clock, dialVars, tls_seen, now_ms, conns, route, inserted, upgrades>>

(* The reply cannot be written, or the pump ends: the peer disconnects, a  *)
(* write fails or a frame is malformed.                                    *)
Break(c) ==
    /\ conns[c] \in {"upgraded", "pumping"}
    /\ conns' = [conns EXCEPT ![c] = IF @ = "pumping" THEN "leaving" ELSE "gone"]
    /\ UNCHANGED <<clock, dialVars, tls_seen, now_ms, route, channel, inserted, upgrades>>

(* Faulty variant: the route goes whoever inserted it. *)
same_channel_always(c) == TRUE

same_channel(c) == route = c

(* The end of run_tunnel; the channel goes with its receiver. *)
Leave(c) ==
    /\ conns[c] = "leaving"
    /\ conns'   = [conns EXCEPT ![c] = "gone"]
    /\ route'   = IF same_channel(c) THEN NoConn ELSE route
    /\ channel' = [channel EXCEPT ![c] = 0]
    /\ UNCHANGED <<clock, dialVars, tls_seen, now_ms, inserted, upgrades>>

(* Time passes; a connection is classified or given up by its deadline. *)
Pass ==
    /\ clock < MaxSeen
    /\ \A c \in Conn : conns[c] = "reading" => clock < now_ms[c] + Patience
    /\ clock' = clock + 1
    /\ UNCHANGED <<dialVars, frontVars>>

(* sweep forgets a registration that has expired. *)
SweepSeen ==
    /\ tls_seen # NoSeen /\ tls_seen.expiry <= clock
    /\ tls_seen' = NoSeen
    /\ UNCHANGED <<clock, dialVars, now_ms, conns, route, channel, inserted, upgrades>>

RoutesNext ==
    \/ Dial \/ Keepalive \/ HangUp \/ Reboot
    \/ \E c \in Conn : Accept(c) \/ Classify(c) \/ GiveUp(c) \/ Enter(c)
                      \/ Write(c) \/ Break(c) \/ Leave(c)
    \/ Relay \/ Pass \/ SweepSeen

RoutesSpec == RoutesInit /\ [][RoutesNext]_routesVars

-----------------------------------------------------------------------------
(* Properties *)

(* Tasks, the route and the bounded channels have their types: a relayed   *)
(* frame that finds the channel full is dropped (route, run_tunnel).       *)
RoutesTypeOK ==
    /\ conns \in [Conn -> {"new", "open", "reading", "decoy", "upgraded", "pumping",
                          "leaving", "gone"}]
    /\ route \in Conn \cup {NoConn}
    /\ channel \in [Conn -> 0..Depth]

(* The connection that inserted its route last keeps it while its task     *)
(* pumps: an earlier connection of the node that unwinds late does not     *)
(* take the route with it.  No route outlives its task (run_tunnel).       *)
LastIsRouted ==
    /\ inserted # NoConn /\ conns[inserted] = "pumping" => route = inserted
    /\ route # NoConn => conns[route] \in {"pumping", "leaving"}

(* A reconnect is neither taken for a repeated registration nor can it be  *)
(* repeated.  The registration on the connection a node made last is fresh *)
(* when the front comes to classify it, also after a restart of the node   *)
(* and with earlier connections classified late (Counter,                  *)
(* register_if_fresh_tls).  For the lifetime of a registration, less the   *)
(* time a connection may take to be classified, no connection is upgraded  *)
(* with the same or an older one, although expiry is reckoned from a clock *)
(* read before the wait (handle_connection, sweep).                        *)
Freshness ==
    /\ dialled # NoConn /\ conns[dialled] = "reading" => IsFresh(dialled)
    /\ \A u, v \in upgrades :
         u # v /\ u[3] <= v[3] /\ v[3] < u[3] + SeenTtl - Patience =>
           u[2] # v[2] /\ (u[3] < v[3] => u[2] < v[2])
=============================================================================
