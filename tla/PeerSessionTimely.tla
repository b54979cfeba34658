------------------------- MODULE PeerSessionTimely -------------------------
(***************************************************************************)
(* The two daemons of PeerSession over a network that first may be out for *)
(* any length of time and then, once healed, delivers every datagram       *)
(* exactly once and before the next unit of time.                          *)
(***************************************************************************)
EXTENDS PeerSession

CONSTANT Reserve   \* bound: ephemerals kept for after the network heals

ASSUME ReserveAssumption == Reserve \in 0..MaxFresh

VARIABLES
    healed,   \* no datagram is lost any more
    joined,   \* and both sent on the same session when that began
    lapse,    \* time since the certificate of a daemon lapsed
    done      \* which daemons ticked, and read a TUN packet, in this unit

(* Both send on the same session. *)
Connected ==
    /\ \A n \in Node : state[n] = "Established"
    /\ epochs[Small].current = epochs[Large].current

timelyVars == <<vars, healed, joined, lapse, done>>

TimelyInit ==
    /\ InitEstablished
    /\ healed = FALSE
    /\ joined = FALSE
    /\ lapse  = [n \in Node |-> 0]
    /\ done = [tick |-> {}, tun |-> {}]

(* The same, and no datagram is ever lost. *)
CleanInit ==
    /\ InitEstablished
    /\ healed = TRUE
    /\ joined = TRUE
    /\ lapse  = [n \in Node |-> 0]
    /\ done = [tick |-> {}, tun |-> {}]

(* What an outage may leave behind: each daemon on its own side of a       *)
(* crossed pair of rekeys or both on one session, of any age, with or      *)
(* without a rekey in flight; or one of them restarted.                    *)
RecoverInit ==
    LET ofSmall == [init |-> 1, resp |-> 2]
        ofLarge == [init |-> 3, resp |-> 4] IN
    \E up \in {Node, {Small}, {Large}}, inFlight \in SUBSET Node,
       cur \in [Node -> {ofSmall, ofLarge}], age \in [Node -> 0..(2 * RekeyInterval)],
       floor \in 0..6 :
      /\ inFlight \subseteq up
      /\ \A n \in Node : n \in inFlight => age[n] >= RekeyInterval
      /\ \A n \in Node \ up : cur[n] = ofSmall /\ age[n] = 0
      /\ up = Node => floor = 0
      /\ state  = [n \in Node |-> IF n \in up THEN "Established" ELSE "Idle"]
      /\ hs     = [n \in Node |-> 0]
      /\ hsAge  = [n \in Node |-> 0]
      /\ epochs = [n \in Node |->
            IF n \notin up THEN NoEpochs
            ELSE [NewEpochSet(cur[n]) EXCEPT
                    !.age   = age[n],
                    !.rekey = IF n \notin inFlight THEN 0
                              ELSE IF n = Small THEN 5 ELSE 6]]
      /\ pending    = [n \in Node |-> 0]
      /\ cachedResp = [n \in Node |-> NoSession]
      /\ lastTs     = [n \in Node |-> IF n \notin up THEN 0
                                      ELSE IF n = Small THEN 3 ELSE 1]
      /\ bootFloor  = [n \in Node |-> IF n \in up THEN 0 ELSE floor]
      /\ certOk     = [n \in Node |-> TRUE]
      /\ sweepAge   = [n \in Node |-> 0]
      /\ net        = {}
      /\ fresh      = 6
      /\ crashes    = 0
      /\ history    = [n \in Node |-> [installed |-> {ofSmall, ofLarge},
                                         reused |-> FALSE]]
      /\ healed = TRUE
      /\ joined = FALSE
      /\ lapse  = [n \in Node |-> 0]
      /\ done = [tick |-> {}, tun |-> {}]

(* A datagram is taken from the network and handled; one that the handlers *)
(* ignore is taken and dropped.                                            *)
Deliver(n) ==
    \E m \in net :
      /\ OnUdp(n, m, net \ {m})
      /\ UNCHANGED <<healed, joined, lapse, done>>

Ignore(n) ==
    \E m \in net :
      /\ m.from = Peer(n)
      /\ ~ENABLED OnUdp(n, m, net \ {m})
      /\ net' = net \ {m}
      /\ UNCHANGED <<state, hs, hsAge, epochs, pending, cachedResp, lastTs,
                     bootFloor, certOk, sweepAge, fresh, crashes, history,
                     healed, joined, lapse, done>>

(* Every datagram in flight is lost. *)
Outage ==
    /\ ~healed
    /\ net' = {}
    /\ UNCHANGED <<state, hs, hsAge, epochs, pending, cachedResp, lastTs,
                   bootFloor, certOk, sweepAge, fresh, crashes, history,
                   healed, joined, lapse, done>>

Heal ==
    /\ ~healed /\ fresh + Reserve <= MaxFresh
    /\ healed' = TRUE
    /\ joined' = Connected
    /\ UNCHANGED <<vars, lapse, done>>

(* A daemon restarts during the outage. *)
TimelyCrash(n) ==
    /\ ~healed
    /\ Crash(n)
    /\ UNCHANGED <<healed, joined, lapse, done>>

(* Bound: the certificates of the two do not lapse together. *)
TimelyCertLapse(n) ==
    /\ certOk[Peer(n)]
    /\ CertLapse(n)
    /\ lapse' = [lapse EXCEPT ![n] = 0]
    /\ UNCHANGED <<healed, joined, done>>

TimelyTick(n) ==
    /\ n \notin done.tick
    /\ Tick(n)
    /\ done' = [done EXCEPT !.tick = @ \cup {n}]
    /\ UNCHANGED <<healed, joined, lapse>>

TimelyTun(n) ==
    /\ n \notin done.tun
    /\ OnTunEstablished(n) \/ OnTunHandshaking(n) \/ OnTunIdle(n)
    /\ done' = [done EXCEPT !.tun = @ \cup {n}]
    /\ UNCHANGED <<healed, joined, lapse>>

TimelyElapse ==
    /\ net = {} /\ done.tick = Node
    /\ Elapse
    /\ done' = [tick |-> {}, tun |-> {}]
    /\ lapse' = [n \in Node |-> IF certOk[n] THEN 0
                               ELSE Older(lapse[n], RekeyInterval + 1)]
    /\ UNCHANGED <<healed, joined>>

TimelyNext ==
    \/ \E n \in Node : Deliver(n) \/ Ignore(n) \/ TimelyTick(n) \/ TimelyTun(n)
                      \/ TimelyCrash(n) \/ TimelyCertLapse(n)
    \/ Outage \/ Heal \/ TimelyElapse

TimelySpec == TimelyInit /\ [][TimelyNext]_timelyVars

TimelyFairness ==
    /\ \A n \in Node :
         WF_timelyVars(Deliver(n)) /\ WF_timelyVars(Ignore(n))
         /\ WF_timelyVars(TimelyTick(n))
    /\ WF_timelyVars(TimelyElapse)

HealedSpec ==
    /\ CleanInit \/ RecoverInit
    /\ [][TimelyNext]_timelyVars
    /\ TimelyFairness

-----------------------------------------------------------------------------
(* Properties *)

(* Two daemons that are connected when the network heals stay able to      *)
(* reach each other, in one direction at least, whenever neither waits for *)
(* a rekey answer: what docs/04-security-and-threat-model.md says of a     *)
(* rekey and of the fixed tie break (drive_rekey_schedule, inbound_open,   *)
(* promote_from_rekey).                                                    *)
StaysConnected == joined => NotSplit

(* Between daemons that started out connected over a network that loses    *)
(* nothing a rekey is invisible to the traffic: whatever the order of      *)
(* arrival, the receiver of a frame in flight holds the epoch it was       *)
(* sealed under (inbound_open, the grace of retire_previous_if_due, the    *)
(* confirmed switch).                                                      *)
Seamless ==
    joined => \A m \in net : m.type = "Data" => m.sess \in Held(epochs[Peer(m.from)])

(* A daemon whose certificate stays lapsed loses its session within a      *)
(* rekey interval, however it rekeys and reconnects meanwhile (the sweep   *)
(* of tick, the checks of handle_handshake_init and handle_handshake_resp).*)
RevokedDropped ==
    \A n \in Node : lapse[Peer(n)] > RekeyInterval => state[n] # "Established"

(* Whatever an outage left behind, crossed rekeys or a restarted daemon,   *)
(* the two end up sending on one session again once datagrams get through: *)
(* the schedule of needs_rekey, with its fallback, always tries again.     *)
Reconnects == <>Connected
=============================================================================
