---------------------------- MODULE PeerSession ----------------------------
(***************************************************************************)
(* The session two yipd daemons keep with each other over a direct path:   *)
(* cold-start handshake, glare, mid-session rekey, retransmission, giving  *)
(* up, the grace epoch, certificate lapse, crash and restart               *)
(* (bin/yipd/src/peer_manager/{handshake,rekey,routing,mod}.rs).           *)
(*                                                                         *)
(* A datagram stays in the network for Lifetime units of time, in which it *)
(* is delivered any number of times and in any order, or never: loss,      *)
(* duplication, delay and reordering at once.  The TAI64N label of an Init *)
(* is the number of the ephemeral drawn with it: both grow with real time. *)
(***************************************************************************)
EXTENDS EpochSet, FiniteSets

CONSTANTS
    Small, Large,     \* the two daemons; Small has the smaller static key
    MaxPendingTun,    \* MAX_PENDING_TUN
    Mesh,             \* TRUE: membership certificates are in use
    Lifetime,         \* how long the network may hold a datagram back
    MaxFresh,         \* bound: ephemerals drawn in a behaviour
    MaxCrashes        \* bound: restarts in a behaviour

ASSUME PeerAssumption ==
    /\ Small # Large
    /\ MaxPendingTun \in Nat \ {0}
    /\ Mesh \in BOOLEAN
    /\ Lifetime \in Nat
    /\ MaxFresh \in Nat
    /\ MaxCrashes \in Nat

VARIABLES
    state,       \* PeerState of the other daemon: Idle, Handshaking, Established
    hs,          \* ephemeral of the cold-start Init in flight (HandshakingState)
    hsAge,       \* time since it was started
    epochs,      \* the EpochSet of an Established peer
    pending,     \* number of packets in pending_tun
    cachedResp,  \* session whose Resp is in cached_resp / cached_resp_init_eph
    lastTs,      \* last_accepted_init_ts, 0 for None
    bootFloor,   \* boot_floor_ts
    certOk,      \* the other daemon accepts this daemon's certificate
    sweepAge,    \* time since last_cert_sweep_ms
    net,         \* the datagrams the network still holds
    fresh,       \* ephemerals drawn so far
    crashes,     \* restarts so far
    history      \* of each daemon: the sessions it ever built a DataPlane for,
                 \* and whether it built two of the same keys

vars == <<state, hs, hsAge, epochs, pending, cachedResp, lastTs, bootFloor,
          certOk, sweepAge, net, fresh, crashes, history>>

Node == {Small, Large}
Peer(n) == IF n = Small THEN Large ELSE Small

(* local_pub < peer.pubkey *)
IsGlareWinner(n) == n = Small

Message ==
    [type : {"Init", "Resp", "Data"}, from : Node, sess : Session,
     ttl : 0..Lifetime]
InitMsg(n, e) == [type |-> "Init", from |-> n,
                  sess |-> [init |-> e, resp |-> 0], ttl |-> Lifetime]
RespMsg(n, s) == [type |-> "Resp", from |-> n, sess |-> s, ttl |-> Lifetime]
DataMsg(n, s) == [type |-> "Data", from |-> n, sess |-> s, ttl |-> Lifetime]

(* The network after sending ms, where rest is what it kept of the         *)
(* datagram being handled: a new copy outlives the earlier ones.           *)
Copy(m, k)     == m.type = k.type /\ m.from = k.from /\ m.sess = k.sess
Send(rest, ms) == net' = {m \in rest : \A k \in ms : ~Copy(m, k)} \cup ms

(* Datagrams of n's pending_tun sealed under s, in one burst. *)
Drained(n, s) == IF pending[n] = 0 THEN {} ELSE {DataMsg(n, s)}

Init ==
    /\ state      = [n \in Node |-> "Idle"]
    /\ hs         = [n \in Node |-> 0]
    /\ hsAge      = [n \in Node |-> 0]
    /\ epochs     = [n \in Node |-> NoEpochs]
    /\ pending    = [n \in Node |-> 0]
    /\ cachedResp = [n \in Node |-> NoSession]
    /\ lastTs     = [n \in Node |-> 0]
    /\ bootFloor  = [n \in Node |-> 0]
    /\ certOk     = [n \in Node |-> TRUE]
    /\ sweepAge   = [n \in Node |-> 0]
    /\ net        = {}
    /\ fresh      = 0
    /\ crashes    = 0
    /\ history    = [n \in Node |-> [installed |-> {}, reused |-> FALSE]]

(* Both established by a cold start of Small, the network empty again. *)
InitEstablished ==
    LET s == [init |-> 1, resp |-> 2] IN
    /\ state      = [n \in Node |-> "Established"]
    /\ hs         = [n \in Node |-> 0]
    /\ hsAge      = [n \in Node |-> 0]
    /\ epochs     = [n \in Node |-> NewEpochSet(s)]
    /\ pending    = [n \in Node |-> 0]
    /\ cachedResp = [n \in Node |-> IF n = Large THEN s ELSE NoSession]
    /\ lastTs     = [n \in Node |-> IF n = Large THEN 1 ELSE 0]
    /\ bootFloor  = [n \in Node |-> 0]
    /\ certOk     = [n \in Node |-> TRUE]
    /\ sweepAge   = [n \in Node |-> 0]
    /\ net        = {}
    /\ fresh      = 2
    /\ crashes    = 0
    /\ history    = [n \in Node |-> [installed |-> {s}, reused |-> FALSE]]

-----------------------------------------------------------------------------
(* Helpers of the handlers *)

(* Faulty variant: the label last accepted is accepted again. *)
AcceptNotOlder(n, ts) ==
    IF lastTs[n] = 0 THEN ts > bootFloor[n] ELSE ts >= lastTs[n]

(* accept_fresh_init *)
AcceptFreshInit(n, ts) ==
    IF lastTs[n] = 0 THEN ts > bootFloor[n] ELSE ts > lastTs[n]

(* DataPlane::new on the keys of s, whose send counter starts at 0. *)
BuildDataPlane(n, s) ==
    history' = [history EXCEPT ![n] =
                  [installed |-> @.installed \cup {s},
                   reused    |-> @.reused \/ s \in @.installed]]

(* The peer becomes Established on s: the tail that the cold-start arms of *)
(* handle_handshake_init and handle_handshake_resp share.                  *)
Establish(n, s) ==
    /\ state'     = [state EXCEPT ![n] = "Established"]
    /\ hs'        = [hs EXCEPT ![n] = 0]
    /\ hsAge'     = [hsAge EXCEPT ![n] = 0]
    /\ epochs'    = [epochs EXCEPT ![n] = NewEpochSet(s)]
    /\ pending'   = [pending EXCEPT ![n] = 0]
    /\ BuildDataPlane(n, s)

(* The peer of n goes back to Idle; what a later attempt needs (pending,   *)
(* cached_resp, last_accepted_init_ts) is kept.                            *)
BackToIdle(n) ==
    /\ state'  = [state EXCEPT ![n] = "Idle"]
    /\ hs'     = [hs EXCEPT ![n] = 0]
    /\ hsAge'  = [hsAge EXCEPT ![n] = 0]
    /\ epochs' = [epochs EXCEPT ![n] = NoEpochs]

(* drop_session *)
DropSession(n) ==
    /\ BackToIdle(n)
    /\ UNCHANGED <<pending, cachedResp, lastTs, history>>

-----------------------------------------------------------------------------
(* on_tun: a packet for the peer arrives on the TUN device. *)

OnTunEstablished(n) ==
    /\ state[n] = "Established"
    /\ Send(net, {DataMsg(n, epochs[n].current)})
    /\ UNCHANGED <<state, hs, hsAge, epochs, pending, cachedResp, lastTs,
                   bootFloor, certOk, sweepAge, fresh, crashes, history>>

(* Faulty variant: the queue has no limit. *)
PushPendingUncapped(n) == pending' = [pending EXCEPT ![n] = @ + 1]

(* push_pending drops the oldest packet at MAX_PENDING_TUN. *)
PushPending(n) ==
    pending' = [pending EXCEPT ![n] = IF @ = MaxPendingTun THEN @ ELSE @ + 1]

OnTunHandshaking(n) ==
    /\ state[n] = "Handshaking"
    /\ PushPending(n)
    /\ UNCHANGED <<state, hs, hsAge, epochs, cachedResp, lastTs, bootFloor,
                   certOk, sweepAge, net, fresh, crashes, history>>

(* begin_handshake: draw an ephemeral and send the Init towards the endpoint. *)
BeginHandshake(n) ==
    /\ fresh < MaxFresh
    /\ fresh' = fresh + 1
    /\ state' = [state EXCEPT ![n] = "Handshaking"]
    /\ hs'    = [hs EXCEPT ![n] = fresh + 1]
    /\ hsAge' = [hsAge EXCEPT ![n] = 0]
    /\ Send(net, {InitMsg(n, fresh + 1)})

OnTunIdle(n) ==
    /\ state[n] = "Idle"
    /\ PushPending(n)
    /\ BeginHandshake(n)
    /\ UNCHANGED <<epochs, cachedResp, lastTs, bootFloor, certOk, sweepAge,
                   crashes, history>>

-----------------------------------------------------------------------------
(* handle_handshake_init *)

(* Faulty variant: the responder's ephemeral is derived from the Init. *)
HandleColdInitDerived(n, m, rest) ==
    /\ m.type = "Init"
    /\ \/ state[n] = "Idle"
       \/ state[n] = "Handshaking" /\ ~IsGlareWinner(n)
    /\ certOk[Peer(n)]
    /\ AcceptFreshInit(n, m.sess.init)
    /\ fresh < MaxFresh
    /\ LET s == [init |-> m.sess.init, resp |-> m.sess.init] IN
         /\ Establish(n, s)
         /\ fresh'      = fresh + 1
         /\ lastTs'     = [lastTs EXCEPT ![n] = m.sess.init]
         /\ cachedResp' = [cachedResp EXCEPT ![n] = s]
         /\ Send(rest, {RespMsg(n, s)} \cup Drained(n, s))
    /\ UNCHANGED <<bootFloor, certOk, sweepAge, crashes>>

(* Idle, or Handshaking with the larger key: build the session, answer,    *)
(* and send what was waiting.  A Handshaking peer with the smaller key     *)
(* ignores the Init (glare).                                               *)
HandleColdInit(n, m, rest) ==
    /\ m.type = "Init"
    /\ \/ state[n] = "Idle"
       \/ state[n] = "Handshaking" /\ ~IsGlareWinner(n)
    /\ certOk[Peer(n)]
    /\ AcceptFreshInit(n, m.sess.init)
    /\ fresh < MaxFresh
    /\ LET s == [init |-> m.sess.init, resp |-> fresh + 1] IN
         /\ Establish(n, s)
         /\ fresh'      = fresh + 1
         /\ lastTs'     = [lastTs EXCEPT ![n] = m.sess.init]
         /\ cachedResp' = [cachedResp EXCEPT ![n] = s]
         /\ Send(rest, {RespMsg(n, s)} \cup Drained(n, s))
    /\ UNCHANGED <<bootFloor, certOk, sweepAge, crashes>>

(* Faulty variant: a retransmitted Init of the round behind next mints a   *)
(* second session for it.                                                  *)
RekeyInitCoreMintsAgain(n, e, rest) ==
    /\ NextAnswers(epochs[n], e) \/ AcceptFreshInit(n, e)
    /\ cachedResp[n].init # e
    /\ fresh < MaxFresh
    /\ LET s == [init |-> e, resp |-> fresh + 1] IN
         /\ epochs' = [epochs EXCEPT ![n] = InstallNext(@, s)]
         /\ lastTs' = [lastTs EXCEPT ![n] = e]
         /\ Send(rest, {RespMsg(n, s)})
         /\ BuildDataPlane(n, s)
    /\ fresh' = fresh + 1

(* Established: a retransmit of an answered round gets the cached answer   *)
(* verbatim, an Init that is not strictly newer is dropped, and a new      *)
(* round becomes the unconfirmed next epoch (rekey_init_core).             *)
RekeyInitCore(n, e, rest) ==
    \/ /\ cachedResp[n] # NoSession /\ cachedResp[n].init = e
       /\ Send(rest, {RespMsg(n, cachedResp[n])})
       /\ UNCHANGED <<epochs, lastTs, fresh, history>>
    \/ /\ cachedResp[n].init # e
       /\ NextAnswers(epochs[n], e)
       /\ Send(rest, {RespMsg(n, epochs[n].next)})
       /\ UNCHANGED <<epochs, lastTs, fresh, history>>
    \/ /\ cachedResp[n].init # e
       /\ ~NextAnswers(epochs[n], e)
       /\ AcceptFreshInit(n, e)
       /\ fresh < MaxFresh
       /\ LET s == [init |-> e, resp |-> fresh + 1] IN
            /\ epochs'    = [epochs EXCEPT ![n] = InstallNext(@, s)]
            /\ lastTs'    = [lastTs EXCEPT ![n] = e]
            /\ Send(rest, {RespMsg(n, s)})
            /\ BuildDataPlane(n, s)
       /\ fresh' = fresh + 1

HandleRekeyInit(n, m, rest) ==
    /\ m.type = "Init"
    /\ state[n] = "Established"
    /\ IF certOk[Peer(n)]
       THEN /\ RekeyInitCore(n, m.sess.init, rest)
            /\ UNCHANGED <<state, hs, hsAge, pending, cachedResp>>
       ELSE /\ DropSession(n)
            /\ Send(rest, {})
            /\ UNCHANGED fresh
    /\ UNCHANGED <<bootFloor, certOk, sweepAge, crashes>>

-----------------------------------------------------------------------------
(* handle_handshake_resp *)

(* Established with a rekey in flight: the rekey is taken first, so a Resp *)
(* of another round, or one with a bad certificate, abandons it.  A good   *)
(* one switches to the new epoch and primes it with one frame.             *)
HandleRekeyResp(n, m, rest) ==
    /\ m.type = "Resp"
    /\ state[n] = "Established" /\ epochs[n].rekey # 0
    /\ IF m.sess.init = epochs[n].rekey /\ certOk[Peer(n)]
       THEN /\ epochs'    = [epochs EXCEPT ![n] = PromoteFromRekey(@, m.sess)]
            /\ BuildDataPlane(n, m.sess)
            /\ pending'   = [pending EXCEPT ![n] = 0]
            /\ Send(rest, {DataMsg(n, m.sess)})
       ELSE /\ epochs'    = [epochs EXCEPT ![n] = AbandonRekey(@)]
            /\ Send(rest, {})
            /\ UNCHANGED <<history, pending>>
    /\ UNCHANGED <<state, hs, hsAge, cachedResp, lastTs, bootFloor, certOk,
                   sweepAge, fresh, crashes>>

(* Handshaking: the attempt is taken first, so anything but the awaited    *)
(* Resp puts the peer back to Idle with its packets still queued.          *)
HandleColdResp(n, m, rest) ==
    /\ m.type = "Resp"
    /\ state[n] = "Handshaking"
    /\ IF m.sess.init = hs[n] /\ certOk[Peer(n)]
       THEN /\ Establish(n, m.sess)
            /\ Send(rest, Drained(n, m.sess))
       ELSE /\ BackToIdle(n)
            /\ Send(rest, {})
            /\ UNCHANGED <<pending, history>>
    /\ UNCHANGED <<cachedResp, lastTs, bootFloor, certOk, sweepAge, fresh,
                   crashes>>

(* handle_data_or_control: a frame that opens under none of the held       *)
(* epochs, or that finds no Established peer, changes nothing.  An answer  *)
(* (a repair, a probe acknowledgement) is sealed under the session of the  *)
(* frame it answers, which its receiver already sends on: it can change no *)
(* epoch and is left out, like a frame that on_udp_datagram opens without  *)
(* a result.                                                               *)
HandleData(n, m, rest) ==
    /\ m.type = "Data"
    /\ state[n] = "Established"
    /\ m.sess \in Held(epochs[n])
    /\ epochs' = [epochs EXCEPT ![n] = InboundOpen(@, m.sess)]
    /\ Send(rest, {})
    /\ UNCHANGED <<state, hs, hsAge, pending, cachedResp, lastTs, bootFloor,
                   certOk, sweepAge, fresh, crashes, history>>

(* on_udp: a datagram of the peer reaches n. *)
OnUdp(n, m, rest) ==
    /\ m.from = Peer(n)
    /\ \/ HandleColdInit(n, m, rest)
       \/ HandleRekeyInit(n, m, rest)
       \/ HandleRekeyResp(n, m, rest)
       \/ HandleColdResp(n, m, rest)
       \/ HandleData(n, m, rest)

-----------------------------------------------------------------------------
(* tick *)

(* drive_rekey_schedule: start when due (at the bound of the model, as     *)
(* when start_initiator fails, nothing happens), abandon an unanswered     *)
(* rekey, and otherwise keep the one in flight.                            *)
DriveRekeySchedule(n, es) ==
    IF es.rekey = 0
    THEN IF NeedsRekey(es, IsGlareWinner(n)) /\ fresh < MaxFresh
         THEN StartRekey(es, fresh + 1)
         ELSE es
    ELSE IF es.rekeyAge >= HandshakeTotal THEN AbandonRekey(es) ELSE es

(* Faulty variant: off by one. *)
SweepLate(n) == Mesh /\ sweepAge[n] > RekeyInterval

SweepDue(n) == Mesh /\ sweepAge[n] >= RekeyInterval

(* Retire, drive the rekey, (re)send its Init, perhaps send a frame of the *)
(* data plane's own (feedback, MTU probe, cover), then the certificate     *)
(* sweep, which drops the session of a peer whose certificate lapsed.      *)
TickEstablished(n) ==
    /\ state[n] = "Established"
    /\ LET es == DriveRekeySchedule(n, RetirePreviousIfDue(epochs[n])) IN
         /\ \E frames \in SUBSET {DataMsg(n, es.current)} :
              Send(net, frames \cup
                        (IF es.rekey = 0 THEN {} ELSE {InitMsg(n, es.rekey)}))
         /\ fresh' = IF es.rekey > fresh THEN es.rekey ELSE fresh
         /\ IF SweepDue(n) /\ ~certOk[Peer(n)]
            THEN DropSession(n)
            ELSE /\ epochs' = [epochs EXCEPT ![n] = es]
                 /\ UNCHANGED <<state, hs, hsAge, pending, cachedResp, lastTs,
                                history>>

(* Retransmit the same Init, or give up and forget the queued packets. *)
TickHandshaking(n) ==
    /\ state[n] = "Handshaking"
    /\ IF hsAge[n] >= HandshakeTotal
       THEN /\ BackToIdle(n)
            /\ pending' = [pending EXCEPT ![n] = 0]
            /\ UNCHANGED net
       ELSE /\ Send(net, {InitMsg(n, hs[n])})
            /\ UNCHANGED <<state, hs, hsAge, epochs, pending>>
    /\ UNCHANGED <<cachedResp, lastTs, fresh, history>>

TickIdle(n) ==
    /\ state[n] = "Idle"
    /\ UNCHANGED <<state, hs, hsAge, epochs, pending, cachedResp, lastTs, net,
                   fresh, history>>

Tick(n) ==
    /\ TickEstablished(n) \/ TickHandshaking(n) \/ TickIdle(n)
    /\ sweepAge' = [sweepAge EXCEPT ![n] = IF SweepDue(n) THEN 0 ELSE @]
    /\ UNCHANGED <<bootFloor, certOk, crashes>>

-----------------------------------------------------------------------------
(* The environment *)

(* Time goes by for both daemons. *)
Elapse ==
    /\ hsAge'    = [n \in Node |-> IF hs[n] = 0 THEN 0
                                   ELSE Older(hsAge[n], HandshakeTotal)]
    /\ epochs'   = [n \in Node |-> IF state[n] = "Established"
                                   THEN Aged(epochs[n]) ELSE epochs[n]]
    /\ sweepAge' = [n \in Node |-> IF Mesh THEN Older(sweepAge[n], RekeyInterval)
                                   ELSE 0]
    /\ net'      = {[m EXCEPT !.ttl = @ - 1] : m \in {k \in net : k.ttl > 0}}
    /\ UNCHANGED <<state, hs, pending, cachedResp, lastTs, bootFloor, certOk,
                   fresh, crashes, history>>

(* A daemon's certificate expires or is revoked, or is renewed. *)
CertLapse(n) ==
    /\ Mesh
    /\ certOk' = [certOk EXCEPT ![n] = ~@]
    /\ UNCHANGED <<state, hs, hsAge, epochs, pending, cachedResp, lastTs,
                   bootFloor, sweepAge, net, fresh, crashes, history>>

(* Crash and restart: nothing of the peer table is persistent.  The boot   *)
(* floor is the restart's wall clock less a margin: it may admit any       *)
(* suffix of the Inits sent so far.                                        *)
Crash(n) ==
    /\ crashes < MaxCrashes
    /\ crashes' = crashes + 1
    /\ BackToIdle(n)
    /\ pending'    = [pending EXCEPT ![n] = 0]
    /\ cachedResp' = [cachedResp EXCEPT ![n] = NoSession]
    /\ lastTs'     = [lastTs EXCEPT ![n] = 0]
    /\ \E floor \in 0..fresh : bootFloor' = [bootFloor EXCEPT ![n] = floor]
    /\ sweepAge'   = [sweepAge EXCEPT ![n] = 0]
    /\ UNCHANGED <<certOk, net, fresh, history>>

Step(n) ==
    \/ OnTunEstablished(n) \/ OnTunHandshaking(n) \/ OnTunIdle(n)
    \/ \E m \in net : OnUdp(n, m, net)
    \/ Tick(n)
    \/ CertLapse(n)
    \/ Crash(n)

Next == Elapse \/ \E n \in Node : Step(n)

Spec == Init /\ [][Next]_vars
SpecEstablished == InitEstablished /\ [][Next]_vars

-----------------------------------------------------------------------------
(* Properties *)

TypeOK ==
    /\ state      \in [Node -> {"Idle", "Handshaking", "Established"}]
    /\ hs         \in [Node -> Nat]
    /\ hsAge      \in [Node -> 0..HandshakeTotal]
    /\ epochs     \in [Node -> EpochSetType]
    /\ pending    \in [Node -> 0..MaxPendingTun]
    /\ cachedResp \in [Node -> Session]
    /\ lastTs     \in [Node -> Nat]
    /\ bootFloor  \in [Node -> Nat]
    /\ certOk     \in [Node -> BOOLEAN]
    /\ sweepAge   \in [Node -> 0..RekeyInterval]
    /\ net        \in SUBSET Message
    /\ fresh      \in 0..MaxFresh
    /\ crashes    \in 0..MaxCrashes
    /\ history    \in [Node -> [installed : SUBSET Session, reused : BOOLEAN]]

(* A daemon that has not restarted builds one session per handshake round: *)
(* whatever is retransmitted, duplicated or delayed, every Resp it sends   *)
(* to one Init is the same (rekey_init_core's dedup by ephemeral and its   *)
(* freshness gate).                                                        *)
OneSessionPerInit ==
    crashes = 0 =>
        \A n \in Node : \A s, t \in history[n].installed :
            s.init = t.init => s = t

(* No daemon ever builds two data planes on the same keys, so no send      *)
(* counter, which is the AEAD nonce, starts over under a key: neither a    *)
(* duplicate Resp nor a replayed Init nor a restart reinstalls a session   *)
(* (rekey_resp_core and handle_handshake_resp take the attempt before they *)
(* read the answer; start_responder draws a new ephemeral).                *)
NoKeyReuse == \A n \in Node : ~history[n].reused

(* Both established and neither waiting for a rekey answer: frames get     *)
(* through in one direction at least.                                      *)
NotSplit ==
    (\A n \in Node : state[n] = "Established" /\ epochs[n].rekey = 0)
        => \E n \in Node : epochs[n].current \in Held(epochs[Peer(n)])

(* The initiator of a rekey moves its traffic only onto an epoch that the  *)
(* responder holds at that moment, however often the Init and the Resp     *)
(* were retransmitted (promote_from_rekey: "knows the responder installed  *)
(* it").                                                                   *)
ConfirmedSwitch ==
    [][\A n \in Node :
         (/\ state[n] = "Established" /\ state'[n] = "Established"
          /\ epochs'[n].rekey # epochs[n].rekey
          /\ epochs'[n].current # epochs[n].current)
           => epochs'[n].current \in Held(epochs[Peer(n)])]_vars
=============================================================================
