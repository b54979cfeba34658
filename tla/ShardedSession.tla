--------------------------- MODULE ShardedSession ---------------------------
(***************************************************************************)
(* The sending side of one peer session spread over worker shards          *)
(* (bin/yipd/src/sharding.rs, peer_manager/mod.rs): shard 0 owns the       *)
(* handshakes and replicates each epoch to the workers over their rings,   *)
(* and every shard seals under the same key with counters of its own.      *)
(* Keys are numbered in the order they are derived.                        *)
(***************************************************************************)
EXTENDS Naturals, Sequences

CONSTANTS
    NumShards,
    MaxPendingTun,   \* MAX_PENDING_TUN
    RingCap,         \* capacity of a ring between two shards
    MaxKeys,         \* bound: keys derived in a behaviour
    MaxCounter       \* bound: largest counter a shard seals with

(* What is assumed of the constants. *)
ShardAssumption ==
    /\ NumShards \in Nat /\ NumShards > 1
    /\ MaxPendingTun \in Nat \ {0} /\ RingCap \in Nat \ {0}
    /\ MaxKeys \in Nat /\ MaxCounter \in Nat

VARIABLES
    key,        \* of each shard: the key of its current epoch, 0 for none
    counter,    \* send_counter of that Session
    stride,     \* and its stride
    next,       \* shard 0: the unconfirmed next epoch, 0 for none
    pending,    \* shard 0: packets in pending_tun
    inbox,      \* of each worker: SessionEpoch messages from shard 0
    forwarded,  \* of each worker: Packet messages to shard 0
    keys,       \* keys derived so far
    recorded,   \* the last epoch given to record_new_epoch
    lost,       \* a SessionEpoch was not pushed, the ring being full
    burst,      \* of each key: frames sealed before its stride was set
    sealed,     \* the <<key, counter>> pairs used
    reused      \* and those used twice

vars == <<key, counter, stride, next, pending, inbox, forwarded, keys, recorded,
          lost, burst, sealed, reused>>

Shard  == 0..(NumShards - 1)
Worker == Shard \ {0}

Init ==
    /\ key = [s \in Shard |-> 0]
    /\ counter = [s \in Shard |-> 0]
    /\ stride = [s \in Shard |-> 1]
    /\ next = 0 /\ pending = 0
    /\ inbox = [w \in Worker |-> <<>>]
    /\ forwarded = [w \in Worker |-> 0]
    /\ keys = 0 /\ recorded = 0 /\ lost = FALSE
    /\ burst = [k \in 1..MaxKeys |-> 0]
    /\ sealed = {} /\ reused = {}

-----------------------------------------------------------------------------
(* Session *)

(* Session::seal on each of the counters cs under k. *)
Seal(k, cs) ==
    /\ sealed' = sealed \cup {<<k, c>> : c \in cs}
    /\ reused' = reused \cup {<<k, c>> : c \in {d \in cs : <<k, d>> \in sealed}}

(* Session::set_stride: the counter it continues with. *)
SetStride(c, start, by) ==
    LET rem == c % by
        target == start % by
    IN IF c = 0 THEN start
       ELSE IF rem <= target THEN c + (target - rem)
       ELSE c + (by - (rem - target))

-----------------------------------------------------------------------------
(* Shard 0 *)

(* Faulty variant: only a worker without a session is told. *)
BroadcastOnce(k) ==
    /\ inbox' = [w \in Worker |-> IF Len(inbox[w]) < RingCap /\ key[w] = 0
                                  THEN Append(inbox[w], k) ELSE inbox[w]]
    /\ lost' = (lost \/ \E w \in Worker : Len(inbox[w]) >= RingCap)

(* drain_new_epochs: a push to a full ring is ignored. *)
Broadcast(k) ==
    /\ inbox' = [w \in Worker |-> IF Len(inbox[w]) < RingCap
                                  THEN Append(inbox[w], k) ELSE inbox[w]]
    /\ lost' = (lost \/ \E w \in Worker : Len(inbox[w]) >= RingCap)

(* A new current epoch of shard 0: the frames that were waiting are sealed *)
(* with the fresh Session, then record_new_epoch sets the stride and       *)
(* queues the epoch for the workers.                                       *)
NewCurrent(frames) ==
    /\ keys < MaxKeys
    /\ keys' = keys + 1
    /\ Seal(keys + 1, 0..(frames - 1))
    /\ burst'   = [burst EXCEPT ![keys + 1] = frames]
    /\ key'     = [key EXCEPT ![0] = keys + 1]
    /\ counter' = [counter EXCEPT ![0] = SetStride(frames, 0, NumShards)]
    /\ stride'  = [stride EXCEPT ![0] = NumShards]
    /\ pending' = 0
    /\ recorded' = keys + 1
    /\ Broadcast(keys + 1)

(* The cold-start tail of handle_handshake_init and handle_handshake_resp. *)
ColdEstablish ==
    /\ key[0] = 0
    /\ NewCurrent(pending)
    /\ next' = 0
    /\ UNCHANGED forwarded

(* rekey_resp_core: the new epoch is primed with what waits, or one frame. *)
RekeyResp ==
    /\ key[0] # 0
    /\ NewCurrent(IF pending = 0 THEN 1 ELSE pending)
    /\ UNCHANGED <<next, forwarded>>

(* rekey_init_core *)
RekeyInit ==
    /\ key[0] # 0
    /\ keys < MaxKeys
    /\ keys' = keys + 1
    /\ next' = keys + 1
    /\ UNCHANGED <<key, counter, stride, pending, inbox, forwarded, recorded, lost,
                   burst, sealed, reused>>

(* dispatch_established on a frame under next: the promotion of            *)
(* inbound_open, without record_new_epoch.                                 *)
PromoteNext ==
    /\ key[0] # 0 /\ next # 0
    /\ key'     = [key EXCEPT ![0] = next]
    /\ counter' = [counter EXCEPT ![0] = 0]
    /\ stride'  = [stride EXCEPT ![0] = 1]
    /\ next' = 0
    /\ UNCHANGED <<pending, inbox, forwarded, keys, recorded, lost, burst, sealed,
                   reused>>

PushPending == pending' = IF pending = MaxPendingTun THEN pending ELSE pending + 1

-----------------------------------------------------------------------------
(* Every shard *)

SealOn(s) ==
    /\ counter[s] <= MaxCounter
    /\ Seal(key[s], {counter[s]})
    /\ counter' = [counter EXCEPT ![s] = @ + stride[s]]

(* on_tun of an established session; a tick seals its frames alike. *)
OnTunEstablished(s) ==
    /\ key[s] # 0
    /\ SealOn(s)
    /\ UNCHANGED <<key, stride, next, pending, inbox, forwarded, keys, recorded, lost,
                   burst>>

(* Otherwise shard 0 buffers the packet and a worker forwards it. *)
OnTunIdle ==
    /\ key[0] = 0
    /\ PushPending
    /\ UNCHANGED <<key, counter, stride, next, inbox, forwarded, keys, recorded, lost,
                   burst, sealed, reused>>

ForwardPacket(w) ==
    /\ key[w] = 0
    /\ forwarded' = [forwarded EXCEPT ![w] = IF @ < RingCap THEN @ + 1 ELSE @]
    /\ UNCHANGED <<key, counter, stride, next, pending, inbox, keys, recorded, lost,
                   burst, sealed, reused>>

(* Shard 0 takes a forwarded packet through on_tun. *)
DrainPacket(w) ==
    /\ forwarded[w] > 0
    /\ forwarded' = [forwarded EXCEPT ![w] = @ - 1]
    /\ \/ key[0] # 0 /\ SealOn(0) /\ UNCHANGED pending
       \/ key[0] = 0 /\ PushPending /\ UNCHANGED <<counter, sealed, reused>>
    /\ UNCHANGED <<key, stride, next, inbox, keys, recorded, lost, burst>>

(* Faulty variant: the worker's Session starts like that of shard 0. *)
InstallAtZero(w) ==
    /\ key'     = [key EXCEPT ![w] = Head(inbox[w])]
    /\ counter' = [counter EXCEPT ![w] = 0]
    /\ stride'  = [stride EXCEPT ![w] = NumShards]

(* Session::from_raw_keys(.., shard_id, num_shards) and                    *)
(* install_established_session.                                            *)
Install(w) ==
    /\ key'     = [key EXCEPT ![w] = Head(inbox[w])]
    /\ counter' = [counter EXCEPT ![w] = w]
    /\ stride'  = [stride EXCEPT ![w] = NumShards]

DrainEpoch(w) ==
    /\ inbox[w] # <<>>
    /\ Install(w)
    /\ inbox' = [inbox EXCEPT ![w] = Tail(@)]
    /\ UNCHANGED <<next, pending, forwarded, keys, recorded, lost, burst, sealed,
                   reused>>

(* drop_session by a shard's own certificate sweep. *)
DropSession(s) ==
    /\ key[s] # 0
    /\ key' = [key EXCEPT ![s] = 0]
    /\ next' = IF s = 0 THEN 0 ELSE next
    /\ UNCHANGED <<counter, stride, pending, inbox, forwarded, keys, recorded, lost,
                   burst, sealed, reused>>

Next ==
    \/ ColdEstablish \/ RekeyResp \/ RekeyInit \/ PromoteNext \/ OnTunIdle
    \/ \E w \in Worker : ForwardPacket(w) \/ DrainPacket(w) \/ DrainEpoch(w)
    \/ \E s \in Shard : OnTunEstablished(s) \/ DropSession(s)

Spec == Init /\ [][Next]_vars

-----------------------------------------------------------------------------
(* Properties *)

TypeOK ==
    /\ key \in [Shard -> 0..MaxKeys]
    /\ counter \in [Shard -> Nat]
    /\ stride \in [Shard -> {1, NumShards}]
    /\ next \in 0..MaxKeys /\ keys \in 0..MaxKeys /\ recorded \in 0..MaxKeys
    /\ pending \in 0..MaxPendingTun
    /\ inbox \in [Worker -> Seq(1..MaxKeys)]
    /\ \A w \in Worker : Len(inbox[w]) <= RingCap
    /\ forwarded \in [Worker -> 0..RingCap]
    /\ lost \in BOOLEAN
    /\ burst \in [1..MaxKeys -> 0..MaxPendingTun]
    /\ sealed \subseteq (1..MaxKeys) \X Nat /\ reused \subseteq sealed

(* Whatever the order of sealing, replication, rekeys and drops, a counter *)
(* is used twice under a key only if it is one of those sealed before the  *)
(* stride was set: from then on the shards' counters never meet            *)
(* (set_stride, from_raw_keys).                                            *)
ReuseOnlyInBurst == \A p \in reused : p[2] < burst[p[1]]

(* A worker whose ring is drained sends on the epoch recorded last: the    *)
(* rings keep the order of the epochs, and a worker is behind only while a *)
(* message waits or if one did not fit (drain_new_epochs).                 *)
WorkersCatchUp ==
    \A w \in Worker : (inbox[w] = <<>> /\ ~lost) => key[w] \in {0, recorded}

(* No counter is ever used twice under a key, as                           *)
(* docs/04-security-and-threat-model.md says of the worker stride.         *)
NonceUnique == reused = {}

(* A worker whose ring is drained sends on the epoch shard 0 sends on, as  *)
(* the comment on install_established_session has it.                      *)
WorkersFollow ==
    \A w \in Worker :
      (inbox[w] = <<>> /\ ~lost /\ key[0] # 0) => key[w] \in {0, key[0]}
=============================================================================
