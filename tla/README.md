# yip in TLA+

A model of the parts of yip whose correctness depends on the order in which
things happen: the session between two daemons, the replay window, the sharding
of a session over cores, the ring between the cores, and the threshold CA.  TLC
checks small instances; TLAPS proves the central invariants of the session and of
the replay window for every value of the constants.

    tlc -config PeerSession_cold.cfg PeerSession     # any run of PROJECT.json
    tlapm PeerSessionProofs.tla                      # any *Proofs module

## 1. The system

| Part | State | Operations | What is hard about it |
|---|---|---|---|
| Peer session (`peer_manager/`, `epoch.rs`, `handshake.rs`) | `PeerState`, `EpochSet` (current, previous, next, rekey), `pending_tun`, `cached_resp`, `last_accepted_init_ts`, boot floor | `on_tun`, `handle_handshake_init/resp`, `handle_data_or_control`, `tick`, `drop_session` | glare, crossed rekeys, retransmission against a dedup cache, delayed Inits, restart, lapsing certificates |
| Session crypto (`yip-crypto`) | send counter and stride, replay ring | `seal`, `open`, `set_stride`, promotion of the window | jumps, reordering, slots shared between words |
| Sharding (`sharding.rs`) | per shard: current epoch, counter; rings | `drain_new_epochs`, `install_established_session`, forwarding | one key in several counters, replicated epochs that lag |
| SPSC ring (`yip-io/spsc.rs`) | head, tail, slots, cached indices | `push`, `pop`, `drain_batch`, drops | stale caches, wrapping indices |
| Threshold CA (`yip-ca`) | nonce vaults; commitment queues, responsive set, sessions, connections | publish, sign, register, spawn, receive, enroll | restarts of signers, cancelled reads, busy signers |
| Membership and gossip (`membership.rs`, `yip-membership`) | directory, own record and sequence, certificates | `ingest_record`, `on_gossip`, `tick_digest`, `sweep_expired`, `update_own_cert` | records out of order, a sequence that restarts at zero |
| Path, rendezvous, relay (`path.rs`, `relay.rs`, `yip-rendezvous`) | ladder stage, candidate; registrations | `advance`, `on_peer_candidate`, relayed handshake; `register_if_fresh`, `sweep` | answers of an abandoned path, expiry against refresh |
| Data plane (`dataplane.rs`, `yip-transport`) | sent log, pending losses, retransmission buffer, object table, MTU search | `on_tun_packet`, `on_udp_datagram`, `tick`, `report` | reports lost or cut short, object ids that wrap |
| Everything else | | | codecs, system calls, parsing: see "components" in `PROJECT.json` |

The daemon loop is one thread per shard: a handler (a TUN packet, a datagram, a
tick) runs to its end before the next.  An action of the models is therefore one
whole handler, except in `SpscRing`, where it is one access to shared memory, and
in `ThresholdCa`, where it is what a tokio task does between two awaits.

## 2. Modules

**EpochSet** holds the operations of `epoch.rs` as operators on a record.  A
session is the pair of ephemerals it was derived from; time stamps are ages that
stop counting at the largest threshold they are compared with.

**PeerSession** composes two daemons, `Small` and `Large` (by the order of their
static keys, which decides glare), and a network.  A datagram stays in `net` for
`Lifetime` units of time and may be delivered any number of times, in any order,
or never.  Ephemerals are numbered in the order they are drawn and the TAI64N label of
an Init is that number: both grow with real time.  A crash forgets everything but the
keys; the boot floor, which is a wall clock less a margin, may admit any suffix
of the Inits sent so far.  `history` records the sessions a daemon built a data plane
for and is read by no action.

**PeerSessionTimely** is the same two daemons with a network that loses everything in
an outage and, once healed, delivers each datagram once before the next unit
of time.  Every daemon ticks once per unit, as the timer of the daemon loop
does.  Only here can anything eventually happen.

**ReplayWindow** is `ReplayWindow::{check, commit}`, `Session::open` and
`promote_to_high_throughput`, a word being the set of its bits.

**ShardedSession** is the sending side of one session over shard 0 and its workers.
Keys are numbered; a frame is a pair of key and counter.

**SpscRing** has one action per shared access; a load of the other side's index
may return any value stored since the last one seen.  **BoundedFifo** is what the ring
promises.

**ThresholdCa** is the coordinator, its connection tasks, its enrollment tasks and
the signers.  A share is valid when it was made by a correct signer with the nonce
the session committed to; FROST itself is external.

**PeerSessionTypes, PeerSessionKinds, PeerSessionSteps, PeerSessionProofs** and
**ReplayWindowProofs** hold the proofs.

Definitions called a "faulty variant" in a comment are not part of any
specification.  Each is a plausible slip in the code; put in place of the definition
after it, it breaks the property it is listed with under "mutants".

## 3. Runs

| Run | States | Shows |
|---|---|---|
| `cold_start` | 957k | From two idle daemons, with certificates and a restart: types; no key pair is installed twice. |
| `rekey` | 689k | Crossed and retransmitted rekeys: one session per Init; the initiator switches only to an epoch that the responder holds. |
| `healed` | 239k | Rekeys lose no frame; whatever an outage left, one session again in the end. |
| `mesh` | 3.0M | A peer with a lapsed certificate has no session after a rekey interval. |
| `outage` (violation) | | Sides that rekey at once after an outage end on swapped epochs. |
| `replay_window` | 897k | Replays only at the far edge; nothing new refused within the window. |
| `replay_once` (violation) | | A counter in the oldest word is accepted twice. |
| `spsc_ring` | 43k | Slot discipline, no leak, and refinement of `BoundedFifo`. |
| `shards` | 1.3M | Only counters of the first burst can repeat; drained workers are on the epoch recorded last. |
| `shards_nonce` (violation) | | Packets that waited for the handshake are sealed before the stride is set. |
| `shards_follow` (violation) | | A responder's promotion is not replicated to the workers. |
| `threshold_ca` | 174k | One request per signer, no correct signer banished, pools agree, signers become available again. |

### Bounds

- *Timing* (`RekeyInterval`, `Grace`, `HandshakeTotal`): 2:1:2, or 3:1:2 in
  `outage`, for 120 s, 15 s and 90 s.  The code compares an age with one of these,
  or with twice the interval.  The order Grace < HandshakeTotal <= RekeyInterval is
  kept; the ratios are coarser than the real ones.
- *`MaxFresh`* bounds ephemerals.  Three are the two Inits of a glare and one
  answer; six are an established session and a pair of crossed rekeys on top of it;
  `healed` starts from six at most and has six more, within which every behaviour
  reconnects.  At the bound a daemon behaves as when `start_initiator` fails.
- *`Lifetime`* 1 lets a datagram outlive a timeout check; the proofs hold for any.
- *`MaxPendingTun`* 1 and 2, for 16: the drop of the oldest happens, and with two
  waiting packets a burst passes the first counter of a worker.
- *Replay*: words of 2 bits, rings of 2 and 4 words and counters to 12 let `latest` go
  around the wide ring; the proofs hold for any.
- *Ring*: capacity 2, indices modulo 8, batches of up to 3: indices wrap, batches
  are cut short, both ends meet full and empty.
- *CA*: three signers, two needed, one wrong, one restart, two enrollments of which
  one is refused by policy.  `Batch` 1, for 16, makes a pool run empty at once.

### Fairness

`healed` assumes weak fairness of delivery and ticks, and of time.  The daemon loop
polls its sockets and its timer in every iteration; a healed network delivers, by
definition.  Fairness is not assumed of TUN traffic, so a session comes back by the
schedule of `needs_rekey` and the frames of the tick alone wherever one
daemon is still established.  `threshold_ca` assumes it of the tasks that have
something to read or send: tokio runs runnable tasks and TCP delivers or closes.
Nothing is assumed of clients, crashes or restarts.

Deadlock checking is off where the system may stop: `spsc_ring` ends when both
halves are dropped, `threshold_ca` when every enrollment is decided.

## 4. Proofs

**`TypeCorrect`, `KeysNeverReused`, `RoundsNeverForked`** (PeerSessionProofs) hold for
every timing, lifetime, queue bound and number of ephemerals and restarts, from
`TimingAssumption` and `PeerAssumption`.  `NoKeyReuse` is not inductive: nothing in
it says that a Resp cannot complete a round twice.  The invariant `IInv` adds

- `Shape`: a cold attempt exists exactly in the state that waits for it;
- `Drawn`: no number is in use that has not been drawn, so a responder's new
  ephemeral makes a session that nobody has;
- `Owned`: an ephemeral that is awaited belongs to its initiator alone, which has no
  session of it; as the handlers take the attempt before they read the answer,
  completing it ends the waiting;
- `Gated`: without restarts, `last_accepted_init_ts` covers every Init that was
  answered and may still arrive, so the freshness gate refuses a second answer.

`PeerSessionKinds` first shows that every action is, for these numbers, one of
three kinds (drawing, resending or forgetting; answering; completing), and
`PeerSessionSteps` then needs one case per kind instead of one per action.

**`NeverReplayedNear`, `RefusesOnlySeen`** (ReplayWindowProofs) hold for every word
size, ring length and sequence of counters, from `WindowAssumption`.  The first rests on
`Remembered` (the bit of an accepted counter stays set while its word is within
the ring the window was created with), the second on `Honest` (a set bit of a
word within the ring belongs to an accepted counter).  Both come down to the fact that
fewer consecutive words than the ring has never share a slot (`SlotDistinct`,
`SlotInjective`).

Model-checked only: `Reconnects` and `SignersReturn` (liveness under fairness is out
of the prover's reach); `ConfirmedSwitch`, `Seamless`, `RevokedDropped`, the
refinement of `BoundedFifo`, and the properties of `ShardedSession` and
`ThresholdCa` (not attempted yet).

## 5. Where documents and code disagree

The four violation runs, with the quoted lines under "findings" in `PROJECT.json`:

1. `promote_from_rekey` leaves `next` in place.  After crossed rekeys the priming
   frames promote it, and the sides are on each other's old epoch once the grace
   ends, until the next rekey.  `docs/04` says traffic is not interrupted.
2. The window is as long as the ring, so its oldest word shares a slot with its newest.
3. `pending_tun` is sealed at stride 1 before `record_new_epoch` sets the stride.
4. `inbound_open` promotes without `record_new_epoch`; the workers are not told.

Met while modelling, without a run:

- `docs/03-architecture.md` says the CA stays live while any *t* honest signers are
  reachable and substitutes a responsive signer.  `serve.rs` spawns one session per
  enrollment and never another; a signer that restarted or rejected while it was busy
  stays in `signer_to_session` until the coordinator restarts.
- After a promotion of the replay window, counters that the narrow ring had forgotten
  are within the wide one and accepted again.  Only a test calls the promotion.
- `docs/04` gives a grace of 20 s and a rekey at 110 s; the code has 15 s and 120 s.
- The comment on `INITIAL_SEQ` (`membership.rs:80`) says a higher sequence of our own
  record is skipped; `insert_if_newer` takes it.

## 6. Not modelled

Byte formats (wire, TLS and QUIC mimicry, obfuscation envelopes), field arithmetic of
the erasure codes, system calls and kernel rings, configuration, metrics and the
command lines have no protocol state that a small model would say anything about.
Cryptography is modelled by its result: a frame opens under the session it was sealed
in, a Resp completes the Init it answers, and a share verifies or does not.
Of the peer session, the relayed handshake, endpoint relearning, the admission of
strangers and the runtime add and remove of peers are left out.

## 7. Plan

In this order, the most important behaviour first:

1. **Membership**: directories of three nodes, gossip digests and pulls over a lossy
   network, expiry, eviction, restart with sequence zero.  Abstract specification: the
   directory as a register per node that only moves to newer records.  Properties:
   no older record replaces a newer one, directories converge, a lapsed member goes
   and does not come back.  Composed with the session's sweep, in place of `mesh`.
   Theorem: monotonicity of every directory.
2. **DataPlane**: sent log, loss detector, reports, retransmission buffer, object
   table and its 16-bit ids.  Properties: every overdue counter is reported once or
   was delivered; a retransmission carries what was sent under that counter; no object
   mixes two frames.  Theorem: the loss detector's partition of counters.
3. **PathMtu**: the search of `plpmtu.rs` with black holes and late acknowledgements.
4. **Path** with **Rendezvous**: the ladder of `path.rs`, registrations and the relayed
   handshake, composed with a handshake in flight.  Properties: an answer of an
   abandoned path completes nothing; a peer behind NAT is reached in the end.
5. **Proofs** for what is there: `SlotDiscipline` and the refinement of `BoundedFifo`
   for every capacity, `ReuseOnlyInBurst` for every number of shards,
   `OneAtATime` and `HonestNeverBanished` for every set of signers.
6. Smaller sequential structures against reference definitions: the MAC table's LRU
   list, the minute ring of `reality_replay.rs`, the coalesced timer of `sharding.rs`.
