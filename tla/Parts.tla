-------------------------------- MODULE Parts --------------------------------
(***************************************************************************)
(* The parts of the daemons that keep to themselves, put side by side.  A  *)
(* behaviour exercises one of them; the others stay as they were created.  *)
(***************************************************************************)
EXTENDS ReplayWindow, PeerTable

CONSTANTS
    Item, NoItem, Cap, Modulus, MaxBatch,                                 \* SpscRing
    NumShards, MaxPendingTun, RingCap, MaxKeys, MaxSeal,                  \* ShardedSession
    Ladder, FirstSize, ObjectSizes, Repair, MaxAttempts, MaxFallbacks,
    MaxWire,                                                              \* PathMtu
    Client, RegTtl, RegSkew, MaxRegs, MaxNow,                             \* Registrations
    Conn, Depth, SeenTtl, Patience, MaxSeen,                              \* Routes
    SealTime, SkewMin, WindowMin, MaxBucket, StartMin, LastMin,           \* SealRing
    ObjKey, Places,                                                       \* ObjectTable
    Mac, MacCapacity, MacTtl, MaxMacTime,                                 \* MacTable
    SendSlots, RecvDepth, ReadDepth, MaxRun, MaxPending, Shape            \* UringDriver

VARIABLES
    part,       \* the part this behaviour is about
    head, tail, slots, cachedTail, cachedHead, pcP, item, pcC, max, batch, out, alive,
    key, counter, stride, next, pending, inbox, forwarded, keys, recorded, lost,
    burst, sealed, reused,
    ctl, size, width, moved, wire, failed, stale,
    now, regs, heard,
    clock, linked, dialled, reg_counter, reg_at, frame, tls_seen, now_ms, conns, route,
    channel, inserted, upgrades,
    minute, ring, accepts,
    hash_key, places, stored,
    mac_now, table, recency,
    q, submitted, pool, cqes, pending_gso, gso_enabled, phase, made, sent

Ring    == INSTANCE SpscRing
Shards  == INSTANCE ShardedSession WITH MaxCounter <- MaxSeal
Mtu     == INSTANCE PathMtu
Regs    == INSTANCE Registrations
Tunnels == INSTANCE Routes
Seals   == INSTANCE SealRing
Objects == INSTANCE ObjectTable
Macs    == INSTANCE MacTable
Uring   == INSTANCE UringDriver

ASSUME PartsAssumption == Ring!RingAssumption /\ Shards!ShardAssumption

ringVars   == <<head, tail, slots, cachedTail, cachedHead, pcP, item, pcC, max, batch,
                out, alive>>
shardsVars == <<key, counter, stride, next, pending, inbox, forwarded, keys, recorded,
                lost, burst, sealed, reused>>
mtuVars    == <<ctl, size, width, moved, wire, failed, stale>>
regsVars   == <<now, regs, heard>>
routesVars == <<clock, linked, dialled, reg_counter, reg_at, frame, tls_seen, now_ms,
                conns, route, channel, inserted, upgrades>>
sealVars   == <<minute, ring, accepts>>
objVars    == <<hash_key, places, stored>>
macVars    == <<mac_now, table, recency>>
uringVars  == <<q, submitted, pool, cqes, pending_gso, gso_enabled, phase, made, sent>>
partsVars  == <<part, vars, ringVars, shardsVars, mtuVars, tableVars, regsVars, routesVars,
                sealVars, objVars, macVars, uringVars>>

PartsInit ==
    /\ part \in {"replay", "ring", "shards", "mtu", "table", "regs", "routes", "seals",
                 "objects", "macs", "uring"}
    /\ Init /\ Ring!Init /\ Shards!Init /\ Mtu!Init
    /\ TableInit /\ Regs!RegInit /\ Tunnels!RoutesInit /\ Seals!SealInit
    /\ Objects!ObjInit /\ Macs!MacInit /\ Uring!UringInit
    /\ part # "replay" => born = StandardWords
    /\ part # "objects" => hash_key = [k \in ObjKey |-> 0]

(* A step of part p leaves the others alone. *)
Only(p) ==
    /\ part = p /\ part' = part
    /\ p # "replay" => UNCHANGED vars
    /\ p # "ring" => UNCHANGED ringVars
    /\ p # "shards" => UNCHANGED shardsVars
    /\ p # "mtu" => UNCHANGED mtuVars
    /\ p # "table" => UNCHANGED tableVars
    /\ p # "regs" => UNCHANGED regsVars
    /\ p # "routes" => UNCHANGED routesVars
    /\ p # "seals" => UNCHANGED sealVars
    /\ p # "objects" => UNCHANGED objVars
    /\ p # "macs" => UNCHANGED macVars
    /\ p # "uring" => UNCHANGED uringVars

ReplayStep  == Only("replay") /\ Next
RingStep    == Only("ring") /\ Ring!Next
ShardsStep  == Only("shards") /\ Shards!Next
MtuStep     == Only("mtu") /\ Mtu!Next
TableStep   == Only("table") /\ TableNext
RegsStep    == Only("regs") /\ Regs!RegNext
RoutesStep  == Only("routes") /\ Tunnels!RoutesNext
SealsStep   == Only("seals") /\ Seals!SealNext
ObjectsStep == Only("objects") /\ Objects!ObjNext
MacsStep    == Only("macs") /\ Macs!MacNext
UringStep   == Only("uring") /\ Uring!UringNext

PartsNext ==
    \/ ReplayStep \/ RingStep \/ ShardsStep \/ MtuStep \/ TableStep \/ RegsStep
    \/ RoutesStep \/ SealsStep \/ ObjectsStep \/ MacsStep \/ UringStep

PartsSpec == PartsInit /\ [][PartsNext]_partsVars

-----------------------------------------------------------------------------
(* Properties.  Those of the replay window (ReplayFarOnly, RefusedIsSeen)  *)
(* and of the peer table (TableRight) come with their modules.             *)

(* Every part has its types: a ring batch takes no more than there is,     *)
(* pending_tun, the rings, the tunnel channels and the table of            *)
(* registrations keep their limits, a tier is given up after               *)
(* MAX_PROBE_ATTEMPTS and no removal shifts an index below the first peer. *)
PartsTypeOK ==
    CASE part = "replay" -> TypeOK
      [] part = "table"  -> TableTypeOK
      [] part = "ring"   -> Ring!TypeOK
      [] part = "shards" -> Shards!TypeOK
      [] part = "mtu"    -> Mtu!TypeOK
      [] part = "regs"   -> Regs!RegTypeOK
      [] part = "routes" -> Tunnels!RoutesTypeOK
      [] OTHER           -> TRUE

(* Between the halves of the ring every slot has one owner, however old    *)
(* the cached indices are; what is left in it is dropped with it.          *)
SlotDiscipline == part = "ring" => Ring!SlotDiscipline

(* The ring is a bounded FIFO: what is popped is what was pushed, in       *)
(* order, and push fails only on a full queue.                             *)
ImplementsFifo == Ring!ImplementsFifo

(* Two frames of a key share a counter only when one of them waited for    *)
(* the handshake: from set_stride on, the shards of a session draw         *)
(* disjoint counters.                                                      *)
ReuseOnlyInBurst == part = "shards" => Shards!ReuseOnlyInBurst

(* A worker that has emptied its ring, of which nothing was lost, is on    *)
(* the epoch that was recorded last (record_new_epoch, drain_new_epochs).  *)
WorkersCatchUp == part = "shards" => Shards!WorkersCatchUp

(* A tier is confirmed only by an acknowledgement of a probe sent since    *)
(* the last fallback (on_ack, on_blackhole, reset_to_floor).               *)
NoStaleAck == part = "mtu" => Mtu!NoStaleAck

(* An object cut and expected at the same symbol size is put together from *)
(* a whole batch (build, push).                                            *)
RebuiltWhenAgreed == part = "mtu" => Mtu!RebuiltWhenAgreed

(* The newest record filed for a node is the one lookups are answered with *)
(* for a whole lifetime (register_if_fresh).                               *)
NewestServed == part = "regs" => Regs!NewestServed

(* The connection that inserted its route last keeps it while its task     *)
(* pumps (run_tunnel).                                                     *)
LastIsRouted == part = "routes" => Tunnels!LastIsRouted

(* A reconnect is not taken for a repeated registration, and a repeated    *)
(* one is not upgraded for its lifetime less CLASSIFY_TIMEOUT (Counter,    *)
(* register_if_fresh_tls).                                                 *)
Freshness == part = "routes" => Tunnels!Freshness

(* A seal is not found fresh twice within WINDOW minutes (check).          *)
FreshOncePerWindow == part = "seals" => Seals!FreshOncePerWindow

(* A lookup finds exactly the objects in flight, for every hash function   *)
(* (find_index, insert, remove).                                           *)
FindsStored == part = "objects" => Objects!FindsStored

(* The links of the MAC table list its addresses in the order they were    *)
(* last learned, and no slot is lost or used twice (learn, unlink).        *)
LinksAreRecency == part = "macs" => Macs!LinksAreRecency

(* The slots and receives lent to the kernel come back, once               *)
(* (release_in_flight_slot, arm_udp_recv_slot, arm_tun_read).              *)
LentRight == part = "uring" => Uring!LentRight

(* Each datagram goes out once or is dropped, and those sent together      *)
(* share a destination and a length but no FEC object (can_coalesce,       *)
(* recover_gso_unsent_datagrams).                                          *)
SentRight == part = "uring" => Uring!SentRight
=============================================================================
