------------------------------ MODULE PeerTable ------------------------------
(***************************************************************************)
(* The peers of a daemon and the maps that lead to them by index           *)
(* (PeerManager: peers, by_node, by_addr, by_tag), while peers are added,  *)
(* admitted and removed and their sessions come, rekey and go.  An epoch   *)
(* is its conn_tag; tags are numbered in the order they are derived.       *)
(***************************************************************************)
EXTENDS Integers, Sequences, FiniteSets

CONSTANTS
    Key,      \* public keys; node_id and node_addr are one to one in them
    MaxTag    \* bound: epochs derived

VARIABLES
    peers,     \* the vector of peers
    by_node,   \* index by NodeId
    by_addr,   \* index by address
    by_tag,    \* index by conn_tag
    drawn      \* epochs derived so far

tableVars == <<peers, by_node, by_addr, by_tag, drawn>>

Tag == 1..MaxTag
None == 0

(* PeerState: the epochs of an Established peer; current is None otherwise. *)
Idle == [current |-> None, next |-> None, previous |-> None]

Tags(ep) == {ep.current, ep.next, ep.previous} \ {None}

TableInit ==
    /\ peers = <<>>
    /\ by_node = <<>> /\ by_addr = <<>> /\ by_tag = <<>>
    /\ drawn = 0

(* Maps as functions on the keys they hold. *)
Put(f, k, v) == [x \in DOMAIN f \cup {k} |-> IF x = k THEN v ELSE f[x]]
Without(f, S) == [x \in DOMAIN f \ S |-> f[x]]

-----------------------------------------------------------------------------
(* The configured peers of new, a member admitted by admit_member and a    *)
(* peer added by add_peer_with_transport all enter at the end.             *)
push_peer(k) ==
    /\ peers'   = Append(peers, [key |-> k, epochs |-> Idle])
    /\ by_node' = Put(by_node, k, Len(peers) + 1)
    /\ by_addr' = Put(by_addr, k, Len(peers) + 1)
    /\ UNCHANGED <<by_tag, drawn>>

AdmitMember(k) == (\A i \in DOMAIN peers : peers[i].key # k) /\ push_peer(k)
AddPeer(k)     == k \notin DOMAIN by_node /\ push_peer(k)

(* Faulty variant: indices are left as they are. *)
shifted_not(f, idx) == f

(* Indices behind the removed peer move down. *)
shifted(f, idx) == [x \in DOMAIN f |-> IF f[x] > idx THEN f[x] - 1 ELSE f[x]]

without_peer(s, idx) == [i \in 1..(Len(s) - 1) |-> IF i < idx THEN s[i] ELSE s[i + 1]]

(* remove_peer, with the drop_session it begins with. *)
RemovePeer(k) ==
    /\ k \in DOMAIN by_node
    /\ LET idx == by_node[k] IN
         /\ peers'   = without_peer(peers, idx)
         /\ by_node' = shifted(Without(by_node, {k}), idx)
         /\ by_addr' = shifted(Without(by_addr, {k}), idx)
         /\ by_tag'  = shifted(Without(by_tag, Tags(peers[idx].epochs)), idx)
    /\ UNCHANGED drawn

-----------------------------------------------------------------------------
(* Sessions *)

SetEpochs(i, ep) == peers' = [peers EXCEPT ![i] = [key |-> peers[i].key, epochs |-> ep]]

Derive == drawn < MaxTag /\ drawn' = drawn + 1

(* A cold handshake completes, as either side. *)
Establish(i) ==
    /\ peers[i].epochs = Idle
    /\ Derive
    /\ SetEpochs(i, [Idle EXCEPT !.current = drawn'])
    /\ by_tag' = Put(by_tag, drawn', i)
    /\ UNCHANGED <<by_node, by_addr>>

(* rekey_init_core: the answer to a rekey Init is kept as next. *)
InstallNext(i) ==
    /\ peers[i].epochs.current # None
    /\ Derive
    /\ SetEpochs(i, [peers[i].epochs EXCEPT !.next = drawn'])
    /\ UNCHANGED <<by_node, by_addr, by_tag>>

(* inbound_open: the first frame under next. *)
PromoteNext(i) ==
    LET ep == peers[i].epochs IN
    /\ ep.next # None
    /\ SetEpochs(i, [current |-> ep.next, next |-> None, previous |-> ep.current])
    /\ UNCHANGED <<by_node, by_addr, by_tag, drawn>>

(* rekey_resp_core: the initiator switches and swaps the tags. *)
PromoteFromRekey(i) ==
    LET ep == peers[i].epochs IN
    /\ ep.current # None
    /\ Derive
    /\ SetEpochs(i, [ep EXCEPT !.current = drawn', !.previous = ep.current])
    /\ by_tag' = Put(Without(by_tag, {ep.current}), drawn', i)
    /\ UNCHANGED <<by_node, by_addr>>

(* retire_previous_if_due *)
Retire(i) ==
    /\ peers[i].epochs.previous # None
    /\ SetEpochs(i, [peers[i].epochs EXCEPT !.previous = None])
    /\ UNCHANGED <<by_node, by_addr, by_tag, drawn>>

drop_session(i) ==
    /\ peers[i].epochs # Idle
    /\ SetEpochs(i, Idle)
    /\ by_tag' = Without(by_tag, Tags(peers[i].epochs))
    /\ UNCHANGED <<by_node, by_addr, drawn>>

TableNext ==
    \/ \E k \in Key : AdmitMember(k) \/ AddPeer(k) \/ RemovePeer(k)
    \/ \E i \in DOMAIN peers :
         \/ Establish(i) \/ InstallNext(i) \/ PromoteNext(i)
         \/ PromoteFromRekey(i) \/ Retire(i) \/ drop_session(i)

TableSpec == TableInit /\ [][TableNext]_tableVars

-----------------------------------------------------------------------------
(* Properties *)

(* Peers and indices have their types; no index of by_tag is below the     *)
(* first peer, however often remove_peer shifts it.                        *)
TableTypeOK ==
    /\ peers \in Seq([key : Key, epochs : [current : Tag \cup {None},
                       next : Tag \cup {None}, previous : Tag \cup {None}]])
    /\ DOMAIN by_tag \subseteq Tag /\ \A t \in DOMAIN by_tag : by_tag[t] \in Nat \ {0}
    /\ drawn \in 0..MaxTag

(* Whatever is added, admitted and removed in between, NodeId and address  *)
(* of every peer, and of no one else, lead to it (add_peer_with_transport, *)
(* admit_member, the shifts of remove_peer).                               *)
IndicesRight ==
    \A f \in {by_node, by_addr} :
      /\ DOMAIN f = {peers[i].key : i \in DOMAIN peers}
      /\ \A k \in DOMAIN f : f[k] \in DOMAIN peers /\ peers[f[k]].key = k

(* The conn_tag of an epoch a peer still holds leads to that peer or to    *)
(* no one, never to another one that took its place (by_tag, remove_peer,  *)
(* rekey_resp_core).                                                       *)
TagsRight ==
    \A i \in DOMAIN peers :
      \A t \in Tags(peers[i].epochs) \cap DOMAIN by_tag : by_tag[t] = i

(* Every index leads to the peer it was filed for. *)
TableRight == IndicesRight /\ TagsRight
=============================================================================
