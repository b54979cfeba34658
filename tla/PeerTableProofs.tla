--------------------------- MODULE PeerTableProofs ---------------------------
(***************************************************************************)
(* The indices of a daemon lead to the right peer, for any number of keys  *)
(* and of epochs.                                                          *)
(***************************************************************************)
EXTENDS PeerTable, TLAPS

Epochs == [current : Tag \cup {None}, next : Tag \cup {None}, previous : Tag \cup {None}]
Peer == [key : Key, epochs : Epochs]

(* No two peers have one key. *)
UniqueKeys(s) == \A i, j \in DOMAIN s : s[i].key = s[j].key => i = j

(* f leads from each key of s, and from nothing else, to its peer. *)
Right(f, s) ==
    /\ DOMAIN f = {s[i].key : i \in DOMAIN s}
    /\ \A k \in DOMAIN f : f[k] \in DOMAIN s /\ s[f[k]].key = k

(* Tags are drawn in order: no peer holds, and by_tag does not know, one   *)
(* that was not derived yet.                                               *)
TagsDrawn ==
    /\ \A i \in DOMAIN peers : \A t \in Tags(peers[i].epochs) : t <= drawn
    /\ \A t \in DOMAIN by_tag : t <= drawn

TableInv ==
    /\ TableTypeOK /\ MaxTag \in Nat
    /\ UniqueKeys(peers) /\ Right(by_node, peers) /\ Right(by_addr, peers)
    /\ TagsDrawn /\ TagsRight

-----------------------------------------------------------------------------
(* What happens to the indices *)

(* A peer with a new key is appended. *)
LEMMA AppendRight ==
    ASSUME NEW s \in Seq(Peer), NEW f, NEW p \in Peer, UniqueKeys(s), Right(f, s),
           \A i \in DOMAIN s : s[i].key # p.key
    PROVE  /\ UniqueKeys(Append(s, p))
           /\ Right(Put(f, p.key, Len(s) + 1), Append(s, p))
<1> DEFINE u == Append(s, p)
           g == Put(f, p.key, Len(s) + 1)
<1>1. /\ Len(s) \in Nat /\ DOMAIN s = 1..Len(s) /\ DOMAIN u = 1..(Len(s) + 1)
      /\ \A i \in DOMAIN s : u[i] = s[i]
      /\ u[Len(s) + 1] = p
  OBVIOUS
<1> HIDE DEF u
<1>2. UniqueKeys(u)
  BY <1>1 DEF UniqueKeys
<1>3. DOMAIN g = {u[i].key : i \in DOMAIN u}
  <2>1. {u[i].key : i \in DOMAIN u} = {s[i].key : i \in DOMAIN s} \cup {p.key}
    BY <1>1
  <2> QED BY <2>1 DEF Right, Put
<1>4. ASSUME NEW k \in DOMAIN g PROVE g[k] \in DOMAIN u /\ u[g[k]].key = k
  BY <1>1, <1>4 DEF Right, Put
<1> QED BY <1>2, <1>3, <1>4 DEF Right, u

(* The peer with key k is removed and the indices behind it move down. *)
LEMMA RemoveRight ==
    ASSUME NEW s \in Seq(Peer), NEW f, NEW k \in DOMAIN f, UniqueKeys(s), Right(f, s),
           NEW idx, idx = f[k]
    PROVE  /\ without_peer(s, idx) \in Seq(Peer)
           /\ UniqueKeys(without_peer(s, idx))
           /\ Right(shifted(Without(f, {k}), idx), without_peer(s, idx))
<1> DEFINE u == without_peer(s, idx)
           g == shifted(Without(f, {k}), idx)
<1>1. /\ Len(s) \in Nat /\ DOMAIN s = 1..Len(s)
      /\ idx \in 1..Len(s) /\ s[idx].key = k
      /\ \A i \in DOMAIN s : s[i] \in Peer
  BY DEF Right
<1>2. /\ DOMAIN u = 1..(Len(s) - 1)
      /\ \A i \in DOMAIN u : u[i] = IF i < idx THEN s[i] ELSE s[i + 1]
  BY DEF without_peer
<1>3. u \in Seq(Peer)
  <2>1. Len(s) - 1 \in Nat
    BY <1>1
  <2>2. \A i \in 1..(Len(s) - 1) : (IF i < idx THEN s[i] ELSE s[i + 1]) \in Peer
    BY <1>1
  <2> QED BY <2>1, <2>2 DEF without_peer
<1>4. /\ DOMAIN g = DOMAIN f \ {k}
      /\ \A x \in DOMAIN g : g[x] = IF f[x] > idx THEN f[x] - 1 ELSE f[x]
  BY DEF shifted, Without
<1> HIDE DEF u, g
<1>5. UniqueKeys(u)
  BY <1>1, <1>2 DEF UniqueKeys
<1>6. ASSUME NEW x \in DOMAIN g PROVE g[x] \in DOMAIN u /\ u[g[x]].key = x
  <2>1. x # k /\ x \in DOMAIN f /\ f[x] \in 1..Len(s) /\ s[f[x]].key = x
    BY <1>1, <1>4, <1>6 DEF Right
  <2>2. f[x] # idx
    BY <1>1, <2>1
  <2>3. CASE f[x] > idx
    BY <1>1, <1>2, <1>4, <1>6, <2>1, <2>3
  <2>4. CASE f[x] < idx
    BY <1>1, <1>2, <1>4, <1>6, <2>1, <2>4
  <2> QED BY <1>1, <2>1, <2>2, <2>3, <2>4
<1>7. ASSUME NEW i \in DOMAIN u PROVE u[i].key \in DOMAIN g
  <2>1. PICK j \in DOMAIN s : j # idx /\ u[i] = s[j]
    BY <1>1, <1>2, <1>7
  <2>2. s[j].key # k
    BY <1>1, <2>1 DEF UniqueKeys
  <2> QED BY <1>4, <2>1, <2>2 DEF Right
<1>8. DOMAIN g = {u[i].key : i \in DOMAIN u}
  BY <1>6, <1>7
<1> QED BY <1>3, <1>5, <1>6, <1>8 DEF Right, u, g

WithEpochs(s, i, ep) == [s EXCEPT ![i] = [key |-> s[i].key, epochs |-> ep]]

(* Only the epochs of a peer change. *)
LEMMA EpochsRight ==
    ASSUME NEW s \in Seq(Peer), NEW i \in DOMAIN s, NEW ep \in Epochs, NEW f,
           UniqueKeys(s)
    PROVE  LET u == WithEpochs(s, i, ep)
           IN /\ u \in Seq(Peer) /\ DOMAIN u = DOMAIN s
              /\ \A j \in DOMAIN s : j # i => u[j] = s[j]
              /\ u[i].epochs = ep
              /\ UniqueKeys(u)
              /\ Right(f, s) => Right(f, u)
<1> DEFINE u == WithEpochs(s, i, ep)
<1>1. \A j \in DOMAIN s : s[j] \in Peer
  OBVIOUS
<1>2. /\ DOMAIN u = DOMAIN s
      /\ \A j \in DOMAIN s : j # i => u[j] = s[j]
      /\ u[i] = [key |-> s[i].key, epochs |-> ep]
      /\ u = [s EXCEPT ![i] = [key |-> s[i].key, epochs |-> ep]]
  BY DEF WithEpochs
<1> HIDE DEF u
<1>3. u[i].epochs = ep /\ u[i].key = s[i].key /\ u[i] \in Peer
  BY <1>1, <1>2 DEF Peer
<1>4. u \in Seq(Peer)
  BY <1>1, <1>2, <1>3
<1>5. \A j \in DOMAIN s : u[j].key = s[j].key
  BY <1>2, <1>3
<1>6. UniqueKeys(u)
  BY <1>2, <1>5 DEF UniqueKeys
<1>7. {u[j].key : j \in DOMAIN u} = {s[j].key : j \in DOMAIN s}
  BY <1>2, <1>5
<1>8. Right(f, s) => Right(f, u)
  BY <1>2, <1>5, <1>7 DEF Right
<1> QED BY <1>2, <1>3, <1>4, <1>6, <1>8 DEF u

(* The step of one session: the epochs of peer i become ep, whose tags it  *)
(* had or has just derived, and by_tag becomes g.                          *)
LEMMA SessionStep ==
    ASSUME TableInv, NEW i \in DOMAIN peers, NEW ep \in Epochs, SetEpochs(i, ep),
           UNCHANGED <<by_node, by_addr>>,
           drawn' \in 0..MaxTag, drawn <= drawn',
           \A t \in Tags(ep) : t \in Tags(peers[i].epochs) \/ (drawn < t /\ t <= drawn'),
           \A t \in DOMAIN by_tag' :
             \/ t \in DOMAIN by_tag /\ by_tag'[t] = by_tag[t]
             \/ t \in Tag /\ drawn < t /\ t <= drawn' /\ by_tag'[t] = i
    PROVE  TableInv'
<1>1. /\ peers \in Seq(Peer) /\ drawn \in 0..MaxTag /\ MaxTag \in Nat
      /\ DOMAIN by_tag \subseteq Tag
      /\ \A t \in DOMAIN by_tag : by_tag[t] \in Nat \ {0}
      /\ UniqueKeys(peers)
  BY DEF TableInv, TableTypeOK, Peer, Epochs
<1>2. peers' = WithEpochs(peers, i, ep)
  BY DEF SetEpochs, WithEpochs
<1>3. /\ peers' \in Seq(Peer) /\ DOMAIN peers' = DOMAIN peers
      /\ \A j \in DOMAIN peers : j # i => peers'[j] = peers[j]
      /\ peers'[i].epochs = ep
      /\ UniqueKeys(peers')
      /\ Right(by_node, peers) => Right(by_node, peers')
      /\ Right(by_addr, peers) => Right(by_addr, peers')
  <2> DEFINE u == WithEpochs(peers, i, ep)
  <2>1. /\ u \in Seq(Peer) /\ DOMAIN u = DOMAIN peers
        /\ \A j \in DOMAIN peers : j # i => u[j] = peers[j]
        /\ u[i].epochs = ep
        /\ UniqueKeys(u)
        /\ Right(by_node, peers) => Right(by_node, u)
    BY <1>1, EpochsRight
  <2>2. Right(by_addr, peers) => Right(by_addr, u)
    BY <1>1, EpochsRight
  <2> HIDE DEF u
  <2>3. peers' = u
    BY <1>2 DEF u
  <2> QED BY <2>1, <2>2, <2>3
<1>4. Len(peers) \in Nat /\ DOMAIN peers = 1..Len(peers)
  BY <1>1
<1>5. TableTypeOK'
  <2>1. \A t \in DOMAIN by_tag' : t \in Tag /\ by_tag'[t] \in Nat \ {0}
    BY <1>1, <1>4
  <2> QED BY <1>3, <2>1 DEF TableTypeOK, Peer, Epochs
<1>6. UniqueKeys(peers)' /\ Right(by_node, peers)' /\ Right(by_addr, peers)'
  BY <1>3 DEF TableInv, UniqueKeys, Right
<1>7. \A j \in DOMAIN peers : \A t \in Tags(peers[j].epochs) : t <= drawn /\ t \in Tag
  <2>1. \A j \in DOMAIN peers : peers[j].epochs \in Epochs
    <3>1. \A j \in DOMAIN peers : peers[j] \in Peer
      BY <1>1
    <3> QED BY <3>1 DEF Peer
  <2> QED BY <2>1 DEF TableInv, TagsDrawn, Tags, Epochs
<1>8. TagsDrawn'
  <2>1. ASSUME NEW j \in DOMAIN peers', NEW t \in Tags(peers'[j].epochs) PROVE t <= drawn'
    <3>1. CASE j = i
      <4>1. t \in Tags(ep)
        BY <1>3, <2>1, <3>1
      <4>2. t \in Tags(peers[i].epochs) => t \in Nat /\ t <= drawn
        BY <1>7 DEF Tag
      <4> QED BY <1>1, <4>1, <4>2
    <3>2. CASE j # i
      <4>1. j \in DOMAIN peers /\ t \in Tags(peers[j].epochs)
        BY <1>3, <2>1, <3>2
      <4>2. t \in Nat /\ t <= drawn
        BY <1>7, <4>1 DEF Tag
      <4> QED BY <1>1, <4>2
    <3> QED BY <3>1, <3>2
  <2>2. ASSUME NEW t \in DOMAIN by_tag' PROVE t <= drawn'
    BY <1>1, <2>2 DEF TableInv, TagsDrawn, Tag
  <2> QED BY <2>1, <2>2 DEF TagsDrawn, Tags
<1>9. TagsRight'
  <2>1. ASSUME NEW j \in DOMAIN peers', NEW t \in Tags(peers'[j].epochs) \cap DOMAIN by_tag'
        PROVE  by_tag'[t] = j
    <3>1. t \in DOMAIN by_tag => t <= drawn /\ t \in Nat
      BY <1>1 DEF TableInv, TagsDrawn, Tag
    <3>2. CASE j = i
      <4>1. t \in Tags(ep)
        BY <1>3, <2>1, <3>2
      <4>2. CASE t \in Tags(peers[i].epochs)
        <5>1. t <= drawn /\ t \in Nat
          BY <1>7, <4>2 DEF Tag
        <5>2. t \in DOMAIN by_tag /\ by_tag'[t] = by_tag[t]
          BY <1>1, <2>1, <5>1
        <5> QED BY <5>2, <4>2, <3>2 DEF TableInv, TagsRight
      <4>3. CASE drawn < t /\ t <= drawn'
        BY <1>1, <2>1, <3>1, <3>2, <4>3
      <4> QED BY <4>1, <4>2, <4>3
    <3>3. CASE j # i
      <4>1. j \in DOMAIN peers /\ t \in Tags(peers[j].epochs)
        BY <1>3, <2>1, <3>3
      <4>2. t <= drawn /\ t \in Nat
        BY <1>7, <4>1 DEF Tag
      <4>3. t \in DOMAIN by_tag /\ by_tag'[t] = by_tag[t]
        BY <1>1, <2>1, <4>2
      <4> QED BY <4>1, <4>3 DEF TableInv, TagsRight
    <3> QED BY <3>2, <3>3
  <2> QED BY <2>1 DEF TagsRight, Tags
<1> QED BY <1>1, <1>5, <1>6, <1>8, <1>9 DEF TableInv

-----------------------------------------------------------------------------
(* Peers enter and leave *)

LEMMA PushKeeps ==
    ASSUME TableInv, NEW k \in Key, push_peer(k), \A i \in DOMAIN peers : peers[i].key # k
    PROVE  TableInv'
<1> DEFINE p == [key |-> k, epochs |-> Idle]
<1>1. /\ peers \in Seq(Peer) /\ MaxTag \in Nat /\ UniqueKeys(peers)
      /\ Right(by_node, peers) /\ Right(by_addr, peers)
  BY DEF TableInv, TableTypeOK, Peer, Epochs
<1>2. p \in Peer /\ Tags(p.epochs) = {}
  BY DEF Peer, Epochs, Idle, Tags
<1>3. /\ peers' = Append(peers, p)
      /\ by_node' = Put(by_node, p.key, Len(peers) + 1)
      /\ by_addr' = Put(by_addr, p.key, Len(peers) + 1)
      /\ UNCHANGED <<by_tag, drawn>>
  BY DEF push_peer
<1>4. \A i \in DOMAIN peers : peers[i].key # p.key
  OBVIOUS
<1> HIDE DEF p
<1>5. UniqueKeys(peers') /\ Right(by_node', peers') /\ Right(by_addr', peers')
  BY <1>1, <1>2, <1>3, <1>4, AppendRight
<1>6. /\ peers' \in Seq(Peer)
      /\ \A i \in DOMAIN peers' : (i \in DOMAIN peers /\ peers'[i] = peers[i]) \/ peers'[i] = p
  BY <1>1, <1>2, <1>3
<1>7. TableTypeOK'
  BY <1>3, <1>6 DEF TableInv, TableTypeOK, Peer, Epochs
<1>8. TagsDrawn' /\ TagsRight'
  <2>1. ASSUME NEW i \in DOMAIN peers', NEW t \in Tags(peers'[i].epochs)
        PROVE  i \in DOMAIN peers /\ t \in Tags(peers[i].epochs)
    BY <1>2, <1>6, <2>1
  <2>2. TagsDrawn'
    BY <1>3, <2>1 DEF TableInv, TagsDrawn, Tags
  <2>3. TagsRight'
    BY <1>3, <2>1 DEF TableInv, TagsRight, Tags
  <2> QED BY <2>2, <2>3
<1> QED BY <1>1, <1>5, <1>7, <1>8 DEF TableInv, UniqueKeys, Right

LEMMA RemoveKeeps ==
    ASSUME TableInv, NEW k \in Key, RemovePeer(k)
    PROVE  TableInv'
<1> DEFINE idx == by_node[k]
           S   == Tags(peers[idx].epochs)
<1>1. /\ peers \in Seq(Peer) /\ MaxTag \in Nat /\ UniqueKeys(peers)
      /\ Right(by_node, peers) /\ Right(by_addr, peers)
      /\ DOMAIN by_tag \subseteq Tag
      /\ \A t \in DOMAIN by_tag : by_tag[t] \in Nat \ {0}
      /\ Len(peers) \in Nat /\ DOMAIN peers = 1..Len(peers)
  BY DEF TableInv, TableTypeOK, Peer, Epochs
<1>2. /\ k \in DOMAIN by_node
      /\ peers' = without_peer(peers, idx)
      /\ by_node' = shifted(Without(by_node, {k}), idx)
      /\ by_addr' = shifted(Without(by_addr, {k}), idx)
      /\ by_tag' = shifted(Without(by_tag, S), idx)
      /\ drawn' = drawn
  BY DEF RemovePeer
<1>3. /\ idx \in DOMAIN peers /\ peers[idx].key = k
      /\ k \in DOMAIN by_addr /\ by_addr[k] = idx
  BY <1>1, <1>2 DEF Right, UniqueKeys
<1> HIDE DEF idx, S
<1>4. /\ peers' \in Seq(Peer) /\ UniqueKeys(peers') /\ Right(by_node', peers')
  BY <1>1, <1>2, RemoveRight DEF idx
<1>5. Right(by_addr', peers')
  BY <1>1, <1>2, <1>3, RemoveRight
<1>6. /\ DOMAIN by_tag' = DOMAIN by_tag \ S
      /\ \A t \in DOMAIN by_tag' :
           /\ by_tag'[t] \in Nat \ {0}
           /\ by_tag'[t] = IF by_tag[t] > idx THEN by_tag[t] - 1 ELSE by_tag[t]
  <2>1. idx \in Nat \ {0}
    BY <1>1, <1>3
  <2>2. /\ DOMAIN by_tag' = DOMAIN by_tag \ S
        /\ \A t \in DOMAIN by_tag' :
             by_tag'[t] = IF by_tag[t] > idx THEN by_tag[t] - 1 ELSE by_tag[t]
    BY <1>2 DEF shifted, Without
  <2>3. ASSUME NEW t \in DOMAIN by_tag' PROVE by_tag'[t] \in Nat \ {0}
    <3>1. by_tag[t] \in Nat \ {0}
      BY <1>1, <2>2, <2>3
    <3> QED BY <2>1, <2>2, <2>3, <3>1
  <2> QED BY <2>2, <2>3
<1>7. TableTypeOK'
  BY <1>1, <1>2, <1>4, <1>6 DEF TableInv, TableTypeOK, Peer, Epochs
<1>8. ASSUME NEW i \in DOMAIN peers'
      PROVE  \E j \in DOMAIN peers : /\ j # idx /\ peers'[i] = peers[j]
                                     /\ i = IF j > idx THEN j - 1 ELSE j
  <2>1. /\ DOMAIN peers' = 1..(Len(peers) - 1)
        /\ peers'[i] = IF i < idx THEN peers[i] ELSE peers[i + 1]
    BY <1>2, <1>8 DEF without_peer
  <2>2. CASE i < idx
    BY <1>1, <1>3, <1>8, <2>1, <2>2
  <2>3. CASE i >= idx
    <3>1. i + 1 \in DOMAIN peers /\ i + 1 > idx /\ i = (i + 1) - 1
      BY <1>1, <1>3, <1>8, <2>1, <2>3
    <3>2. peers'[i] = peers[i + 1]
      BY <1>1, <1>3, <1>8, <2>1, <2>3
    <3> QED BY <1>1, <1>3, <3>1, <3>2
  <2> QED BY <1>1, <1>3, <1>8, <2>1, <2>2, <2>3
<1>9. TagsDrawn'
  <2>1. ASSUME NEW i \in DOMAIN peers', NEW t \in Tags(peers'[i].epochs) PROVE t <= drawn
    BY <1>8, <2>1 DEF TableInv, TagsDrawn
  <2>2. ASSUME NEW t \in DOMAIN by_tag' PROVE t <= drawn
    BY <1>6, <2>2 DEF TableInv, TagsDrawn
  <2> QED BY <1>2, <2>1, <2>2 DEF TagsDrawn, Tags
<1>10. TagsRight'
  <2>1. ASSUME NEW i \in DOMAIN peers', NEW t \in Tags(peers'[i].epochs) \cap DOMAIN by_tag'
        PROVE  by_tag'[t] = i
    <3>1. PICK j \in DOMAIN peers : /\ j # idx /\ peers'[i] = peers[j]
                                    /\ i = IF j > idx THEN j - 1 ELSE j
      BY <1>8
    <3>2. by_tag[t] = j
      BY <1>6, <2>1, <3>1 DEF TableInv, TagsRight
    <3> QED BY <1>6, <2>1, <3>1, <3>2
  <2> QED BY <2>1 DEF TagsRight, Tags
<1> QED BY <1>1, <1>4, <1>5, <1>7, <1>9, <1>10 DEF TableInv, UniqueKeys, Right
-----------------------------------------------------------------------------
(* The theorems *)

LEMMA InitInv == MaxTag \in Nat /\ TableInit => TableInv
<1> SUFFICES ASSUME MaxTag \in Nat, TableInit PROVE TableInv
  OBVIOUS
<1>1. peers = <<>> /\ by_node = <<>> /\ by_addr = <<>> /\ by_tag = <<>> /\ drawn = 0
  BY DEF TableInit
<1>2. DOMAIN peers = {} /\ DOMAIN by_node = {} /\ DOMAIN by_addr = {} /\ DOMAIN by_tag = {}
  BY <1>1
<1>3. TableTypeOK
  BY <1>1, <1>2 DEF TableTypeOK
<1>4. UniqueKeys(peers) /\ Right(by_node, peers) /\ Right(by_addr, peers)
  BY <1>2 DEF UniqueKeys, Right
<1> QED BY <1>2, <1>3, <1>4 DEF TableInv, TagsDrawn, TagsRight

(* What a session step needs to know of the peer it is about. *)
LEMMA EpochsOf ==
    ASSUME TableInv, NEW i \in DOMAIN peers
    PROVE  peers[i].epochs \in Epochs
<1>1. peers \in Seq(Peer)
  BY DEF TableInv, TableTypeOK, Peer, Epochs
<1>2. peers[i] \in Peer
  BY <1>1
<1> QED BY <1>2 DEF Peer

LEMMA StepInv ==
    ASSUME TableInv, [TableNext]_tableVars
    PROVE  TableInv'
<1>1. ASSUME NEW k \in Key, AdmitMember(k) PROVE TableInv'
  BY <1>1, PushKeeps DEF AdmitMember
<1>2. ASSUME NEW k \in Key, AddPeer(k) PROVE TableInv'
  <2>1. \A i \in DOMAIN peers : peers[i].key # k
    BY <1>2 DEF AddPeer, TableInv, Right
  <2> QED BY <1>2, <2>1, PushKeeps DEF AddPeer
<1>3. ASSUME NEW k \in Key, RemovePeer(k) PROVE TableInv'
  BY <1>3, RemoveKeeps
<1>4. drawn \in 0..MaxTag /\ MaxTag \in Nat
  BY DEF TableInv, TableTypeOK
<1>5. ASSUME NEW i \in DOMAIN peers, Establish(i) PROVE TableInv'
  <2> DEFINE ep == [Idle EXCEPT !.current = drawn']
  <2>1. drawn' = drawn + 1 /\ drawn' \in 0..MaxTag /\ drawn' \in Tag /\ UNCHANGED <<by_node, by_addr>>
    BY <1>4, <1>5 DEF Establish, Derive, Tag
  <2>2. ep \in Epochs /\ \A t \in Tags(ep) : t = drawn'
    BY <2>1 DEF Epochs, Idle, Tags
  <2>3. \A t \in DOMAIN by_tag' :
          (t \in DOMAIN by_tag /\ by_tag'[t] = by_tag[t]) \/ (t = drawn' /\ by_tag'[t] = i)
    BY <1>5 DEF Establish, Put
  <2>4. SetEpochs(i, ep)
    BY <1>5 DEF Establish
  <2> HIDE DEF ep
  <2> QED BY <1>4, <2>1, <2>2, <2>3, <2>4, SessionStep
<1>6. ASSUME NEW i \in DOMAIN peers, InstallNext(i) PROVE TableInv'
  <2> DEFINE ep == [peers[i].epochs EXCEPT !.next = drawn']
  <2>1. drawn' = drawn + 1 /\ drawn' \in 0..MaxTag /\ drawn' \in Tag
        /\ UNCHANGED <<by_node, by_addr, by_tag>>
    BY <1>4, <1>6 DEF InstallNext, Derive, Tag
  <2>2. ep \in Epochs /\ \A t \in Tags(ep) : t \in Tags(peers[i].epochs) \/ t = drawn'
    BY <2>1, EpochsOf DEF Epochs, Tags
  <2>4. SetEpochs(i, ep)
    BY <1>6 DEF InstallNext
  <2> HIDE DEF ep
  <2> QED BY <1>4, <2>1, <2>2, <2>4, SessionStep
<1>7. ASSUME NEW i \in DOMAIN peers, PromoteNext(i) PROVE TableInv'
  <2> DEFINE old == peers[i].epochs
             ep  == [current |-> old.next, next |-> None, previous |-> old.current]
  <2>1. UNCHANGED <<by_node, by_addr, by_tag, drawn>>
    BY <1>7 DEF PromoteNext
  <2>2. ep \in Epochs /\ \A t \in Tags(ep) : t \in Tags(peers[i].epochs)
    BY EpochsOf DEF Epochs, Tags
  <2>4. SetEpochs(i, ep)
    BY <1>7 DEF PromoteNext
  <2> HIDE DEF ep
  <2> QED BY <1>4, <2>1, <2>2, <2>4, SessionStep
<1>8. ASSUME NEW i \in DOMAIN peers, PromoteFromRekey(i) PROVE TableInv'
  <2> DEFINE old == peers[i].epochs
             ep  == [old EXCEPT !.current = drawn', !.previous = old.current]
  <2>1. drawn' = drawn + 1 /\ drawn' \in 0..MaxTag /\ drawn' \in Tag /\ UNCHANGED <<by_node, by_addr>>
    BY <1>4, <1>8 DEF PromoteFromRekey, Derive, Tag
  <2>2. ep \in Epochs /\ \A t \in Tags(ep) : t \in Tags(peers[i].epochs) \/ t = drawn'
    BY <2>1, EpochsOf DEF Epochs, Tags
  <2>3. \A t \in DOMAIN by_tag' :
          (t \in DOMAIN by_tag /\ by_tag'[t] = by_tag[t]) \/ (t = drawn' /\ by_tag'[t] = i)
    BY <1>8 DEF PromoteFromRekey, Put, Without
  <2>4. SetEpochs(i, ep)
    BY <1>8 DEF PromoteFromRekey
  <2> HIDE DEF ep
  <2> QED BY <1>4, <2>1, <2>2, <2>3, <2>4, SessionStep
<1>9. ASSUME NEW i \in DOMAIN peers, Retire(i) PROVE TableInv'
  <2> DEFINE ep == [peers[i].epochs EXCEPT !.previous = None]
  <2>1. UNCHANGED <<by_node, by_addr, by_tag, drawn>>
    BY <1>9 DEF Retire
  <2>2. ep \in Epochs /\ \A t \in Tags(ep) : t \in Tags(peers[i].epochs)
    BY EpochsOf DEF Epochs, Tags
  <2>4. SetEpochs(i, ep)
    BY <1>9 DEF Retire
  <2> HIDE DEF ep
  <2> QED BY <1>4, <2>1, <2>2, <2>4, SessionStep
<1>10. ASSUME NEW i \in DOMAIN peers, drop_session(i) PROVE TableInv'
  <2>1. UNCHANGED <<by_node, by_addr, drawn>> /\ SetEpochs(i, Idle)
    BY <1>10 DEF drop_session
  <2>2. Idle \in Epochs /\ Tags(Idle) = {}
    BY DEF Epochs, Tags, Idle
  <2>3. \A t \in DOMAIN by_tag' : t \in DOMAIN by_tag /\ by_tag'[t] = by_tag[t]
    BY <1>10 DEF drop_session, Without
  <2> QED BY <1>4, <2>1, <2>2, <2>3, SessionStep
<1>11. CASE UNCHANGED tableVars
  <2>1. UNCHANGED <<peers, by_node, by_addr, by_tag, drawn>>
    BY <1>11 DEF tableVars
  <2>2. TableTypeOK'
    BY <2>1 DEF TableInv, TableTypeOK
  <2>3. UniqueKeys(peers)' /\ Right(by_node, peers)' /\ Right(by_addr, peers)'
    BY <2>1 DEF TableInv, UniqueKeys, Right
  <2>4. TagsDrawn' /\ TagsRight'
    BY <2>1, Zenon DEF TableInv, TagsDrawn, TagsRight, Tags
  <2> QED BY <1>4, <2>2, <2>3, <2>4 DEF TableInv
<1> QED
  BY <1>1, <1>2, <1>3, <1>5, <1>6, <1>7, <1>8, <1>9, <1>10, <1>11 DEF TableNext

(* Whatever peers are added, admitted and removed, and whatever becomes of *)
(* their sessions, by_node and by_addr lead from every peer's key, and     *)
(* from nothing else, to that peer, and the conn_tag of an epoch that a    *)
(* peer holds never leads to another one (add_peer_with_transport,         *)
(* admit_member, remove_peer, rekey_resp_core): because tags are not       *)
(* derived twice, an entry that outlived its epoch cannot come back to     *)
(* life.                                                                   *)
THEOREM TableAlwaysRight == ASSUME MaxTag \in Nat PROVE TableSpec => []TableRight
<1>1. TableInit => TableInv
  BY InitInv
<1>2. TableInv /\ [TableNext]_tableVars => TableInv'
  BY StepInv
<1>3. TableInv => TableRight
  BY DEF TableInv, Right, IndicesRight, TableRight
<1> QED BY <1>1, <1>2, <1>3, PTL DEF TableSpec
=============================================================================
