------------------------- MODULE PeerSessionProofs -------------------------
(***************************************************************************)
(* What PeerSession guarantees for every value of its constants: any       *)
(* timing, any delay, any number of ephemerals and of restarts.            *)
(***************************************************************************)
EXTENDS PeerSessionSteps

(* No step makes n able to send an old Init that it could not send before. *)
LEMMA MayStillSendStep ==
    ASSUME TypeOK, Drawn, Kind, NEW k \in Node, NEW e \in Nat, e <= fresh,
           MayStillSend(k, e)'
    PROVE  MayStillSend(k, e)
<1>0. fresh \in Nat
  BY Numbers
<1>1. ASSUME NEW n \in Node, Waiting(n)
      PROVE  MayStillSend(k, e)
  <2>1. Awaited(k)' \subseteq Awaited(k) \cup {fresh + 1}
    BY <1>1, AwaitedStep
  <2>2. CASE e \in Awaited(k)'
    <3>1. e # fresh + 1
      BY <1>0
    <3> QED BY Zenon, <2>1, <2>2, <3>1 DEF MayStillSend
  <2>3. ASSUME NEW m \in net', m.type = "Init", m.from = k, m.sess.init = e
        PROVE  MayStillSend(k, e)
    <3>1. CASE Carried(m)
      BY <2>3, <3>1 DEF Carried, Copy, MayStillSend
    <3>2. CASE k = n /\ e \in Awaited(n) \cup JustDrawn
      BY <1>0, <1>1, <3>2, AwaitedStep DEF MayStillSend
    <3> QED BY Zenon, <1>1, <2>3, <3>1, <3>2 DEF Waiting
  <2> QED BY <2>2, <2>3 DEF MayStillSend
<1>2. ASSUME NEW n \in Node, NEW m \in net, Answering(n, m) \/ Completing(n, m),
             ~Waiting(n)
      PROVE  MayStillSend(k, e)
  <2>1. Awaited(k)' \subseteq Awaited(k)
    BY Zenon, <1>2, AwaitedStep
  <2>2. \A c \in net' : c.type = "Init" => Carried(c)
    BY Zenon, <1>2 DEF Answering, Completing
  <2> QED BY <2>1, <2>2 DEF MayStillSend, Carried, Copy
<1> QED BY <1>1, <1>2 DEF Kind

LEMMA GatedStep ==
    ASSUME TypeOK, Drawn, Owned, Gated, Kind
    PROVE  Gated'
<1> SUFFICES ASSUME crashes' = 0, NEW k \in Node
             PROVE  /\ bootFloor'[k] = 0
                    /\ \A s \in history'[k].installed :
                         MayStillSend(Peer(k), s.init)' => s.init <= lastTs'[k]
  BY Zenon DEF Gated
<1>0. crashes = 0 /\ bootFloor'[k] = 0
  BY ZenonT(30) DEF Kind, Waiting, Answering, Completing, OthersKeep, Gated
<1>1. ASSUME NEW s \in history[k].installed, MayStillSend(Peer(k), s.init)'
      PROVE  s.init <= lastTs[k] /\ s.init \in Nat /\ lastTs[k] \in Nat
  <2>1. s.init \in Nat /\ s.init <= fresh /\ lastTs[k] \in Nat
    BY Numbers DEF Drawn, Below
  <2>2. MayStillSend(Peer(k), s.init)
    BY Zenon, <1>1, <2>1, MayStillSendStep, PeerFacts
  <2> QED BY <1>0, <2>1, <2>2 DEF Gated
<1>2. ASSUME NEW n \in Node, Waiting(n)
      PROVE  \A s \in history'[k].installed :
               MayStillSend(Peer(k), s.init)' => s.init <= lastTs'[k]
  BY Zenon, <1>1, <1>2 DEF Waiting, OthersKeep
<1>3. ASSUME NEW n \in Node, NEW m \in net, Answering(n, m)
      PROVE  \A s \in history'[k].installed :
               MayStillSend(Peer(k), s.init)' => s.init <= lastTs'[k]
  <2>1. CASE k # n
    BY Zenon, <1>1, <1>3, <2>1 DEF Answering, OthersKeep
  <2>2. CASE k = n
    <3>1. /\ m.sess.init \in Nat /\ lastTs[k] \in Nat /\ bootFloor[k] \in Nat
          /\ lastTs'[k] = m.sess.init
          /\ AcceptFreshInit(k, m.sess.init)
      BY Zenon, <1>3, <2>2, Numbers DEF Answering
    <3>2. lastTs[k] <= lastTs'[k]
      BY <3>1 DEF AcceptFreshInit
    <3>3. history'[k].installed
            = history[k].installed \cup {[init |-> m.sess.init, resp |-> fresh + 1]}
      BY Zenon, <1>3, <2>2, Built DEF Answering
    <3> QED BY <1>1, <3>1, <3>2, <3>3
  <2> QED BY Zenon, <2>1, <2>2
<1>4. ASSUME NEW n \in Node, NEW m \in net, Completing(n, m)
      PROVE  \A s \in history'[k].installed :
               MayStillSend(Peer(k), s.init)' => s.init <= lastTs'[k]
  <2>1. CASE k # n
    BY <1>1, <1>4, <2>1 DEF Completing, OthersKeep
  <2>2. CASE k = n
    <3>1. history'[k].installed = history[k].installed \cup {m.sess} /\ lastTs' = lastTs
      BY Zenon, <1>4, <2>2, Built DEF Completing
    <3>2. ~MayStillSend(Peer(k), m.sess.init)
      BY Zenon, <1>4, <2>2 DEF Completing, Owned, MayStillSend
    <3>3. m.sess.init \in Nat /\ m.sess.init <= fresh
      BY <1>4, Numbers DEF Completing, Drawn, Below
    <3>4. ~MayStillSend(Peer(k), m.sess.init)'
      BY <3>2, <3>3, MayStillSendStep, PeerFacts
    <3> QED BY Zenon, <1>1, <3>1, <3>4
  <2> QED BY <2>1, <2>2
<1> QED BY <1>0, <1>2, <1>3, <1>4 DEF Kind

LEMMA OneSessionStep ==
    ASSUME TypeOK, Drawn, Owned, Gated, OneSessionPerInit, Kind
    PROVE  OneSessionPerInit'
<1> SUFFICES ASSUME crashes' = 0, NEW k \in Node,
                    NEW s \in history'[k].installed, NEW t \in history'[k].installed,
                    s.init = t.init
             PROVE  s = t
  BY Zenon DEF OneSessionPerInit
<1>0. crashes = 0
  BY ZenonT(30) DEF Kind, Waiting, Answering, Completing
<1>1. ASSUME NEW n \in Node, Waiting(n)
      PROVE  s = t
  BY <1>0, <1>1 DEF Waiting, OthersKeep, OneSessionPerInit
<1>2. ASSUME NEW n \in Node, NEW m \in net, Answering(n, m)
      PROVE  s = t
  <2>1. CASE k # n
    BY <1>0, <1>2, <2>1 DEF Answering, OthersKeep, OneSessionPerInit
  <2>2. CASE k = n
    <3>1. \A r \in history[k].installed : r.init # m.sess.init
      <4> SUFFICES ASSUME NEW r \in history[k].installed, r.init = m.sess.init
                   PROVE  FALSE
        BY Zenon
      <4>1. MayStillSend(Peer(k), r.init)
        BY Zenon, <1>2, <2>2 DEF Answering, MayStillSend
      <4>2. r.init <= lastTs[k] /\ bootFloor[k] = 0
        BY <1>0, <4>1 DEF Gated
      <4>3. AcceptFreshInit(k, r.init) /\ r.init \in Nat /\ lastTs[k] \in Nat
        BY Zenon, <1>2, <2>2, Numbers DEF Answering
      <4> QED BY <4>2, <4>3 DEF AcceptFreshInit
    <3>2. history'[k].installed
            = history[k].installed \cup {[init |-> m.sess.init, resp |-> fresh + 1]}
      <4>1. BuildDataPlane(n, [init |-> m.sess.init, resp |-> fresh + 1])
        BY Zenon, <1>2 DEF Answering
      <4> QED BY <2>2, <4>1, Built
    <3> QED BY <1>0, <3>1, <3>2 DEF OneSessionPerInit
  <2> QED BY <2>1, <2>2
<1>3. ASSUME NEW n \in Node, NEW m \in net, Completing(n, m)
      PROVE  s = t
  <2>1. CASE k # n
    BY <1>0, <1>3, <2>1 DEF Completing, OthersKeep, OneSessionPerInit
  <2>2. CASE k = n
    <3>1. \A r \in history[k].installed : r.init # m.sess.init
      BY Zenon, <1>3, <2>2 DEF Completing, Owned
    <3>2. history'[k].installed = history[k].installed \cup {m.sess}
      BY <1>3, <2>2, Built DEF Completing
    <3> QED BY Zenon, <1>0, <3>1, <3>2 DEF OneSessionPerInit
  <2> QED BY <2>1, <2>2
<1> QED BY <1>1, <1>2, <1>3 DEF Kind

-----------------------------------------------------------------------------
(* The theorems *)

LEMMA InitIInv == Init => IInv
<1> SUFFICES ASSUME Init
             PROVE  IInv
  OBVIOUS
<1>1. NoSession \in Session
  BY DEF NoSession, Session
<1>2. 0 \in 0..HandshakeTotal /\ 0 \in 0..MaxPendingTun /\ 0 \in 0..RekeyInterval
      /\ 0 \in 0..MaxFresh /\ 0 \in 0..MaxCrashes
  BY TimingAssumption, PeerAssumption
<1>3. TypeOK
  BY Zenon, <1>1, <1>2, NoEpochsType DEF Init, TypeOK
<1>4. \A n \in Node : epochs[n].rekey = 0 /\ epochs[n].next = NoSession
  BY DEF Init, NoEpochs, NewEpochSet
<1>5. Shape /\ NoKeyReuse /\ OneSessionPerInit
  BY Zenon DEF Init, Shape, NoKeyReuse, OneSessionPerInit
<1>6. Drawn /\ Owned /\ Gated
  BY <1>4 DEF Init, Drawn, Owned, Gated, Awaited, Below, NoSession
<1> QED BY <1>3, <1>5, <1>6 DEF IInv

LEMMA StepIInv == IInv /\ [Next]_vars => IInv'
<1> SUFFICES ASSUME IInv, [Next]_vars
             PROVE  IInv'
  OBVIOUS
<1> USE DEF IInv
<1>1. CASE Next
  <2>1. Kind
    BY Zenon, <1>1, NextKind
  <2> QED BY <1>1, <2>1, TypeStep, ShapeStep, DrawnStep, OwnedStep, NoKeyReuseStep,
             GatedStep, OneSessionStep
<1>2. CASE UNCHANGED vars
  BY <1>2 DEF vars, TypeOK, Shape, Drawn, Below, Owned, Awaited, NoKeyReuse, Gated,
              MayStillSend, OneSessionPerInit
<1> QED BY <1>1, <1>2

LEMMA Invariance == Spec => []IInv
BY InitIInv, StepIInv, PTL DEF Spec

(* The state of the two daemons and of the network stays of its type, the  *)
(* pending queue of push_pending within MAX_PENDING_TUN included.          *)
THEOREM TypeCorrect == Spec => []TypeOK
<1>1. IInv => TypeOK
  BY DEF IInv
<1> QED BY <1>1, Invariance, PTL

(* Whatever is lost, duplicated, delayed or reordered, and however often   *)
(* the daemons restart, none of them builds two data planes on one pair of *)
(* ephemerals, so no AEAD counter starts over under a key.                 *)
THEOREM KeysNeverReused == Spec => []NoKeyReuse
<1>1. IInv => NoKeyReuse
  BY DEF IInv
<1> QED BY <1>1, Invariance, PTL

(* While no daemon has restarted, a daemon builds at most one session per  *)
(* Init: the dedup and the freshness gate of rekey_init_core answer every  *)
(* copy of an Init alike.                                                  *)
THEOREM RoundsNeverForked == Spec => []OneSessionPerInit
<1>1. IInv => OneSessionPerInit
  BY DEF IInv
<1> QED BY <1>1, Invariance, PTL
=============================================================================
