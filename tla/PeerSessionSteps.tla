-------------------------- MODULE PeerSessionSteps --------------------------
(***************************************************************************)
(* Steps of PeerSession keep the numbers of the handshakes in order: none  *)
(* is used before it is drawn, and one that is waited on has one owner.    *)
(***************************************************************************)
EXTENDS PeerSessionKinds

-----------------------------------------------------------------------------
(* Each part of the inductive invariant is preserved. *)

LEMMA ShapeStep ==
    ASSUME TypeOK, Shape, Next
    PROVE  Shape'
<1>1. ASSUME NEW n \in Node, OnTunEstablished(n) \/ OnTunHandshaking(n) \/ OnTunIdle(n)
      PROVE  Shape'
  BY <1>1 DEF OnTunEstablished, OnTunHandshaking, OnTunIdle, BeginHandshake, Shape, TypeOK
<1>2. ASSUME NEW n \in Node, NEW s, Establish(n, s)
      PROVE  Shape'
  BY <1>2 DEF Establish, Shape, TypeOK
<1>3. ASSUME NEW n \in Node, BackToIdle(n)
      PROVE  Shape'
  BY <1>3 DEF BackToIdle, Shape, TypeOK
<1>4. ASSUME state' = state, hs' = hs
      PROVE  Shape'
  BY Zenon, <1>4 DEF Shape
<1>5. ASSUME NEW n \in Node, NEW m \in net, OnUdp(n, m, net)
      PROVE  Shape'
  BY Zenon, <1>2, <1>3, <1>4, <1>5
     DEF OnUdp, HandleColdInit, HandleRekeyInit, HandleRekeyResp, HandleColdResp,
         HandleData, DropSession
<1>6. ASSUME NEW n \in Node, Tick(n)
      PROVE  Shape'
  BY <1>3, <1>4, <1>6
     DEF Tick, TickEstablished, TickHandshaking, TickIdle, DropSession
<1>7. CASE Elapse
  BY <1>4, <1>7 DEF Elapse
<1>8. ASSUME NEW n \in Node, CertLapse(n) \/ Crash(n)
      PROVE  Shape'
  BY Zenon, <1>3, <1>4, <1>8 DEF CertLapse, Crash
<1> QED BY Zenon, <1>1, <1>5, <1>6, <1>7, <1>8 DEF Next, Step

(* The numbers as the provers need them. *)
LEMMA Numbers ==
    ASSUME TypeOK
    PROVE  /\ fresh \in Nat
           /\ \A n \in Node :
                /\ hs[n] \in Nat /\ epochs[n].rekey \in Nat
                /\ epochs[n].next \in Session /\ cachedResp[n] \in Session
                /\ history[n].installed \subseteq Session
                /\ history[n].reused \in BOOLEAN
                /\ lastTs[n] \in Nat /\ bootFloor[n] \in Nat
           /\ \A m \in net : m.sess \in Session
           /\ \A s \in Session : s.init \in Nat /\ s.resp \in Nat
BY PeerAssumption DEF TypeOK, EpochSetType, Message, Session

LEMMA Built ==
    ASSUME TypeOK, NEW n \in Node, NEW s, BuildDataPlane(n, s)
    PROVE  /\ history'[n].installed = history[n].installed \cup {s}
           /\ history'[n].reused = (history[n].reused \/ s \in history[n].installed)
BY DEF BuildDataPlane, TypeOK

LEMMA DrawnStep ==
    ASSUME TypeOK, Drawn, Kind
    PROVE  Drawn'
<1>0. /\ Below(NoSession)
      /\ fresh \in Nat /\ fresh + 1 \in Nat /\ fresh <= fresh + 1 /\ 0 <= fresh
  BY Numbers DEF NoSession, Below
<1>1. fresh' \in {fresh, fresh + 1}
  BY Zenon DEF Kind, Waiting, Answering, Completing
<1>2. \A x \in Nat : x <= fresh => x <= fresh'
  BY <1>0, <1>1
<1>3. \A s \in Session : Below(s) => Below(s)'
  BY <1>2, Numbers DEF Below
<1>4. \A m \in net' : Carried(m) /\ m.type # "Data" => Below(m.sess)'
  BY <1>3, Numbers DEF Drawn, Carried, Copy
<1>5. NoSession \in Session
  BY DEF NoSession, Session
<1>6. ASSUME NEW n \in Node, Waiting(n)
      PROVE  Drawn'
  <2>1. \A x \in JustDrawn : x <= fresh'
    BY <1>0, <1>1 DEF JustDrawn
  <2>2. \A k \in Node : /\ hs'[k] <= fresh'
                        /\ epochs'[k].rekey <= fresh'
                        /\ Below(epochs[k].next)'
                        /\ Below(cachedResp[k])'
                        /\ \A s \in history'[k].installed : Below(s)'
    <3>1. ASSUME NEW k \in Node
          PROVE  hs'[k] <= fresh' /\ epochs'[k].rekey <= fresh'
      BY Zenon, <1>0, <1>1, <1>2, <1>6, <2>1, Numbers DEF Drawn, Waiting, OthersKeep
    <3>2. ASSUME NEW k \in Node
          PROVE  Below(epochs[k].next)' /\ Below(cachedResp[k])'
      BY <1>0, <1>3, <1>5, <1>6, Numbers DEF Drawn, Waiting, OthersKeep, Below
    <3>3. ASSUME NEW k \in Node
          PROVE  \A s \in history'[k].installed : Below(s)'
      BY Zenon, <1>3, <1>6, Numbers DEF Drawn, Waiting, OthersKeep
    <3> QED BY Zenon, <3>1, <3>2, <3>3
  <2>3. \A m \in net' : m.type # "Data" => Below(m.sess)'
    <3>1. ASSUME NEW m \in net', m.type = "Init", m.sess.resp = 0,
                 m.sess.init \in Awaited(n) \cup JustDrawn
          PROVE  Below(m.sess)'
      BY <1>0, <1>1, <1>2, <2>1, <3>1, Numbers DEF Drawn, Awaited, Below
    <3>2. ASSUME NEW m \in net', m.sess \in {cachedResp[n], epochs[n].next}
          PROVE  Below(m.sess)'
      BY <1>3, <3>2, Numbers DEF Drawn
    <3> QED BY Zenon, <1>4, <1>6, <3>1, <3>2 DEF Waiting
  <2> QED BY <2>2, <2>3 DEF Drawn
<1>7. ASSUME NEW n \in Node, NEW m \in net, Answering(n, m)
      PROVE  Drawn'
  <2>0. PICK s : s = [init |-> m.sess.init, resp |-> fresh + 1]
    BY Zenon
  <2>1. Below(s)' /\ fresh' = fresh + 1
    BY <2>0, <1>0, <1>2, <1>7, Numbers DEF Drawn, Answering, Below
  <2>2. /\ OthersKeep(n)
        /\ hs'[n] \in {hs[n], 0} /\ epochs'[n].rekey \in {epochs[n].rekey, 0}
        /\ epochs'[n].next \in {s, NoSession} /\ cachedResp'[n] \in {cachedResp[n], s}
        /\ BuildDataPlane(n, s)
        /\ \A k \in net' : k.type = "Data" \/ Carried(k) \/ (k.type = "Resp" /\ k.sess = s)
    BY Zenon, <1>7, <2>0 DEF Answering
  <2>3. \A k \in net' : k.type # "Data" => Below(k.sess)'
    BY Zenon, <1>4, <2>1, <2>2
  <2>4. ASSUME NEW k \in Node
        PROVE  hs'[k] <= fresh' /\ epochs'[k].rekey <= fresh'
    BY <1>0, <1>2, <2>1, <2>2, Numbers DEF Drawn, OthersKeep
  <2>5. ASSUME NEW k \in Node
        PROVE  Below(epochs[k].next)' /\ Below(cachedResp[k])'
    BY ZenonT(30), <1>0, <1>3, <1>5, <2>1, <2>2, Numbers DEF Drawn, OthersKeep, Below
  <2>6. ASSUME NEW k \in Node, NEW t \in history'[k].installed
        PROVE  Below(t)'
    BY <1>3, <2>1, <2>2, Numbers, Built DEF Drawn, OthersKeep
  <2> QED BY <2>3, <2>4, <2>5, <2>6 DEF Drawn
<1>8. ASSUME NEW n \in Node, NEW m \in net, Completing(n, m)
      PROVE  Drawn'
  <2>1. Below(m.sess)' /\ fresh' = fresh
    BY Zenon, <1>3, <1>8, Numbers DEF Drawn, Completing
  <2>2. /\ OthersKeep(n)
        /\ hs'[n] \in {hs[n], 0} /\ epochs'[n].rekey \in {epochs[n].rekey, 0}
        /\ epochs'[n].next \in {epochs[n].next, NoSession} /\ cachedResp' = cachedResp
        /\ BuildDataPlane(n, m.sess)
        /\ \A k \in net' : k.type = "Data" \/ Carried(k)
    BY <1>8 DEF Completing
  <2>3. \A k \in net' : k.type # "Data" => Below(k.sess)'
    BY Zenon, <1>4, <2>2
  <2>4. ASSUME NEW k \in Node
        PROVE  hs'[k] <= fresh' /\ epochs'[k].rekey <= fresh'
    BY <1>0, <1>2, <2>1, <2>2, Numbers DEF Drawn, OthersKeep
  <2>5. ASSUME NEW k \in Node
        PROVE  Below(epochs[k].next)' /\ Below(cachedResp[k])'
    BY Zenon, <1>0, <1>3, <1>5, <2>1, <2>2, Numbers DEF Drawn, OthersKeep, Below
  <2>6. ASSUME NEW k \in Node, NEW t \in history'[k].installed
        PROVE  Below(t)'
    BY <1>3, <2>1, <2>2, Numbers, Built DEF Drawn, OthersKeep
  <2> QED BY <2>3, <2>4, <2>5, <2>6 DEF Drawn
<1> QED BY Zenon, <1>6, <1>7, <1>8 DEF Kind

LEMMA PeerFacts ==
    ASSUME NEW n \in Node
    PROVE  /\ Peer(n) \in Node /\ Peer(n) # n /\ Peer(Peer(n)) = n
           /\ \A k \in Node : k = n \/ k = Peer(n)
BY PeerAssumption DEF Node, Peer

(* Whatever the step, nothing but a number just drawn becomes awaited, and *)
(* a number just drawn is new.                                             *)
LEMMA AwaitedStep ==
    ASSUME TypeOK, Drawn, NEW n \in Node,
           Waiting(n) \/ \E m \in net : Answering(n, m) \/ Completing(n, m)
    PROVE  /\ \A k \in Node : \A a \in Awaited(k) : a \in Nat /\ a <= fresh
           /\ \A k \in Node \ {n} : Awaited(k)' = Awaited(k)
           /\ Waiting(n) => Awaited(n)' \subseteq Awaited(n) \cup JustDrawn
           /\ ~Waiting(n) => Awaited(n)' \subseteq Awaited(n)
           /\ \A a \in JustDrawn : a = fresh + 1
BY ZenonT(30), Numbers DEF Awaited, Drawn, Waiting, Answering, Completing, OthersKeep, JustDrawn

LEMMA OwnedStep ==
    ASSUME TypeOK, Drawn, Owned, Kind
    PROVE  Owned'
<1>0. fresh \in Nat
  BY Numbers
<1>1. ASSUME NEW n \in Node, Waiting(n)
      PROVE  Owned'
  <2> SUFFICES ASSUME NEW k \in Node, NEW a \in Awaited(k)'
               PROVE  /\ a \notin Awaited(Peer(k))'
                      /\ \A s \in history'[k].installed : s.init # a
                      /\ \A m \in net' : m.type = "Init" /\ m.from = Peer(k)
                                          => m.sess.init # a
    BY DEF Owned
  <2>1. \/ a \in Awaited(k)
        \/ k = n /\ a \in JustDrawn /\ a = fresh + 1
    BY <1>1, AwaitedStep
  <2>2. history'[k] = history[k]
    BY <1>1 DEF Waiting, OthersKeep
  <2>3. a \notin Awaited(Peer(k))'
    <3>1. \A b \in Awaited(Peer(k)) : b \in Nat /\ b <= fresh
      BY Zenon, <1>1, AwaitedStep, PeerFacts
    <3>2. CASE k = n
      BY <1>0, <1>1, <2>1, <3>1, <3>2, AwaitedStep, PeerFacts DEF Owned
    <3>3. CASE k # n
      <4>1. Awaited(Peer(k))' \subseteq Awaited(Peer(k)) \cup JustDrawn
        BY <1>1, <3>3, AwaitedStep, PeerFacts
      <4>2. a \in Awaited(k) /\ a <= fresh /\ a \in Nat
        BY Zenon, <1>1, <2>1, <3>3, AwaitedStep
      <4> QED BY <1>0, <1>1, <4>1, <4>2, AwaitedStep DEF Owned
    <3> QED BY <3>2, <3>3
  <2>4. \A s \in history'[k].installed : s.init # a
    BY <1>0, <2>1, <2>2, Numbers DEF Owned, Drawn, Below
  <2>5. ASSUME NEW m \in net', m.type = "Init", m.from = Peer(k)
        PROVE  m.sess.init # a
    <3>1. CASE Carried(m)
      <4>1. PICK c \in net : c.type = "Init" /\ c.from = Peer(k) /\ c.sess = m.sess
        BY <2>5, <3>1 DEF Carried, Copy
      <4>2. c.sess.init <= fresh /\ c.sess.init \in Nat
        BY <4>1, Numbers DEF Drawn, Below
      <4> QED BY <1>0, <2>1, <4>1, <4>2 DEF Owned
    <3>2. CASE m.from = n /\ m.sess.init \in Awaited(n) \cup JustDrawn
      <4>1. k # n /\ Peer(k) = n /\ a \in Awaited(k)
        BY Zenon, <2>1, <2>5, <3>2, PeerFacts
      <4>2. a \notin Awaited(n) /\ a <= fresh /\ a \in Nat
        BY Zenon, <1>1, <4>1, AwaitedStep DEF Owned
      <4> QED BY <1>0, <1>1, <3>2, <4>2, AwaitedStep
    <3> QED BY <1>1, <2>5, <3>1, <3>2 DEF Waiting
  <2> QED BY <2>3, <2>4, <2>5
<1>2. ASSUME NEW n \in Node, NEW m \in net, Answering(n, m) \/ Completing(n, m),
             ~Waiting(n)
      PROVE  Owned'
  <2> SUFFICES ASSUME NEW k \in Node, NEW a \in Awaited(k)'
               PROVE  /\ a \notin Awaited(Peer(k))'
                      /\ \A s \in history'[k].installed : s.init # a
                      /\ \A c \in net' : c.type = "Init" /\ c.from = Peer(k)
                                          => c.sess.init # a
    BY Zenon DEF Owned
  <2>1. \A j \in Node : Awaited(j)' \subseteq Awaited(j)
    BY Zenon, <1>2, AwaitedStep
  <2>2. a \in Awaited(k) /\ a \notin Awaited(Peer(k))'
    BY Zenon, <2>1, PeerFacts DEF Owned
  <2>3. \A c \in net' : c.type = "Init" => Carried(c)
    BY <1>2 DEF Answering, Completing
  <2>4. \A c \in net' : c.type = "Init" /\ c.from = Peer(k) => c.sess.init # a
    BY <2>2, <2>3 DEF Owned, Carried, Copy
  <2>5. ASSUME NEW s \in history'[k].installed
        PROVE  s.init # a
    <3>1. CASE s \in history[k].installed
      BY <2>2, <3>1 DEF Owned
    <3>2. CASE s \notin history[k].installed
      <4>1. k = n /\ s.init = m.sess.init
        <5>1. k # n => history'[k] = history[k]
          BY Zenon, <1>2 DEF Answering, Completing, OthersKeep
        <5>2. PICK r \in {m.sess, [init |-> m.sess.init, resp |-> fresh + 1]} :
                BuildDataPlane(n, r)
          BY Zenon, <1>2 DEF Answering, Completing
        <5> QED BY <3>2, <5>1, <5>2, Built
      <4>2. CASE Answering(n, m)
        BY Zenon, <2>2, <4>1, <4>2 DEF Answering, Owned
      <4>3. CASE Completing(n, m)
        BY <4>1, <4>3 DEF Completing, Awaited
      <4> QED BY Zenon, <1>2, <4>2, <4>3
    <3> QED BY <3>1, <3>2
  <2> QED BY Zenon, <2>2, <2>4, <2>5
<1> QED BY <1>1, <1>2 DEF Kind

LEMMA NoKeyReuseStep ==
    ASSUME TypeOK, Drawn, Owned, NoKeyReuse, Kind
    PROVE  NoKeyReuse'
<1> SUFFICES ASSUME NEW k \in Node
             PROVE  ~history'[k].reused
  BY Zenon DEF NoKeyReuse
<1>1. ASSUME NEW n \in Node, Waiting(n)
      PROVE  ~history'[k].reused
  BY <1>1 DEF Waiting, OthersKeep, NoKeyReuse
<1>2. ASSUME NEW n \in Node, NEW m \in net, Answering(n, m)
      PROVE  ~history'[k].reused
  <2>1. [init |-> m.sess.init, resp |-> fresh + 1] \notin history[n].installed
    BY Numbers DEF Drawn, Below
  <2> QED BY Zenon, <1>2, <2>1, Built DEF Answering, OthersKeep, NoKeyReuse
<1>3. ASSUME NEW n \in Node, NEW m \in net, Completing(n, m)
      PROVE  ~history'[k].reused
  <2>1. m.sess \notin history[n].installed
    BY <1>3 DEF Completing, Owned
  <2> QED BY ZenonT(30), <1>3, <2>1, Built DEF Completing, OthersKeep, NoKeyReuse
<1> QED BY Zenon, <1>1, <1>2, <1>3 DEF Kind
=============================================================================
