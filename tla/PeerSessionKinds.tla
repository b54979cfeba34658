-------------------------- MODULE PeerSessionKinds --------------------------
(***************************************************************************)
(* For the numbers of the handshakes a step of n does one of three things: *)
(* it draws, resends or forgets; it answers an Init; or it completes a     *)
(* round that it waited on.  Every action of Next is one of them.          *)
(***************************************************************************)
EXTENDS PeerSessionTypes


Carried(m) == \E k \in net : Copy(k, m)

OthersKeep(n) ==
    \A k \in Node \ {n} :
      /\ hs'[k] = hs[k]
      /\ epochs'[k].rekey = epochs[k].rekey
      /\ epochs'[k].next = epochs[k].next
      /\ cachedResp'[k] = cachedResp[k]
      /\ history'[k] = history[k]
      /\ lastTs'[k] = lastTs[k]
      /\ bootFloor'[k] = bootFloor[k]

JustDrawn == IF fresh' = fresh THEN {} ELSE {fresh + 1}

Waiting(n) ==
    /\ OthersKeep(n)
    /\ fresh' \in {fresh, fresh + 1}
    /\ hs'[n] \in {hs[n], 0} \cup JustDrawn
    /\ epochs'[n].rekey \in {epochs[n].rekey, 0} \cup JustDrawn
    /\ epochs'[n].next \in {epochs[n].next, NoSession}
    /\ cachedResp'[n] \in {cachedResp[n], NoSession}
    /\ history'[n] = history[n]
    /\ crashes' = 0 =>
         crashes = 0 /\ lastTs'[n] = lastTs[n] /\ bootFloor'[n] = bootFloor[n]
    /\ \A m \in net' :
         \/ m.type = "Data"
         \/ Carried(m)
         \/ /\ m.type = "Init" /\ m.from = n /\ m.sess.resp = 0
            /\ m.sess.init \in Awaited(n) \cup JustDrawn
         \/ m.type = "Resp" /\ m.sess \in {cachedResp[n], epochs[n].next}

Answering(n, m) ==
    LET s == [init |-> m.sess.init, resp |-> fresh + 1] IN
    /\ m.type = "Init" /\ m.from = Peer(n)
    /\ AcceptFreshInit(n, m.sess.init)
    /\ OthersKeep(n)
    /\ fresh' = fresh + 1
    /\ hs'[n] \in {hs[n], 0}
    /\ epochs'[n].rekey \in {epochs[n].rekey, 0}
    /\ epochs'[n].next \in {s, NoSession}
    /\ cachedResp'[n] \in {cachedResp[n], s}
    /\ BuildDataPlane(n, s)
    /\ lastTs'[n] = m.sess.init
    /\ bootFloor' = bootFloor /\ crashes' = crashes
    /\ \A k \in net' : \/ k.type = "Data"
                       \/ Carried(k)
                       \/ k.type = "Resp" /\ k.sess = s

Completing(n, m) ==
    /\ m.type = "Resp"
    /\ m.sess.init \in Awaited(n)
    /\ OthersKeep(n)
    /\ fresh' = fresh
    /\ hs'[n] \in {hs[n], 0} \ {m.sess.init}
    /\ epochs'[n].rekey \in {epochs[n].rekey, 0} \ {m.sess.init}
    /\ epochs'[n].next \in {epochs[n].next, NoSession}
    /\ cachedResp' = cachedResp
    /\ BuildDataPlane(n, m.sess)
    /\ lastTs' = lastTs /\ bootFloor' = bootFloor /\ crashes' = crashes
    /\ \A k \in net' : k.type = "Data" \/ Carried(k)

Kind == \E n \in Node :
          Waiting(n) \/ \E m \in net : Answering(n, m) \/ Completing(n, m)

LEMMA Kept == \A m \in net : Carried(m)
BY DEF Carried, Copy

LEMMA MessageFields ==
    ASSUME NEW n, NEW e, NEW s
    PROVE  /\ InitMsg(n, e).type = "Init" /\ InitMsg(n, e).from = n
           /\ InitMsg(n, e).sess.init = e /\ InitMsg(n, e).sess.resp = 0
           /\ RespMsg(n, s).type = "Resp" /\ RespMsg(n, s).sess = s
           /\ DataMsg(n, s).type = "Data"
BY DEF InitMsg, RespMsg, DataMsg

LEMMA OnTunKind ==
    ASSUME TypeOK, NEW n \in Node,
           OnTunEstablished(n) \/ OnTunHandshaking(n) \/ OnTunIdle(n)
    PROVE  Waiting(n)
<1>1. CASE OnTunEstablished(n)
  <2>1. \A m \in net' : m.type = "Data" \/ Carried(m)
    BY <1>1, SendBound, Kept, MessageFields DEF OnTunEstablished
  <2> QED BY <1>1, <2>1 DEF OnTunEstablished, Waiting, OthersKeep, JustDrawn
<1>2. CASE OnTunHandshaking(n)
  BY Zenon, <1>2, Kept DEF OnTunHandshaking, Waiting, OthersKeep, JustDrawn
<1>3. CASE OnTunIdle(n)
  <2>0. fresh \in Nat /\ fresh' = fresh + 1 /\ JustDrawn = {fresh + 1}
    BY <1>3 DEF OnTunIdle, BeginHandshake, TypeOK, JustDrawn
  <2>1. net' \subseteq net \cup {InitMsg(n, fresh + 1)}
    BY <1>3, SendBound DEF OnTunIdle, BeginHandshake
  <2>2. \A m \in net' : \/ Carried(m)
                        \/ /\ m.type = "Init" /\ m.from = n /\ m.sess.resp = 0
                           /\ m.sess.init \in Awaited(n) \cup JustDrawn
    BY <2>0, <2>1, Kept, MessageFields
  <2> QED BY Zenon, <1>3, <2>0, <2>2 DEF OnTunIdle, BeginHandshake, TypeOK, Waiting, OthersKeep
<1> QED BY <1>1, <1>2, <1>3

LEMMA IdleFacts ==
    ASSUME TypeOK, NEW n \in Node, BackToIdle(n)
    PROVE  /\ hs'[n] = 0 /\ epochs'[n].rekey = 0 /\ epochs'[n].next = NoSession
           /\ \A k \in Node \ {n} : hs'[k] = hs[k] /\ epochs'[k] = epochs[k]
BY Zenon DEF BackToIdle, NoEpochs, NewEpochSet, TypeOK

LEMMA EstablishFacts ==
    ASSUME TypeOK, NEW n \in Node, NEW s, Establish(n, s)
    PROVE  /\ hs'[n] = 0 /\ epochs'[n].rekey = 0 /\ epochs'[n].next = NoSession
           /\ \A k \in Node \ {n} :
                hs'[k] = hs[k] /\ epochs'[k] = epochs[k] /\ history'[k] = history[k]
           /\ BuildDataPlane(n, s)
BY DEF Establish, BuildDataPlane, NewEpochSet, TypeOK

LEMMA DrainedData ==
    ASSUME NEW n, NEW s, NEW m \in Drained(n, s)
    PROVE  m.type = "Data"
BY MessageFields DEF Drained

LEMMA ColdInitKind ==
    ASSUME TypeOK, NEW n \in Node, NEW m \in net, m.from = Peer(n),
           HandleColdInit(n, m, net)
    PROVE  Answering(n, m)
<1> DEFINE s == [init |-> m.sess.init, resp |-> fresh + 1]
<1>1. /\ m.type = "Init" /\ AcceptFreshInit(n, m.sess.init)
      /\ Establish(n, s)
      /\ fresh' = fresh + 1
      /\ lastTs' = [lastTs EXCEPT ![n] = m.sess.init]
      /\ cachedResp' = [cachedResp EXCEPT ![n] = s]
      /\ Send(net, {RespMsg(n, s)} \cup Drained(n, s))
      /\ UNCHANGED <<bootFloor, crashes>>
  BY DEF HandleColdInit
<1>2. \A k \in net' : k.type = "Data" \/ Carried(k) \/ (k.type = "Resp" /\ k.sess = s)
  <2>1. net' \subseteq net \cup ({RespMsg(n, s)} \cup Drained(n, s))
    BY Zenon, <1>1, SendBound
  <2> QED BY <2>1, Kept, DrainedData, MessageFields
<1>3. /\ hs'[n] = 0 /\ epochs'[n].rekey = 0 /\ epochs'[n].next = NoSession
      /\ \A k \in Node \ {n} :
           hs'[k] = hs[k] /\ epochs'[k] = epochs[k] /\ history'[k] = history[k]
      /\ BuildDataPlane(n, s)
  BY Zenon, <1>1, EstablishFacts
<1>4. /\ lastTs'[n] = m.sess.init /\ cachedResp'[n] = s
      /\ \A k \in Node \ {n} : lastTs'[k] = lastTs[k] /\ cachedResp'[k] = cachedResp[k]
  BY <1>1 DEF TypeOK
<1> QED BY Zenon, <1>1, <1>2, <1>3, <1>4 DEF Answering, OthersKeep

LEMMA RekeyInitKind ==
    ASSUME TypeOK, NEW n \in Node, NEW m \in net, m.from = Peer(n),
           HandleRekeyInit(n, m, net)
    PROVE  Waiting(n) \/ Answering(n, m)
<1> DEFINE e == m.sess.init
<1> DEFINE s == [init |-> e, resp |-> fresh + 1]
<1>1. m.type = "Init" /\ bootFloor' = bootFloor /\ crashes' = crashes
  BY Zenon DEF HandleRekeyInit
<1>2. CASE certOk[Peer(n)]
  <2>0. RekeyInitCore(n, e, net) /\ hs' = hs /\ cachedResp' = cachedResp
    BY Zenon, <1>2 DEF HandleRekeyInit
  <2>1. CASE UNCHANGED <<epochs, lastTs, fresh, history>>
             /\ \E t \in {cachedResp[n], epochs[n].next} : Send(net, {RespMsg(n, t)})
    <3>1. PICK t \in {cachedResp[n], epochs[n].next} : Send(net, {RespMsg(n, t)})
      BY Zenon, <2>1
    <3>2. net' \subseteq net \cup {RespMsg(n, t)}
      BY Zenon, <3>1, SendBound
    <3>3. \A k \in net' : \/ Carried(k)
                          \/ k.type = "Resp" /\ k.sess \in {cachedResp[n], epochs[n].next}
      BY <3>2, Kept, MessageFields
    <3> QED BY Zenon, <1>1, <2>0, <2>1, <3>3 DEF Waiting, OthersKeep
  <2>2. CASE /\ AcceptFreshInit(n, e)
             /\ epochs' = [epochs EXCEPT ![n] = InstallNext(@, s)]
             /\ lastTs' = [lastTs EXCEPT ![n] = e]
             /\ Send(net, {RespMsg(n, s)})
             /\ BuildDataPlane(n, s)
             /\ fresh' = fresh + 1
    <3>1. net' \subseteq net \cup {RespMsg(n, s)}
      BY Zenon, <2>2, SendBound
    <3>2. \A k \in net' : Carried(k) \/ (k.type = "Resp" /\ k.sess = s)
      BY <3>1, Kept, MessageFields
    <3>3. /\ epochs'[n].next = s /\ epochs'[n].rekey = epochs[n].rekey
          /\ \A k \in Node \ {n} : epochs'[k] = epochs[k]
      BY Zenon, <2>2 DEF InstallNext, TypeOK, EpochSetType
    <3>4. lastTs'[n] = e /\ \A k \in Node \ {n} :
                              lastTs'[k] = lastTs[k] /\ history'[k] = history[k]
      BY Zenon, <2>2 DEF TypeOK, BuildDataPlane
    <3> QED BY <1>1, <2>0, <2>2, <3>2, <3>3, <3>4 DEF Answering, OthersKeep
  <2> QED BY Zenon, <2>0, <2>1, <2>2 DEF RekeyInitCore
<1>3. CASE ~certOk[Peer(n)]
  <2>1. DropSession(n) /\ Send(net, {}) /\ fresh' = fresh
    BY <1>3 DEF HandleRekeyInit
  <2>2. \A k \in net' : Carried(k)
    BY <2>1, SendBound, Kept
  <2> QED BY Zenon, <1>1, <2>1, <2>2, IdleFacts DEF DropSession, Waiting, OthersKeep
<1> QED BY <1>2, <1>3

LEMMA RespKind ==
    ASSUME TypeOK, Shape, NEW n \in Node, NEW m \in net,
           HandleRekeyResp(n, m, net) \/ HandleColdResp(n, m, net)
    PROVE  Waiting(n) \/ Completing(n, m)
<1>0. hs[n] \in Nat /\ epochs[n].rekey \in Nat /\ epochs[n] \in EpochSetType
  BY Zenon DEF TypeOK, EpochSetType
<1>1. CASE HandleRekeyResp(n, m, net)
  <2>0. /\ m.type = "Resp" /\ hs[n] = 0 /\ epochs[n].rekey # 0
        /\ UNCHANGED <<hs, cachedResp, lastTs, bootFloor, fresh, crashes>>
    BY Zenon, <1>1 DEF HandleRekeyResp, Shape
  <2>1. CASE m.sess.init = epochs[n].rekey /\ certOk[Peer(n)]
    <3>1. /\ epochs' = [epochs EXCEPT ![n] = PromoteFromRekey(@, m.sess)]
          /\ BuildDataPlane(n, m.sess) /\ Send(net, {DataMsg(n, m.sess)})
      BY Zenon, <1>1, <2>1 DEF HandleRekeyResp
    <3>2. \A k \in net' : k.type = "Data" \/ Carried(k)
      BY <3>1, SendBound, Kept, MessageFields
    <3>3. /\ epochs'[n].rekey = 0 /\ epochs'[n].next = epochs[n].next
          /\ \A k \in Node \ {n} : epochs'[k] = epochs[k] /\ history'[k] = history[k]
      BY Zenon, <1>0, <3>1 DEF PromoteFromRekey, SwitchTo, BuildDataPlane, TypeOK, EpochSetType
    <3> QED BY Zenon, <1>0, <2>0, <2>1, <3>1, <3>2, <3>3 DEF Completing, Awaited, OthersKeep
  <2>2. CASE ~(m.sess.init = epochs[n].rekey /\ certOk[Peer(n)])
    <3>1. /\ epochs' = [epochs EXCEPT ![n] = AbandonRekey(@)]
          /\ history' = history /\ Send(net, {})
      BY <1>1, <2>2 DEF HandleRekeyResp
    <3>2. \A k \in net' : Carried(k)
      BY <3>1, SendBound, Kept
    <3>3. /\ epochs'[n].rekey = 0 /\ epochs'[n].next = epochs[n].next
          /\ \A k \in Node \ {n} : epochs'[k] = epochs[k]
      BY <1>0, <3>1 DEF AbandonRekey, TypeOK, EpochSetType
    <3> QED BY Zenon, <2>0, <3>1, <3>2, <3>3 DEF Waiting, OthersKeep
  <2> QED BY Zenon, <2>1, <2>2
<1>2. CASE HandleColdResp(n, m, net)
  <2>0. /\ m.type = "Resp" /\ hs[n] # 0
        /\ UNCHANGED <<cachedResp, lastTs, bootFloor, fresh, crashes>>
    BY Zenon, <1>2 DEF HandleColdResp, Shape
  <2>1. CASE m.sess.init = hs[n] /\ certOk[Peer(n)]
    <3>1. Establish(n, m.sess) /\ Send(net, Drained(n, m.sess))
      BY <1>2, <2>1 DEF HandleColdResp
    <3>2. \A k \in net' : k.type = "Data" \/ Carried(k)
      BY Zenon, <3>1, SendBound, Kept, DrainedData
    <3> QED BY Zenon, <1>0, <2>0, <2>1, <3>1, <3>2, EstablishFacts
            DEF Completing, Awaited, OthersKeep
  <2>2. CASE ~(m.sess.init = hs[n] /\ certOk[Peer(n)])
    <3>1. BackToIdle(n) /\ Send(net, {}) /\ history' = history
      BY <1>2, <2>2 DEF HandleColdResp
    <3>2. \A k \in net' : Carried(k)
      BY <3>1, SendBound, Kept
    <3> QED BY Zenon, <2>0, <3>1, <3>2, IdleFacts DEF Waiting, OthersKeep
  <2> QED BY Zenon, <2>1, <2>2
<1> QED BY <1>1, <1>2

LEMMA DataKind ==
    ASSUME TypeOK, NEW n \in Node, NEW m \in net, HandleData(n, m, net)
    PROVE  Waiting(n)
<1>1. /\ epochs' = [epochs EXCEPT ![n] = InboundOpen(@, m.sess)] /\ Send(net, {})
      /\ UNCHANGED <<hs, cachedResp, lastTs, bootFloor, fresh, crashes, history>>
  BY DEF HandleData
<1>2. \A k \in net' : Carried(k)
  BY <1>1, SendBound, Kept
<1>3. /\ epochs'[n].rekey = epochs[n].rekey
      /\ epochs'[n].next \in {epochs[n].next, NoSession}
      /\ \A k \in Node \ {n} : epochs'[k] = epochs[k]
  BY <1>1 DEF InboundOpen, SwitchTo, TypeOK, EpochSetType
<1> QED BY Zenon, <1>1, <1>2, <1>3 DEF Waiting, OthersKeep

LEMMA TickKind ==
    ASSUME TypeOK, Drawn, Shape, NEW n \in Node, Tick(n)
    PROVE  Waiting(n)
<1>0. bootFloor' = bootFloor /\ crashes' = crashes /\ fresh \in Nat
  BY DEF Tick, TypeOK
<1>1. CASE TickEstablished(n)
  <2> DEFINE es == DriveRekeySchedule(n, RetirePreviousIfDue(epochs[n]))
  <2>1. /\ RetirePreviousIfDue(epochs[n]) \in EpochSetType
        /\ RetirePreviousIfDue(epochs[n]).rekey = epochs[n].rekey
        /\ RetirePreviousIfDue(epochs[n]).next = epochs[n].next
        /\ epochs[n].rekey <= fresh
    BY Zenon, RetireFacts DEF TypeOK, Drawn
  <2>2. /\ es.next = epochs[n].next
        /\ \/ es.rekey = epochs[n].rekey
           \/ es.rekey = 0
           \/ es.rekey = fresh + 1
    BY <2>1, ScheduleType
  <2>3. PICK frames \in SUBSET {DataMsg(n, es.current)} :
          Send(net, frames \cup
                    (IF es.rekey = 0 THEN {} ELSE {InitMsg(n, es.rekey)}))
    BY Zenon, <1>1 DEF TickEstablished
  <2>4. /\ fresh' = IF es.rekey > fresh THEN es.rekey ELSE fresh
        /\ \/ DropSession(n)
           \/ /\ epochs' = [epochs EXCEPT ![n] = es]
              /\ UNCHANGED <<state, hs, hsAge, pending, cachedResp, lastTs, history>>
    BY Zenon, <1>1 DEF TickEstablished
  <2> HIDE DEF es
  <2>5. epochs[n].rekey \in Nat
    BY Zenon DEF TypeOK, EpochSetType
  <2>6. /\ fresh' \in {fresh, fresh + 1}
        /\ es.rekey \in {epochs[n].rekey, 0} \cup JustDrawn
    BY <1>0, <2>1, <2>2, <2>4, <2>5 DEF JustDrawn
  <2>7. \A m \in net' :
          \/ m.type = "Data"
          \/ Carried(m)
          \/ /\ m.type = "Init" /\ m.from = n /\ m.sess.resp = 0
             /\ m.sess.init \in Awaited(n) \cup JustDrawn
    <3>1. net' \subseteq net \cup (frames \cup
                    (IF es.rekey = 0 THEN {} ELSE {InitMsg(n, es.rekey)}))
      BY <2>3, SendBound
    <3>2. es.rekey # 0 => es.rekey \in Awaited(n) \cup JustDrawn
      BY Zenon, <2>6 DEF Awaited
    <3> QED BY <2>3, <3>1, <3>2, Kept, MessageFields
  <2>8. CASE DropSession(n)
    BY Zenon, <1>0, <2>6, <2>7, <2>8, IdleFacts DEF DropSession, Waiting, OthersKeep
  <2>9. CASE /\ epochs' = [epochs EXCEPT ![n] = es]
             /\ UNCHANGED <<state, hs, hsAge, pending, cachedResp, lastTs, history>>
    <3>1. epochs'[n] = es /\ \A k \in Node \ {n} : epochs'[k] = epochs[k]
      BY <2>9 DEF TypeOK
    <3> QED BY Zenon, <1>0, <2>2, <2>6, <2>7, <2>9, <3>1 DEF Waiting, OthersKeep
  <2> QED BY Zenon, <2>4, <2>8, <2>9
<1>2. CASE TickHandshaking(n)
  <2>0. UNCHANGED <<cachedResp, lastTs, fresh, history>> /\ hs[n] # 0
    BY Zenon, <1>2 DEF TickHandshaking, Shape
  <2>1. CASE hsAge[n] >= HandshakeTotal
    <3>1. BackToIdle(n) /\ net' = net
      BY Zenon, <1>2, <2>1 DEF TickHandshaking
    <3> QED BY Zenon, <1>0, <2>0, <3>1, IdleFacts, Kept DEF Waiting, OthersKeep
  <2>2. CASE ~(hsAge[n] >= HandshakeTotal)
    <3>1. UNCHANGED <<hs, epochs>> /\ Send(net, {InitMsg(n, hs[n])})
      BY Zenon, <1>2, <2>2 DEF TickHandshaking
    <3>2. net' \subseteq net \cup {InitMsg(n, hs[n])} /\ hs[n] \in Awaited(n)
      BY Zenon, <2>0, <3>1, SendBound DEF Awaited
    <3>3. \A m \in net' : \/ Carried(m)
                          \/ /\ m.type = "Init" /\ m.from = n /\ m.sess.resp = 0
                             /\ m.sess.init \in Awaited(n)
      BY <3>2, Kept, MessageFields
    <3> QED BY Zenon, <1>0, <2>0, <3>1, <3>3 DEF Waiting, OthersKeep
  <2> QED BY ZenonT(30), <2>1, <2>2
<1>3. CASE TickIdle(n)
  BY <1>0, <1>3, Kept DEF TickIdle, Waiting, OthersKeep
<1> QED BY <1>1, <1>2, <1>3 DEF Tick

LEMMA EnvironmentKind ==
    ASSUME TypeOK, NEW n \in Node, Elapse \/ CertLapse(n) \/ Crash(n)
    PROVE  Waiting(n)
<1>1. CASE Elapse
  <2>1. \A k \in Node : epochs'[k].rekey = epochs[k].rekey
                        /\ epochs'[k].next = epochs[k].next
    <3>1. \A es \in EpochSetType : Aged(es).rekey = es.rekey /\ Aged(es).next = es.next
      BY DEF Aged, EpochSetType
    <3> QED BY <1>1, <3>1 DEF Elapse, TypeOK
  <2>2. \A m \in net' : Carried(m)
    BY ZenonT(30), <1>1 DEF Elapse, Carried, Copy, TypeOK, Message
  <2> QED BY <1>1, <2>1, <2>2 DEF Elapse, Waiting, OthersKeep
<1>2. CASE CertLapse(n)
  BY <1>2, Kept DEF CertLapse, Waiting, OthersKeep
<1>3. CASE Crash(n)
  <2>1. /\ BackToIdle(n) /\ crashes' = crashes + 1 /\ crashes \in Nat
        /\ UNCHANGED <<net, fresh, history>>
    BY <1>3 DEF Crash, TypeOK
  <2>2. /\ cachedResp'[n] = NoSession
        /\ \A k \in Node \ {n} : /\ cachedResp'[k] = cachedResp[k]
                                  /\ lastTs'[k] = lastTs[k]
                                  /\ bootFloor'[k] = bootFloor[k]
    BY <1>3 DEF Crash, TypeOK
  <2> QED BY <2>1, <2>2, IdleFacts, Kept DEF Waiting, OthersKeep
<1> QED BY <1>1, <1>2, <1>3

LEMMA NextKind ==
    ASSUME TypeOK, Drawn, Shape, Next
    PROVE  Kind
<1>1. CASE Elapse
  BY <1>1, EnvironmentKind DEF Kind, Node
<1>2. ASSUME NEW n \in Node, Step(n)
      PROVE  Kind
  <2>1. ASSUME NEW m \in net, OnUdp(n, m, net)
        PROVE  Kind
    BY <2>1, ColdInitKind, RekeyInitKind, RespKind, DataKind DEF OnUdp, Kind
  <2> QED BY <1>2, <2>1, OnTunKind, TickKind, EnvironmentKind DEF Step, Kind
<1> QED BY <1>1, <1>2 DEF Next
=============================================================================
