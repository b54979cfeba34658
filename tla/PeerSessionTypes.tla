-------------------------- MODULE PeerSessionTypes --------------------------
(***************************************************************************)
(* The inductive invariant of PeerSession, and that every step keeps the   *)
(* types, for every value of the constants.                                *)
(***************************************************************************)
EXTENDS PeerSession, TLAPS

(* The ephemerals n has drawn as an initiator and still waits on. *)
Awaited(n) == {hs[n], epochs[n].rekey} \ {0}

(* An attempt exists exactly in the state that waits for its answer. *)
Shape ==
    \A n \in Node :
      /\ state[n] = "Established" => hs[n] = 0
      /\ state[n] = "Handshaking" => hs[n] # 0

(* No number is in use that has not been drawn. *)
Below(s) == s.init <= fresh /\ s.resp <= fresh

Drawn ==
    /\ \A n \in Node :
         /\ hs[n] <= fresh
         /\ epochs[n].rekey <= fresh
         /\ Below(epochs[n].next)
         /\ Below(cachedResp[n])
         /\ \A s \in history[n].installed : Below(s)
    /\ \A m \in net : m.type # "Data" => Below(m.sess)

(* An awaited ephemeral belongs to its initiator alone: the initiator has  *)
(* no session of it yet, the other daemon does not wait on it, and no Init *)
(* of the other daemon carries it.                                         *)
Owned ==
    \A n \in Node : \A a \in Awaited(n) :
      /\ a \notin Awaited(Peer(n))
      /\ \A s \in history[n].installed : s.init # a
      /\ \A m \in net : m.type = "Init" /\ m.from = Peer(n) => m.sess.init # a

(* The freshness gate covers every Init that n may still receive.          *)
MayStillSend(n, e) ==
    \/ e \in Awaited(n)
    \/ \E m \in net : m.type = "Init" /\ m.from = n /\ m.sess.init = e

Gated ==
    crashes = 0 =>
      \A n \in Node :
        /\ bootFloor[n] = 0
        /\ \A s \in history[n].installed :
             MayStillSend(Peer(n), s.init) => s.init <= lastTs[n]

IInv == TypeOK /\ Shape /\ Drawn /\ Owned /\ NoKeyReuse /\ Gated /\ OneSessionPerInit

-----------------------------------------------------------------------------
(* The operations on an epoch set keep its type. *)

LEMMA EpochTypes ==
    ASSUME NEW es \in EpochSetType, NEW s \in Session, NEW e \in Nat
    PROVE  /\ NewEpochSet(s) \in EpochSetType
           /\ InboundOpen(es, s) \in EpochSetType
           /\ PromoteFromRekey(es, s) \in EpochSetType
           /\ InstallNext(es, s) \in EpochSetType
           /\ RetirePreviousIfDue(es) \in EpochSetType
           /\ StartRekey(es, e) \in EpochSetType
           /\ AbandonRekey(es) \in EpochSetType
<1> NoSession \in Session
  BY DEF NoSession, Session
<1> 0 \in 0..(2 * RekeyInterval) /\ 0 \in 0..Grace /\ 0 \in 0..HandshakeTotal
  BY TimingAssumption
<1>0. SwitchTo(es, s) \in EpochSetType
  BY Zenon DEF SwitchTo, EpochSetType
<1>1. NewEpochSet(s) \in EpochSetType
  BY DEF NewEpochSet, EpochSetType
<1>2. InboundOpen(es, s) \in EpochSetType
  BY <1>0 DEF InboundOpen, EpochSetType
<1>3. PromoteFromRekey(es, s) \in EpochSetType
  BY Zenon, <1>0 DEF PromoteFromRekey, EpochSetType
<1>4. InstallNext(es, s) \in EpochSetType
  BY DEF InstallNext, EpochSetType
<1>5. RetirePreviousIfDue(es) \in EpochSetType
  BY Zenon DEF RetirePreviousIfDue, EpochSetType
<1>6. StartRekey(es, e) \in EpochSetType /\ AbandonRekey(es) \in EpochSetType
  BY Zenon DEF StartRekey, AbandonRekey, EpochSetType
<1> QED BY <1>1, <1>2, <1>3, <1>4, <1>5, <1>6

LEMMA AgedType ==
    ASSUME NEW es \in EpochSetType
    PROVE  Aged(es) \in EpochSetType
<1>1. /\ Older(es.age, 2 * RekeyInterval) \in 0..(2 * RekeyInterval)
      /\ (IF es.previous = NoSession THEN 0 ELSE Older(es.prevAge, Grace)) \in 0..Grace
      /\ (IF es.rekey = 0 THEN 0 ELSE Older(es.rekeyAge, HandshakeTotal))
            \in 0..HandshakeTotal
  BY TimingAssumption DEF Older, EpochSetType
<1> QED BY Zenon, <1>1 DEF Aged, EpochSetType

LEMMA NoEpochsType == NoEpochs \in EpochSetType
<1>1. NoSession \in Session
  BY DEF NoSession, Session
<1> QED BY <1>1, TimingAssumption DEF NoEpochs, NewEpochSet, EpochSetType

LEMMA MessageTypes ==
    ASSUME NEW n \in Node, NEW e \in Nat, NEW s \in Session
    PROVE  /\ InitMsg(n, e) \in Message
           /\ RespMsg(n, s) \in Message
           /\ DataMsg(n, s) \in Message
           /\ Peer(n) \in Node
<1>1. Lifetime \in 0..Lifetime
  BY PeerAssumption
<1>2. [init |-> e, resp |-> 0] \in Session
  BY DEF Session
<1> QED BY <1>1, <1>2 DEF InitMsg, RespMsg, DataMsg, Message, Peer, Node

LEMMA SendBound ==
    ASSUME NEW rest, NEW ms, Send(rest, ms)
    PROVE  net' \subseteq rest \cup ms
BY DEF Send

LEMMA SendNothing ==
    ASSUME NEW rest, Send(rest, {})
    PROVE  net' \subseteq rest
BY DEF Send

LEMMA FreshSession ==
    ASSUME TypeOK, NEW e \in Nat
    PROVE  /\ fresh + 1 \in Nat
           /\ [init |-> e, resp |-> fresh + 1] \in Session
BY PeerAssumption DEF TypeOK, Session

LEMMA PushPendingType ==
    ASSUME TypeOK, NEW n \in Node, PushPending(n)
    PROVE  pending' \in [Node -> 0..MaxPendingTun]
<1>1. pending[n] \in 0..MaxPendingTun /\ MaxPendingTun \in Nat
  BY PeerAssumption DEF TypeOK
<1>2. (IF pending[n] = MaxPendingTun THEN pending[n] ELSE pending[n] + 1)
        \in 0..MaxPendingTun
  BY <1>1
<1> QED BY <1>2 DEF PushPending, TypeOK

LEMMA OnTunType ==
    ASSUME TypeOK, NEW n \in Node,
           OnTunEstablished(n) \/ OnTunHandshaking(n) \/ OnTunIdle(n)
    PROVE  TypeOK'
<1>1. CASE OnTunEstablished(n)
  <2>1. net' \subseteq net \cup {DataMsg(n, epochs[n].current)}
    BY <1>1, SendBound DEF OnTunEstablished
  <2>2. DataMsg(n, epochs[n].current) \in Message
    BY Zenon, MessageTypes DEF TypeOK, EpochSetType
  <2> QED BY Zenon, <1>1, <2>1, <2>2 DEF OnTunEstablished, TypeOK
<1>2. CASE OnTunHandshaking(n)
  BY <1>2, PushPendingType DEF OnTunHandshaking, TypeOK
<1>3. CASE OnTunIdle(n)
  <2>1. net' \subseteq net \cup {InitMsg(n, fresh + 1)}
    BY <1>3, SendBound DEF OnTunIdle, BeginHandshake
  <2>2. fresh + 1 \in Nat /\ fresh + 1 \in 0..MaxFresh
    BY <1>3, PeerAssumption DEF OnTunIdle, BeginHandshake, TypeOK
  <2>3. InitMsg(n, fresh + 1) \in Message
    BY Zenon, <2>2, MessageTypes DEF TypeOK
  <2>4. pending' \in [Node -> 0..MaxPendingTun]
    BY <1>3, PushPendingType DEF OnTunIdle, BeginHandshake
  <2>5. 0 \in 0..HandshakeTotal
    BY TimingAssumption
  <2> QED BY Zenon, <1>3, <2>1, <2>2, <2>3, <2>4, <2>5 DEF OnTunIdle, BeginHandshake, TypeOK
<1> QED BY <1>1, <1>2, <1>3

LEMMA DrainedType ==
    ASSUME TypeOK, NEW n \in Node, NEW s \in Session
    PROVE  Drained(n, s) \subseteq Message
BY MessageTypes DEF Drained

LEMMA BuildType ==
    ASSUME TypeOK, NEW n \in Node, NEW s \in Session, BuildDataPlane(n, s)
    PROVE  history' \in [Node -> [installed : SUBSET Session, reused : BOOLEAN]]
<1>1. [installed |-> history[n].installed \cup {s},
       reused |-> history[n].reused \/ s \in history[n].installed]
        \in [installed : SUBSET Session, reused : BOOLEAN]
  BY DEF TypeOK
<1> QED BY <1>1 DEF BuildDataPlane, TypeOK

LEMMA EstablishType ==
    ASSUME TypeOK, NEW n \in Node, NEW s \in Session, Establish(n, s)
    PROVE  /\ state'   \in [Node -> {"Idle", "Handshaking", "Established"}]
           /\ hs'      \in [Node -> Nat]
           /\ hsAge'   \in [Node -> 0..HandshakeTotal]
           /\ epochs'  \in [Node -> EpochSetType]
           /\ pending' \in [Node -> 0..MaxPendingTun]
           /\ history' \in [Node -> [installed : SUBSET Session, reused : BOOLEAN]]
<1>1. NewEpochSet(s) \in EpochSetType
  BY EpochTypes, NoEpochsType
<1>2. 0 \in 0..HandshakeTotal /\ 0 \in 0..MaxPendingTun
  BY TimingAssumption, PeerAssumption
<1>3. history' \in [Node -> [installed : SUBSET Session, reused : BOOLEAN]]
  BY BuildType DEF Establish
<1> QED BY Zenon, <1>1, <1>2, <1>3 DEF Establish, TypeOK

LEMMA IdleType ==
    ASSUME TypeOK, NEW n \in Node, BackToIdle(n)
    PROVE  /\ state'   \in [Node -> {"Idle", "Handshaking", "Established"}]
           /\ hs'      \in [Node -> Nat]
           /\ hsAge'   \in [Node -> 0..HandshakeTotal]
           /\ epochs'  \in [Node -> EpochSetType]
<1>1. 0 \in 0..HandshakeTotal
  BY TimingAssumption
<1> QED BY <1>1, NoEpochsType DEF BackToIdle, TypeOK

LEMMA ColdInitType ==
    ASSUME TypeOK, NEW n \in Node, NEW m \in net, HandleColdInit(n, m, net)
    PROVE  TypeOK'
<1> DEFINE s == [init |-> m.sess.init, resp |-> fresh + 1]
<1>1. m.sess.init \in Nat
  BY Zenon DEF TypeOK, Message, Session
<1>2. s \in Session /\ fresh + 1 \in 0..MaxFresh
  BY <1>1, FreshSession, PeerAssumption DEF HandleColdInit, TypeOK
<1>3. Establish(n, s) /\ Send(net, {RespMsg(n, s)} \cup Drained(n, s))
  BY DEF HandleColdInit
<1>4. net' \in SUBSET Message
  <2>1. net' \subseteq net \cup ({RespMsg(n, s)} \cup Drained(n, s))
    BY <1>3, SendBound
  <2>2. RespMsg(n, s) \in Message /\ Drained(n, s) \subseteq Message
    BY <1>2, MessageTypes, DrainedType
  <2> QED BY <2>1, <2>2 DEF TypeOK
<1> HIDE DEF s
<1>5. /\ fresh' = fresh + 1
      /\ lastTs' = [lastTs EXCEPT ![n] = m.sess.init]
      /\ cachedResp' = [cachedResp EXCEPT ![n] = s]
      /\ UNCHANGED <<bootFloor, certOk, sweepAge, crashes>>
  BY DEF HandleColdInit, s
<1> QED BY Zenon, <1>1, <1>2, <1>3, <1>4, <1>5, EstablishType DEF TypeOK

LEMMA RekeyInitType ==
    ASSUME TypeOK, NEW n \in Node, NEW m \in net, HandleRekeyInit(n, m, net)
    PROVE  TypeOK'
<1> DEFINE e == m.sess.init
<1> DEFINE s == [init |-> e, resp |-> fresh + 1]
<1>1. e \in Nat
  BY Zenon DEF TypeOK, Message, Session
<1> HIDE DEF e
<1>2. CASE certOk[Peer(n)]
  <2>0. RekeyInitCore(n, e, net)
        /\ UNCHANGED <<state, hs, hsAge, pending, cachedResp, bootFloor, certOk,
                       sweepAge, crashes>>
    BY Zenon, <1>2 DEF HandleRekeyInit, e
  <2>1. CASE UNCHANGED <<epochs, lastTs, fresh, history>>
             /\ \E t \in {cachedResp[n], epochs[n].next} : Send(net, {RespMsg(n, t)})
    <3>1. PICK t \in {cachedResp[n], epochs[n].next} : Send(net, {RespMsg(n, t)})
      BY <2>1
    <3>2. RespMsg(n, t) \in Message
      BY Zenon, MessageTypes DEF TypeOK, EpochSetType
    <3>3. net' \subseteq net \cup {RespMsg(n, t)}
      BY Zenon, <3>1, SendBound
    <3> QED BY <2>0, <2>1, <3>2, <3>3 DEF TypeOK
  <2>2. CASE /\ fresh < MaxFresh
             /\ epochs' = [epochs EXCEPT ![n] = InstallNext(@, s)]
             /\ lastTs' = [lastTs EXCEPT ![n] = e]
             /\ Send(net, {RespMsg(n, s)})
             /\ BuildDataPlane(n, s)
             /\ fresh' = fresh + 1
    <3>1. s \in Session /\ fresh + 1 \in 0..MaxFresh
      BY <1>1, <2>2, FreshSession, PeerAssumption DEF TypeOK
    <3> HIDE DEF s
    <3>2. RespMsg(n, s) \in Message
      BY <3>1, MessageTypes
    <3>3. net' \subseteq net \cup {RespMsg(n, s)}
      BY <2>2, SendBound
    <3>4. history' \in [Node -> [installed : SUBSET Session, reused : BOOLEAN]]
      BY Zenon, <2>2, <3>1, BuildType
    <3>5. epochs' \in [Node -> EpochSetType]
      <4>1. InstallNext(epochs[n], s) \in EpochSetType
        BY Zenon, <3>1, EpochTypes DEF TypeOK
      <4> QED BY <4>1, <2>2 DEF TypeOK
    <3> QED BY Zenon, <1>1, <2>0, <2>2, <3>1, <3>2, <3>3, <3>4, <3>5 DEF TypeOK
  <2> QED BY <2>0, <2>1, <2>2 DEF RekeyInitCore
<1>3. CASE ~certOk[Peer(n)]
  <2>1. net' \subseteq net
    BY <1>3, SendBound DEF HandleRekeyInit
  <2> QED BY <1>3, <2>1, IdleType DEF HandleRekeyInit, DropSession, TypeOK
<1> QED BY <1>2, <1>3

LEMMA RespType ==
    ASSUME TypeOK, NEW n \in Node, NEW m \in net,
           HandleRekeyResp(n, m, net) \/ HandleColdResp(n, m, net)
    PROVE  TypeOK'
<1>1. m.sess \in Session
  BY Zenon DEF TypeOK, Message
<1>2. DataMsg(n, m.sess) \in Message /\ Drained(n, m.sess) \subseteq Message
  BY Zenon, <1>1, MessageTypes, DrainedType
<1>3. CASE HandleRekeyResp(n, m, net)
  <2>0. epochs[n] \in EpochSetType
    BY DEF TypeOK
  <2>1. PromoteFromRekey(epochs[n], m.sess) \in EpochSetType
        /\ AbandonRekey(epochs[n]) \in EpochSetType
    BY Zenon, <1>1, <2>0, EpochTypes DEF Session
  <2>2. epochs' \in [Node -> EpochSetType]
    <3>1. \E es \in EpochSetType : epochs' = [epochs EXCEPT ![n] = es]
      BY Zenon, <1>3, <2>1 DEF HandleRekeyResp
    <3> QED BY <3>1 DEF TypeOK
  <2>3. net' \subseteq net \cup {DataMsg(n, m.sess)}
    BY <1>3, SendBound DEF HandleRekeyResp
  <2>4. history' \in [Node -> [installed : SUBSET Session, reused : BOOLEAN]]
    BY Zenon, <1>1, <1>3, BuildType DEF HandleRekeyResp, TypeOK
  <2>5. pending' \in [Node -> 0..MaxPendingTun]
    BY <1>3, PeerAssumption DEF HandleRekeyResp, TypeOK
  <2> QED BY <1>2, <1>3, <2>2, <2>3, <2>4, <2>5 DEF HandleRekeyResp, TypeOK
<1>4. CASE HandleColdResp(n, m, net)
  <2>1. net' \subseteq net \cup Drained(n, m.sess)
    <3>1. Send(net, Drained(n, m.sess)) \/ Send(net, {})
      BY Zenon, <1>4 DEF HandleColdResp
    <3> QED BY <3>1, SendBound
  <2>2. CASE m.sess.init = hs[n] /\ certOk[Peer(n)]
    BY ZenonT(30), <1>1, <1>2, <1>4, <2>1, <2>2, EstablishType DEF HandleColdResp, TypeOK
  <2>3. CASE ~(m.sess.init = hs[n] /\ certOk[Peer(n)])
    BY <1>2, <1>4, <2>1, <2>3, IdleType DEF HandleColdResp, TypeOK
  <2> QED BY <2>2, <2>3
<1> QED BY <1>3, <1>4

LEMMA DataType ==
    ASSUME TypeOK, NEW n \in Node, NEW m \in net, HandleData(n, m, net)
    PROVE  TypeOK'
<1>1. InboundOpen(epochs[n], m.sess) \in EpochSetType
  BY ZenonT(30), EpochTypes DEF TypeOK, Message
<1>2. net' \subseteq net
  BY Zenon, SendNothing DEF HandleData
<1> QED BY <1>1, <1>2 DEF HandleData, TypeOK

LEMMA RetireFacts ==
    ASSUME NEW es \in EpochSetType
    PROVE  /\ RetirePreviousIfDue(es) \in EpochSetType
           /\ RetirePreviousIfDue(es).rekey = es.rekey
           /\ RetirePreviousIfDue(es).next = es.next
<1>1. NoSession \in Session /\ 0 \in Nat
  BY DEF NoSession, Session
<1>2. RetirePreviousIfDue(es) \in EpochSetType
  BY <1>1, EpochTypes
<1> QED BY <1>2 DEF RetirePreviousIfDue, EpochSetType

(* What drive_rekey_schedule makes of an epoch set. *)
LEMMA ScheduleType ==
    ASSUME TypeOK, NEW n \in Node, NEW es \in EpochSetType, es.rekey <= fresh
    PROVE  LET ds == DriveRekeySchedule(n, es) IN
           /\ ds \in EpochSetType
           /\ ds.next = es.next /\ ds.current = es.current
           /\ \/ ds.rekey = es.rekey
              \/ ds.rekey = 0
              \/ ds.rekey = fresh + 1 /\ fresh < MaxFresh
<1>1. fresh < MaxFresh => fresh + 1 \in Nat /\ fresh + 1 \in 0..MaxFresh
  BY PeerAssumption DEF TypeOK
<1>2. AbandonRekey(es) \in EpochSetType
  BY Zenon, EpochTypes DEF EpochSetType
<1>3. fresh < MaxFresh => StartRekey(es, fresh + 1) \in EpochSetType
  BY Zenon, <1>1, EpochTypes DEF EpochSetType
<1> QED BY Zenon, <1>1, <1>2, <1>3
        DEF DriveRekeySchedule, StartRekey, AbandonRekey, EpochSetType

LEMMA TickType ==
    ASSUME TypeOK, Drawn, NEW n \in Node, Tick(n)
    PROVE  TypeOK'
<1>0. sweepAge' \in [Node -> 0..RekeyInterval]
  BY TimingAssumption DEF Tick, TypeOK
<1>1. CASE TickEstablished(n)
  <2> DEFINE es == DriveRekeySchedule(n, RetirePreviousIfDue(epochs[n]))
  <2>1. /\ RetirePreviousIfDue(epochs[n]) \in EpochSetType
        /\ RetirePreviousIfDue(epochs[n]).rekey <= fresh
    BY Zenon, RetireFacts DEF TypeOK, Drawn
  <2>2. es \in EpochSetType /\ es.rekey <= fresh + 1
        /\ (es.rekey = fresh + 1 => fresh < MaxFresh)
    <3>1. /\ es \in EpochSetType
          /\ \/ es.rekey = RetirePreviousIfDue(epochs[n]).rekey
             \/ es.rekey = 0
             \/ es.rekey = fresh + 1 /\ fresh < MaxFresh
      BY <2>1, ScheduleType
    <3>2. RetirePreviousIfDue(epochs[n]).rekey \in Nat /\ fresh \in Nat
      BY <2>1 DEF EpochSetType, TypeOK
    <3> HIDE DEF es
    <3> QED BY <2>1, <3>1, <3>2
  <2>3. PICK frames \in SUBSET {DataMsg(n, es.current)} :
          Send(net, frames \cup
                    (IF es.rekey = 0 THEN {} ELSE {InitMsg(n, es.rekey)}))
    BY Zenon, <1>1 DEF TickEstablished
  <2>4. /\ fresh' = IF es.rekey > fresh THEN es.rekey ELSE fresh
        /\ \/ DropSession(n)
           \/ /\ epochs' = [epochs EXCEPT ![n] = es]
              /\ UNCHANGED <<state, hs, hsAge, pending, cachedResp, lastTs, history>>
    BY <1>1 DEF TickEstablished
  <2> HIDE DEF es
  <2>5. net' \in SUBSET Message
    <3>1. DataMsg(n, es.current) \in Message /\ InitMsg(n, es.rekey) \in Message
      BY <2>2, MessageTypes DEF EpochSetType
    <3>2. net' \subseteq net \cup (frames \cup
                    (IF es.rekey = 0 THEN {} ELSE {InitMsg(n, es.rekey)}))
      BY <2>3, SendBound
    <3> QED BY <2>3, <3>1, <3>2 DEF TypeOK
  <2>6. fresh' \in 0..MaxFresh
    BY <2>2, <2>4, PeerAssumption DEF TypeOK, EpochSetType
  <2>7. CASE DropSession(n)
    BY Zenon, <1>0, <2>5, <2>6, <2>7, IdleType DEF DropSession, Tick, TypeOK
  <2>8. CASE /\ epochs' = [epochs EXCEPT ![n] = es]
             /\ UNCHANGED <<state, hs, hsAge, pending, cachedResp, lastTs, history>>
    BY <1>0, <2>2, <2>5, <2>6, <2>8 DEF Tick, TypeOK
  <2> QED BY <2>4, <2>7, <2>8
<1>2. CASE TickHandshaking(n)
  <2>1. CASE hsAge[n] >= HandshakeTotal
    BY <1>0, <1>2, <2>1, IdleType, PeerAssumption DEF TickHandshaking, Tick, TypeOK
  <2>2. CASE ~(hsAge[n] >= HandshakeTotal)
    <3>1. InitMsg(n, hs[n]) \in Message
      BY Zenon, MessageTypes, NoEpochsType DEF TypeOK, EpochSetType
    <3>2. net' \subseteq net \cup {InitMsg(n, hs[n])}
      BY Zenon, <1>2, <2>2, SendBound DEF TickHandshaking
    <3> QED BY <1>0, <1>2, <2>2, <3>1, <3>2 DEF TickHandshaking, Tick, TypeOK
  <2> QED BY Zenon, <2>1, <2>2
<1>3. CASE TickIdle(n)
  BY <1>0, <1>3 DEF TickIdle, Tick, TypeOK
<1> QED BY <1>1, <1>2, <1>3 DEF Tick

LEMMA EnvironmentType ==
    ASSUME TypeOK, Elapse \/ \E n \in Node : CertLapse(n) \/ Crash(n)
    PROVE  TypeOK'
<1>1. CASE Elapse
  <2>1. epochs' \in [Node -> EpochSetType]
    BY <1>1, AgedType DEF Elapse, TypeOK
  <2>2. hsAge' \in [Node -> 0..HandshakeTotal]
    BY <1>1, TimingAssumption DEF Elapse, TypeOK, Older
  <2>3. sweepAge' \in [Node -> 0..RekeyInterval]
    BY <1>1, TimingAssumption DEF Elapse, TypeOK, Older
  <2>4. net' \in SUBSET Message
    <3>1. ASSUME NEW m \in Message, m.ttl > 0
          PROVE  [m EXCEPT !.ttl = @ - 1] \in Message
      BY <3>1, PeerAssumption DEF Message
    <3> QED BY <1>1, <3>1 DEF Elapse, TypeOK
  <2> QED BY <1>1, <2>1, <2>2, <2>3, <2>4 DEF Elapse, TypeOK
<1>2. ASSUME NEW n \in Node, CertLapse(n)
      PROVE  TypeOK'
  BY <1>2 DEF CertLapse, TypeOK
<1>3. ASSUME NEW n \in Node, Crash(n)
      PROVE  TypeOK'
  <2>1. NoSession \in Session
    BY Zenon DEF NoSession, Session
  <2>2. crashes' \in 0..MaxCrashes
    BY <1>3, PeerAssumption DEF Crash, TypeOK
  <2>3. bootFloor' \in [Node -> Nat]
    BY <1>3 DEF Crash, TypeOK
  <2>4. 0 \in 0..MaxPendingTun /\ 0 \in 0..RekeyInterval
    BY PeerAssumption, TimingAssumption
  <2> QED BY Zenon, <1>3, <2>1, <2>2, <2>3, <2>4, IdleType DEF Crash, TypeOK
<1> QED BY <1>1, <1>2, <1>3

LEMMA TypeStep ==
    ASSUME TypeOK, Drawn, Next
    PROVE  TypeOK'
<1>1. CASE Elapse
  BY <1>1, EnvironmentType
<1>2. ASSUME NEW n \in Node, Step(n)
      PROVE  TypeOK'
  <2>1. ASSUME NEW m \in net, OnUdp(n, m, net)
        PROVE  TypeOK'
    BY <2>1, ColdInitType, RekeyInitType, RespType, DataType DEF OnUdp
  <2> QED BY <1>2, <2>1, OnTunType, TickType, EnvironmentType DEF Step
<1> QED BY <1>1, <1>2 DEF Next
=============================================================================
