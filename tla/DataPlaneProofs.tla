-------------------------- MODULE DataPlaneProofs --------------------------
(***************************************************************************)
(* What the loss detector promises, for any window, report size, buffer    *)
(* and reassembler limits, and any mix of packets.                         *)
(***************************************************************************)
EXTENDS DataPlane, TLAPS

(* Nothing is recorded above the highest counter seen, and what the        *)
(* detector waits for, it has not resolved and the session not opened.     *)
DInv ==
    /\ sent \in Seq(Kinds)
    /\ \A s \in net : s.c \in Nat
    /\ \A missing \in reports : missing \subseteq Nat
    /\ high \in Int /\ high >= -1
    /\ below \in Nat /\ below <= high + 1
    /\ pending \subseteq 0..high /\ resolved \subseteq 0..high /\ opened \subseteq 0..high
    /\ NackIsUndelivered
    /\ Accounted

(* mark_resolved: what is above the watermark and neither resolved before  *)
(* nor now stays unresolved, and the watermark passes only resolved ones.  *)
LEMMA ResolveRight ==
    ASSUME NEW S, Resolve(S), below \in Nat, NEW h \in Int,
           resolved \subseteq 0..h, S \subseteq 0..h, below <= h + 1
    PROVE  /\ below' \in Nat /\ below' <= h + 1 /\ resolved' \subseteq 0..h
           /\ \A x \in Nat : ~Resolved(x) /\ x \notin S => ~Resolved(x)'
<1> DEFINE all == resolved \cup {c \in S : c >= below}
<1>1. PICK n \in below..(MaxCounter + 1) :
        /\ n \notin all /\ below..(n - 1) \subseteq all
        /\ below' = n
        /\ resolved' = Largest({c \in all : c > n}, window)
  BY DEF Resolve
<1>2. n \in Nat /\ n >= below
  BY <1>1, DataPlaneAssumption
<1>3. resolved' \subseteq all
  BY <1>1 DEF Largest
<1>4. all \subseteq 0..h
  OBVIOUS
<1>5. n <= h + 1
  <2>1. CASE n = below
    BY <2>1
  <2>2. CASE n > below
    <3>1. n - 1 \in all
      BY <1>1, <1>2, <2>2
    <3> QED BY <1>2, <1>4, <3>1
  <2> QED BY <1>2, <2>1, <2>2
<1>6. ASSUME NEW x \in Nat, ~Resolved(x), x \notin S PROVE ~Resolved(x)'
  <2>1. x >= below /\ x \notin all
    BY <1>6 DEF Resolved
  <2>2. x >= n
    BY <1>1, <1>2, <2>1
  <2> QED BY <1>1, <1>2, <1>3, <2>1, <2>2 DEF Resolved
<1> QED BY <1>1, <1>2, <1>3, <1>4, <1>5, <1>6

LEMMA Later == \A b, h, k \in Int : b <= h + 1 /\ h <= k => b <= k + 1
OBVIOUS

LEMMA KeptRight ==
    ASSUME NEW c
    PROVE  Kept(c) \subseteq Implied(c)
BY DEF Kept, Implied, Largest

LEMMA InitDInv == Init => DInv
BY DEF Init, DInv, NackIsUndelivered, Accounted

(* on_seen and on_delivered of a counter that was not opened yet. *)
LEMMA DetectKeeps ==
    ASSUME DInv, NEW c \in Nat, c \notin opened, NEW done \in SUBSET {c},
           Detect(c, done), opened' = opened \cup done, asked' = asked \ opened'
    PROVE  /\ high' \in Int /\ high' >= -1 /\ below' \in Nat /\ below' <= high' + 1
           /\ pending' \subseteq 0..high' /\ resolved' \subseteq 0..high'
           /\ opened' \subseteq 0..high'
           /\ NackIsUndelivered' /\ Accounted'
<1>1. /\ high \in Int /\ high >= -1 /\ below \in Nat /\ below <= high + 1
      /\ pending \subseteq 0..high /\ resolved \subseteq 0..high /\ opened \subseteq 0..high
      /\ \A x \in pending : x \notin opened /\ ~Resolved(x)
      /\ 0..high \subseteq opened \cup pending \cup asked \cup skipped
  BY DEF DInv, NackIsUndelivered, Accounted
<1>2. /\ high' = IF Resolved(c) \/ c < high THEN high ELSE c
      /\ pending' = Kept(c) \ done
      /\ skipped' = (skipped \cup (Implied(c) \ Kept(c))
                       \cup (IF high = -1 /\ ~Resolved(c) THEN 0..(c - 1) ELSE {}))
                      \ opened'
      /\ Resolve(done)
  BY DEF Detect
<1>3. \A x \in Nat : Resolved(x) => x <= high
  BY <1>1 DEF Resolved
<1>4. high' \in Int /\ high' >= high /\ high' >= -1 /\ c <= high'
  BY <1>1, <1>2, <1>3
<1>5. \A x \in Implied(c) : x \in 0..high' /\ x \notin opened
  <2>1. CASE Resolved(c)
    BY <1>1, <1>4, <2>1 DEF Implied
  <2>2. CASE ~Resolved(c)
    <3>1. ASSUME NEW x \in Gap(c) PROVE x \in 0..high' /\ x > high
      BY <1>1, <1>4, <3>1 DEF Gap
    <3>2. \A x \in Implied(c) : x \in pending \/ x = c \/ x \in Gap(c)
      BY <2>2 DEF Implied
    <3>3. \A x \in pending : x \in 0..high' /\ x \notin opened
      BY <1>1, <1>4
    <3>4. \A x \in Gap(c) : x \in 0..high' /\ x \notin opened
      BY <1>1, <3>1
    <3>5. c \in 0..high' /\ c \notin opened
      BY <1>4
    <3> QED BY <3>2, <3>3, <3>4, <3>5
  <2> QED BY <2>1, <2>2
<1>6. \A x \in Implied(c) : ~Resolved(x) \/ x \in pending
  BY DEF Implied
<1>7. pending' \subseteq Implied(c) /\ pending' \cap done = {}
  BY <1>2, KeptRight
<1>8. /\ below' \in Nat /\ below' <= high' + 1 /\ resolved' \subseteq 0..high'
      /\ \A x \in Nat : ~Resolved(x) /\ x \notin done => ~Resolved(x)'
  <2>1. resolved \subseteq 0..high' /\ done \subseteq 0..high' /\ below <= high' + 1
    <3>1. resolved \subseteq 0..high' /\ below <= high' + 1
      <4>1. 0..high \subseteq 0..high'
        BY <1>1, <1>4
      <4>2. high \in Int /\ below \in Nat /\ below <= high + 1
        BY <1>1
      <4>3. high' \in Int /\ high <= high' /\ below \in Int
        BY <1>4, <4>2
      <4>4. below <= high' + 1
        BY <4>2, <4>3, Later
      <4> QED BY <1>1, <4>1, <4>4
    <3>2. done \subseteq 0..high'
      BY <1>4
    <3> QED BY <3>1, <3>2
  <2> QED BY <1>1, <1>2, <1>4, <2>1, ResolveRight
<1>9. pending' \subseteq 0..high' /\ opened' \subseteq 0..high'
  BY <1>1, <1>4, <1>5, <1>7
<1>10. NackIsUndelivered'
  <2> SUFFICES ASSUME NEW x \in pending' PROVE x \notin opened' /\ ~Resolved(x)'
    BY DEF NackIsUndelivered
  <2>1. x \in Nat /\ x \in Implied(c) /\ x \notin done /\ x \notin opened
    BY <1>5, <1>7
  <2>2. ~Resolved(x)
    BY <1>1, <1>6, <2>1
  <2> QED BY <1>8, <2>1, <2>2
<1>11. Accounted'
  <2> SUFFICES ASSUME NEW x \in 0..high'
               PROVE  x \in opened' \cup pending' \cup asked' \cup skipped'
    BY DEF Accounted
  <2>1. CASE x \in opened'
    BY <2>1
  <2>2. CASE x \notin opened' /\ x \in Implied(c)
    BY <1>2, <2>2
  <2>3. CASE x \notin opened' /\ x \notin Implied(c) /\ x <= high
    <3>1. x \notin pending
      BY <2>3 DEF Implied
    <3>2. x \in opened \/ x \in asked \/ x \in skipped
      BY <1>1, <2>3, <3>1
    <3> QED BY <1>2, <2>3, <3>2
  <2>4. CASE x \notin opened' /\ x \notin Implied(c) /\ x > high
    <3>1. ~Resolved(c) /\ high' = c /\ x < c
      <4>1. ~Resolved(c) /\ high' = c
        BY <1>1, <1>2, <1>4, <2>4
      <4>2. x # c
        BY <2>4, <4>1 DEF Implied
      <4> QED BY <1>4, <4>1, <4>2
    <3>2. ~Resolved(x)
      BY <1>1, <1>3, <2>4
    <3>3. x \notin Gap(c)
      BY <2>4, <3>1, <3>2 DEF Implied
    <3>4. high = -1
      BY <1>1, <2>4, <3>1, <3>3 DEF Gap
    <3> QED BY <1>2, <2>4, <3>1, <3>4
  <2> QED BY <1>1, <1>4, <2>1, <2>2, <2>3, <2>4
<1> QED BY <1>4, <1>8, <1>9, <1>10, <1>11

-----------------------------------------------------------------------------
LEMMA StepDInv == DInv /\ [Next]_vars => DInv'
<1> SUFFICES ASSUME DInv, [Next]_vars PROVE DInv'
  OBVIOUS
<1> DEFINE detector == <<high, pending, below, resolved, skipped, opened, asked>>
<1>1. ASSUME UNCHANGED detector, sent' \in Seq(Kinds), \A s \in net' : s.c \in Nat,
             reports' \subseteq reports
      PROVE  DInv'
  BY <1>1 DEF DInv, NackIsUndelivered, Accounted, Resolved
<1>2. CASE OnTunPacket
  <2>1. PICK kind \in Kinds, r \in 0..MaxRepair :
          /\ sent' = Append(sent, kind)
          /\ \A s \in net' : s \in net \/ s.c = Len(sent)
    BY <1>2 DEF OnTunPacket, Arriving, Symbols
  <2>2. sent' \in Seq(Kinds) /\ Len(sent) \in Nat
    BY <2>1 DEF DInv
  <2>3. \A s \in net' : s.c \in Nat
    BY <2>1, <2>2 DEF DInv
  <2>4. UNCHANGED detector /\ reports' \subseteq reports
    BY <1>2 DEF OnTunPacket, detectorVars
  <2> QED BY <1>1, <2>2, <2>3, <2>4
<1>3. ASSUME NEW missing \in reports, OnFeedback(missing) PROVE DInv'
  <2>1. missing \subseteq Nat
    BY DEF DInv
  <2>2. PICK n, part :
          /\ n \in 0..Len(retx)
          /\ part \subseteq UNION {repair_object(c) : c \in
                 Answered(missing, SubSeq(retx, n + 1, Len(retx)))}
          /\ net' = net \cup part
    BY <1>3 DEF OnFeedback, Arriving
  <2>3. \A s \in part : s.c \in missing
    BY <2>2 DEF repair_object, Symbols, Answered
  <2>4. \A s \in net' : s.c \in Nat
    BY <2>1, <2>2, <2>3 DEF DInv
  <2>5. UNCHANGED detector /\ reports' \subseteq reports /\ sent' \in Seq(Kinds)
    BY <1>3 DEF OnFeedback, detectorVars, DInv
  <2> QED BY <1>1, <2>4, <2>5
<1>4. CASE Tick
  <2>1. PICK overdue \in SUBSET pending :
          /\ UNCHANGED <<sent, net, high, opened>>
          /\ pending' = pending \ overdue /\ Resolve(overdue)
          /\ asked' = asked \cup Listed(overdue)
          /\ skipped' = skipped \cup (overdue \ Listed(overdue))
          /\ \A missing \in reports' : missing \in reports \/ missing = Listed(overdue)
    BY <1>4 DEF Tick, senderVars
  <2>2. /\ high \in Int /\ high >= -1 /\ below \in Nat /\ below <= high + 1
        /\ pending \subseteq 0..high /\ resolved \subseteq 0..high /\ opened \subseteq 0..high
    BY DEF DInv
  <2>3. /\ below' \in Nat /\ below' <= high + 1 /\ resolved' \subseteq 0..high
        /\ \A x \in Nat : ~Resolved(x) /\ x \notin overdue => ~Resolved(x)'
    BY <2>1, <2>2, ResolveRight
  <2>4. NackIsUndelivered'
    BY <2>1, <2>2, <2>3 DEF DInv, NackIsUndelivered
  <2>5. Accounted'
    BY <2>1 DEF DInv, Accounted
  <2>6. \A missing \in reports' : missing \subseteq Nat
    <3>1. Listed(overdue) \subseteq Nat
      <4>1. Listed(overdue) \subseteq overdue
        BY DEF Listed
      <4>2. overdue \subseteq 0..high /\ 0..high \subseteq Nat
        BY <2>1, <2>2
      <4> QED BY <4>1, <4>2
    <3> QED BY <2>1, <3>1 DEF DInv
  <2> QED BY <2>1, <2>2, <2>3, <2>4, <2>5, <2>6 DEF DInv
<1>5. ASSUME NEW s \in net, OnData(s) \/ OnControl(s) PROVE DInv'
  <2>1. s.c \in Nat
    BY DEF DInv
  <2>2. PICK done \in SUBSET {s.c} :
          /\ opened' = opened \cup done /\ Detect(s.c, done) /\ asked' = asked \ opened'
    BY <1>5 DEF OnData, OnControl
  <2>3. s.c \notin opened
    BY <1>5 DEF OnData, OnControl, check_replay
  <2>4. net' \subseteq net /\ reports' = reports /\ sent' = sent
    BY <1>5 DEF OnData, OnControl, Arrives, senderVars
  <2>5. /\ high' \in Int /\ high' >= -1 /\ below' \in Nat /\ below' <= high' + 1
        /\ pending' \subseteq 0..high' /\ resolved' \subseteq 0..high'
        /\ opened' \subseteq 0..high'
        /\ NackIsUndelivered' /\ Accounted'
    BY <2>1, <2>2, <2>3, DetectKeeps
  <2> QED BY <2>4, <2>5 DEF DInv
<1>6. ASSUME NEW s \in net, Refuse(s) PROVE DInv'
  BY <1>1, <1>6 DEF Refuse, senderVars, detectorVars, DInv
<1>7. CASE UNCHANGED vars
  BY <1>1, <1>7 DEF vars, senderVars, detectorVars, DInv
<1> QED BY <1>2, <1>3, <1>4, <1>5, <1>6, <1>7 DEF Next, Arrival, Feedback

(* on_udp_datagram and LossDetector: no report asks for a packet that was  *)
(* opened or already asked for, whatever the window forgets and however    *)
(* symbols are lost, repeated and reordered.                               *)
THEOREM NackAlwaysUndelivered == Spec => []NackIsUndelivered
<1>1. DInv => NackIsUndelivered
  BY DEF DInv
<1> QED BY <1>1, InitDInv, StepDInv, PTL DEF Spec

(* LossDetector: every counter up to the highest seen was opened, is       *)
(* waited for, was asked for, or fell to one of the detector's limits.     *)
THEOREM AlwaysAccounted == Spec => []Accounted
<1>1. DInv => Accounted
  BY DEF DInv
<1> QED BY <1>1, InitDInv, StepDInv, PTL DEF Spec
=============================================================================
