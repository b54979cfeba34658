------------------------------ MODULE DataPlane ------------------------------
(***************************************************************************)
(* One direction of the data plane (bin/yipd/src/dataplane.rs): a sender   *)
(* seals each packet under the next counter, cuts it into symbols and      *)
(* keeps it for a while; the receiver puts the symbols together, notices   *)
(* counters that do not complete and asks for them once in a report; the   *)
(* sender answers with a repair batch under the same counter.  Both ends   *)
(* use one symbol size here (module PathMtu is about that).  Which grace   *)
(* periods, deadlines and lifetimes have passed is chosen where the code   *)
(* compares a time with the clock.                                         *)
(***************************************************************************)
EXTENDS Integers, Sequences, FiniteSets

CONSTANTS
    Kinds,        \* what a counter may be used for: [class, k], k = 0 for control
    Windows,      \* the bound of the detector's two sets, SENT_LOG_CAPACITY in the daemon
    MaxNack,      \* MAX_NACK
    RetxMax,      \* RETX_BUFFER_MAX
    Extra,        \* RETX_EXTRA_REPAIR
    MaxObjects,   \* objects a reassembler keeps
    MaxRepair,    \* bound: proactive repair symbols of an object
    MaxNet,       \* bound: datagrams on their way; what has no room is lost
    MaxCounter    \* bound: counters the sender uses

ASSUME DataPlaneAssumption ==
    /\ \A kind \in Kinds : kind.k \in Nat
    /\ Windows \subseteq Nat /\ MaxNack \in Nat /\ MaxCounter \in Nat
    /\ Extra \in Nat /\ MaxRepair \in Nat /\ MaxNet \in Nat
    /\ RetxMax \in Nat \ {0} /\ MaxObjects \in Nat \ {0}

VARIABLES
    sent,       \* the kind of each counter used so far, in order
    retx,       \* RetxBuffer: the counters kept, oldest first
    net,        \* symbols and control packets on their way
    reports,    \* reports on their way: the counters asked for
    window,     \* the bound the detector was created with
    high,       \* high_counter, -1 while !seen_any
    pending,    \* counters seen or implied and not yet delivered or asked for
    below,      \* resolved_below
    resolved,   \* resolved_set
    objects,    \* class -> [c, got, done], oldest first
    opened,     \* counters the session has opened, in its replay window
    asked,      \* history: counters some report listed
    skipped,    \* history: counters the detector forgot without asking
    forgone     \* history: counters whose recovery met a loss or a deadline

senderVars   == <<sent, retx>>
detectorVars == <<window, high, pending, below, resolved, skipped>>
vars == <<senderVars, net, reports, detectorVars, objects, opened, asked, forgone>>

Counter == 0..MaxCounter
Classes == {kind.class : kind \in Kinds}
Kind(c) == sent[c + 1]
Arq(class) == class = "bulk"          \* FlowClass::params
Control(c) == Kind(c).k = 0

(* The n largest members of S: what a set keeps that drops its smallest    *)
(* while it holds more than n.                                             *)
Largest(S, n) == {x \in S : Cardinality({y \in S : y > x}) < n}

Init ==
    /\ sent = <<>> /\ retx = <<>> /\ net = {} /\ reports = {}
    /\ window \in Windows
    /\ high = -1 /\ pending = {} /\ below = 0 /\ resolved = {}
    /\ objects = [class \in Classes |-> <<>>]
    /\ opened = {} /\ asked = {} /\ skipped = {} /\ forgone = {}

-----------------------------------------------------------------------------
(* Sender *)

(* FecEncoder::build: k source symbols, then r repair symbols. *)
Symbols(c, k, r) == {[c |-> c, i |-> i] : i \in 0..(k + r - 1)}

(* Any part of what is sent may be lost. *)
Arriving(all) ==
    {part \in SUBSET all : Cardinality(net \cup part) <= MaxNet}

(* RetxBuffer::put: the oldest leaves if there is no room. *)
put(c) == Append(IF Len(retx) >= RetxMax THEN Tail(retx) ELSE retx, c)

(* on_tun_packet, and the sender's own reports and probes: those take a    *)
(* counter but no place in the buffer.                                     *)
OnTunPacket ==
    /\ Len(sent) <= MaxCounter
    /\ \E kind \in Kinds, r \in 0..MaxRepair :
         LET c   == Len(sent)
             all == IF kind.k = 0 THEN {[c |-> c, i |-> 0]} ELSE Symbols(c, kind.k, r)
         IN /\ sent' = Append(sent, kind)
            /\ retx' = IF kind.k = 0 THEN retx ELSE put(c)
            /\ \E part \in Arriving(all) : net' = net \cup part
    /\ UNCHANGED <<reports, detectorVars, objects, opened, asked, forgone>>

(* The counters of a report that RetxBuffer::get still returns and whose   *)
(* class is retransmitted.                                                 *)
Answered(missing, buf) ==
    {c \in missing : Arq(Kind(c).class) /\ \E n \in DOMAIN buf : buf[n] = c}

(* Faulty variant: the repair symbols alone. *)
repair_only(c) == {s \in Symbols(c, Kind(c).k, Extra) : s.i >= Kind(c).k}

(* Transport::repair_object *)
repair_object(c) == Symbols(c, Kind(c).k, Extra)

(* The counters of S that stay unopened and were worth retransmitting. *)
Missed(S) == {c \in S : Arq(Kind(c).class) /\ c \notin opened'}

(* on_udp_datagram, Feedback; the oldest n entries have expired. *)
OnFeedback(missing) ==
    \E n \in 0..Len(retx) :
      LET buf == SubSeq(retx, n + 1, Len(retx))
          all == UNION {repair_object(c) : c \in Answered(missing, buf)}
      IN /\ UNCHANGED <<sent, detectorVars, objects, opened, asked>>
         /\ reports' = reports \ {missing}
         /\ retx' = buf
         /\ \E part \in Arriving(all) :
              /\ net' = net \cup part
              /\ forgone' = forgone \cup Missed(missing \ Answered(missing, buf))
                                    \cup Missed({s.c : s \in all \ part})

-----------------------------------------------------------------------------
(* LossDetector *)

Resolved(c) == c < below \/ c \in resolved

(* Faulty variant: the packet just before is not implied. *)
GapShort(c) == IF high = -1 THEN {} ELSE (high + 1)..(c - 2)

Gap(c) == IF high = -1 THEN {} ELSE (high + 1)..(c - 1)

(* on_seen: the counters now pending, and those enforce_window keeps. *)
Implied(c) ==
    IF Resolved(c) THEN pending
    ELSE pending \cup {c} \cup {g \in Gap(c) : ~Resolved(g)}

Kept(c) == IF Resolved(c) THEN pending ELSE Largest(Implied(c), window)

(* mark_resolved of every counter of S, in order: the watermark passes all *)
(* that follow it, then the set drops its smallest.                        *)
Resolve(S) ==
    LET all == resolved \cup {c \in S : c >= below} IN
    \E n \in below..(MaxCounter + 1) :
      /\ n \notin all /\ below..(n - 1) \subseteq all
      /\ below' = n
      /\ resolved' = Largest({c \in all : c > n}, window)

(* on_seen(c), then on_delivered for the counters of delivered. *)
Detect(c, delivered) ==
    /\ high' = IF Resolved(c) \/ c < high THEN high ELSE c
    /\ pending' = Kept(c) \ delivered
    /\ skipped' = (skipped \cup (Implied(c) \ Kept(c))
                     \cup (IF high = -1 /\ ~Resolved(c) THEN 0..(c - 1) ELSE {}))
                    \ opened'
    /\ Resolve(delivered)
    /\ window' = window

(* The part of the overdue counters a report lists. *)
Listed(overdue) ==
    {c \in overdue : Cardinality({d \in overdue : d < c}) < MaxNack}

(* tick, report: everything overdue is resolved and the first MaxNack      *)
(* listed.  The report itself may be lost.                                 *)
Tick ==
    \E overdue \in SUBSET pending \ {{}} :
      /\ UNCHANGED <<senderVars, net, window, high, objects, opened>>
      /\ pending' = pending \ overdue
      /\ Resolve(overdue)
      /\ asked' = asked \cup Listed(overdue)
      /\ skipped' = skipped \cup (overdue \ Listed(overdue))
      /\ \/ reports' = reports \cup {Listed(overdue)} /\ forgone' = forgone
         \/ reports' = reports /\ forgone' = forgone \cup Missed(Listed(overdue))

-----------------------------------------------------------------------------
(* FecReassembler::push, with the n oldest objects of the table expired *)

(* The sweep from the front, up to the object of c. *)
Swept(q, n, c) ==
    LET gone(j) == q[j].done \/ j <= n
        m == CHOOSE m \in 0..Len(q) :
               /\ \A j \in 1..m : q[j].c # c /\ gone(j)
               /\ m < Len(q) => q[m + 1].c = c \/ ~gone(m + 1)
    IN SubSeq(q, m + 1, Len(q))

(* The table with an object for c, the oldest leaving if there is no room. *)
Entered(q, c) ==
    IF \E j \in DOMAIN q : q[j].c = c THEN q
    ELSE Append(IF Len(q) >= MaxObjects THEN Tail(q) ELSE q,
                [c |-> c, got |-> {}, done |-> FALSE])

(* The object of c as the symbol finds it. *)
Object(q, c) == q[CHOOSE j \in DOMAIN q : q[j].c = c]

Completes(o, late, i) ==
    ~o.done /\ ~late /\ Cardinality(o.got \cup {i}) >= Kind(o.c).k

(* A late symbol turns its object into a tombstone. *)
Taken(o, late, i) ==
    [o EXCEPT !.got  = IF o.done \/ late \/ Completes(o, late, i) THEN {} ELSE @ \cup {i},
              !.done = @ \/ late \/ Completes(o, late, i)]

-----------------------------------------------------------------------------
(* Receiver *)

(* Faulty variant: a late symbol of an opened packet goes on. *)
NeverReplayed(c) == TRUE

check_replay(c) == c \notin opened

(* Every datagram that arrives may arrive again. *)
Arrives(s) == net' \in {net, net \ {s}}

(* on_udp_datagram, Data *)
OnData(s) ==
    /\ ~Control(s.c) /\ check_replay(s.c)
    /\ LET class == Kind(s.c).class
           old   == objects[class]
       IN \E n \in 0..Len(old) :
            LET late  == \E j \in 1..n : old[j].c = s.c
                q     == Entered(Swept(old, n, s.c), s.c)
                o     == Object(q, s.c)
                new   == [j \in DOMAIN q |-> IF q[j] = o THEN Taken(o, late, s.i) ELSE q[j]]
                done  == IF Completes(o, late, s.i) THEN {s.c} ELSE {}
                given == {e \in {old[j].c : j \in DOMAIN old} :
                            \A j \in DOMAIN new : new[j].c # e \/ (late /\ e = s.c)}
            IN /\ opened' = opened \cup done
               /\ Detect(s.c, done)
               /\ objects' = [objects EXCEPT ![class] = new]
               /\ forgone' = Missed(forgone \cup given)
               /\ asked' = asked \ opened'
    /\ Arrives(s)
    /\ UNCHANGED <<senderVars, reports>>

(* on_udp_datagram, Control *)
OnControl(s) ==
    /\ Control(s.c) /\ check_replay(s.c)
    /\ opened' = opened \cup {s.c}
    /\ Detect(s.c, {s.c})
    /\ asked' = asked \ opened' /\ forgone' = Missed(forgone)
    /\ Arrives(s)
    /\ UNCHANGED <<senderVars, reports, objects>>

(* A packet of an opened counter is dropped. *)
Refuse(s) ==
    /\ ~check_replay(s.c)
    /\ net' = net \ {s}
    /\ UNCHANGED <<senderVars, reports, detectorVars, objects, opened, asked, forgone>>

Arrival  == \E s \in net : OnData(s) \/ OnControl(s) \/ Refuse(s)
Feedback == \E missing \in reports : OnFeedback(missing)

Next == OnTunPacket \/ Tick \/ Arrival \/ Feedback

Spec == Init /\ [][Next]_vars

-----------------------------------------------------------------------------
(* Properties *)

TypeOK ==
    /\ sent \in Seq(Kinds) /\ Len(sent) <= MaxCounter + 1
    /\ Len(retx) <= RetxMax
    /\ window \in Windows /\ high \in -1..MaxCounter
    /\ pending \subseteq Counter /\ Cardinality(pending) <= window
    /\ below \in 0..(MaxCounter + 1)
    /\ resolved \subseteq Counter /\ Cardinality(resolved) <= window
    /\ \A class \in Classes : Len(objects[class]) <= MaxObjects
    /\ opened \subseteq Counter /\ asked \subseteq Counter
    /\ reports \subseteq SUBSET Counter
    /\ net \subseteq [c : Counter, i : Nat]

(* A counter that waits to be asked for was not opened and not resolved,   *)
(* so no report asks for what was delivered, although resolved_set forgets *)
(* its smallest and late copies of old symbols keep arriving               *)
(* (check_replay before on_seen, on_delivered, mark_resolved).             *)
NackIsUndelivered == \A c \in pending : c \notin opened /\ ~Resolved(c)

(* No counter is lost from sight: each one up to the highest seen was      *)
(* opened, is pending, was asked for, or is one of those the detector      *)
(* gives up at its limits, namely below the first one seen, beyond window, *)
(* or beyond MaxNack in one report (on_seen, enforce_window, report).      *)
Accounted == 0..high \subseteq opened \cup pending \cup asked \cup skipped

(* Once nothing is on its way and nothing is pending, every packet of a    *)
(* retransmitted class up to the highest seen has been opened, unless the  *)
(* detector gave it up at a limit, its report or a symbol of its repair    *)
(* batch was lost, or a deadline passed: losing all of its original        *)
(* symbols does not matter (report, RetxBuffer::get, repair_object, push). *)
Recovered ==
    (net = {} /\ reports = {} /\ pending = {}) =>
      \A c \in 0..high : Arq(Kind(c).class) => c \in opened \cup skipped \cup forgone
=============================================================================
