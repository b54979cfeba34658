----------------------------- MODULE Membership -----------------------------
(***************************************************************************)
(* The member directories of a mesh (membership.rs), kept equal by gossip  *)
(* (peer_manager/gossip.rs) between daemons that have a session, and the   *)
(* sessions as far as certificates decide about them: admission, the       *)
(* check at a rekey and the periodic sweep.  A certificate is the time it  *)
(* ends at.  The clock is the wall clock in units of the sweep interval.   *)
(* A handshake is one step here; its interleavings are PeerSession's.      *)
(***************************************************************************)
EXTENDS Integers, FiniteSets

CONSTANTS
    Nodes,         \* the members
    Roots,         \* those in the signed root set
    Life,          \* how long the CA issues a certificate for
    Joined,        \* those with sessions between them at the start
    FirstCert,     \* the certificate in each member's configuration
    Skew,          \* CLOCK_SKEW_SECS
    MaxTime,       \* bound: the clock stops here; no renewal lasts longer
    MaxSeq,        \* bound: no renewal beyond this sequence number
    MaxNet,        \* bound: gossip messages in flight
    Restarting,    \* bound: the daemons that may restart
    MaxRestarts    \* bound: how often

ASSUME MembershipAssumption ==
    /\ Roots \subseteq Nodes /\ Joined \subseteq Nodes /\ Restarting \subseteq Nodes
    /\ Life \in Nat \ {0} /\ Skew \in Nat
    /\ FirstCert \in [Nodes -> 0..(MaxTime + Life)]
    /\ {MaxTime, MaxSeq, MaxNet, MaxRestarts} \subseteq Nat

VARIABLES
    now,         \* the wall clock
    directory,   \* directory[n][m]: n's record of m
    own_cert,    \* the certificate a node presents
    admitted,    \* admitted[n][m]: admitted_cert_not_after of an Established peer
    net,         \* gossip in flight
    swept,       \* who ran the certificate sweep in this unit of time
    restarts,
    issued       \* history: the last certificate the CA gave each member

vars == <<now, directory, own_cert, admitted, net, swept, restarts, issued>>

(* An absent record compares as older than any. *)
NoRecord  == [seq |-> -1, cert |-> -1]
NoSession == -1
Cert      == 0..(MaxTime + Life)
Record    == [seq : 0..MaxSeq, cert : Cert]

Message ==
    [type : {"Digest"}, from : Nodes, to : Nodes, body : [Nodes -> -1..MaxSeq]]
      \cup [type : {"PullRequest"}, from : Nodes, to : Nodes, body : SUBSET Nodes]
      \cup [type : {"Records"}, from : Nodes, to : Nodes,
            body : [Nodes -> Record \cup {NoRecord}]]

(* A node always holds a record of itself. *)
TypeOK ==
    /\ now \in 0..MaxTime
    /\ directory \in [Nodes -> [Nodes -> Record \cup {NoRecord}]]
    /\ \A n \in Nodes : directory[n][n] \in Record
    /\ own_cert \in [Nodes -> Cert]
    /\ admitted \in [Nodes -> [Nodes -> Cert \cup {NoSession}]]
    /\ net \in SUBSET Message
    /\ swept \in SUBSET Nodes
    /\ restarts \in 0..MaxRestarts
    /\ issued \in [Nodes -> Cert]

-----------------------------------------------------------------------------
(* verify_cert: before its end, widened by the skew.  The CA dates a       *)
(* certificate back by a minute, so that its begin is never ahead.         *)
verify_cert(cert) == now < cert + Skew

(* Faulty: the record that came last stays. *)
insert_always(old, rec) == rec

(* insert_if_newer *)
insert_if_newer(old, rec) == IF rec.seq <= old.seq THEN old ELSE rec

(* sweep_expired: every lapsed record but one's own is evicted. *)
sweep_expired(n, dir) ==
    [m \in Nodes |-> IF m # n /\ ~verify_cert(dir[m].cert) THEN NoRecord ELSE dir[m]]

(* ingest_record for each record of a message: the sweep comes first, and  *)
(* at one time of day sweeping again changes nothing.                      *)
ingest_record(n, recs) ==
    LET kept == sweep_expired(n, directory[n]) IN
    [m \in Nodes |-> IF recs[m] # NoRecord /\ verify_cert(recs[m].cert)
                     THEN insert_if_newer(kept[m], recs[m])
                     ELSE kept[m]]

(* Faulty: a member without a record passes. *)
member_cert_valid_if_known(n, m) ==
    m \in Roots \/ directory[n][m] = NoRecord \/ verify_cert(directory[n][m].cert)

(* member_or_admitted_cert_valid: a root always, else what the directory   *)
(* says, else the certificate of the handshake; that last test allows one  *)
(* second more than verify_cert does.                                      *)
member_or_admitted_cert_valid(n, m) ==
    \/ m \in Roots
    \/ /\ directory[n][m] # NoRecord
       /\ verify_cert(directory[n][m].cert)
    \/ /\ directory[n][m] = NoRecord
       /\ now <= admitted[n][m] + Skew

(* check_cert_rotation: seven tenths of the lifetime have gone. *)
check_cert_rotation(n) == 10 * (Life - (own_cert[n] - now)) >= 7 * Life

-----------------------------------------------------------------------------
(* Membership::new with the certificate of the configuration, and what     *)
(* the members that joined earlier know of each other.                     *)
Init ==
    /\ now = 0
    /\ own_cert  = FirstCert
    /\ directory = [n \in Nodes |-> [m \in Nodes |->
                      IF m = n \/ {n, m} \subseteq Joined THEN [seq |-> 0, cert |-> FirstCert[m]] ELSE NoRecord]]
    /\ admitted  = [n \in Nodes |-> [m \in Nodes |->
                      IF m # n /\ {n, m} \subseteq Joined THEN FirstCert[m] ELSE NoSession]]
    /\ net       = {}
    /\ swept     = Nodes
    /\ restarts  = 0
    /\ issued    = FirstCert

Established(n, m) == admitted[n][m] # NoSession

(* gossip_targets: the Established peers and the roots. *)
gossip_targets(n) == {m \in Nodes \ {n} : Established(n, m) \/ m \in Roots}

(* tick_digest for each of the targets *)
Digests(n) ==
    [type : {"Digest"}, from : {n}, to : gossip_targets(n),
     body : {[m \in Nodes |-> directory[n][m].seq]}]

(* update_own_cert, after renew_cert had the CA sign: the record goes in   *)
(* whatever the directory holds.                                           *)
update_own_cert(n) ==
    /\ own_cert'  = [own_cert EXCEPT ![n] = now + Life]
    /\ issued'    = [issued EXCEPT ![n] = now + Life]
    /\ directory' = [directory EXCEPT ![n][n] =
                       [seq |-> directory[n][n].seq + 1, cert |-> now + Life]]

(* tick_dispatch: a digest to every target when one is due, of which the   *)
(* network carries some; the certificate sweep when one is due, unless it  *)
(* would again find nothing; then the renewal when it is due and the CA    *)
(* answers.                                                                *)
Lapsed(n) == {m \in Nodes : Established(n, m) /\ ~member_or_admitted_cert_valid(n, m)}

Tick(n, digests, sweeps, renews) ==
    /\ digests \subseteq Digests(n) /\ Cardinality(net \cup digests) <= MaxNet
    /\ sweeps => n \notin swept \/ Lapsed(n) # {}
    /\ renews => /\ check_cert_rotation(n) /\ directory[n][n].seq < MaxSeq
                 /\ now + Life + Skew <= MaxTime
    /\ net' = net \cup digests
    /\ IF sweeps
         THEN /\ admitted' = [admitted EXCEPT ![n] = [m \in Nodes |->
                               IF m \in Lapsed(n) THEN NoSession ELSE admitted[n][m]]]
              /\ swept' = swept \cup {n}
         ELSE UNCHANGED <<admitted, swept>>
    /\ IF renews THEN update_own_cert(n) ELSE UNCHANGED <<own_cert, issued, directory>>
    /\ UNCHANGED <<now, restarts>>

(* Every daemon sweeps before a sweep interval has passed; one that has    *)
(* nothing to drop may have done so at once.                               *)
Advance ==
    /\ now < MaxTime
    /\ swept = Nodes
    /\ now' = now + 1
    /\ UNCHANGED <<directory, own_cert, admitted, net, restarts, issued>>
    /\ swept' = {n \in Nodes : Lapsed(n)' = {}}

(* A handshake or a rekey begun by n: m checks the certificate of n, drops *)
(* an old session if it fails and has a new one if not; then n checks the  *)
(* certificate of m, unless the answer was lost.  Roots are not checked.   *)
Handshake(n, m, answered) ==
    LET passes(x) == x \in Roots \/ verify_cert(own_cert[x])
        atResponder == IF passes(n) THEN own_cert[n] ELSE NoSession
        atInitiator == IF answered /\ passes(n) /\ passes(m) THEN own_cert[m]
                       ELSE admitted[n][m]
    IN
    /\ n # m
    /\ m \in Roots \/ directory[n][m] # NoRecord \/ Established(n, m)
    /\ admitted' = [admitted EXCEPT ![m][n] = atResponder, ![n][m] = atInitiator]
    /\ UNCHANGED <<now, directory, own_cert, net, swept, restarts, issued>>

(* Digest: ask for what is unknown or known with a lower number.           *)
(* PullRequest: send what is held.  Records: ingest.                       *)
Wanted(n, digest) == {m \in Nodes : directory[n][m].seq < digest[m]}

Replies(n, msg) ==
    LET reply(type, body) == {[type |-> type, from |-> n, to |-> msg.from, body |-> body]}
        held(m) == m \in msg.body /\ directory[n][m] # NoRecord
    IN
    IF msg.type = "Digest" /\ Wanted(n, msg.body) # {}
    THEN reply("PullRequest", Wanted(n, msg.body))
    ELSE IF msg.type = "PullRequest" /\ \E m \in Nodes : held(m)
    THEN reply("Records", [m \in Nodes |-> IF held(m) THEN directory[n][m] ELSE NoRecord])
    ELSE {}

(* on_gossip: only from a peer with a session. *)
OnGossip(n, msg, rest) ==
    /\ IF Established(n, msg.from)
         THEN /\ net' = rest \cup Replies(n, msg)
              /\ directory' = IF msg.type = "Records"
                              THEN [directory EXCEPT ![n] = ingest_record(n, msg.body)]
                              ELSE directory
         ELSE net' = rest /\ UNCHANGED directory
    /\ UNCHANGED <<now, own_cert, admitted, swept, restarts, issued>>

Deliver == \E msg \in net : OnGossip(msg.to, msg, net \ {msg})

Duplicate ==
    \E msg \in net :
      /\ OnGossip(msg.to, msg, net)
      /\ Cardinality(net') <= MaxNet

Lose ==
    \E msg \in net :
      /\ net' = net \ {msg}
      /\ UNCHANGED <<now, directory, own_cert, admitted, swept, restarts, issued>>

(* A restart forgets the directory and the sessions, and takes the         *)
(* certificate of the configuration again: renew_cert keeps a renewed one  *)
(* in memory only.                                                         *)
Restart(n) ==
    /\ n \in Restarting /\ restarts < MaxRestarts
    /\ restarts' = restarts + 1
    /\ own_cert'  = [own_cert EXCEPT ![n] = FirstCert[n]]
    /\ directory' = [directory EXCEPT ![n] = [m \in Nodes |->
                       IF m = n THEN [seq |-> 0, cert |-> FirstCert[n]] ELSE NoRecord]]
    /\ admitted' = [admitted EXCEPT ![n] = [m \in Nodes |-> NoSession]]
    /\ UNCHANGED <<now, net, swept, issued>>

Next ==
    \/ \E n \in Nodes : \E digests \in SUBSET Digests(n), sweeps, renews \in BOOLEAN :
         Tick(n, digests, sweeps, renews)
    \/ Advance
    \/ \E n, m \in Nodes, answered \in BOOLEAN : Handshake(n, m, answered)
    \/ Deliver
    \/ Duplicate
    \/ Lose
    \/ \E n \in Nodes : Restart(n)

Spec == Init /\ [][Next]_vars

-----------------------------------------------------------------------------
(* ingest_record and update_own_cert: a directory replaces a record only   *)
(* by one with a higher number, unless the certificate of the old one has  *)
(* lapsed; its own record it never loses.                                  *)
NewestStays ==
    [][directory' # directory /\ restarts' = restarts =>
       \A n, m \in Nodes : directory[n][m] # NoRecord =>
           \/ directory'[n][m] = directory[n][m]
           \/ directory'[n][m].seq > directory[n][m].seq
           \/ n # m /\ ~verify_cert(directory[n][m].cert)]_vars

(* The certificate sweep: one interval after the last certificate of a     *)
(* member has lapsed, beyond the skew, nobody has a session with it,       *)
(* whatever gossip, rekeys and restarts did in between.                    *)
RevokedDropped ==
    \A n, m \in Nodes :
      Established(n, m) /\ m \notin Roots => now <= issued[m] + Skew + 1
=============================================================================
