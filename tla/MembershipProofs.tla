-------------------------- MODULE MembershipProofs --------------------------
(***************************************************************************)
(* What the directories and the certificate sweep promise, for any set of  *)
(* members and roots, any lifetime of certificates and any skew.           *)
(***************************************************************************)
EXTENDS Membership, TLAPS

Rec == [seq : Int, cert : Int]

Types ==
    /\ now \in Nat /\ restarts \in Nat
    /\ directory \in [Nodes -> [Nodes -> Rec]]
    /\ own_cert \in [Nodes -> Int] /\ issued \in [Nodes -> Nat]
    /\ admitted \in [Nodes -> [Nodes -> Int]]
    /\ \A msg \in net : /\ msg.from \in Nodes /\ msg.to \in Nodes
                        /\ msg.type = "Records" => msg.body \in [Nodes -> Rec]

(* No copy of a certificate, wherever it is kept, ends after the last one  *)
(* that the CA issued.                                                     *)
NoLaterCopy ==
    \A m \in Nodes :
      /\ FirstCert[m] <= issued[m] /\ own_cert[m] <= issued[m]
      /\ \A n \in Nodes : admitted[n][m] <= issued[m] /\ directory[n][m].cert <= issued[m]
      /\ \A msg \in net : msg.type = "Records" => msg.body[m].cert <= issued[m]

(* The last certificate came from a renewal, or is the configured one.     *)
IssuedInTime ==
    \A m \in Nodes :
      issued[m] <= now + Life \/ (issued[m] = FirstCert[m] /\ own_cert[m] = FirstCert[m])

(* A daemon that has swept in this interval has no session beyond the skew. *)
SweptIsFresh ==
    \A n, m \in Nodes :
      Established(n, m) /\ m \notin Roots =>
        /\ n \in swept => now <= issued[m] + Skew
        /\ now <= issued[m] + Skew + 1

MInv == Types /\ NoLaterCopy /\ IssuedInTime /\ SweptIsFresh

-----------------------------------------------------------------------------
(* Operators *)

LEMMA Constants == /\ Life \in Nat \ {0} /\ Skew \in Nat
                   /\ \A m \in Nodes : FirstCert[m] \in Nat
                   /\ NoRecord \in Rec
BY MembershipAssumption DEF NoRecord, Rec

(* A valid peer has a certificate that has not lapsed beyond the skew. *)
LEMMA ValidIsFresh ==
    ASSUME Types, NoLaterCopy, NEW n \in Nodes, NEW m \in Nodes, m \notin Roots,
           member_or_admitted_cert_valid(n, m)
    PROVE  now <= issued[m] + Skew
<1>1. /\ now \in Nat /\ Skew \in Nat /\ issued[m] \in Nat
      /\ directory[n][m].cert \in Int /\ admitted[n][m] \in Int
  BY Constants DEF Types, Rec
<1>2. admitted[n][m] <= issued[m] /\ directory[n][m].cert <= issued[m]
  BY DEF NoLaterCopy
<1>3. now < directory[n][m].cert + Skew \/ now <= admitted[n][m] + Skew
  BY DEF member_or_admitted_cert_valid, verify_cert
<1> QED BY <1>1, <1>2, <1>3

(* What a message leaves in the directory was there or came with it. *)
LEMMA Ingested ==
    ASSUME Types, NEW n \in Nodes, NEW recs \in [Nodes -> Rec], NEW m \in Nodes
    PROVE  /\ ingest_record(n, recs) \in [Nodes -> Rec]
           /\ ingest_record(n, recs)[m] \in {NoRecord, directory[n][m], recs[m]}
           /\ \/ ingest_record(n, recs)[m] = directory[n][m]
              \/ ingest_record(n, recs)[m].seq > directory[n][m].seq
              \/ m # n /\ ~verify_cert(directory[n][m].cert)
<1> DEFINE kept == sweep_expired(n, directory[n])
<1>1. ASSUME NEW x \in Nodes
      PROVE  /\ directory[n][x] \in Rec /\ recs[x] \in Rec
             /\ kept[x] = IF x # n /\ ~verify_cert(directory[n][x].cert) THEN NoRecord
                          ELSE directory[n][x]
  BY DEF Types, sweep_expired
<1> HIDE DEF kept
<1>2. ASSUME NEW x \in Nodes
      PROVE  ingest_record(n, recs)[x] =
               IF recs[x] # NoRecord /\ verify_cert(recs[x].cert)
               THEN IF recs[x].seq <= kept[x].seq THEN kept[x] ELSE recs[x]
               ELSE kept[x]
  BY DEF ingest_record, insert_if_newer, kept
<1>3. ASSUME NEW x \in Nodes PROVE ingest_record(n, recs)[x] \in Rec
  BY <1>1, <1>2, Constants
<1>4. ingest_record(n, recs) \in [Nodes -> Rec]
  <2>1. ingest_record(n, recs) = [x \in Nodes |-> ingest_record(n, recs)[x]]
    BY DEF ingest_record
  <2> QED BY <1>3, <2>1
<1>5. recs[m].seq \in Int /\ directory[n][m].seq \in Int
  BY <1>1 DEF Rec
<1> QED BY <1>1, <1>2, <1>4, <1>5

-----------------------------------------------------------------------------
LEMMA InitMInv == Init => MInv
<1> SUFFICES ASSUME Init PROVE MInv
  OBVIOUS
<1>1. Types
  BY MembershipAssumption, Constants DEF Init, Types, Rec, NoRecord, NoSession
<1>2. NoLaterCopy
  BY MembershipAssumption, Constants DEF Init, NoLaterCopy, NoRecord, NoSession
<1>3. IssuedInTime
  BY DEF Init, IssuedInTime
<1>4. SweptIsFresh
  BY Constants DEF Init, SweptIsFresh
<1> QED BY <1>1, <1>2, <1>3, <1>4 DEF MInv

(* A renewal lasts longer than what it replaces. *)
LEMMA RenewalIsLater ==
    ASSUME MInv, NEW n \in Nodes, check_cert_rotation(n)
    PROVE  issued[n] <= now + Life
<1>1. now \in Nat /\ Life \in Nat \ {0} /\ issued[n] \in Nat /\ own_cert[n] \in Int
  BY Constants DEF MInv, Types
<1>2. 10 * (Life - (own_cert[n] - now)) >= 7 * Life
  BY DEF check_cert_rotation
<1>3. issued[n] <= now + Life \/ issued[n] = own_cert[n]
  BY DEF MInv, IssuedInTime
<1> QED BY <1>1, <1>2, <1>3

LEMMA TickKeeps ==
    ASSUME MInv, NEW n \in Nodes, NEW sweeps \in BOOLEAN, NEW renews \in BOOLEAN,
           NEW digests, Tick(n, digests, sweeps, renews)
    PROVE  MInv'
<1>1. /\ now' = now /\ restarts' = restarts /\ now \in Nat /\ Life \in Nat \ {0} /\ Skew \in Nat
      /\ directory \in [Nodes -> [Nodes -> Rec]]
      /\ own_cert \in [Nodes -> Int] /\ issued \in [Nodes -> Nat]
      /\ admitted \in [Nodes -> [Nodes -> Int]]
  BY Constants DEF MInv, Types, Tick
<1>2. \A msg \in net' : msg \in net \/ (msg.type = "Digest" /\ msg.from \in Nodes /\ msg.to \in Nodes)
  BY DEF Tick, Digests, gossip_targets
<1>3. /\ own_cert' \in [Nodes -> Int] /\ issued' \in [Nodes -> Nat]
      /\ directory' \in [Nodes -> [Nodes -> Rec]]
      /\ \A m \in Nodes : /\ issued'[m] >= issued[m]
                          /\ own_cert'[m] = own_cert[m] \/ own_cert'[m] = issued'[m]
                          /\ \A x \in Nodes : \/ directory'[x][m] = directory[x][m]
                                              \/ directory'[x][m].cert = issued'[m]
                          /\ issued'[m] = now + Life
                             \/ (issued'[m] = issued[m] /\ own_cert'[m] = own_cert[m])
  <2>1. CASE ~renews
    BY <1>1, <2>1 DEF Tick
  <2>2. CASE renews
    <3>1. check_cert_rotation(n) /\ update_own_cert(n)
      BY <2>2 DEF Tick
    <3>2. issued[n] <= now + Life
      BY <3>1, RenewalIsLater
    <3>3. directory[n][n].seq + 1 \in Int /\ now + Life \in Nat
      BY <1>1 DEF Rec
    <3>4. /\ own_cert' = [own_cert EXCEPT ![n] = now + Life]
          /\ issued' = [issued EXCEPT ![n] = now + Life]
          /\ directory' = [directory EXCEPT ![n][n] =
                             [seq |-> directory[n][n].seq + 1, cert |-> now + Life]]
      BY <3>1 DEF update_own_cert
    <3>5. [seq |-> directory[n][n].seq + 1, cert |-> now + Life] \in Rec
      BY <3>3 DEF Rec
    <3>6. directory' \in [Nodes -> [Nodes -> Rec]]
      BY <1>1, <3>4, <3>5
    <3>7. \A x, m \in Nodes : directory'[x][m] = directory[x][m] \/ (m = n /\ directory'[x][m].cert = now + Life)
      BY <1>1, <3>4
    <3> QED BY <1>1, <3>2, <3>3, <3>4, <3>6, <3>7
  <2> QED BY <2>1, <2>2
<1>4. /\ admitted' \in [Nodes -> [Nodes -> Int]]
      /\ \A x, m \in Nodes : admitted'[x][m] \in {admitted[x][m], NoSession}
      /\ \A x, m \in Nodes : \/ admitted'[x][m] = NoSession
                             \/ (x \in swept' => x \in swept)
                             \/ x = n /\ m \notin Lapsed(n)
  <2>1. CASE ~sweeps
    BY <1>1, <2>1 DEF Tick
  <2>2. CASE sweeps
    <3>1. /\ admitted' = [admitted EXCEPT ![n] = [m \in Nodes |->
                            IF m \in Lapsed(n) THEN NoSession ELSE admitted[n][m]]]
          /\ swept' = swept \cup {n}
      BY <2>2 DEF Tick
    <3>2. NoSession \in Int
      BY DEF NoSession
    <3>3. [m \in Nodes |-> IF m \in Lapsed(n) THEN NoSession ELSE admitted[n][m]] \in [Nodes -> Int]
      BY <1>1, <3>2
    <3>4. \A x, m \in Nodes :
            admitted'[x][m] = IF x = n /\ m \in Lapsed(n) THEN NoSession ELSE admitted[x][m]
      BY <1>1, <3>1
    <3>5. admitted' \in [Nodes -> [Nodes -> Int]]
      BY <1>1, <3>1, <3>3
    <3> QED BY <3>1, <3>4, <3>5
  <2> QED BY <2>1, <2>2
<1>5. Types'
  BY <1>1, <1>2, <1>3, <1>4 DEF MInv, Types
<1>6. NoLaterCopy'
  <2> SUFFICES ASSUME NEW m \in Nodes
               PROVE  /\ FirstCert[m] <= issued'[m] /\ own_cert'[m] <= issued'[m]
                      /\ \A x \in Nodes : admitted'[x][m] <= issued'[m]
                                          /\ directory'[x][m].cert <= issued'[m]
                      /\ \A msg \in net' : msg.type = "Records" => msg.body[m].cert <= issued'[m]
    BY DEF NoLaterCopy
  <2>1. issued[m] \in Nat /\ issued'[m] \in Nat /\ issued'[m] >= issued[m]
    BY <1>1, <1>3
  <2>2. FirstCert[m] <= issued'[m] /\ own_cert'[m] <= issued'[m]
    <3>1. /\ FirstCert[m] \in Int /\ FirstCert[m] <= issued[m]
          /\ own_cert[m] \in Int /\ own_cert[m] <= issued[m]
      BY <1>1, MembershipAssumption DEF MInv, NoLaterCopy
    <3>2. own_cert'[m] = own_cert[m] \/ own_cert'[m] = issued'[m]
      BY <1>3
    <3> QED BY <2>1, <3>1, <3>2
  <2>3. ASSUME NEW x \in Nodes PROVE admitted'[x][m] <= issued'[m]
    <3>1. admitted[x][m] \in Int /\ admitted[x][m] <= issued[m]
      BY <1>1 DEF MInv, NoLaterCopy
    <3>2. admitted'[x][m] = admitted[x][m] \/ admitted'[x][m] = -1
      BY <1>4 DEF NoSession
    <3> QED BY <2>1, <3>1, <3>2
  <2>4. ASSUME NEW x \in Nodes PROVE directory'[x][m].cert <= issued'[m]
    <3>1. directory[x][m].cert \in Int /\ directory[x][m].cert <= issued[m]
      BY <1>1 DEF MInv, NoLaterCopy, Rec
    <3> QED BY <1>3, <2>1, <3>1
  <2>5. ASSUME NEW msg \in net', msg.type = "Records" PROVE msg.body[m].cert <= issued'[m]
    <3>1. msg \in net
      BY <1>2, <2>5
    <3>2. msg.body[m].cert \in Int /\ msg.body[m].cert <= issued[m]
      BY <2>5, <3>1 DEF MInv, Types, NoLaterCopy, Rec
    <3> QED BY <2>1, <3>2
  <2> QED BY <2>2, <2>3, <2>4, <2>5
<1>7. IssuedInTime'
  BY <1>1, <1>3 DEF MInv, IssuedInTime
<1>8. SweptIsFresh'
  <2> SUFFICES ASSUME NEW x \in Nodes, NEW m \in Nodes, admitted'[x][m] # NoSession, m \notin Roots
               PROVE  /\ x \in swept' => now <= issued'[m] + Skew
                      /\ now <= issued'[m] + Skew + 1
    BY <1>1 DEF SweptIsFresh, Established
  <2>1. issued[m] \in Nat /\ issued'[m] \in Nat /\ issued'[m] >= issued[m]
    BY <1>1, <1>3
  <2>2. Established(x, m)
    BY <1>4 DEF Established
  <2>3. now <= issued[m] + Skew + 1 /\ (x \in swept => now <= issued[m] + Skew)
    BY <2>2 DEF MInv, SweptIsFresh
  <2>4. CASE x \in swept' => x \in swept
    BY <1>1, <2>1, <2>3, <2>4
  <2>5. CASE x = n /\ m \notin Lapsed(n)
    <3>1. member_or_admitted_cert_valid(n, m)
      BY <2>2, <2>5 DEF Lapsed
    <3>2. now <= issued[m] + Skew
      BY <3>1, ValidIsFresh DEF MInv
    <3> QED BY <1>1, <2>1, <2>3, <3>2
  <2> QED BY <1>4, <2>4, <2>5
<1> QED BY <1>5, <1>6, <1>7, <1>8 DEF MInv

LEMMA AdvanceKeeps ==
    ASSUME MInv, Advance
    PROVE  MInv'
<1>1. /\ now' = now + 1 /\ now \in Nat /\ Life \in Nat \ {0} /\ Skew \in Nat
      /\ UNCHANGED <<directory, own_cert, admitted, net, restarts, issued>>
      /\ swept = Nodes
      /\ swept' = {n \in Nodes : Lapsed(n)' = {}}
  BY Constants DEF MInv, Types, Advance
<1>2. Types'
  BY <1>1 DEF MInv, Types
<1>3. NoLaterCopy'
  BY <1>1 DEF MInv, NoLaterCopy
<1>4. IssuedInTime'
  BY <1>1 DEF MInv, IssuedInTime, Types
<1>5. SweptIsFresh'
  <2> SUFFICES ASSUME NEW x \in Nodes, NEW m \in Nodes, admitted[x][m] # NoSession, m \notin Roots
               PROVE  /\ x \in swept' => now + 1 <= issued[m] + Skew
                      /\ now + 1 <= issued[m] + Skew + 1
    BY <1>1 DEF SweptIsFresh, Established
  <2>1. issued[m] \in Nat /\ now <= issued[m] + Skew
    BY <1>1 DEF MInv, Types, SweptIsFresh, Established
  <2>2. ASSUME x \in swept' PROVE now + 1 <= issued[m] + Skew
    <3>1. m \notin Lapsed(x)'
      BY <1>1, <2>2
    <3>2. member_or_admitted_cert_valid(x, m)'
      BY <1>1, <3>1 DEF Lapsed, Established
    <3>3. now + 1 < directory[x][m].cert + Skew \/ now + 1 <= admitted[x][m] + Skew
      BY <1>1, <3>2 DEF member_or_admitted_cert_valid, verify_cert
    <3>4. /\ directory[x][m].cert \in Int /\ admitted[x][m] \in Int
          /\ directory[x][m].cert <= issued[m] /\ admitted[x][m] <= issued[m]
      BY DEF MInv, Types, Rec, NoLaterCopy
    <3> QED BY <1>1, <2>1, <3>3, <3>4
  <2> QED BY <1>1, <2>1, <2>2
<1> QED BY <1>2, <1>3, <1>4, <1>5 DEF MInv

LEMMA HandshakeKeeps ==
    ASSUME MInv, NEW n \in Nodes, NEW m \in Nodes, NEW answered \in BOOLEAN,
           Handshake(n, m, answered)
    PROVE  MInv'
<1>1. /\ UNCHANGED <<now, directory, own_cert, net, swept, restarts, issued>>
      /\ admitted \in [Nodes -> [Nodes -> Int]] /\ own_cert \in [Nodes -> Int]
      /\ now \in Nat /\ Skew \in Nat /\ n # m /\ NoSession \in Int /\ issued \in [Nodes -> Nat]
  BY Constants DEF MInv, Types, Handshake, NoSession
<1>2. PICK r, i :
        /\ admitted' = [admitted EXCEPT ![m][n] = r, ![n][m] = i]
        /\ r = NoSession \/ (r = own_cert[n] /\ (n \in Roots \/ verify_cert(own_cert[n])))
        /\ i = admitted[n][m] \/ (i = own_cert[m] /\ (m \in Roots \/ verify_cert(own_cert[m])))
  BY DEF Handshake
<1>3. r \in Int /\ i \in Int
  BY <1>1, <1>2
<1>4. /\ admitted' \in [Nodes -> [Nodes -> Int]]
      /\ \A x, y \in Nodes :
           admitted'[x][y] = IF x = m /\ y = n THEN r
                             ELSE IF x = n /\ y = m THEN i ELSE admitted[x][y]
  BY <1>1, <1>2, <1>3
<1>5. \A x, y \in Nodes : \/ admitted'[x][y] = admitted[x][y]
                          \/ admitted'[x][y] = NoSession
                          \/ /\ admitted'[x][y] = own_cert[y]
                             /\ y \in Roots \/ verify_cert(own_cert[y])
  BY <1>2, <1>4
<1>6. Types'
  BY <1>1, <1>4 DEF MInv, Types
<1>7. NoLaterCopy'
  <2>1. ASSUME NEW x \in Nodes, NEW y \in Nodes PROVE admitted'[x][y] <= issued[y]
    <3>1. admitted[x][y] <= issued[y] /\ own_cert[y] <= issued[y] /\ issued[y] \in Nat
      BY <1>1 DEF MInv, NoLaterCopy
    <3> QED BY <1>5, <3>1 DEF NoSession
  <2> QED BY <1>1, <2>1 DEF MInv, NoLaterCopy
<1>8. IssuedInTime'
  BY <1>1 DEF MInv, IssuedInTime
<1>9. SweptIsFresh'
  <2> SUFFICES ASSUME NEW x \in Nodes, NEW y \in Nodes, admitted'[x][y] # NoSession, y \notin Roots
               PROVE  /\ x \in swept => now <= issued[y] + Skew
                      /\ now <= issued[y] + Skew + 1
    BY <1>1 DEF SweptIsFresh, Established
  <2>1. CASE admitted'[x][y] = admitted[x][y]
    BY <2>1 DEF MInv, SweptIsFresh, Established
  <2>2. CASE verify_cert(own_cert[y])
    <3>1. own_cert[y] <= issued[y] /\ issued[y] \in Nat /\ own_cert[y] \in Int
      BY <1>1 DEF MInv, NoLaterCopy
    <3> QED BY <1>1, <2>2, <3>1 DEF verify_cert
  <2> QED BY <1>5, <2>1, <2>2
<1> QED BY <1>6, <1>7, <1>8, <1>9 DEF MInv

(* What a node sends comes out of its directory. *)
LEMMA RepliesRight ==
    ASSUME MInv, NEW n \in Nodes, NEW msg \in net, NEW r \in Replies(n, msg)
    PROVE  /\ r.from \in Nodes /\ r.to \in Nodes
           /\ r.type = "Records" => /\ r.body \in [Nodes -> Rec]
                                    /\ \A m \in Nodes : r.body[m] \in {directory[n][m], NoRecord}
<1>1. msg.from \in Nodes /\ directory[n] \in [Nodes -> Rec] /\ NoRecord \in Rec
  BY Constants DEF MInv, Types
<1>2. r.from = n /\ r.to = msg.from
  BY DEF Replies
<1>3. ASSUME r.type = "Records"
      PROVE  \E S : r.body = [m \in Nodes |-> IF m \in S THEN directory[n][m] ELSE NoRecord]
  <2>1. r.body = [m \in Nodes |-> IF m \in msg.body /\ directory[n][m] # NoRecord
                                  THEN directory[n][m] ELSE NoRecord]
    BY <1>3 DEF Replies
  <2>2. r.body = [m \in Nodes |-> IF m \in {x \in msg.body : directory[n][x] # NoRecord}
                                  THEN directory[n][m] ELSE NoRecord]
    BY <2>1
  <2> QED BY <2>2
<1> QED BY <1>1, <1>2, <1>3

LEMMA OnGossipKeeps ==
    ASSUME MInv, NEW msg \in net, NEW rest \in SUBSET net, OnGossip(msg.to, msg, rest)
    PROVE  MInv'
<1> DEFINE n == msg.to
<1>1. /\ UNCHANGED <<now, own_cert, admitted, swept, restarts, issued>>
      /\ n \in Nodes /\ directory \in [Nodes -> [Nodes -> Rec]] /\ issued \in [Nodes -> Nat]
      /\ \A m \in Nodes : NoRecord.cert <= issued[m]
  BY DEF OnGossip, MInv, Types, NoRecord
<1> HIDE DEF n
<1>2. \A r \in net' : r \in net \/ r \in Replies(n, msg)
  BY DEF OnGossip, n
<1>3. /\ directory' \in [Nodes -> [Nodes -> Rec]]
      /\ \A x, m \in Nodes : directory'[x][m].cert <= issued[m]
  <2>1. CASE directory' = directory
    BY <1>1, <2>1 DEF MInv, NoLaterCopy
  <2>2. CASE /\ msg.type = "Records"
             /\ directory' = [directory EXCEPT ![n] = ingest_record(n, msg.body)]
    <3>1. msg.body \in [Nodes -> Rec]
      BY <2>2 DEF MInv, Types
    <3>2. ASSUME NEW m \in Nodes
          PROVE  /\ ingest_record(n, msg.body) \in [Nodes -> Rec]
                 /\ ingest_record(n, msg.body)[m] \in {NoRecord, directory[n][m], msg.body[m]}
      BY <1>1, <3>1, Ingested DEF MInv
    <3>3. ASSUME NEW m \in Nodes
          PROVE  ingest_record(n, msg.body)[m].cert <= issued[m]
      <4>1. directory[n][m].cert <= issued[m] /\ msg.body[m].cert <= issued[m]
        BY <1>1, <2>2 DEF MInv, NoLaterCopy
      <4> QED BY <1>1, <3>2, <4>1
    <3>4. ingest_record(n, msg.body) \in [Nodes -> Rec]
      BY <1>1, <3>2
    <3>5. directory' \in [Nodes -> [Nodes -> Rec]]
      BY <1>1, <2>2, <3>4
    <3>6. ASSUME NEW x \in Nodes, NEW m \in Nodes PROVE directory'[x][m].cert <= issued[m]
      <4>1. CASE x = n
        BY <1>1, <2>2, <3>3, <4>1
      <4>2. CASE x # n
        BY <1>1, <2>2, <4>2 DEF MInv, NoLaterCopy
      <4> QED BY <4>1, <4>2
    <3> QED BY <3>5, <3>6
  <2> QED BY <2>1, <2>2 DEF OnGossip, n
<1>4. Types'
  <2>1. ASSUME NEW r \in net'
        PROVE  /\ r.from \in Nodes /\ r.to \in Nodes
               /\ r.type = "Records" => r.body \in [Nodes -> Rec]
    BY <1>1, <1>2, RepliesRight DEF MInv, Types
  <2> QED BY <1>1, <1>3, <2>1 DEF MInv, Types
<1>5. NoLaterCopy'
  <2>1. ASSUME NEW r \in net', r.type = "Records", NEW m \in Nodes
        PROVE  r.body[m].cert <= issued[m]
    <3>1. CASE r \in net
      BY <2>1, <3>1 DEF MInv, NoLaterCopy
    <3>2. CASE r \in Replies(n, msg)
      <4>1. r.body[m] \in {directory[n][m], NoRecord}
        BY <1>1, <2>1, <3>2, RepliesRight
      <4>2. directory[n][m].cert <= issued[m]
        BY <1>1 DEF MInv, NoLaterCopy
      <4> QED BY <1>1, <4>1, <4>2
    <3> QED BY <1>2, <3>1, <3>2
  <2> QED BY <1>1, <1>3, <2>1 DEF MInv, NoLaterCopy
<1>6. IssuedInTime'
  BY <1>1 DEF MInv, IssuedInTime
<1>7. SweptIsFresh'
  BY <1>1 DEF MInv, SweptIsFresh, Established
<1> QED BY <1>4, <1>5, <1>6, <1>7 DEF MInv

LEMMA RestartKeeps ==
    ASSUME MInv, NEW n \in Nodes, Restart(n)
    PROVE  MInv'
<1>1. /\ UNCHANGED <<now, net, swept, issued>> /\ restarts' = restarts + 1
      /\ own_cert'  = [own_cert EXCEPT ![n] = FirstCert[n]]
      /\ directory' = [directory EXCEPT ![n] = [m \in Nodes |->
                         IF m = n THEN [seq |-> 0, cert |-> FirstCert[n]] ELSE NoRecord]]
      /\ admitted' = [admitted EXCEPT ![n] = [m \in Nodes |-> NoSession]]
  BY DEF Restart
<1>2. /\ directory \in [Nodes -> [Nodes -> Rec]] /\ issued \in [Nodes -> Nat]
      /\ own_cert \in [Nodes -> Int] /\ admitted \in [Nodes -> [Nodes -> Int]]
      /\ NoRecord \in Rec /\ NoRecord.cert = -1 /\ NoSession \in Int
      /\ [seq |-> 0, cert |-> FirstCert[n]] \in Rec /\ FirstCert[n] \in Nat
  BY Constants DEF MInv, Types, Rec, NoRecord, NoSession
<1>3. [m \in Nodes |-> IF m = n THEN [seq |-> 0, cert |-> FirstCert[n]] ELSE NoRecord]
        \in [Nodes -> Rec]
  BY <1>2
<1>4. Types'
  BY <1>1, <1>2, <1>3 DEF MInv, Types
<1>5. NoLaterCopy'
  <2> SUFFICES ASSUME NEW m \in Nodes
               PROVE  /\ own_cert'[m] <= issued[m]
                      /\ \A x \in Nodes : admitted'[x][m] <= issued[m]
                                          /\ directory'[x][m].cert <= issued[m]
    BY <1>1 DEF MInv, NoLaterCopy
  <2>1. /\ issued[m] \in Nat /\ FirstCert[m] <= issued[m] /\ own_cert[m] <= issued[m]
        /\ \A x \in Nodes : admitted[x][m] <= issued[m] /\ directory[x][m].cert <= issued[m]
    BY <1>2 DEF MInv, NoLaterCopy
  <2>2. own_cert'[m] <= issued[m]
    BY <1>1, <1>2, <2>1
  <2>3. ASSUME NEW x \in Nodes PROVE admitted'[x][m] <= issued[m]
    BY <1>1, <1>2, <2>1 DEF NoSession
  <2>4. ASSUME NEW x \in Nodes PROVE directory'[x][m].cert <= issued[m]
    <3>1. \/ directory'[x][m] = directory[x][m]
          \/ directory'[x][m] = NoRecord
          \/ m = n /\ directory'[x][m] = [seq |-> 0, cert |-> FirstCert[m]]
      BY <1>1, <1>2
    <3> QED BY <1>2, <2>1, <3>1
  <2> QED BY <2>2, <2>3, <2>4
<1>6. IssuedInTime'
  BY <1>1, <1>2 DEF MInv, IssuedInTime
<1>7. SweptIsFresh'
  <2>1. \A x, m \in Nodes : admitted'[x][m] \in {admitted[x][m], NoSession}
    BY <1>1, <1>2
  <2> QED BY <1>1, <2>1 DEF MInv, SweptIsFresh, Established
<1> QED BY <1>4, <1>5, <1>6, <1>7 DEF MInv

LEMMA StepMInv == MInv /\ [Next]_vars => MInv'
<1> SUFFICES ASSUME MInv, [Next]_vars PROVE MInv'
  OBVIOUS
<1>1. ASSUME NEW n \in Nodes, NEW sweeps \in BOOLEAN, NEW renews \in BOOLEAN,
             NEW digests \in SUBSET Digests(n), Tick(n, digests, sweeps, renews)
      PROVE  MInv'
  BY <1>1, TickKeeps
<1>2. CASE Advance
  BY <1>2, AdvanceKeeps
<1>3. ASSUME NEW n \in Nodes, NEW m \in Nodes, NEW answered \in BOOLEAN,
             Handshake(n, m, answered)
      PROVE  MInv'
  BY <1>3, HandshakeKeeps
<1>4. CASE Deliver \/ Duplicate
  <2>1. PICK msg \in net : \E rest \in SUBSET net : OnGossip(msg.to, msg, rest)
    BY <1>4 DEF Deliver, Duplicate
  <2> QED BY <2>1, OnGossipKeeps
<1>5. CASE Lose \/ UNCHANGED vars
  <2>1. /\ UNCHANGED <<now, directory, own_cert, admitted, swept, restarts, issued>>
        /\ net' \subseteq net
    BY <1>5 DEF Lose, vars
  <2>2. Types'
    BY <2>1 DEF MInv, Types
  <2>3. NoLaterCopy'
    BY <2>1 DEF MInv, NoLaterCopy
  <2>4. IssuedInTime' /\ SweptIsFresh'
    BY <2>1 DEF MInv, IssuedInTime, SweptIsFresh, Established
  <2> QED BY <2>2, <2>3, <2>4 DEF MInv
<1>6. ASSUME NEW n \in Nodes, Restart(n) PROVE MInv'
  BY <1>6, RestartKeeps
<1> QED BY <1>1, <1>2, <1>3, <1>4, <1>5, <1>6 DEF Next

-----------------------------------------------------------------------------
(* tick_dispatch: one sweep interval after the last certificate of a       *)
(* member has lapsed beyond the skew, nobody has a session with it, for    *)
(* any members, lifetimes and skew.                                        *)
THEOREM RevokedAlwaysDropped == Spec => []RevokedDropped
<1>1. MInv => RevokedDropped
  BY DEF MInv, SweptIsFresh, RevokedDropped
<1> QED BY <1>1, InitMInv, StepMInv, PTL DEF Spec

(* One step: no handler but a restart puts a record back. *)
LEMMA StepNewest ==
    ASSUME MInv, Next, NEW n \in Nodes, NEW m \in Nodes, restarts' = restarts
    PROVE  \/ directory'[n][m] = directory[n][m]
           \/ directory'[n][m].seq > directory[n][m].seq
           \/ n # m /\ ~verify_cert(directory[n][m].cert)
<1>1. directory \in [Nodes -> [Nodes -> Rec]] /\ restarts' = restarts /\ restarts \in Nat
  BY DEF MInv, Types
<1>2. CASE UNCHANGED directory
  BY <1>2
<1>3. ASSUME NEW x \in Nodes, update_own_cert(x)
      PROVE  \/ directory'[n][m] = directory[n][m]
             \/ directory'[n][m].seq > directory[n][m].seq
  <2>1. directory[x][x].seq \in Int
    BY <1>1 DEF Rec
  <2>2. directory'[n][m] = directory[n][m]
        \/ (n = x /\ m = x /\ directory'[n][m].seq = directory[x][x].seq + 1)
    BY <1>1, <1>3 DEF update_own_cert
  <2> QED BY <2>1, <2>2
<1>4. ASSUME NEW msg \in net, msg.type = "Records",
             directory' = [directory EXCEPT ![msg.to] = ingest_record(msg.to, msg.body)]
      PROVE  \/ directory'[n][m] = directory[n][m]
             \/ directory'[n][m].seq > directory[n][m].seq
             \/ n # m /\ ~verify_cert(directory[n][m].cert)
  <2>1. msg.body \in [Nodes -> Rec]
    BY <1>4 DEF MInv, Types
  <2>2. \/ ingest_record(n, msg.body)[m] = directory[n][m]
        \/ ingest_record(n, msg.body)[m].seq > directory[n][m].seq
        \/ m # n /\ ~verify_cert(directory[n][m].cert)
    BY <2>1, Ingested DEF MInv
  <2>3. directory'[n] = IF n = msg.to THEN ingest_record(n, msg.body) ELSE directory[n]
    BY <1>1, <1>4
  <2> QED BY <2>2, <2>3
<1>5. CASE Deliver \/ Duplicate
  <2>1. PICK msg \in net : \E rest : OnGossip(msg.to, msg, rest)
    BY <1>5 DEF Deliver, Duplicate
  <2>2. \/ UNCHANGED directory
        \/ /\ msg.type = "Records"
           /\ directory' = [directory EXCEPT ![msg.to] = ingest_record(msg.to, msg.body)]
    BY <2>1 DEF OnGossip
  <2> QED BY <1>2, <1>4, <2>2
<1>6. \/ UNCHANGED directory \/ Deliver \/ Duplicate
      \/ \E x \in Nodes : update_own_cert(x) \/ Restart(x)
  BY DEF Next, Tick, Advance, Handshake, Lose
<1>7. ASSUME NEW x \in Nodes, Restart(x) PROVE FALSE
  <2>1. restarts' = restarts + 1 /\ restarts < MaxRestarts
    BY <1>7 DEF Restart
  <2> QED BY <1>1, <2>1
<1> QED BY <1>2, <1>3, <1>5, <1>6, <1>7

(* insert_if_newer and sweep_expired: as long as a daemon runs, a record   *)
(* in its directory gives way only to a newer one or, lapsed, to none, and *)
(* its own record never goes back.                                         *)
THEOREM NewestAlwaysStays == Spec => NewestStays
<1> DEFINE A == directory' # directory /\ restarts' = restarts =>
                \A n, m \in Nodes : directory[n][m] # NoRecord =>
                    \/ directory'[n][m] = directory[n][m]
                    \/ directory'[n][m].seq > directory[n][m].seq
                    \/ n # m /\ ~verify_cert(directory[n][m].cert)
<1>1. MInv /\ [Next]_vars => [A]_vars
  BY StepNewest
<1>2. Spec => [][A]_vars
  BY <1>1, InitMInv, StepMInv, PTL DEF Spec
<1> QED BY <1>2 DEF NewestStays
=============================================================================
