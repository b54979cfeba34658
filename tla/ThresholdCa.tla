----------------------------- MODULE ThresholdCa -----------------------------
(***************************************************************************)
(* The threshold certificate authority (bin/yip-ca/src): one coordinator   *)
(* that serves enrollments with ROAST sessions (serve.rs run_coordinator,  *)
(* roast_coordinator.rs) and the signer daemons connected to it (serve.rs  *)
(* run_signer, signer_daemon.rs).                                          *)
(*                                                                         *)
(* A signer process is known by its number of starts: each start has a     *)
(* boot epoch, a nonce vault and one TCP connection of its own.  A nonce   *)
(* slot is a pair of boot epoch and sequence number; a session id is an    *)
(* index into sessions.  FROST is external: a share is valid when it was   *)
(* made with the nonce its session committed to by a signer that computes  *)
(* correctly.                                                              *)
(***************************************************************************)
EXTENDS Naturals, Sequences, FiniteSets

CONSTANTS
    NumSigners, Threshold,
    Faulty,        \* signers that may answer with a wrong share
    Enrollment,    \* the enrollments that clients submit
    Overlong,      \* those whose lifetime exceeds max_ttl_secs
    Batch,         \* commitments a signer publishes on connecting, 16
    MaxRestarts    \* bound: crashes, and restarts, of signers in a behaviour

ASSUME CaAssumption ==
    /\ NumSigners \in Nat /\ Threshold \in 1..NumSigners
    /\ Faulty \subseteq 1..NumSigners /\ Overlong \subseteq Enrollment
    /\ Batch \in Nat \ {0} /\ MaxRestarts \in Nat

VARIABLES
    up, boot, vault, nextSeq,     \* of each signer: SignerState and its vault
    dialling,                     \* connections whose PublishCommitments is under way
    conns,                        \* connections with a coordinator task
    signerTx,                     \* of each signer: the connection it is reached by, or 0
    queue, responsive, serving,   \* RoastCoordinator: commitment_queues,
    banished, sessions,           \* responsive_signers, signer_to_session, ...
    requests, responses,          \* on their way on a connection
    phase, outbox, mine           \* of each enrollment: where its task is, the
                                  \* requests it has yet to send, its session

signerVars == <<up, boot, vault, nextSeq>>
roastVars  == <<queue, responsive, serving, banished, sessions>>
clientVars == <<phase, outbox, mine>>
vars == <<signerVars, dialling, conns, signerTx, roastVars, requests, responses,
          clientVars>>

Signer  == 1..NumSigners
Boot    == 1..(MaxRestarts + 1)
Conn    == Signer \X Boot
Slot    == [boot : Boot, seq : Nat]
Request == [conn : Conn, session : Nat, of : Enrollment, slot : Slot]

Members(i) == {s \in Signer : sessions[i].slot[s] # <<>>}

Init ==
    /\ up = [s \in Signer |-> FALSE]
    /\ boot = [s \in Signer |-> 0]
    /\ vault = [s \in Signer |-> {}]
    /\ nextSeq = [s \in Signer |-> 1]
    /\ dialling = {} /\ conns = {}
    /\ signerTx = [s \in Signer |-> 0]
    /\ queue = [s \in Signer |-> <<>>]
    /\ responsive = {} /\ banished = {}
    /\ serving = [s \in Signer |-> 0]
    /\ sessions = <<>>
    /\ requests = {} /\ responses = {}
    /\ phase = [e \in Enrollment |-> "spawning"]
    /\ outbox = [e \in Enrollment |-> {}]
    /\ mine = [e \in Enrollment |-> 0]

-----------------------------------------------------------------------------
(* The signer daemon *)

Restarts == Cardinality({c \in Conn : c[2] < boot[c[1]]})

(* run_signer: a new vault with its first batch, published on connecting. *)
SignerStart(s) ==
    /\ ~up[s]
    /\ boot[s] = 0 \/ Restarts < MaxRestarts
    /\ up'   = [up EXCEPT ![s] = TRUE]
    /\ boot' = [boot EXCEPT ![s] = @ + 1]
    /\ vault'   = [vault EXCEPT ![s] = 1..Batch]
    /\ nextSeq' = [nextSeq EXCEPT ![s] = Batch + 1]
    /\ dialling' = dialling \cup {<<s, boot[s] + 1>>}
    /\ UNCHANGED <<conns, signerTx, roastVars, requests, responses, clientVars>>

(* Its process ends, and what it has written last may be lost. *)
SignerEnd(s) ==
    /\ up[s]
    /\ up'    = [up EXCEPT ![s] = FALSE]
    /\ vault' = [vault EXCEPT ![s] = {}]
    /\ \E lost \in SUBSET {r \in responses : r.conn = <<s, boot[s]>>} :
         responses' = responses \ lost
    /\ UNCHANGED <<boot, nextSeq, dialling, conns, signerTx, roastVars, requests,
                   clientVars>>

SignerCrash(s) ==
    /\ Restarts + Cardinality({k \in Signer : boot[k] > 0 /\ ~up[k]}) < MaxRestarts
    /\ SignerEnd(s)

(* The coordinator closed the connection: the read of run_signer fails. *)
SignerDisconnected(s) ==
    /\ <<s, boot[s]>> \notin dialling \cup conns
    /\ SignerEnd(s)

(* Faulty variant: the boot epoch is not compared. *)
TakeOnceAnyBoot(s, slot) == slot.seq \in vault[s]

(* take_once finds the nonce of the slot. *)
TakeOnce(s, slot) == slot.boot = boot[s] /\ slot.seq \in vault[s]

(* handle_sign_request: the nonce is consumed and one is made to replace   *)
(* it.  The nonce a share is made with is the one filed under seq in the   *)
(* vault of this start.                                                    *)
HandleSignRequest(s) ==
    \E r \in requests :
      /\ up[s] /\ r.conn = <<s, boot[s]>>
      /\ requests' = requests \ {r}
      /\ IF r.of \notin Overlong /\ TakeOnce(s, r.slot)
         THEN /\ vault'   = [vault EXCEPT ![s] = (@ \ {r.slot.seq}) \cup {nextSeq[s]}]
              /\ nextSeq' = [nextSeq EXCEPT ![s] = @ + 1]
              /\ \E correct \in IF s \in Faulty THEN BOOLEAN ELSE {TRUE} :
                   responses' = responses \cup
                     {[conn |-> r.conn, session |-> r.session, reject |-> FALSE,
                       valid |-> correct /\ r.slot.boot = boot[s],
                       replenish |-> [boot |-> boot[s], seq |-> nextSeq[s]]]}
         ELSE /\ responses' = responses \cup
                   {[conn |-> r.conn, session |-> r.session, reject |-> TRUE]}
              /\ UNCHANGED <<vault, nextSeq>>
      /\ UNCHANGED <<up, boot, dialling, conns, signerTx, roastVars, clientVars>>

-----------------------------------------------------------------------------
(* The coordinator's task of a signer connection *)

(* Faulty variant: connecting makes a signer available. *)
RegisterCommitmentsFrees(s, slots) ==
    IF s \in banished THEN UNCHANGED <<queue, responsive>>
    ELSE /\ queue'      = [queue EXCEPT ![s] = @ \o slots]
         /\ responsive' = responsive \cup {s}

(* register_commitments: a signer that serves a session stays busy. *)
RegisterCommitments(s, slots) ==
    IF s \in banished THEN UNCHANGED <<queue, responsive>>
    ELSE /\ queue'      = [queue EXCEPT ![s] = @ \o slots]
         /\ responsive' = IF serving[s] = 0 THEN responsive \cup {s} ELSE responsive

Accept(s, b) ==
    /\ <<s, b>> \in dialling
    /\ dialling' = dialling \ {<<s, b>>}
    /\ conns'    = conns \cup {<<s, b>>}
    /\ signerTx' = [signerTx EXCEPT ![s] = b]
    /\ RegisterCommitments(s, [i \in 1..Batch |-> [boot |-> b, seq |-> i]])
    /\ UNCHANGED <<signerVars, serving, banished, sessions, requests, responses,
                   clientVars>>

(* Faulty variant: the signer of a good share is not made available again. *)
ReceiveShareKeepsBusy(s, r) ==
    IF r.valid
    THEN /\ queue'    = [queue EXCEPT ![s] = Append(@, r.replenish)]
         /\ sessions' = [sessions EXCEPT ![r.session].shares = @ \cup {s}]
         /\ UNCHANGED <<responsive, serving, banished>>
    ELSE /\ banished' = banished \cup {s}
         /\ serving'  = [serving EXCEPT ![s] = 0]
         /\ UNCHANGED <<queue, responsive, sessions>>

(* Faulty variant: the commitment that came with the share is not kept. *)
ReceiveShareNoReplenish(s, r) ==
    /\ serving' = [serving EXCEPT ![s] = 0]
    /\ IF r.valid
       THEN /\ responsive' = responsive \cup {s}
            /\ sessions'   = [sessions EXCEPT ![r.session].shares = @ \cup {s}]
            /\ UNCHANGED <<queue, banished>>
       ELSE /\ banished' = banished \cup {s}
            /\ UNCHANGED <<queue, responsive, sessions>>

(* receive_share *)
ReceiveShare(s, r) ==
    /\ serving' = [serving EXCEPT ![s] = 0]
    /\ IF r.valid
       THEN /\ queue'      = [queue EXCEPT ![s] = Append(@, r.replenish)]
            /\ responsive' = responsive \cup {s}
            /\ sessions'   = [sessions EXCEPT ![r.session].shares = @ \cup {s}]
            /\ UNCHANGED banished
       ELSE /\ banished' = banished \cup {s}
            /\ UNCHANGED <<queue, responsive, sessions>>

(* The task ends: the sender filed under the signer goes, whichever        *)
(* connection it belongs to by now.                                        *)
Close(s, b) ==
    /\ conns'    = conns \ {<<s, b>>}
    /\ signerTx' = [signerTx EXCEPT ![s] = 0]
    /\ requests' = {r \in requests : r.conn # <<s, b>>}

(* A message of the signer; anything but a share ends the connection. *)
TaskReceive(s, b) ==
    \E r \in responses :
      /\ r.conn = <<s, b>>
      /\ responses' = responses \ {r}
      /\ IF r.reject
         THEN Close(s, b) /\ UNCHANGED roastVars
         ELSE ReceiveShare(s, r) /\ UNCHANGED <<conns, signerTx, requests>>
      /\ UNCHANGED <<signerVars, dialling, clientVars>>

(* End of file, or a write that fails, once the process is gone. *)
TaskEof(s, b) ==
    /\ <<s, b>> \in conns
    /\ ~(up[s] /\ boot[s] = b)
    /\ \A r \in responses : r.conn # <<s, b>>
    /\ Close(s, b)
    /\ UNCHANGED <<signerVars, dialling, roastVars, responses, clientVars>>

-----------------------------------------------------------------------------
(* The coordinator's task of an enrollment *)

(* next_session_id *)
NewId == Len(sessions) + 1

Eligible == {s \in responsive \ banished : queue[s] # <<>>}

(* The first Threshold of them in the order of the BTreeSet. *)
Chosen == {s \in Eligible : Cardinality({k \in Eligible : k <= s}) <= Threshold}

(* try_spawn_session *)
TrySpawnSession(e) ==
    /\ Cardinality(Eligible) >= Threshold
    /\ sessions' = Append(sessions,
         [of |-> e, shares |-> {},
          slot |-> [s \in Signer |-> IF s \in Chosen THEN Head(queue[s]) ELSE <<>>]])
    /\ queue'      = [s \in Signer |-> IF s \in Chosen THEN Tail(queue[s]) ELSE queue[s]]
    /\ responsive' = responsive \ Chosen
    /\ serving'    = [s \in Signer |-> IF s \in Chosen THEN NewId
                                       ELSE serving[s]]
    /\ UNCHANGED banished

(* Under the lock: the session, and a request for each member that is      *)
(* connected.                                                              *)
Spawn(e) ==
    /\ phase[e] = "spawning"
    /\ TrySpawnSession(e)
    /\ mine'   = [mine EXCEPT ![e] = NewId]
    /\ outbox' = [outbox EXCEPT ![e] =
         {[conn |-> <<s, signerTx[s]>>, session |-> NewId, of |-> e,
           slot |-> Head(queue[s])] : s \in {k \in Chosen : signerTx[k] # 0}}]
    /\ phase'  = [phase EXCEPT ![e] = IF outbox'[e] = {} THEN "polling" ELSE "sending"]
    /\ UNCHANGED <<signerVars, dialling, conns, signerTx, requests, responses>>

(* The lock released, they are sent one by one; a connection that is gone  *)
(* by then loses its request.                                              *)
Dispatch(e) ==
    /\ phase[e] = "sending"
    /\ \E r \in outbox[e] :
         /\ outbox'   = [outbox EXCEPT ![e] = @ \ {r}]
         /\ requests' = IF r.conn \in conns THEN requests \cup {r} ELSE requests
    /\ phase' = [phase EXCEPT ![e] = IF outbox'[e] = {} THEN "polling" ELSE @]
    /\ UNCHANGED <<signerVars, dialling, conns, signerTx, roastVars, responses, mine>>

(* The session it polls has its shares and they aggregate. *)
Enroll(e) ==
    /\ phase[e] = "polling"
    /\ Cardinality(sessions[mine[e]].shares) >= Threshold
    /\ phase' = [phase EXCEPT ![e] = "enrolled"]
    /\ UNCHANGED <<signerVars, dialling, conns, signerTx, roastVars, requests,
                   responses, outbox, mine>>

(* 60 attempts to spawn or 200 polls were in vain. *)
GiveUp(e) ==
    /\ phase[e] \in {"spawning", "polling"}
    /\ phase' = [phase EXCEPT ![e] = "rejected"]
    /\ UNCHANGED <<signerVars, dialling, conns, signerTx, roastVars, requests,
                   responses, outbox, mine>>

-----------------------------------------------------------------------------
Next ==
    \/ \E s \in Signer :
         \/ SignerStart(s) \/ SignerCrash(s) \/ SignerDisconnected(s)
         \/ HandleSignRequest(s)
         \/ \E b \in Boot : Accept(s, b) \/ TaskReceive(s, b) \/ TaskEof(s, b)
    \/ \E e \in Enrollment : Spawn(e) \/ Dispatch(e) \/ Enroll(e) \/ GiveUp(e)

(* The runtimes run every task that can run, and TCP delivers. *)
Fairness ==
    /\ \A s \in Signer :
         /\ WF_vars(HandleSignRequest(s)) /\ WF_vars(SignerDisconnected(s))
         /\ \A b \in Boot : WF_vars(TaskReceive(s, b))
    /\ \A e \in Enrollment : WF_vars(Dispatch(e))

Spec == Init /\ [][Next]_vars /\ Fairness

-----------------------------------------------------------------------------
(* Properties *)

TypeOK ==
    /\ up \in [Signer -> BOOLEAN] /\ boot \in [Signer -> {0} \cup Boot]
    /\ vault \in [Signer -> SUBSET Nat] /\ nextSeq \in [Signer -> Nat]
    /\ dialling \subseteq Conn /\ conns \subseteq Conn
    /\ signerTx \in [Signer -> {0} \cup Boot]
    /\ queue \in [Signer -> Seq(Slot)]
    /\ responsive \subseteq Signer /\ banished \subseteq Signer
    /\ serving \in [Signer -> 0..Len(sessions)]
    /\ \A i \in 1..Len(sessions) : sessions[i].shares \subseteq Members(i)
    /\ requests \subseteq Request
    /\ \A r \in responses : r.conn \in Conn /\ r.session \in 1..Len(sessions)
    /\ outbox \in [Enrollment -> SUBSET Request]
    /\ phase \in [Enrollment -> {"spawning", "sending", "polling", "enrolled", "rejected"}]
    /\ mine \in [Enrollment -> 0..Len(sessions)]

(* What is on its way to or from s: requests still to be sent, sent, and   *)
(* answers.                                                                *)
Outstanding(s) ==
    {r \in requests \cup responses \cup UNION {outbox[e] : e \in Enrollment} :
       r.conn[1] = s}

(* A signer is asked by one session at a time, through every restart: the  *)
(* coordinator hands its connection no request while an answer is still on *)
(* the way, which the select of a request queue with a read that is not    *)
(* safe to cancel relies on (signer_to_session, responsive_signers).       *)
OneAtATime == \A s \in Signer : Cardinality(Outstanding(s)) <= 1

(* A signer that computes correctly is never taken for a culprit: its      *)
(* share always answers the commitment that the session was built on, even *)
(* if it restarted in between (take_once, verify_signature_share).         *)
HonestNeverBanished == banished \subseteq Faulty

(* Between a signer and its connection to the coordinator the two pools    *)
(* agree: the commitments the coordinator still has, with those on the     *)
(* way, are exactly the nonces in the vault, so no running signer is asked *)
(* for a nonce it lacks and no pool runs dry (preprocess_batch, the        *)
(* replenishment of handle_sign_request and receive_share).                *)
PoolInSync ==
    \A s \in Signer :
      (/\ up[s] /\ boot[s] = 1 /\ <<s, 1>> \in conns /\ s \notin banished
       /\ \A r \in responses : r.conn[1] = s => ~r.reject)
      => vault[s] = {queue[s][i].seq : i \in 1..Len(queue[s])} \cup
           {IF r \in responses THEN r.replenish.seq ELSE r.slot.seq :
              r \in Outstanding(s)}

(* A signer that keeps running becomes available again after every session *)
(* it is asked by, whatever becomes of the session and of the other        *)
(* members (receive_share).  One that is stopped, or that rejects a        *)
(* request, does not: its entry in signer_to_session stays for ever.       *)
SignersReturn ==
    \A s \in Signer :
      (serving[s] # 0) ~> (serving[s] = 0 \/ ~up[s] \/ boot[s] > 1)
=============================================================================
