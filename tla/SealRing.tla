------------------------------ MODULE SealRing ------------------------------
(***************************************************************************)
(* The ring of minutes that remembers the seals of authenticated hellos    *)
(* (bin/yip-rendezvous/src/reality_replay.rs), behind the gate that admits *)
(* a seal from skew minutes before to skew minutes after its time stamp.   *)
(* A connection task reads the minute before it takes the lock of a shard, *)
(* so it may come a minute late.  One shard is modelled: a seal always     *)
(* goes to the same one.                                                   *)
(***************************************************************************)
EXTENDS Integers, Sequences, FiniteSets

CONSTANTS
    SealTime,    \* seals, as a function to their time stamps
    SkewMin,     \* REALITY_SKEW_MIN
    WindowMin,   \* WINDOW
    MaxBucket,   \* max_bucket: seals per minute
    StartMin,    \* start_min
    LastMin      \* bound: the clock

Seal == DOMAIN SealTime
RingLen == WindowMin + 1   \* RING
Unused == -1               \* the sentinel minute of a bucket

VARIABLES
    minute,
    ring,      \* one bucket of seals per slot
    accepts    \* history: the minutes read by the tasks that found each seal fresh

sealVars == <<minute, ring, accepts>>

SealInit ==
    /\ minute = StartMin
    /\ ring = [i \in 0..(RingLen - 1) |-> [minute |-> Unused, seals |-> {}]]
    /\ accepts = [s \in Seal |-> <<>>]

(* open_recover_shared: the time stamp is within the skew of the clock. *)
Admitted(s, m) == m - SkewMin <= SealTime[s] /\ SealTime[s] <= m + SkewMin

(* Faulty variant: the memory covers one side of the skew only. *)
RememberedShort(b, s, m) ==
    b.minute # Unused /\ m - b.minute <= SkewMin /\ s \in b.seals

Remembered(b, s, m) ==
    b.minute # Unused /\ m - b.minute <= WindowMin /\ s \in b.seals

(* ReplayGuard::check by a task that read minute m.  The slot is cleared   *)
(* for the minute first, whatever the verdict.                             *)
Check(s, m) ==
    LET slot    == m % RingLen
        rotated == IF ring[slot].minute = m THEN ring
                   ELSE [ring EXCEPT ![slot] = [minute |-> m, seals |-> {}]]
        fresh   == /\ \A i \in DOMAIN ring : ~Remembered(rotated[i], s, m)
                   /\ Cardinality(rotated[slot].seals) < MaxBucket
    IN /\ Admitted(s, m) /\ StartMin <= SealTime[s]
       /\ ring'    = IF fresh THEN [rotated EXCEPT ![slot].seals = @ \cup {s}] ELSE rotated
       /\ accepts' = IF fresh THEN [accepts EXCEPT ![s] = Append(@, m)] ELSE accepts
       /\ UNCHANGED minute

NextMinute == minute < LastMin /\ minute' = minute + 1 /\ UNCHANGED <<ring, accepts>>

SealNext ==
    \/ \E s \in Seal, m \in {minute, minute - 1} \cap Nat : Check(s, m)
    \/ NextMinute

SealSpec == SealInit /\ [][SealNext]_sealVars

-----------------------------------------------------------------------------
(* Properties *)

(* A seal is not found fresh a second time before WINDOW minutes have      *)
(* passed, whatever other seals come, wrap the ring and clear its slots,   *)
(* and although tasks come late.  So it can happen only at the two ends of *)
(* the admission window (check, WINDOW, RING, REALITY_SKEW_MIN).           *)
FreshOncePerWindow ==
    \A s \in Seal : \A i, j \in DOMAIN accepts[s] :
      i < j => accepts[s][i] + WindowMin <= accepts[s][j]
=============================================================================
