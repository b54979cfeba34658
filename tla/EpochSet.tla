------------------------------ MODULE EpochSet ------------------------------
(***************************************************************************)
(* The epochs of one established peer session (bin/yipd/src/epoch.rs).     *)
(*                                                                         *)
(* A session is the pair of handshake ephemerals its keys were derived     *)
(* from: the initiator's and the responder's.  A DataPlane is abstracted   *)
(* to the session whose keys it holds, so "opens a datagram" is equality   *)
(* of sessions.  The millisecond stamps of the code are kept as ages       *)
(* (now_ms - stamp) in units of Tick; an age stops growing once it has     *)
(* passed every threshold it is compared with.                             *)
(***************************************************************************)
EXTENDS Naturals

CONSTANTS
    RekeyInterval,   \* REKEY_INTERVAL_MS
    Grace,           \* PREVIOUS_EPOCH_GRACE_MS
    HandshakeTotal   \* HANDSHAKE_TOTAL_MS, the life of an unanswered Init

ASSUME TimingAssumption ==
    /\ RekeyInterval \in Nat \ {0}
    /\ Grace \in Nat \ {0}
    /\ HandshakeTotal \in Nat \ {0}

(* Ephemerals are numbered from 1 in the order they are drawn; 0 is "no    *)
(* ephemeral".                                                             *)
Session   == [init : Nat, resp : Nat]
NoSession == [init |-> 0, resp |-> 0]

EpochSetType ==
    [current  : Session, age     : 0..(2 * RekeyInterval),
     next     : Session,
     previous : Session, prevAge : 0..Grace,
     rekey    : Nat,     rekeyAge : 0..HandshakeTotal]

(* EpochSet::new *)
NewEpochSet(s) ==
    [current  |-> s,         age      |-> 0,
     next     |-> NoSession,
     previous |-> NoSession, prevAge  |-> 0,
     rekey    |-> 0,         rekeyAge |-> 0]

(* The value of an EpochSet of a peer that has none. *)
NoEpochs == NewEpochSet(NoSession)

(* The sessions an inbound datagram is tried against, and those whose      *)
(* obfuscation key is a candidate (candidate_obf_keys).                    *)
Held(es) == {es.current, es.next, es.previous} \ {NoSession}

(* The switch that both promotions perform: the old current becomes the    *)
(* receive-only previous and its grace starts now.                         *)
SwitchTo(es, s) ==
    [es EXCEPT !.current = s, !.age = 0,
               !.previous = es.current, !.prevAge = 0]

(* inbound_open on a datagram sealed under s: only the responder's next    *)
(* changes the set (confirmed switch).  The in-flight rekey is untouched.  *)
InboundOpen(es, s) ==
    IF s # es.current /\ s = es.next
    THEN [SwitchTo(es, s) EXCEPT !.next = NoSession]
    ELSE es

(* promote_from_rekey: a pending next of the other direction is untouched. *)
PromoteFromRekey(es, s) == [SwitchTo(es, s) EXCEPT !.rekey = 0, !.rekeyAge = 0]

InstallNext(es, s) == [es EXCEPT !.next = s]

(* next_cached_resp_for: the round behind next is the one of this Init. *)
NextAnswers(es, eph) == es.next # NoSession /\ es.next.init = eph

(* Faulty variant: no grace. *)
RetireAtOnce(es) == [es EXCEPT !.previous = NoSession, !.prevAge = 0]

RetirePreviousIfDue(es) ==
    IF es.prevAge >= Grace
    THEN [es EXCEPT !.previous = NoSession, !.prevAge = 0]
    ELSE es

(* Faulty variants: no fallback for the glare loser; no back-off for it. *)
NeedsRekeyWinnerOnly(es, isGlareWinner) ==
    es.rekey = 0 /\ isGlareWinner /\ es.age >= RekeyInterval
NeedsRekeyNoBackoff(es, isGlareWinner) ==
    es.rekey = 0 /\ es.age >= RekeyInterval

NeedsRekey(es, isGlareWinner) ==
    /\ es.rekey = 0
    /\ es.age >= IF isGlareWinner THEN RekeyInterval ELSE 2 * RekeyInterval

StartRekey(es, eph) == [es EXCEPT !.rekey = eph, !.rekeyAge = 0]
AbandonRekey(es)    == [es EXCEPT !.rekey = 0, !.rekeyAge = 0]

(* One unit of time goes by for every stamp in the set. *)
Older(age, cap) == IF age < cap THEN age + 1 ELSE age

Aged(es) ==
    [es EXCEPT
       !.age      = Older(@, 2 * RekeyInterval),
       !.prevAge  = IF es.previous = NoSession THEN 0 ELSE Older(@, Grace),
       !.rekeyAge = IF es.rekey = 0 THEN 0 ELSE Older(@, HandshakeTotal)]
=============================================================================
