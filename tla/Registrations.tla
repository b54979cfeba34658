---------------------------- MODULE Registrations ----------------------------
(***************************************************************************)
(* The registrations of a rooted rendezvous server                         *)
(* (crates/yip-rendezvous/src/server.rs).  A signed record is its sequence *)
(* number, the time it was signed at.  The network keeps records for any   *)
(* time and delivers them again; the monotonic and the wall clock of the   *)
(* server advance together.                                                *)
(***************************************************************************)
EXTENDS Integers, FiniteSets

CONSTANTS
    Client,     \* nodes that register
    RegTtl,     \* REG_TTL_MS
    RegSkew,    \* REGISTRATION_SKEW_SECS
    MaxRegs,    \* MAX_REGISTRATIONS
    MaxNow      \* bound: the clock

VARIABLES
    now,
    regs,       \* registrations, live or not yet swept
    heard       \* history: the newest record of a node that was filed, and when

regVars == <<now, regs, heard>>

NoReg == [last_counter |-> -1, expiry |-> -1]

RegInit ==
    /\ now = 0
    /\ regs  = [n \in Client |-> NoReg]
    /\ heard = [n \in Client |-> [seq |-> -1, at |-> -1]]

Filed == {n \in Client : regs[n] # NoReg}

(* Records that may have been signed by now: a node signs at any time,     *)
(* with a clock that may be ahead (RegistrationSigner).                    *)
Signed == 0..(now + RegSkew)

verify_signed_record(s) == now - (RegTtl + RegSkew) <= s /\ s <= now + RegSkew

(* Faulty variant: whatever verifies is filed. *)
FreshAlways(reg, s) == TRUE

Fresh(reg, s) == ~(reg.expiry > now /\ s <= reg.last_counter)

HasRoom(n) == n \in Filed \/ Cardinality(Filed) < MaxRegs

(* handle, RegisterSigned, with register_if_fresh. *)
Register(n, s) ==
    /\ verify_signed_record(s) /\ Fresh(regs[n], s) /\ HasRoom(n)
    /\ regs'  = [regs EXCEPT ![n] = [last_counter |-> s, expiry |-> now + RegTtl]]
    /\ heard' = IF s > heard[n].seq
                THEN [heard EXCEPT ![n] = [seq |-> s, at |-> now]] ELSE heard
    /\ UNCHANGED now

(* sweep, on the timer of the socket loop. *)
Sweep ==
    /\ regs' = [n \in Client |-> IF regs[n].expiry > now THEN regs[n] ELSE NoReg]
    /\ UNCHANGED <<now, heard>>

Advance == now < MaxNow /\ now' = now + 1 /\ UNCHANGED <<regs, heard>>

RegNext ==
    \/ \E n \in Client, s \in Signed : Register(n, s)
    \/ Sweep \/ Advance

RegSpec == RegInit /\ [][RegNext]_regVars

-----------------------------------------------------------------------------
(* Properties *)

(* The server holds at most MAX_REGISTRATIONS, none of them longer than    *)
(* REG_TTL_MS (register_if_fresh, sweep).                                  *)
RegTypeOK ==
    /\ now \in 0..MaxNow
    /\ Cardinality(Filed) <= MaxRegs
    /\ \A n \in Client : regs[n] = NoReg \/ (regs[n].last_counter >= 0
                                             /\ regs[n].expiry \in 0..(now + RegTtl))

(* The newest record of a node that was filed stays the one that lookups   *)
(* are answered with for the whole lifetime of a registration, whatever    *)
(* older records still arrive and however the sweep falls                  *)
(* (register_if_fresh, sweep).                                             *)
NewestServed ==
    \A n \in Client :
      heard[n].seq >= 0 /\ now < heard[n].at + RegTtl =>
        regs[n].last_counter = heard[n].seq /\ regs[n].expiry > now
=============================================================================
