---------------------------- MODULE ReplayWindow ----------------------------
(***************************************************************************)
(* The anti-replay window of a Session (crates/yip-crypto/src/lib.rs): a   *)
(* ring of words of seen bits behind the latest counter, consulted and     *)
(* advanced by Session::open.  A word is the set of its bits.              *)
(***************************************************************************)
EXTENDS Integers

CONSTANTS
    WordBits,        \* 64
    StandardWords,   \* REPLAY_WORDS_STANDARD
    WideWords,       \* REPLAY_WORDS_HIGH_THROUGHPUT
    MaxCounter       \* bound: largest counter the peer seals

ASSUME WindowAssumption ==
    /\ WordBits \in Nat \ {0}
    /\ StandardWords \in Nat \ {0}
    /\ WideWords \in Nat /\ WideWords >= StandardWords
    /\ MaxCounter \in Nat

VARIABLES
    words,      \* length of the ring, which stands for the profile
    latest, started,
    bitmap,
    accepted,   \* the counters that were ever accepted
    again,      \* distances behind latest at which one was accepted again
    strayed,    \* one was accepted from the slot of the newest word
    born        \* the profile the window was created with

vars == <<words, latest, started, bitmap, accepted, again, strayed, born>>

Counter == 0..MaxCounter
Profile == {StandardWords, WideWords}

Word(c) == c \div WordBits
Bit(c)  == c % WordBits

(* words is a power of two, so word & (words - 1) is word % words. *)
Slot(w, size) == w % size

(* Past counters tracked by a ring of that size (ReplayProfile::bits). *)
Bits(size) == size * WordBits

(* new_with_profile *)
Init ==
    /\ born \in Profile
    /\ words    = born
    /\ latest   = 0
    /\ started  = FALSE
    /\ bitmap   = [i \in 0..(words - 1) |-> {}]
    /\ accepted = {}
    /\ again    = {}
    /\ strayed  = FALSE

(* Faulty variant: the far edge of the window is not looked up. *)
CheckNearOnly(c) ==
    \/ ~started
    \/ c > latest
    \/ /\ latest - c < Bits(words)
       /\ \/ Bit(c) \notin bitmap[Slot(Word(c), words)]
          \/ latest - c >= Bits(words) - WordBits

Check(c) ==
    \/ ~started
    \/ c > latest
    \/ /\ latest - c < Bits(words)
       /\ Bit(c) \notin bitmap[Slot(Word(c), words)]

Mark(bm, c) == [bm EXCEPT ![Slot(Word(c), words)] = @ \cup {Bit(c)}]

(* Faulty variant: the words that were jumped over keep their old bits. *)
OvertakenLast(c) ==
    IF c - latest >= Bits(words) THEN 0..(words - 1)
    ELSE IF Word(c) > Word(latest) THEN {Slot(Word(c), words)} ELSE {}

(* The slots an advance of latest to c clears: all after a leap of a whole *)
(* window, otherwise those of the words entered.                           *)
Overtaken(c) ==
    IF c - latest >= Bits(words) THEN 0..(words - 1)
    ELSE {Slot(w, words) : w \in (Word(latest) + 1)..Word(c)}

Commit(c) ==
    /\ started' = TRUE
    /\ latest'  = IF started /\ c <= latest THEN latest ELSE c
    /\ bitmap'  =
         IF ~started THEN Mark([i \in 0..(words - 1) |-> {}], c)
         ELSE IF c > latest
         THEN Mark([i \in 0..(words - 1) |->
                      IF i \in Overtaken(c) THEN {} ELSE bitmap[i]], c)
         ELSE IF latest - c < Bits(words) THEN Mark(bitmap, c)
         ELSE bitmap

(* Session::open of a frame that authenticates. *)
Open(c) ==
    /\ Check(c)
    /\ Commit(c)
    /\ accepted' = accepted \cup {c}
    /\ again'    = IF c \in accepted THEN again \cup {latest - c} ELSE again
    /\ strayed' = (strayed \/ (started /\ Word(latest) - Word(c) = words))
    /\ UNCHANGED <<words, born>>

(* Session::open of a frame that Check refuses or that is not authentic. *)
Refuse == UNCHANGED vars

(* promote_to_high_throughput: the words of the old ring move to their     *)
(* slots of the wide one, whose other words are clear.                     *)
Promote ==
    /\ words # WideWords
    /\ words'  = WideWords
    /\ bitmap' =
         LET first == IF Word(latest) < words THEN 0 ELSE Word(latest) - (words - 1)
             kept  == IF started THEN first..Word(latest) ELSE {}
         IN [i \in 0..(WideWords - 1) |->
               UNION {bitmap[Slot(w, words)] :
                        w \in {k \in kept : Slot(k, WideWords) = i}}]
    /\ UNCHANGED <<latest, started, accepted, again, strayed, born>>

Next == Promote \/ Refuse \/ \E c \in Counter : Open(c)

Spec == Init /\ [][Next]_vars

-----------------------------------------------------------------------------
(* Properties *)

TypeOK ==
    /\ words \in Profile /\ born \in Profile
    /\ latest \in Counter
    /\ started \in BOOLEAN
    /\ bitmap \in [0..(words - 1) -> SUBSET (0..(WordBits - 1))]
    /\ accepted \in SUBSET Counter
    /\ again \in SUBSET Int
    /\ strayed \in BOOLEAN

(* A counter is accepted a second time only when it is more than all but   *)
(* one word of the window behind: over every jump, reordering and          *)
(* promotion, commit clears no word that check still has to consult, the   *)
(* oldest, which shares its slot with the newest, excepted.                *)
ReplayFarOnly == \A d \in again : d > Bits(born - 1)

(* While no frame came so late that it shared its slot with the newest     *)
(* word, a counter inside the window is refused only if it was accepted:   *)
(* no word is left uncleared by a jump or a promotion to refuse a late but *)
(* new frame (commit, promote_to_high_throughput).                         *)
RefusedIsSeen ==
    ~strayed =>
      \A c \in Counter : (~Check(c) /\ latest - c < Bits(words)) => c \in accepted
=============================================================================
