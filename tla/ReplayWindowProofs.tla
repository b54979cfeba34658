------------------------- MODULE ReplayWindowProofs -------------------------
(***************************************************************************)
(* What the replay window promises, for every word size, ring size and     *)
(* counter.                                                                *)
(***************************************************************************)
EXTENDS ReplayWindow, TLAPS

(* Every accepted counter of the words tracked since creation has its bit  *)
(* in the ring.                                                            *)
Remembered ==
    /\ words >= born /\ (words = born \/ words = WideWords)
    /\ ~started => accepted = {}
    /\ \A c \in accepted :
         /\ c <= latest
         /\ Word(latest) - Word(c) < born => Bit(c) \in bitmap[Slot(Word(c), words)]

-----------------------------------------------------------------------------
(* Arithmetic of words and slots *)

LEMMA WordFacts ==
    ASSUME NEW c \in Nat
    PROVE  /\ Word(c) \in Nat /\ Bit(c) \in 0..(WordBits - 1)
           /\ c = WordBits * Word(c) + Bit(c)
BY WindowAssumption DEF Word, Bit

LEMMA SlotType ==
    ASSUME NEW w \in Nat, NEW size \in Nat \ {0}
    PROVE  Slot(w, size) \in 0..(size - 1)
BY DEF Slot

(* Words closer together than the ring is long have slots of their own. *)
LEMMA SlotDistinct ==
    ASSUME NEW v \in Nat, NEW w \in Nat, NEW size \in Nat \ {0},
           v < w, w - v < size
    PROVE  Slot(v, size) # Slot(w, size)
<1> SUFFICES ASSUME v % size = w % size
             PROVE  FALSE
  BY DEF Slot
<1>1. v = size * (v \div size) + (v % size) /\ w = size * (w \div size) + (w % size)
  OBVIOUS
<1>2. v \div size \in Nat /\ w \div size \in Nat
  OBVIOUS
<1> DEFINE p == v \div size
           q == w \div size
<1>3. w - v = size * (q - p)
  BY <1>1, <1>2
<1> HIDE DEF p, q
<1>4. p \in Nat /\ q \in Nat
  BY <1>2 DEF p, q
<1>5. q - p >= 1
  BY <1>3, <1>4
<1>6. size * (q - p) >= size
  BY <1>4, <1>5
<1> QED BY <1>3, <1>6

(* Distances in words and in counters. *)
LEMMA WordOrder ==
    ASSUME NEW c \in Nat, NEW d \in Nat, c <= d
    PROVE  Word(c) <= Word(d)
<1>1. /\ Word(c) \in Nat /\ Bit(c) \in 0..(WordBits - 1)
      /\ c = WordBits * Word(c) + Bit(c)
  BY WordFacts
<1>2. /\ Word(d) \in Nat /\ Bit(d) \in 0..(WordBits - 1)
      /\ d = WordBits * Word(d) + Bit(d)
  BY WordFacts
<1>3. ASSUME NEW x \in Nat, NEW y \in Nat, y < x
      PROVE  WordBits * x >= WordBits * y + WordBits
  BY <1>3, WindowAssumption
<1> QED BY <1>1, <1>2, <1>3, WindowAssumption

LEMMA FarWord ==
    ASSUME NEW c \in Nat, NEW d \in Nat, NEW k \in Nat \ {0}
    PROVE  /\ Word(d) - Word(c) >= k => d - c > Bits(k - 1)
           /\ d - c >= Bits(k) => Word(d) - Word(c) >= k
<1>1. /\ Word(c) \in Nat /\ Bit(c) \in 0..(WordBits - 1)
      /\ c = WordBits * Word(c) + Bit(c)
  BY WordFacts
<1>2. /\ Word(d) \in Nat /\ Bit(d) \in 0..(WordBits - 1)
      /\ d = WordBits * Word(d) + Bit(d)
  BY WordFacts
<1>3. WordBits \in Nat \ {0}
  BY WindowAssumption
<1>4. PICK x \in Int : x = Word(d) - Word(c)
  BY <1>1, <1>2
<1>5. d - c = WordBits * x + (Bit(d) - Bit(c))
  <2>1. ASSUME NEW a \in Int, NEW b \in Int, NEW e \in Int
        PROVE  a * (b - e) = a * b - a * e
    OBVIOUS
  <2>2. WordBits * x = WordBits * Word(d) - WordBits * Word(c)
    BY <1>1, <1>2, <1>3, <1>4, <2>1
  <2>3. WordBits * Word(d) \in Int /\ WordBits * Word(c) \in Int
    BY <1>1, <1>2, <1>3
  <2> QED BY <1>1, <1>2, <2>2, <2>3
<1>6. Bits(k) = WordBits * k /\ Bits(k - 1) = WordBits * k - WordBits
  BY <1>3 DEF Bits
<1>7. x >= k => WordBits * x >= WordBits * k
  BY <1>3, <1>4
<1>8. x < k => WordBits * x <= WordBits * k - WordBits
  BY <1>3, <1>4
<1>9. WordBits * x \in Int /\ WordBits * k \in Int
  BY <1>3, <1>4
<1>10. CASE x >= k
  BY <1>1, <1>2, <1>3, <1>4, <1>5, <1>6, <1>7, <1>9, <1>10
<1>11. CASE x < k
  BY <1>1, <1>2, <1>3, <1>4, <1>5, <1>6, <1>8, <1>9, <1>11
<1> QED BY <1>4, <1>10, <1>11

-----------------------------------------------------------------------------
(* Typing *)

LEMMA Sizes ==
    ASSUME TypeOK
    PROVE  /\ words \in Nat \ {0} /\ born \in Nat \ {0}
           /\ latest \in Nat /\ Counter \subseteq Nat
           /\ StandardWords \in Nat \ {0} /\ WideWords \in Nat \ {0}
BY WindowAssumption DEF TypeOK, Profile, Counter

LEMMA MarkType ==
    ASSUME TypeOK, NEW c \in Counter,
           NEW bm \in [0..(words - 1) -> SUBSET (0..(WordBits - 1))]
    PROVE  /\ Mark(bm, c) \in [0..(words - 1) -> SUBSET (0..(WordBits - 1))]
           /\ \A i \in 0..(words - 1) :
                Mark(bm, c)[i] = IF i = Slot(Word(c), words)
                                 THEN bm[i] \cup {Bit(c)} ELSE bm[i]
<1>1. Word(c) \in Nat /\ Bit(c) \in 0..(WordBits - 1)
  BY Sizes, WordFacts
<1>2. Slot(Word(c), words) \in 0..(words - 1)
  <2>1. words \in Nat \ {0}
    BY Zenon, Sizes
  <2> QED BY Zenon, <1>1, <2>1, SlotType
<1> QED BY Zenon, <1>1, <1>2 DEF Mark

(* What an accepted counter does to the ring. *)
Cleared(c) ==
    IF ~started THEN [i \in 0..(words - 1) |-> {}]
    ELSE IF c > latest
    THEN [i \in 0..(words - 1) |-> IF i \in Overtaken(c) THEN {} ELSE bitmap[i]]
    ELSE bitmap

LEMMA OpenFacts ==
    ASSUME TypeOK, NEW c \in Counter, Open(c)
    PROVE  /\ bitmap' = Mark(Cleared(c), c)
           /\ Cleared(c) \in [0..(words - 1) -> SUBSET (0..(WordBits - 1))]
           /\ latest' = IF started /\ c <= latest THEN latest ELSE c
           /\ started' /\ words' = words /\ born' = born
           /\ accepted' = accepted \cup {c}
<1>1. c \in Nat /\ latest \in Nat
  BY Sizes
<1>2. (started /\ ~(c > latest)) => latest - c < Bits(words)
  BY DEF Open, Check
<1>3. bitmap' = Mark(Cleared(c), c)
  BY <1>1, <1>2 DEF Open, Commit, Cleared
<1>4. Cleared(c) \in [0..(words - 1) -> SUBSET (0..(WordBits - 1))]
  BY DEF Cleared, TypeOK
<1> QED BY <1>3, <1>4 DEF Open, Commit

LEMMA TypeInit == Init => TypeOK
<1> SUFFICES ASSUME Init
             PROVE  TypeOK
  OBVIOUS
<1>1. bitmap \in [0..(words - 1) -> SUBSET (0..(WordBits - 1))]
  BY DEF Init
<1>2. 0 \in Counter
  BY WindowAssumption DEF Counter
<1> QED BY Zenon, <1>1, <1>2 DEF Init, TypeOK

LEMMA TypeStep ==
    ASSUME TypeOK, Next
    PROVE  TypeOK'
<1>1. ASSUME NEW c \in Counter, Open(c)
      PROVE  TypeOK'
  <2>1. latest' \in Counter /\ started' \in BOOLEAN
    BY Zenon, <1>1, OpenFacts DEF TypeOK
  <2>2. bitmap' \in [0..(words' - 1) -> SUBSET (0..(WordBits - 1))]
    BY <1>1, OpenFacts, MarkType
  <2>3. again' \in SUBSET Int
    <3>1. latest - c \in Int
      BY Sizes
    <3> QED BY Zenon, <1>1, <3>1 DEF Open, TypeOK
  <2>4. strayed' \in BOOLEAN
    BY <1>1 DEF Open, TypeOK
  <2> QED BY <1>1, <2>1, <2>2, <2>3, <2>4 DEF Open, TypeOK
<1>2. CASE Promote
  <2>1. words' \in Profile
    BY <1>2 DEF Promote, Profile
  <2>2. \A w \in Nat : bitmap[Slot(w, words)] \subseteq 0..(WordBits - 1)
    BY Zenon, Sizes, SlotType DEF TypeOK
  <2>3. DEFINE first == IF Word(latest) < words THEN 0 ELSE Word(latest) - (words - 1)
               kept  == IF started THEN first..Word(latest) ELSE {}
  <2>4. kept \subseteq Nat
    BY Sizes, WordFacts
  <2> HIDE DEF kept
  <2>5. \A i \in 0..(WideWords - 1) :
          UNION {bitmap[Slot(w, words)] :
                   w \in {k \in kept : Slot(k, WideWords) = i}} \in SUBSET (0..(WordBits - 1))
    BY Zenon, <2>2, <2>4
  <2>6. bitmap' = [i \in 0..(WideWords - 1) |->
                     UNION {bitmap[Slot(w, words)] :
                              w \in {k \in kept : Slot(k, WideWords) = i}}]
    BY <1>2 DEF Promote, kept
  <2>7. bitmap' \in [0..(WideWords - 1) -> SUBSET (0..(WordBits - 1))]
    BY <2>5, <2>6
  <2> QED BY <1>2, <2>1, <2>7 DEF Promote, TypeOK
<1>3. CASE Refuse
  BY <1>3 DEF Refuse, vars, TypeOK
<1> QED BY <1>1, <1>2, <1>3 DEF Next

-----------------------------------------------------------------------------
(* No counter is forgotten early *)

LEMMA RememberedInit == Init => Remembered
BY WindowAssumption DEF Init, Remembered, Profile

(* The word of an accepted counter that stays tracked is not overtaken. *)
LEMMA NotOvertaken ==
    ASSUME TypeOK, started, NEW c \in Counter, c > latest,
           NEW v \in Nat, v <= Word(latest), Word(c) - v < words
    PROVE  Slot(v, words) \notin Overtaken(c)
<1>1. /\ c \in Nat /\ latest \in Nat /\ Word(c) \in Nat /\ Word(latest) \in Nat
      /\ words \in Nat \ {0}
  BY Sizes, WordFacts
<1>2. c - latest < Bits(words)
  <2> SUFFICES ASSUME ~(c - latest < Bits(words))
               PROVE  FALSE
    OBVIOUS
  <2>0. Bits(words) \in Nat
    BY <1>1, WindowAssumption DEF Bits
  <2>1. Word(c) - Word(latest) >= words
    BY <1>1, <2>0, FarWord
  <2> QED BY <1>1, <2>1
<1>3. \A w \in (Word(latest) + 1)..Word(c) : Slot(v, words) # Slot(w, words)
  BY <1>1, SlotDistinct
<1>4. ~(c - latest >= Bits(words))
  <2>0. Bits(words) \in Nat
    BY <1>1, WindowAssumption DEF Bits
  <2> QED BY <1>1, <1>2, <2>0
<1> QED BY <1>3, <1>4 DEF Overtaken

LEMMA RememberedOpen ==
    ASSUME TypeOK, Remembered, NEW c \in Counter, Open(c)
    PROVE  Remembered'
<1>a. /\ bitmap' = Mark(Cleared(c), c)
      /\ Cleared(c) \in [0..(words - 1) -> SUBSET (0..(WordBits - 1))]
      /\ latest' = IF started /\ c <= latest THEN latest ELSE c
      /\ started' /\ words' = words /\ born' = born
      /\ accepted' = accepted \cup {c}
  BY OpenFacts
<1>b. \A i \in 0..(words - 1) :
        bitmap'[i] = IF i = Slot(Word(c), words)
                     THEN Cleared(c)[i] \cup {Bit(c)} ELSE Cleared(c)[i]
  BY Zenon, <1>a, MarkType
<1>1. /\ c \in Nat /\ latest \in Nat /\ Word(c) \in Nat /\ Word(latest) \in Nat
      /\ words \in Nat \ {0} /\ born \in Nat \ {0} /\ words >= born
      /\ c <= latest' /\ latest' \in Nat
  <2>1. c \in Nat /\ latest \in Nat
    BY Sizes
  <2>2. c <= latest' /\ latest' \in Nat
    BY <1>a, <2>1
  <2> QED BY <2>1, <2>2, Sizes, WordFacts DEF Remembered
<1>2. Bit(c) \in bitmap'[Slot(Word(c), words)]
  BY Zenon, <1>1, <1>b, SlotType
<1>3. ASSUME NEW d \in accepted
      PROVE  /\ d <= latest'
             /\ Word(latest') - Word(d) < born
                  => Bit(d) \in bitmap'[Slot(Word(d), words)]
  <2>1. started /\ d \in Nat /\ d <= latest /\ Word(d) \in Nat
    BY Zenon, Sizes, WordFacts DEF TypeOK, Remembered
  <2>2. Slot(Word(d), words) \in 0..(words - 1)
    BY <1>1, <2>1, SlotType
  <2>3. Word(d) <= Word(latest)
    BY <1>1, <2>1, WordOrder
  <2>4. CASE c <= latest
    <3>1. Cleared(c) = bitmap /\ latest' = latest
      BY <1>1, <1>a, <2>1, <2>4 DEF Cleared
    <3> QED BY Zenon, <1>b, <2>1, <2>2, <3>1 DEF Remembered
  <2>5. CASE c > latest
    <3>1. latest' = c
      BY <1>1, <1>a, <2>1, <2>5
    <3>2. ASSUME Word(c) - Word(d) < born
          PROVE  Bit(d) \in bitmap'[Slot(Word(d), words)]
      <4>0. Word(latest) <= Word(c)
        BY <1>1, <2>5, WordOrder
      <4>1. Slot(Word(d), words) \notin Overtaken(c)
        BY <1>1, <2>1, <2>3, <2>5, <3>2, NotOvertaken
      <4>2. Bit(d) \in bitmap[Slot(Word(d), words)]
        BY <1>1, <2>1, <2>3, <3>2, <4>0 DEF Remembered
      <4>3. Cleared(c)[Slot(Word(d), words)] = bitmap[Slot(Word(d), words)]
        BY <2>1, <2>2, <2>5, <4>1 DEF Cleared
      <4> QED BY Zenon, <1>b, <2>2, <4>2, <4>3
    <3> QED BY <1>1, <2>1, <2>5, <3>1, <3>2
  <2> QED BY <1>1, <2>1, <2>4, <2>5
<1> QED BY <1>a, <1>1, <1>2, <1>3 DEF Remembered

LEMMA RememberedPromote ==
    ASSUME TypeOK, Remembered, Promote
    PROVE  Remembered'
<1>1. /\ latest \in Nat /\ Word(latest) \in Nat /\ words \in Nat \ {0}
      /\ words = born /\ WideWords \in Nat \ {0} /\ WideWords >= born
  BY Zenon, Sizes, WordFacts, WindowAssumption DEF Remembered, Promote, TypeOK, Profile
<1>2. ASSUME NEW d \in accepted, Word(latest) - Word(d) < born
      PROVE  Bit(d) \in bitmap'[Slot(Word(d), WideWords)]
  <2>1. started /\ d \in Nat /\ d <= latest /\ Word(d) \in Nat
    BY Zenon, Sizes, WordFacts DEF TypeOK, Remembered
  <2>2. Word(d) <= Word(latest)
    BY <1>1, <2>1, WordOrder
  <2> DEFINE first == IF Word(latest) < words THEN 0 ELSE Word(latest) - (words - 1)
             kept  == IF started THEN first..Word(latest) ELSE {}
  <2>3. Word(d) \in kept
    BY <1>1, <1>2, <2>1, <2>2
  <2> HIDE DEF kept
  <2>4. bitmap' = [i \in 0..(WideWords - 1) |->
                     UNION {bitmap[Slot(w, words)] :
                              w \in {k \in kept : Slot(k, WideWords) = i}}]
    BY DEF Promote, kept
  <2>5. Slot(Word(d), WideWords) \in 0..(WideWords - 1)
    BY <1>1, <2>1, SlotType
  <2>6. Bit(d) \in bitmap[Slot(Word(d), words)]
    BY <1>2 DEF Remembered
  <2> QED BY <2>3, <2>4, <2>5, <2>6
<1>3. words' = WideWords /\ born' = born /\ latest' = latest /\ started' = started
      /\ accepted' = accepted
  BY DEF Promote
<1> QED BY <1>1, <1>2, <1>3 DEF Remembered

LEMMA FarOnlyStep ==
    ASSUME TypeOK, Remembered, ReplayFarOnly, Next
    PROVE  ReplayFarOnly'
<1>1. ASSUME NEW c \in Counter, Open(c), c \in accepted
      PROVE  latest - c > Bits(born - 1)
  <2>1. /\ c \in Nat /\ latest \in Nat /\ started /\ c <= latest
        /\ Word(c) \in Nat /\ Word(latest) \in Nat /\ born \in Nat \ {0}
    BY <1>1, Sizes, WordFacts DEF Remembered
  <2>2. Bit(c) \notin bitmap[Slot(Word(c), words)]
    BY <1>1, <2>1 DEF Open, Check
  <2>3. Word(latest) - Word(c) >= born
    BY <1>1, <2>1, <2>2 DEF Remembered
  <2> QED BY <2>1, <2>3, FarWord
<1> QED BY <1>1 DEF Next, Open, Promote, Refuse, vars, ReplayFarOnly

-----------------------------------------------------------------------------
(* The theorems *)

SeenInv == TypeOK /\ Remembered /\ ReplayFarOnly

LEMMA SeenStep == SeenInv /\ [Next]_vars => SeenInv'
<1> SUFFICES ASSUME SeenInv, [Next]_vars
             PROVE  SeenInv'
  OBVIOUS
<1> USE DEF SeenInv
<1>1. CASE Next
  <2>1. Remembered'
    <3>1. CASE Refuse
      BY <3>1 DEF Refuse, vars, Remembered
    <3> QED BY <1>1, <3>1, RememberedOpen, RememberedPromote DEF Next
  <2> QED BY <1>1, <2>1, TypeStep, FarOnlyStep
<1>2. CASE UNCHANGED vars
  BY <1>2 DEF vars, TypeOK, Remembered, ReplayFarOnly
<1> QED BY <1>1, <1>2

(* Over every history of jumps, late frames and promotions, Session::open  *)
(* accepts a counter again only when it is more than all but one word of   *)
(* the window behind the latest.                                           *)
THEOREM NeverReplayedNear == Spec => []ReplayFarOnly
<1>1. Init => SeenInv
  BY TypeInit, RememberedInit DEF Init, SeenInv, ReplayFarOnly
<1>2. SeenInv => ReplayFarOnly
  BY DEF SeenInv
<1> QED BY <1>1, <1>2, SeenStep, PTL DEF Spec

-----------------------------------------------------------------------------
(* No counter is remembered that was not accepted *)

Honest ==
    /\ ~started => \A i \in 0..(words - 1) : bitmap[i] = {}
    /\ (started /\ ~strayed) =>
         \A w \in Nat : (w <= Word(latest) /\ Word(latest) - w < words) =>
           \A b \in bitmap[Slot(w, words)] : WordBits * w + b \in accepted

LEMMA SlotWraps ==
    ASSUME NEW w \in Nat, NEW size \in Nat \ {0}
    PROVE  Slot(w + size, size) = Slot(w, size)
<1> DEFINE q == w \div size
           r == w % size
           p == (w + size) \div size
           t == (w + size) % size
<1>1. q \in Nat /\ r \in 0..(size - 1) /\ w = size * q + r
  OBVIOUS
<1>2. p \in Nat /\ t \in 0..(size - 1) /\ w + size = size * p + t
  OBVIOUS
<1> HIDE DEF p, q, r, t
<1>3. size * p \in Nat /\ size * q \in Nat
  BY <1>1, <1>2
<1>4. \A x, y \in Nat : x < y => size * x + size <= size * y
  OBVIOUS
<1>5. size * (q + 1) = size * q + size
  BY <1>1
<1>6. ~(p < q + 1) /\ ~(q + 1 < p)
  BY <1>1, <1>2, <1>3, <1>4, <1>5
<1>7. p = q + 1
  BY <1>1, <1>2, <1>6
<1>8. r = t
  BY <1>1, <1>2, <1>3, <1>5, <1>7
<1> QED BY <1>8 DEF Slot, r, t

LEMMA SlotInjective ==
    ASSUME NEW v \in Nat, NEW w \in Nat, NEW size \in Nat \ {0},
           Slot(v, size) = Slot(w, size), v - w < size, w - v < size
    PROVE  v = w
BY SlotDistinct

LEMMA HonestOpen ==
    ASSUME TypeOK, Remembered, Honest, NEW c \in Counter, Open(c)
    PROVE  Honest'
<1>a. /\ bitmap' = Mark(Cleared(c), c)
      /\ Cleared(c) \in [0..(words - 1) -> SUBSET (0..(WordBits - 1))]
      /\ latest' = IF started /\ c <= latest THEN latest ELSE c
      /\ started' /\ words' = words
      /\ accepted' = accepted \cup {c}
  BY OpenFacts
<1>b. \A i \in 0..(words - 1) :
        bitmap'[i] = IF i = Slot(Word(c), words)
                     THEN Cleared(c)[i] \cup {Bit(c)} ELSE Cleared(c)[i]
  BY Zenon, <1>a, MarkType
<1>c. c \in Nat /\ latest \in Nat /\ words \in Nat \ {0}
  BY Sizes
<1>d. /\ Word(c) \in Nat /\ Word(latest) \in Nat
      /\ c = WordBits * Word(c) + Bit(c)
  BY <1>c, WordFacts
<1> SUFFICES ASSUME ~strayed', NEW w \in Nat,
                    w <= Word(latest'), Word(latest') - w < words,
                    NEW b \in bitmap'[Slot(w, words)]
             PROVE  WordBits * w + b \in accepted'
  BY <1>a DEF Honest
<1>1. ~strayed /\ ~(started /\ Word(latest) - Word(c) = words)
  BY Zenon DEF Open
<1>2. Slot(w, words) \in 0..(words - 1)
  BY <1>c, SlotType
<1>3. /\ Word(c) <= Word(latest')
      /\ Word(latest') - Word(c) < words
  <2>1. CASE started /\ c <= latest
    <3>1. latest' = latest /\ Word(c) <= Word(latest)
      BY <1>a, <1>c, <2>1, WordOrder
    <3>2. latest - c < Bits(words)
      BY <1>c, <2>1 DEF Open, Check
    <3>3. words + 1 \in Nat \ {0} /\ Bits((words + 1) - 1) = Bits(words) /\ Bits(words) \in Nat
      BY <1>c, WindowAssumption DEF Bits
    <3>4. ~(Word(latest) - Word(c) >= words + 1)
      BY <1>c, <3>2, <3>3, FarWord
    <3> QED BY <1>1, <1>c, <1>d, <2>1, <3>1, <3>4
  <2>2. CASE ~(started /\ c <= latest)
    BY <1>a, <1>c, <1>d, <2>2
  <2> QED BY <2>1, <2>2
<1>4. CASE w = Word(c) /\ b = Bit(c)
  BY <1>4, <1>a, <1>d
<1>5. CASE ~(w = Word(c) /\ b = Bit(c))
  <2>1. b \in Cleared(c)[Slot(w, words)]
    <3>0. Word(latest') \in Nat
      BY <1>a, <1>d
    <3>1. Slot(w, words) = Slot(Word(c), words) => w = Word(c)
      <4>1. Word(c) - w < words /\ w - Word(c) < words
        BY <1>3, <1>c, <1>d, <3>0
      <4> QED BY <1>c, <1>d, <4>1, SlotInjective
    <3> QED BY Zenon, <1>2, <1>5, <1>b, <3>1
  <2>2. started
    BY <1>2, <2>1 DEF Cleared
  <2>3. CASE c <= latest
    BY <1>1, <1>a, <1>c, <2>1, <2>2, <2>3 DEF Cleared, Honest
  <2>4. CASE c > latest
    <3>1. latest' = c /\ Word(latest) <= Word(c)
      BY <1>a, <1>c, <2>2, <2>4, WordOrder
    <3>2. Slot(w, words) \notin Overtaken(c) /\ b \in bitmap[Slot(w, words)]
      BY <1>2, <2>1, <2>2, <2>4 DEF Cleared
    <3>3. w <= Word(latest)
      <4> SUFFICES ASSUME w \in (Word(latest) + 1)..Word(c)
                   PROVE  FALSE
        BY <1>d, <3>1
      <4> QED BY <1>2, <3>2 DEF Overtaken
    <3>4. Word(latest) - w < words
      BY <1>c, <1>d, <3>1
    <3> QED BY <1>1, <1>a, <2>2, <3>2, <3>3, <3>4 DEF Honest
  <2> QED BY <1>c, <2>3, <2>4
<1> QED BY <1>4, <1>5

LEMMA HonestPromote ==
    ASSUME TypeOK, Remembered, Honest, Promote
    PROVE  Honest'
<1>1. /\ latest \in Nat /\ Word(latest) \in Nat /\ words \in Nat \ {0}
      /\ WideWords \in Nat \ {0} /\ WideWords >= words
  <2>1. WideWords >= words
    BY WindowAssumption DEF TypeOK, Profile
  <2> QED BY <2>1, Sizes, WordFacts
<1> DEFINE first == IF Word(latest) < words THEN 0 ELSE Word(latest) - (words - 1)
           kept  == IF started THEN first..Word(latest) ELSE {}
<1>2. \A k \in kept : started /\ k \in Nat /\ k <= Word(latest) /\ Word(latest) - k < words
  BY <1>1
<1>3. ~started => kept = {}
  OBVIOUS
<1> HIDE DEF kept
<1>4. bitmap' = [i \in 0..(WideWords - 1) |->
                   UNION {bitmap[Slot(w, words)] :
                            w \in {k \in kept : Slot(k, WideWords) = i}}]
  BY DEF Promote, kept
<1>5. words' = WideWords /\ latest' = latest /\ started' = started
      /\ accepted' = accepted /\ strayed' = strayed
  BY DEF Promote
<1>6. ASSUME ~started, NEW i \in 0..(WideWords - 1)
      PROVE  bitmap'[i] = {}
  BY <1>3, <1>4, <1>6
<1>7. ASSUME started, ~strayed, NEW w \in Nat,
             w <= Word(latest), Word(latest) - w < WideWords,
             NEW b \in bitmap'[Slot(w, WideWords)]
      PROVE  WordBits * w + b \in accepted
  <2>1. Slot(w, WideWords) \in 0..(WideWords - 1)
    BY <1>1, SlotType
  <2>2. PICK k \in kept : Slot(k, WideWords) = Slot(w, WideWords)
                          /\ b \in bitmap[Slot(k, words)]
    BY <1>4, <1>7, <2>1
  <2>3. k \in Nat /\ k <= Word(latest) /\ Word(latest) - k < words
    BY <1>2
  <2>4. k = w
    BY <1>1, <1>7, <2>2, <2>3, SlotInjective
  <2> QED BY <1>7, <2>2, <2>3, <2>4 DEF Honest
<1> QED BY <1>5, <1>6, <1>7 DEF Honest

LEMMA HonestRefuses ==
    ASSUME TypeOK, Remembered, Honest
    PROVE  RefusedIsSeen
<1> SUFFICES ASSUME ~strayed, NEW c \in Counter, ~Check(c), latest - c < Bits(words)
             PROVE  c \in accepted
  BY DEF RefusedIsSeen
<1>1. /\ c \in Nat /\ latest \in Nat /\ words \in Nat \ {0} /\ started /\ c <= latest
      /\ Bit(c) \in bitmap[Slot(Word(c), words)]
  BY Sizes DEF Check
<1>2. /\ Word(c) \in Nat /\ Bit(c) \in 0..(WordBits - 1)
      /\ c = WordBits * Word(c) + Bit(c)
  BY <1>1, WordFacts
<1>3. /\ Word(latest) \in Nat /\ Bit(latest) \in 0..(WordBits - 1)
      /\ latest = WordBits * Word(latest) + Bit(latest)
  BY <1>1, WordFacts
<1>4. Word(c) <= Word(latest)
  BY <1>1, WordOrder
<1>5. CASE Word(latest) - Word(c) < words
  BY <1>1, <1>2, <1>4, <1>5 DEF Honest
<1>6. CASE Word(latest) - Word(c) = words
  <2>1. Word(latest) = Word(c) + words
    BY <1>1, <1>2, <1>3, <1>6
  <2>2. Slot(Word(latest), words) = Slot(Word(c), words)
    BY <1>1, <1>2, <2>1, SlotWraps
  <2>3. WordBits * Word(latest) + Bit(c) \in accepted
    BY <1>1, <1>3, <2>2 DEF Honest
  <2>4. WordBits * Word(latest) + Bit(c) <= latest
    BY <2>3 DEF Remembered
  <2>5. WordBits * Word(latest) = WordBits * Word(c) + Bits(words)
    BY <1>1, <1>2, <2>1, WindowAssumption DEF Bits
  <2>6. WordBits * Word(c) \in Nat /\ Bits(words) \in Nat
    BY <1>1, <1>2, WindowAssumption DEF Bits
  <2> QED BY <1>1, <1>2, <1>3, <2>4, <2>5, <2>6
<1>7. CASE Word(latest) - Word(c) > words
  <2>1. words + 1 \in Nat \ {0} /\ Bits((words + 1) - 1) = Bits(words) /\ Bits(words) \in Nat
    BY <1>1, WindowAssumption DEF Bits
  <2>2. Word(latest) - Word(c) >= words + 1
    BY <1>1, <1>2, <1>3, <1>7
  <2> QED BY <1>1, <2>1, <2>2, FarWord
<1> QED BY <1>1, <1>2, <1>3, <1>5, <1>6, <1>7

(* Until a frame is accepted out of the newest word's slot, Session::open  *)
(* refuses no counter of the window that it did not accept before: a late  *)
(* frame is not lost to a stale bit.                                       *)
THEOREM RefusesOnlySeen == Spec => []RefusedIsSeen
<1> DEFINE Inv == SeenInv /\ Honest
<1>1. Init => Inv
  BY TypeInit, RememberedInit DEF Init, SeenInv, ReplayFarOnly, Honest
<1>2. Inv /\ [Next]_vars => Inv'
  <2> SUFFICES ASSUME SeenInv, Honest, [Next]_vars
               PROVE  Honest'
    BY SeenStep
  <2>1. CASE UNCHANGED vars
    BY <2>1 DEF vars, Honest
  <2>2. CASE Next
    <3>1. CASE Refuse
      BY <2>1, <3>1 DEF Refuse
    <3> QED BY <2>2, <3>1, HonestOpen, HonestPromote DEF Next, SeenInv
  <2> QED BY <2>1, <2>2
<1>3. Inv => RefusedIsSeen
  BY HonestRefuses DEF SeenInv
<1> QED BY <1>1, <1>2, <1>3, PTL DEF Spec
=============================================================================
