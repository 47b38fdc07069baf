------------------------------ MODULE LruFacts ------------------------------
(***************************************************************************)
(* What the list operations of module Lru do to a list without repeats:    *)
(* facts for the proofs about the cache and about the readers that use it. *)
(***************************************************************************)
EXTENDS Lru, FiniteSetTheorems, TLAPS

\* A move to the front permutes a list: its length, its elements and their
\* being distinct are kept.
LEMMA MoveToFrontFacts ==
    ASSUME NEW K, NEW s \in Seq(K), NoRepeats(s), NEW k \in Elements(s)
    PROVE  LET t == MoveToFront(s, k)
           IN /\ t \in Seq(K) /\ Len(t) = Len(s) /\ NoRepeats(t)
              /\ Elements(t) = Elements(s)
              /\ t[1] = k
              /\ \E at \in DOMAIN s :
                    /\ s[at] = k
                    /\ \A i \in DOMAIN s :
                          i > 1 => t[i] = IF i <= at THEN s[i - 1] ELSE s[i]
<1> DEFINE t == MoveToFront(s, k)
           at == CHOOSE i \in DOMAIN s : s[i] = k
<1>1. at \in DOMAIN s /\ s[at] = k
  BY DEF Elements
<1>2. t = [i \in DOMAIN s |-> IF i = 1 THEN k
                              ELSE IF i <= at THEN s[i - 1] ELSE s[i]]
  BY DEF MoveToFront
<1> HIDE DEF at, t
<1>3. DOMAIN s = 1 .. Len(s) /\ Len(s) \in Nat /\ \A i \in DOMAIN s : s[i] \in K
  OBVIOUS
<1>4. k \in K
  BY <1>1, <1>3
<1>5. t \in Seq(K) /\ Len(t) = Len(s) /\ DOMAIN t = DOMAIN s
  <2>1. \A i \in DOMAIN s : t[i] \in K
    BY <1>1, <1>2, <1>3, <1>4
  <2>2. t \in [1 .. Len(s) -> K]
    BY <2>1, <1>2, <1>3
  <2> QED BY <2>2, <1>3
<1>6. /\ t[1] = k
      /\ \A i \in DOMAIN s :
            i > 1 => t[i] = IF i <= at THEN s[i - 1] ELSE s[i]
  BY <1>1, <1>2, <1>3
<1>7. Elements(t) \subseteq Elements(s)
  BY <1>1, <1>3, <1>5, <1>6 DEF Elements
<1>8. Elements(s) \subseteq Elements(t)
  <2> SUFFICES ASSUME NEW j \in DOMAIN s PROVE \E i \in DOMAIN t : t[i] = s[j]
    BY DEF Elements
  <2>1. CASE j = at
    BY <2>1, <1>1, <1>3, <1>5, <1>6
  <2>2. CASE j < at
    <3>1. j + 1 \in DOMAIN t /\ t[j + 1] = s[j]
      BY <2>2, <1>1, <1>3, <1>5, <1>6
    <3> QED BY <3>1
  <2>3. CASE j > at
    BY <2>3, <1>1, <1>3, <1>5, <1>6
  <2> QED BY <2>1, <2>2, <2>3, <1>1, <1>3
<1>9. NoRepeats(t)
  <2> SUFFICES ASSUME NEW i \in DOMAIN s, NEW j \in DOMAIN s, i < j, t[i] = t[j]
               PROVE FALSE
    BY <1>3, <1>5 DEF NoRepeats
  <2>1. \A x, y \in DOMAIN s : s[x] = s[y] => x = y
    BY DEF NoRepeats
  <2>2. t[j] = IF j <= at THEN s[j - 1] ELSE s[j]
    BY <1>3, <1>6
  <2>3. t[i] = IF i = 1 THEN s[at] ELSE IF i <= at THEN s[i - 1] ELSE s[i]
    BY <1>1, <1>3, <1>6
  <2>4. CASE j <= at
    BY <2>1, <2>2, <2>3, <2>4, <1>1, <1>3
  <2>5. CASE j > at
    BY <2>1, <2>2, <2>3, <2>5, <1>1, <1>3
  <2> QED BY <2>4, <2>5, <1>1, <1>3
<1> QED
  BY <1>1, <1>5, <1>6, <1>7, <1>8, <1>9 DEF t

\* Adding an absent key makes the list one longer and moves the rest back.
LEMMA PushFrontFacts ==
    ASSUME NEW K, NEW s \in Seq(K), NoRepeats(s),
           NEW k \in K, k \notin Elements(s)
    PROVE  LET t == PushFront(s, k)
           IN /\ t \in Seq(K) /\ Len(t) = Len(s) + 1 /\ t[1] = k
              /\ \A i \in 1 .. Len(s) : t[i + 1] = s[i]
              /\ Elements(t) = Elements(s) \cup {k}
              /\ NoRepeats(t)
<1> DEFINE t == PushFront(s, k)
<1>1. t \in Seq(K) /\ Len(t) = Len(s) + 1 /\ Len(s) \in Nat
  BY DEF PushFront
<1>2. t[1] = k /\ \A i \in 1 .. Len(s) : t[i + 1] = s[i]
  BY DEF PushFront
<1>3. \A i \in 2 .. Len(t) : t[i] = s[i - 1] /\ i - 1 \in 1 .. Len(s)
  BY <1>1, <1>2 DEF PushFront
<1> HIDE DEF t
<1>4. DOMAIN t = 1 .. Len(s) + 1 /\ DOMAIN s = 1 .. Len(s)
  BY <1>1
<1>5. Elements(t) = Elements(s) \cup {k}
  <2>1. Elements(t) \subseteq Elements(s) \cup {k}
    BY <1>1, <1>2, <1>3, <1>4 DEF Elements
  <2>2. \A i \in DOMAIN s : s[i] \in Elements(t)
    <3> SUFFICES ASSUME NEW i \in DOMAIN s PROVE s[i] \in Elements(t)
      OBVIOUS
    <3>1. i + 1 \in DOMAIN t /\ t[i + 1] = s[i]
      BY <1>1, <1>2, <1>4
    <3> QED BY <3>1 DEF Elements
  <2>3. k \in Elements(t)
    BY <1>1, <1>2, <1>4 DEF Elements
  <2> QED BY <2>1, <2>2, <2>3 DEF Elements
<1>6. NoRepeats(t)
  <2> SUFFICES ASSUME NEW i \in DOMAIN t, NEW j \in DOMAIN t, i < j, t[i] = t[j]
               PROVE FALSE
    BY <1>1, <1>4 DEF NoRepeats
  <2>1. j - 1 \in DOMAIN s /\ t[j] = s[j - 1]
    BY <1>1, <1>3, <1>4
  <2>2. CASE i = 1
    BY <2>1, <2>2, <1>2 DEF Elements
  <2>3. CASE i > 1
    BY <2>1, <2>3, <1>1, <1>3, <1>4 DEF NoRepeats
  <2> QED BY <2>2, <2>3, <1>1, <1>4
<1> QED
  BY <1>1, <1>2, <1>5, <1>6 DEF t

\* Dropping the last place of a list without repeats drops exactly that key.
LEMMA RemoveBackFacts ==
    ASSUME NEW K, NEW s \in Seq(K), NoRepeats(s), Len(s) > 0
    PROVE  LET t == RemoveBack(s)
           IN /\ t \in Seq(K) /\ Len(t) = Len(s) - 1 /\ NoRepeats(t)
              /\ \A i \in 1 .. Len(s) - 1 : t[i] = s[i]
              /\ Elements(t) = Elements(s) \ {s[Len(s)]}
<1> DEFINE t == RemoveBack(s)
<1>1. Len(s) \in Nat /\ DOMAIN s = 1 .. Len(s)
  OBVIOUS
<1>2. t \in Seq(K) /\ Len(t) = Len(s) - 1 /\ DOMAIN t = 1 .. Len(s) - 1
  BY <1>1 DEF RemoveBack
<1>3. \A i \in 1 .. Len(s) - 1 : t[i] = s[i]
  BY <1>1 DEF RemoveBack
<1> HIDE DEF t
<1>4. NoRepeats(t)
  BY <1>1, <1>2, <1>3 DEF NoRepeats
<1>5. Elements(t) = Elements(s) \ {s[Len(s)]}
  BY <1>1, <1>2, <1>3 DEF NoRepeats, Elements
<1> QED
  BY <1>2, <1>3, <1>4, <1>5 DEF t

\* What Put leaves is a list without repeats of the keys that were there and
\* the new one, and of all of them if there is room.
LEMMA PutFrontFacts ==
    ASSUME NEW K, NEW s \in Seq(K), NoRepeats(s), NEW k \in K, NEW cap \in Int
    PROVE  LET t == PutFront(s, k, cap)
           IN /\ t \in Seq(K) /\ NoRepeats(t)
              /\ Elements(t) \subseteq Elements(s) \cup {k}
              /\ k \in Elements(s) \/ Len(s) + 1 <= cap
                    => Elements(t) = Elements(s) \cup {k}
<1> DEFINE t == PutFront(s, k, cap)
<1>1. CASE k \in Elements(s)
  <2>1. t = MoveToFront(s, k)
    BY <1>1 DEF PutFront
  <2> QED BY <1>1, <2>1, MoveToFrontFacts
<1>2. CASE k \notin Elements(s)
  <2> DEFINE u == PushFront(s, k)
  <2>1. /\ u \in Seq(K) /\ Len(u) = Len(s) + 1 /\ NoRepeats(u)
        /\ Elements(u) = Elements(s) \cup {k} /\ Len(s) \in Nat
    BY <1>2, PushFrontFacts
  <2>2. t = IF Len(s) + 1 > cap THEN RemoveBack(u) ELSE u
    BY <1>2 DEF PutFront
  <2> HIDE DEF t, u
  <2>3. /\ RemoveBack(u) \in Seq(K) /\ NoRepeats(RemoveBack(u))
        /\ Elements(RemoveBack(u)) \subseteq Elements(u)
    <3>1. Len(u) > 0
      BY <2>1
    <3> QED BY <2>1, <3>1, RemoveBackFacts
  <2>4. /\ t \in Seq(K) /\ NoRepeats(t)
        /\ Elements(t) \subseteq Elements(s) \cup {k}
    BY <2>1, <2>2, <2>3
  <2>5. Len(s) + 1 <= cap => t = u
    BY <2>1, <2>2
  <2> QED BY <1>2, <2>1, <2>4, <2>5 DEF t
<1> QED BY <1>1, <1>2

\* A list without repeats that lacks a key is shorter than there are keys, so
\* a cache with room for all of them has room for one more.
LEMMA RoomForOneMore ==
    ASSUME NEW K, IsFiniteSet(K), NEW cap \in Int, Cardinality(K) <= cap,
           NEW s \in Seq(K), NoRepeats(s), NEW k \in K, k \notin Elements(s)
    PROVE  Len(s) + 1 <= cap
<1> DEFINE t == PushFront(s, k)
           S == 1 .. Len(s) + 1
<1>1. t \in Seq(K) /\ Len(t) = Len(s) + 1 /\ NoRepeats(t)
  BY PushFrontFacts
<1>2. Len(s) \in Nat /\ Cardinality(K) \in Nat
  BY FS_CardinalityType
<1> HIDE DEF t
<1>3. t \in [S -> K]
  BY <1>1
<1>4. IsFiniteSet(S) /\ Cardinality(S) = Len(s) + 1
  BY <1>2, FS_Interval
<1>5. ~(Cardinality(K) < Cardinality(S))
  <2> SUFFICES ASSUME Cardinality(K) < Cardinality(S) PROVE FALSE
    OBVIOUS
  <2> HIDE DEF S
  <2>1. \E i, j \in S : i # j /\ t[i] = t[j]
    BY <1>3, <1>4, FS_PigeonHole
  <2> QED BY <1>1, <2>1 DEF NoRepeats, S
<1> QED BY <1>2, <1>4, <1>5
=============================================================================
