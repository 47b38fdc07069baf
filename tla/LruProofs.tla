----------------------------- MODULE LruProofs ------------------------------
(***************************************************************************)
(* The piece cache, proved for every set of keys and every size: LruInv is *)
(* inductive.                                                              *)
(***************************************************************************)
EXTENDS LruCache, LruFacts

\* The list of the cache is the front of the history, key by key.
LEMMA HeldIsUsed ==
    LruInv => Elements(ll) \subseteq Elements(used) /\ Len(ll) <= Len(used)
BY DEF LruInv, TypeOK, Consistent, HoldsMostRecent, Limit, Elements

-----------------------------------------------------------------------------

\* What a use of a held key does to the list and to the history.
LEMMA Reuse ==
    ASSUME LruInv, NEW k \in Elements(ll)
    PROVE  LET l == MoveToFront(ll, k)
               u == MoveToFront(used, k)
           IN /\ k \in Elements(used) /\ k \in Keys
              /\ l \in Seq(Keys) /\ u \in Seq(Keys)
              /\ Len(l) = Len(ll) /\ Len(u) = Len(used)
              /\ Elements(l) = Elements(ll) /\ Elements(u) = Elements(used)
              /\ NoRepeats(l) /\ NoRepeats(u)
              /\ \A i \in DOMAIN l : l[i] = u[i]
<1> DEFINE l == MoveToFront(ll, k)
           u == MoveToFront(used, k)
<1>1. /\ ll \in Seq(Keys) /\ used \in Seq(Keys)
      /\ NoRepeats(ll) /\ NoRepeats(used)
      /\ Len(ll) <= Len(used) /\ \A i \in DOMAIN ll : ll[i] = used[i]
      /\ k \in Elements(used) /\ k \in Keys
  BY HeldIsUsed DEF LruInv, TypeOK, Consistent, HoldsMostRecent, Elements
<1>2. /\ l \in Seq(Keys) /\ Len(l) = Len(ll) /\ NoRepeats(l)
      /\ Elements(l) = Elements(ll) /\ l[1] = k
  BY <1>1, MoveToFrontFacts
<1>3. /\ u \in Seq(Keys) /\ Len(u) = Len(used) /\ NoRepeats(u)
      /\ Elements(u) = Elements(used) /\ u[1] = k
  BY <1>1, MoveToFrontFacts
<1>4. PICK a \in DOMAIN ll :
         /\ ll[a] = k
         /\ \A i \in DOMAIN ll :
               i > 1 => l[i] = IF i <= a THEN ll[i - 1] ELSE ll[i]
  BY <1>1, MoveToFrontFacts
<1>5. PICK b \in DOMAIN used :
         /\ used[b] = k
         /\ \A i \in DOMAIN used :
               i > 1 => u[i] = IF i <= b THEN used[i - 1] ELSE used[i]
  BY <1>1, MoveToFrontFacts
<1> HIDE DEF l, u
<1>6. /\ DOMAIN ll = 1 .. Len(ll) /\ DOMAIN used = 1 .. Len(used)
      /\ Len(ll) \in Nat /\ Len(used) \in Nat /\ DOMAIN l = 1 .. Len(ll)
  BY <1>1, <1>2
<1>7. a = b
  BY <1>1, <1>4, <1>5, <1>6 DEF NoRepeats
<1>8. ASSUME NEW i \in DOMAIN l PROVE l[i] = u[i]
  BY <1>1, <1>2, <1>3, <1>4, <1>5, <1>6, <1>7
<1> QED
  BY <1>1, <1>2, <1>3, <1>8 DEF l, u

\* A hit keeps the invariant.
LEMMA GetStep ==
    ASSUME LruInv, NEW k \in Keys, Get(k)
    PROVE  LruInv'
<1>1. k \in Elements(ll) /\ k \in Elements(used)
  BY HeldIsUsed DEF Get, LruInv, Consistent
<1>2. /\ ll' = MoveToFront(ll, k) /\ used' = MoveToFront(used, k)
      /\ cap' = cap /\ m' = m /\ put' = put
  BY <1>1 DEF Get, Use
<1>3. /\ ll' \in Seq(Keys) /\ used' \in Seq(Keys)
      /\ Len(ll') = Len(ll) /\ Len(used') = Len(used)
      /\ Elements(ll') = Elements(ll) /\ Elements(used') = Elements(used)
      /\ NoRepeats(ll') /\ NoRepeats(used')
      /\ \A i \in DOMAIN ll' : ll'[i] = used'[i]
  BY <1>1, <1>2, Reuse
<1>4. \A x \in Elements(ll) : m[x] = put[x]
  BY DEF LruInv, HoldsMostRecent, Elements
<1>5. TypeOK'
  BY <1>2, <1>3 DEF LruInv, TypeOK, Elements
<1>6. Consistent'
  BY <1>2, <1>3 DEF LruInv, Consistent, Elements, NoRepeats, Limit
<1>7. HoldsMostRecent'
  BY <1>2, <1>3, <1>4 DEF LruInv, HoldsMostRecent, Elements, Limit
<1> QED
  BY <1>3, <1>5, <1>6, <1>7 DEF LruInv, NoRepeats

\* A Put of a key that is there changes its value and moves it.
LEMMA PutAgainStep ==
    ASSUME LruInv, NEW k \in Keys, NEW v \in Values, PutAgain(k, v)
    PROVE  LruInv'
<1>1. k \in Elements(ll) /\ k \in Elements(used)
  BY HeldIsUsed DEF PutAgain, LruInv, Consistent
<1>2. /\ ll' = MoveToFront(ll, k) /\ used' = MoveToFront(used, k)
      /\ cap' = cap
      /\ m' = [m EXCEPT ![k] = v] /\ put' = [put EXCEPT ![k] = v]
  BY <1>1 DEF PutAgain, Use
<1>3. /\ ll' \in Seq(Keys) /\ used' \in Seq(Keys)
      /\ Len(ll') = Len(ll) /\ Len(used') = Len(used)
      /\ Elements(ll') = Elements(ll) /\ Elements(used') = Elements(used)
      /\ NoRepeats(ll') /\ NoRepeats(used')
      /\ \A i \in DOMAIN ll' : ll'[i] = used'[i]
  BY <1>1, <1>2, Reuse
<1>4. \A x \in Elements(ll) : m[x] = put[x]
  BY DEF LruInv, HoldsMostRecent, Elements
<1>5. /\ DOMAIN m = Elements(ll) /\ DOMAIN put = Elements(used)
      /\ Elements(ll) \subseteq Elements(used)
  BY HeldIsUsed DEF LruInv, Consistent, TypeOK
<1>6. TypeOK'
  BY <1>1, <1>2, <1>3, <1>5 DEF LruInv, TypeOK, Elements
<1>7. Consistent'
  BY <1>2, <1>3, <1>5 DEF LruInv, Consistent, Elements, NoRepeats, Limit
<1>8. \A x \in Elements(ll') : m'[x] = put'[x]
  BY <1>2, <1>3, <1>4, <1>5
<1>9. HoldsMostRecent'
  BY <1>2, <1>3, <1>8 DEF LruInv, HoldsMostRecent, Elements, Limit
<1> QED
  BY <1>3, <1>6, <1>7, <1>9 DEF LruInv, NoRepeats

\* What a Put of a key that is not held does to the history.
LEMMA NewUse ==
    ASSUME LruInv, NEW k \in Keys, k \notin Elements(ll), Use(k)
    PROVE  /\ used' \in Seq(Keys) /\ NoRepeats(used')
           /\ Elements(used') = Elements(used) \cup {k}
           /\ used'[1] = k /\ Len(used') > 0
           /\ \A i \in 1 .. Len(ll) :
                 i + 1 <= Len(used') => used'[i + 1] = ll[i]
           /\ IF k \in Elements(used)
              THEN Len(used') = Len(used) /\ Len(used) > Len(ll)
              ELSE Len(used') = Len(used) + 1
<1>1. /\ ll \in Seq(Keys) /\ used \in Seq(Keys) /\ NoRepeats(used)
      /\ Len(ll) <= Len(used) /\ \A i \in DOMAIN ll : ll[i] = used[i]
  BY HeldIsUsed DEF LruInv, TypeOK, HoldsMostRecent
<1>2. /\ DOMAIN ll = 1 .. Len(ll) /\ DOMAIN used = 1 .. Len(used)
      /\ Len(ll) \in Nat /\ Len(used) \in Nat
  BY <1>1
<1>3. CASE k \in Elements(used)
  <2>1. used' = MoveToFront(used, k)
    BY <1>3 DEF Use
  <2>2. /\ used' \in Seq(Keys) /\ Len(used') = Len(used) /\ NoRepeats(used')
        /\ Elements(used') = Elements(used) /\ used'[1] = k
    BY <1>1, <1>3, <2>1, MoveToFrontFacts
  <2>3. PICK b \in DOMAIN used :
          /\ used[b] = k
          /\ \A i \in DOMAIN used :
                i > 1 => used'[i] = IF i <= b THEN used[i - 1] ELSE used[i]
    BY <1>1, <1>3, <2>1, MoveToFrontFacts
  <2>4. b > Len(ll)
    BY <1>1, <1>2, <2>3 DEF Elements
  <2>5. \A i \in 1 .. Len(ll) : used'[i + 1] = ll[i]
    <3> SUFFICES ASSUME NEW i \in 1 .. Len(ll) PROVE used'[i + 1] = ll[i]
      OBVIOUS
    <3>1. i + 1 \in DOMAIN used /\ i + 1 > 1 /\ i + 1 <= b
      BY <1>1, <1>2, <2>3, <2>4
    <3>2. used'[i + 1] = used[(i + 1) - 1]
      BY <2>3, <3>1
    <3> QED BY <1>1, <1>2, <3>2
  <2> QED BY <1>2, <1>3, <2>2, <2>3, <2>4, <2>5
<1>4. CASE k \notin Elements(used)
  <2>1. used' = PushFront(used, k)
    BY <1>4 DEF Use
  <2>2. /\ used' \in Seq(Keys) /\ Len(used') = Len(used) + 1 /\ used'[1] = k
        /\ \A i \in 1 .. Len(used) : used'[i + 1] = used[i]
        /\ Elements(used') = Elements(used) \cup {k} /\ NoRepeats(used')
    BY <1>1, <1>4, <2>1, PushFrontFacts
  <2> QED BY <1>1, <1>2, <1>4, <2>2
<1> QED BY <1>3, <1>4

\* What it does to the list and the map: the key goes to the front, and the
\* list and the map lose the same key when there was no room.
LEMMA NewEntry ==
    ASSUME LruInv, NEW k \in Keys, NEW v \in Values, PutNew(k, v)
    PROVE  /\ ll' \in Seq(Keys) /\ NoRepeats(ll')
           /\ DOMAIN m' = Elements(ll')
           /\ Elements(ll') \subseteq Elements(ll) \cup {k}
           /\ Len(ll') = IF Len(ll) < Limit THEN Len(ll) + 1 ELSE Limit
           /\ \A i \in DOMAIN ll' : ll'[i] = IF i = 1 THEN k ELSE ll[i - 1]
<1> DEFINE t == PushFront(ll, k)
<1>1. /\ ll \in Seq(Keys) /\ NoRepeats(ll) /\ Len(ll) <= Limit
      /\ DOMAIN m = Elements(ll) /\ k \notin Elements(ll)
      /\ cap \in Int /\ Len(ll) \in Nat /\ DOMAIN ll = 1 .. Len(ll)
  BY LruAssumption DEF LruInv, TypeOK, Consistent, PutNew
<1>2. /\ t \in Seq(Keys) /\ Len(t) = Len(ll) + 1 /\ t[1] = k
      /\ \A i \in 1 .. Len(ll) : t[i + 1] = ll[i]
      /\ Elements(t) = Elements(ll) \cup {k} /\ NoRepeats(t)
  BY <1>1, PushFrontFacts
<1>3. \A i \in DOMAIN t : t[i] = IF i = 1 THEN k ELSE ll[i - 1]
  <2>1. DOMAIN t = 1 .. Len(ll) + 1
    BY <1>1, <1>2
  <2> SUFFICES ASSUME NEW i \in DOMAIN t, i # 1 PROVE t[i] = ll[i - 1]
    BY <1>2
  <2>2. i - 1 \in 1 .. Len(ll) /\ (i - 1) + 1 = i
    BY <1>1, <2>1
  <2> QED BY <1>2, <2>2
<1> HIDE DEF t
<1>4. DOMAIN m' = (Elements(ll) \cup {k}) \ Evicted(k)
  BY <1>1 DEF PutNew
<1>5. CASE Len(ll) + 1 > cap
  <2>1. ll' = RemoveBack(t) /\ Evicted(k) = {t[Len(t)]}
    BY <1>1, <1>2, <1>5 DEF PutNew, PutFront, Evicted, t
  <2>2. /\ ll' \in Seq(Keys) /\ Len(ll') = Len(t) - 1 /\ NoRepeats(ll')
        /\ \A i \in 1 .. Len(t) - 1 : ll'[i] = t[i]
        /\ Elements(ll') = Elements(t) \ {t[Len(t)]}
    <3>1. Len(t) > 0
      BY <1>1, <1>2
    <3> QED BY <1>2, <2>1, <3>1, RemoveBackFacts
  <2>3. Len(ll) = Limit
    <3>1. cap \in Int /\ Len(ll) \in Nat /\ Len(ll) <= Limit
      BY <1>1
    <3>2. CASE cap > 0
      BY <1>5, <3>1, <3>2 DEF Limit
    <3>3. CASE ~(cap > 0)
      BY <3>1, <3>3 DEF Limit
    <3> QED BY <3>2, <3>3
  <2>4. DOMAIN ll' = 1 .. Len(ll) /\ DOMAIN t = 1 .. Len(ll) + 1
    BY <1>1, <1>2, <2>2
  <2>5. \A i \in DOMAIN ll' : ll'[i] = IF i = 1 THEN k ELSE ll[i - 1]
    BY <1>1, <1>2, <1>3, <2>2, <2>4
  <2>6. Len(ll') = Len(ll)
    BY <1>1, <1>2, <2>2
  <2> QED BY <1>1, <1>2, <1>4, <2>1, <2>2, <2>3, <2>5, <2>6
<1>6. CASE ~(Len(ll) + 1 > cap)
  <2>1. ll' = t /\ Evicted(k) = {}
    BY <1>1, <1>2, <1>6 DEF PutNew, PutFront, Evicted, t
  <2>2. Len(ll) < Limit
    BY <1>1, <1>6 DEF Limit
  <2> QED BY <1>1, <1>2, <1>3, <1>4, <2>1, <2>2
<1> QED BY <1>5, <1>6

\* A Put of a new key keeps the invariant.
LEMMA PutNewStep ==
    ASSUME LruInv, NEW k \in Keys, NEW v \in Values, PutNew(k, v)
    PROVE  LruInv'
<1>1. /\ k \notin Elements(ll) /\ Use(k) /\ cap' = cap
      /\ m' = [x \in (DOMAIN m \cup {k}) \ Evicted(k) |->
                 IF x = k THEN v ELSE m[x]]
      /\ put' = [x \in DOMAIN put \cup {k} |-> IF x = k THEN v ELSE put[x]]
  BY DEF PutNew, LruInv, Consistent
<1>2. /\ used' \in Seq(Keys) /\ NoRepeats(used')
      /\ Elements(used') = Elements(used) \cup {k}
      /\ used'[1] = k /\ Len(used') > 0
      /\ \A i \in 1 .. Len(ll) : i + 1 <= Len(used') => used'[i + 1] = ll[i]
      /\ IF k \in Elements(used)
         THEN Len(used') = Len(used) /\ Len(used) > Len(ll)
         ELSE Len(used') = Len(used) + 1
  BY <1>1, NewUse
<1>3. /\ ll' \in Seq(Keys) /\ NoRepeats(ll')
      /\ DOMAIN m' = Elements(ll')
      /\ Elements(ll') \subseteq Elements(ll) \cup {k}
      /\ Len(ll') = IF Len(ll) < Limit THEN Len(ll) + 1 ELSE Limit
      /\ \A i \in DOMAIN ll' : ll'[i] = IF i = 1 THEN k ELSE ll[i - 1]
  BY NewEntry
<1>4. /\ DOMAIN m = Elements(ll) /\ DOMAIN put = Elements(used)
      /\ Elements(ll) \subseteq Elements(used)
      /\ \A x \in Elements(ll) : m[x] = put[x]
      /\ Len(ll) = IF Len(used) < Limit THEN Len(used) ELSE Limit
      /\ ll \in Seq(Keys) /\ used \in Seq(Keys) /\ cap \in Int
  BY HeldIsUsed, LruAssumption
     DEF LruInv, TypeOK, Consistent, HoldsMostRecent, Elements
<1>11. /\ Len(ll) \in Nat /\ Len(used) \in Nat /\ Limit \in Nat
       /\ DOMAIN ll = 1 .. Len(ll) /\ DOMAIN used = 1 .. Len(used)
  BY <1>4 DEF Limit
<1>5. \A x \in Elements(ll') : m'[x] = put'[x]
  BY <1>1, <1>3, <1>4
<1>6. Len(ll') = IF Len(used') < Limit THEN Len(used') ELSE Limit
  <2>1. CASE k \in Elements(used)
    <3>1. Len(used') = Len(used) /\ Len(used) > Len(ll)
      BY <1>2, <2>1
    <3> QED BY <1>3, <1>4, <1>11, <3>1
  <2>2. CASE k \notin Elements(used)
    <3>1. Len(used') = Len(used) + 1
      BY <1>2, <2>2
    <3> QED BY <1>3, <1>4, <1>11, <3>1
  <2> QED BY <2>1, <2>2
<1>7. \A i \in DOMAIN ll' : ll'[i] = used'[i]
  <2> SUFFICES ASSUME NEW i \in DOMAIN ll' PROVE ll'[i] = used'[i]
    OBVIOUS
  <2>1. DOMAIN ll' = 1 .. Len(ll') /\ Len(ll') \in Nat /\ Len(used') \in Nat
    BY <1>2, <1>3
  <2>2. CASE i = 1
    BY <2>2, <1>2, <1>3
  <2>3. CASE i > 1
    <3>1. i - 1 \in 1 .. Len(ll) /\ (i - 1) + 1 = i /\ i <= Len(used')
      BY <2>1, <2>3, <1>3, <1>4, <1>6, <1>11
    <3> QED BY <3>1, <2>3, <1>2, <1>3
  <2> QED BY <2>1, <2>2, <2>3
<1>8. TypeOK'
  <2>1. m' \in [Elements(ll') -> Values]
    BY <1>1, <1>3, <1>4 DEF LruInv, TypeOK
  <2>2. Elements(ll') \subseteq Keys
    BY <1>3 DEF Elements
  <2>3. put' \in [Elements(used') -> Values]
    BY <1>1, <1>2, <1>4 DEF LruInv, TypeOK
  <2> QED BY <1>1, <1>2, <1>3, <2>1, <2>2, <2>3 DEF LruInv, TypeOK
<1>9. Consistent'
  <2>1. Len(ll') <= Limit
    BY <1>3, <1>11
  <2>2. Limit' = Limit
    BY <1>1 DEF Limit
  <2> QED BY <1>3, <2>1, <2>2 DEF Consistent
<1>10. HoldsMostRecent'
  BY <1>1, <1>5, <1>6, <1>7 DEF HoldsMostRecent, Limit, Elements
<1> QED BY <1>2, <1>8, <1>9, <1>10 DEF LruInv

-----------------------------------------------------------------------------

\* LruInv is an invariant of the cache, whatever its size.
THEOREM LruInvariant == Spec => []LruInv
<1>1. Init => LruInv
  <2> SUFFICES ASSUME Init PROVE LruInv
    OBVIOUS
  <2>1. Elements(<<>>) = {} /\ <<>> \in Seq(Keys) /\ Len(<<>>) = 0
    BY DEF Elements
  <2>2. ll = <<>> /\ m = <<>> /\ used = <<>> /\ put = <<>> /\ cap \in Int
    BY LruAssumption DEF Init
  <2>3. TypeOK
    BY <2>1, <2>2 DEF Init, TypeOK
  <2>4. Consistent /\ HoldsMostRecent /\ NoRepeats(used)
    BY <2>1, <2>2 DEF Consistent, HoldsMostRecent, NoRepeats, Limit
  <2> QED BY <2>3, <2>4 DEF LruInv
<1>2. LruInv /\ [Next]_vars => LruInv'
  <2> SUFFICES ASSUME LruInv, [Next]_vars PROVE LruInv'
    OBVIOUS
  <2>1. ASSUME NEW k \in Keys, Get(k) PROVE LruInv'
    BY <2>1, GetStep
  <2>2. ASSUME NEW k \in Keys, NEW v \in Values, PutAgain(k, v) PROVE LruInv'
    BY <2>2, PutAgainStep
  <2>3. ASSUME NEW k \in Keys, NEW v \in Values, PutNew(k, v) PROVE LruInv'
    BY <2>3, PutNewStep
  <2>4. CASE UNCHANGED vars
    BY <2>4 DEF vars, LruInv, TypeOK, Consistent, HoldsMostRecent, Limit,
                NoRepeats, Elements
  <2> QED BY <2>1, <2>2, <2>3, <2>4 DEF Next
<1> QED BY <1>1, <1>2, PTL DEF Spec

\* The list and the map agree and never outgrow the size asked for.
THEOREM CacheConsistent == Spec => []Consistent
<1>1. LruInv => Consistent
  BY DEF LruInv
<1> QED BY <1>1, LruInvariant, PTL

\* The cache holds exactly the keys used last, with the values last put.
THEOREM CacheHoldsMostRecent == Spec => []HoldsMostRecent
<1>1. LruInv => HoldsMostRecent
  BY DEF LruInv
<1> QED BY <1>1, LruInvariant, PTL
=============================================================================
