----------------------------- MODULE ServeProofs -----------------------------
(***************************************************************************)
(* `samogon serve`, `get` and `get2`, proved for every set of torrents,    *)
(* paths, pieces and clients that the assumptions of Meta and of Serve     *)
(* allow: torrents of odd names too, which what is said of listed entries, *)
(* of get and of the range leaves out, but which must not disturb others.  *)
(*                                                                         *)
(* The directory of torrents: MetaInv is inductive.                        *)
(*                                                                         *)
(* The files: what buildMeta, ReadAt, List, Stat, openFile, Get and the    *)
(* range of get2 compute.  Walk, Clean, Offsets and Get are recursive      *)
(* functions, which CHOOSE defines: ForwardRecursion shows that there is   *)
(* one to choose, and LeastExists stands in for induction over a set of    *)
(* numbers.                                                                *)
(*                                                                         *)
(* The sessions: ServeInv is inductive.  It says client by client what has *)
(* been listed, found, opened and read, and what a client knows stays true *)
(* when a torrent is dropped or a piece is lost.  ConnectionInv, which is  *)
(* inductive with it, follows packets and goroutines; that somebody can    *)
(* always go on follows from it.                                           *)
(***************************************************************************)
EXTENDS Meta, Serve, FiniteSetTheorems, NaturalsInduction,
        WellFoundedInduction, TLAPS

-----------------------------------------------------------------------------
(* The directory *)

\* A name that somebody has is given once more only if it is contested.
LEMMA UniqueNameIsFree ==
    ASSUME MetaInv, NEW t \in Torrents, t \notin DOMAIN byHash
    PROVE  /\ UniqueName(t) \in {NameOf[t], Suffixed[t]}
           /\ UniqueName(t) \in Names
           /\ UniqueName(t) \in DOMAIN byName => Contested(UniqueName(t))
           /\ \A u \in DOMAIN byHash :
                 byHash[u] = UniqueName(t) => Contested(UniqueName(t))
<1>1. UniqueName(t) \in {NameOf[t], Suffixed[t]} /\ UniqueName(t) \in Names
  BY MetaAssumption DEF UniqueName
<1>2. ASSUME UniqueName(t) \in DOMAIN byName PROVE Contested(UniqueName(t))
  <2>1. UniqueName(t) = Suffixed[t]
    BY <1>2 DEF UniqueName
  <2> DEFINE u == byName[Suffixed[t]]
  <2>2. u \in DOMAIN byHash /\ byHash[u] = Suffixed[t]
    BY <1>2, <2>1 DEF MetaInv, NamesLeadHome
  <2>3. u \in Torrents /\ Suffixed[t] \in {NameOf[u], Suffixed[u]}
    BY <2>2 DEF MetaInv, TypeOK
  <2> QED BY <2>1, <2>2, <2>3 DEF Contested
<1>3. ASSUME NEW u \in DOMAIN byHash, byHash[u] = UniqueName(t),
             ~Contested(UniqueName(t))
      PROVE  FALSE
  BY <1>2, <1>3 DEF MetaInv, NamesLeadHome
<1> QED BY <1>1, <1>2, <1>3

\* Loading a torrent keeps the invariant.
LEMMA LoadOneStep ==
    ASSUME MetaInv, NEW t \in Torrents, LoadOne(t)
    PROVE  MetaInv'
<1> DEFINE n == UniqueName(t)
<1>1. /\ n \in {NameOf[t], Suffixed[t]} /\ n \in Names
      /\ n \in DOMAIN byName => Contested(n)
      /\ \A u \in DOMAIN byHash : byHash[u] = n => Contested(n)
  BY UniqueNameIsFree DEF LoadOne
<1>2. /\ t \notin DOMAIN byHash
      /\ byHash' = [y \in DOMAIN byHash \cup {t} |->
                      IF y = t THEN n ELSE byHash[y]]
      /\ byName' = [y \in DOMAIN byName \cup {n} |->
                      IF y = n THEN t ELSE byName[y]]
      /\ markers' = markers /\ failures' = failures
      /\ reload' = [reload EXCEPT !.keys = @ \ {t}, !.seen = @ \cup {t}]
  BY DEF LoadOne, With, Visit
<1> HIDE DEF n
<1>3. TypeOK'
  BY <1>1, <1>2 DEF MetaInv, TypeOK
<1>4. \A k \in DOMAIN byName' :
         byName'[k] \in DOMAIN byHash' /\ byHash'[byName'[k]] = k
  BY <1>2 DEF MetaInv, NamesLeadHome
<1>5. \A u \in DOMAIN byHash' : ~Contested(byHash'[u]) =>
         byHash'[u] \in DOMAIN byName' /\ byName'[byHash'[u]] = u
  BY <1>1, <1>2 DEF MetaInv, NamesLeadHome
<1>6. \A u \in DOMAIN byHash' : byHash'[u] \in {NameOf[u], Suffixed[u]}
  BY <1>1, <1>2 DEF MetaInv
<1> QED BY <1>3, <1>4, <1>5, <1>6 DEF MetaInv, NamesLeadHome, Contested

\* Dropping torrents takes an uncontested name from none that stays.
LEMMA PruneKeeps ==
    ASSUME MetaInv, NEW gone \in SUBSET DOMAIN byHash,
           NEW t \in DOMAIN byHash \ gone, ~Contested(byHash[t])
    PROVE  byHash[t] \notin {byHash[u] : u \in gone}
BY DEF MetaInv, NamesLeadHome

\* Dropping the torrents that are gone keeps the invariant.
LEMMA PruneGoneStep ==
    ASSUME MetaInv, PruneGone
    PROVE  MetaInv'
<1> DEFINE gone == DOMAIN byHash \ reload.seen
           lost == {byHash[t] : t \in gone}
<1>1. /\ byHash' = [t \in DOMAIN byHash \ gone |-> byHash[t]]
      /\ byName' = [n \in DOMAIN byName \ lost |-> byName[n]]
      /\ markers' = markers /\ failures' = failures /\ reload' = Idle
  BY DEF PruneGone, Without
<1>2. \A t \in DOMAIN byHash \ gone :
         ~Contested(byHash[t]) => byHash[t] \notin lost
  BY PruneKeeps
<1>3. \A t \in gone : byHash[t] \in lost
  OBVIOUS
<1> HIDE DEF gone, lost
<1>4. TypeOK'
  BY <1>1 DEF MetaInv, TypeOK, Idle
<1>5. \A k \in DOMAIN byName' :
         byName'[k] \in DOMAIN byHash' /\ byHash'[byName'[k]] = k
  BY <1>1, <1>3 DEF MetaInv, NamesLeadHome
<1>6. \A u \in DOMAIN byHash' : ~Contested(byHash'[u]) =>
         byHash'[u] \in DOMAIN byName' /\ byName'[byHash'[u]] = u
  BY <1>1, <1>2 DEF MetaInv, NamesLeadHome
<1>7. \A u \in DOMAIN byHash' : byHash'[u] \in {NameOf[u], Suffixed[u]}
  BY <1>1 DEF MetaInv
<1> QED BY <1>4, <1>5, <1>6, <1>7 DEF MetaInv, NamesLeadHome, Contested

\* The steps that leave the directory alone.
LEMMA QuietStep ==
    ASSUME MetaInv, UNCHANGED <<byHash, byName>>, TypeOK'
    PROVE  MetaInv'
BY DEF MetaInv, NamesLeadHome, Contested

\* Reload ticks one key of the listing off.
LEMMA VisitType ==
    ASSUME TypeOK, NEW t \in Torrents, Visit(t)
    PROVE  reload' \in [at : {"idle", "load"}, keys : SUBSET Torrents,
                        seen : SUBSET Torrents]
BY DEF TypeOK, Visit

\* One step of the specification.
LEMMA MetaStep ==
    ASSUME MetaInv, [MetaNext]_metaVars
    PROVE  MetaInv'
<1>1. ASSUME NEW t \in Torrents, Publish(t) \/ Withdraw(t) PROVE MetaInv'
  <2>1. TypeOK' /\ UNCHANGED <<byHash, byName>>
    BY <1>1 DEF Publish, Withdraw, MetaInv, TypeOK
  <2> QED BY <2>1, QuietStep
<1>2. ASSUME NEW t \in Torrents, LoadFails(t) PROVE MetaInv'
  <2>1. failures' \in 0 .. MaxFailures
    BY <1>2, MetaAssumption DEF LoadFails, Fault, MetaInv, TypeOK
  <2>2. TypeOK' /\ UNCHANGED <<byHash, byName>>
    BY <1>2, <2>1, VisitType DEF LoadFails, MetaInv, TypeOK
  <2> QED BY <2>2, QuietStep
<1>3. ASSUME NEW t \in Torrents, Load(t) PROVE MetaInv'
  <2>1. CASE Already(t) \/ LoadGone(t)
    <3>1. TypeOK' /\ UNCHANGED <<byHash, byName>>
      BY <2>1, VisitType DEF Already, LoadGone, MetaInv, TypeOK
    <3> QED BY <3>1, QuietStep
  <2>2. CASE LoadOne(t)
    BY <2>2, LoadOneStep
  <2> QED BY <1>3, <2>1, <2>2 DEF Load
<1>4. ASSUME ListMarkers \/ ListFails \/ ListNotFound PROVE MetaInv'
  <2>1. failures' \in 0 .. MaxFailures
    BY <1>4, MetaAssumption
       DEF ListMarkers, ListFails, ListNotFound, Fault, MetaInv, TypeOK
  <2>2. TypeOK' /\ UNCHANGED <<byHash, byName>>
    BY <1>4, <2>1
       DEF ListMarkers, ListFails, ListNotFound, MetaInv, TypeOK
  <2> QED BY <2>2, QuietStep
<1>5. CASE PruneGone
  BY <1>5, PruneGoneStep
<1>6. CASE Restart
  <2>1. /\ DOMAIN byHash' = {} /\ DOMAIN byName' = {} /\ reload' = Idle
        /\ markers' = markers
        /\ failures' = failures + 1 /\ failures < MaxFailures
    BY <1>6 DEF Restart, Fault
  <2>2. TypeOK'
    BY <2>1, MetaAssumption DEF MetaInv, TypeOK, Idle
  <2> QED BY <2>1, <2>2 DEF MetaInv, NamesLeadHome
<1>7. CASE UNCHANGED metaVars
  BY <1>7 DEF metaVars, MetaInv, TypeOK, NamesLeadHome, Contested
<1> QED
  BY <1>1, <1>2, <1>3, <1>4, <1>5, <1>6, <1>7 DEF MetaNext, Reload

\* MetaInv holds through every reload, failure and restart, whatever names and
\* suffixes there are.
THEOREM MetaInvariant == MetaSpec => []MetaInv
<1>1. MetaInit => MetaInv
  <2> SUFFICES ASSUME MetaInit PROVE MetaInv
    OBVIOUS
  <2>1. DOMAIN byHash = {} /\ DOMAIN byName = {}
    BY DEF MetaInit
  <2> QED
    BY <2>1, MetaAssumption DEF MetaInit, Idle, MetaInv, TypeOK, NamesLeadHome
<1>2. MetaInv /\ [MetaNext]_metaVars => MetaInv'
  BY MetaStep
<1> QED BY <1>1, <1>2, PTL DEF MetaSpec

\* Every name leads to a torrent that is shown under it, and every loaded
\* torrent is what its DisplayName leads to, unless that name is contested.
THEOREM NamesSafe == MetaSpec => []NamesLeadHome
<1>1. MetaInv => NamesLeadHome
  BY DEF MetaInv
<1> QED BY <1>1, MetaInvariant, PTL

\* A loaded torrent keeps its name, and a name its torrent unless contested.
THEOREM NamesStay == MetaSpec => NamesAreStable
<1> DEFINE Stable == \A t \in DOMAIN byHash :
              t \in DOMAIN byHash' =>
                  /\ byHash'[t] = byHash[t]
                  /\ ~Contested(byHash[t]) =>
                        byName'[byHash[t]] = byName[byHash[t]]
<1>1. ASSUME MetaInv, [MetaNext]_metaVars PROVE [Stable]_metaVars
  <2>1. ASSUME NEW t \in Torrents, LoadOne(t) PROVE Stable
    <3> DEFINE n == UniqueName(t)
    <3>1. /\ t \notin DOMAIN byHash
          /\ \A u \in DOMAIN byHash : byHash[u] = n => Contested(n)
      BY <1>1, <2>1, UniqueNameIsFree DEF LoadOne
    <3>2. /\ byHash' = [y \in DOMAIN byHash \cup {t} |->
                          IF y = t THEN n ELSE byHash[y]]
          /\ byName' = [y \in DOMAIN byName \cup {n} |->
                          IF y = n THEN t ELSE byName[y]]
      BY <2>1 DEF LoadOne, With
    <3> HIDE DEF n
    <3> QED BY <1>1, <3>1, <3>2 DEF MetaInv, NamesLeadHome
  <2>2. ASSUME PruneGone PROVE Stable
    <3> SUFFICES ASSUME NEW t \in DOMAIN byHash, t \in DOMAIN byHash'
                 PROVE  /\ byHash'[t] = byHash[t]
                        /\ ~Contested(byHash[t]) =>
                              byName'[byHash[t]] = byName[byHash[t]]
      OBVIOUS
    <3> DEFINE gone == DOMAIN byHash \ reload.seen
               lost == {byHash[u] : u \in gone}
    <3>1. /\ byHash' = [u \in DOMAIN byHash \ gone |-> byHash[u]]
          /\ byName' = [n \in DOMAIN byName \ lost |-> byName[n]]
      BY <2>2 DEF PruneGone, Without
    <3>2. t \notin gone
      BY <3>1
    <3>3. ~Contested(byHash[t]) =>
             byHash[t] \notin lost /\ byHash[t] \in DOMAIN byName
      BY <1>1, <3>2, PruneKeeps DEF MetaInv, NamesLeadHome
    <3> HIDE DEF gone, lost
    <3> QED BY <3>1, <3>2, <3>3
  <2>3. ASSUME UNCHANGED <<byHash, byName>> PROVE Stable
    BY <2>3
  <2>4. ASSUME Restart PROVE Stable
    BY <2>4 DEF Restart
  <2> QED
    BY <1>1, <2>1, <2>2, <2>3, <2>4
       DEF MetaNext, Reload, Load, Publish, Withdraw, LoadFails, ListMarkers,
           ListFails, ListNotFound, Already, LoadGone, metaVars
<1> QED BY <1>1, MetaInvariant, PTL DEF MetaSpec, NamesAreStable

-----------------------------------------------------------------------------
(* Induction over the numbers up to n, with a set in place of a predicate *)

\* Among the members of a set of naturals one is the least.
LEMMA LeastExists ==
    ASSUME NEW S \in SUBSET Nat, S # {}
    PROVE  \E x \in S : \A y \in S : x <= y
<1> DEFINE R == OpToRel(<, Nat)
<1>1. IsWellFoundedOn(R, Nat)
  BY NatLessThanWellFounded
<1>2. \E x \in S : \A y \in S : ~(<<y, x>> \in R)
  BY <1>1, WFMin
<1>3. ASSUME NEW x \in Nat, NEW y \in Nat, y < x PROVE <<y, x>> \in R
  BY <1>3 DEF OpToRel
<1>4. PICK x \in S : \A y \in S : ~(<<y, x>> \in R)
  BY <1>2
<1>5. ASSUME NEW y \in S PROVE x <= y
  <2>1. x \in Nat /\ y \in Nat /\ ~(y < x)
    BY <1>3, <1>4
  <2> QED BY <2>1
<1> QED BY <1>5

\* From each number to the next one.
LEMMA Upwards ==
    ASSUME NEW n \in Nat, NEW G, 0 \in G,
           \A i \in 0 .. n - 1 : i \in G => i + 1 \in G
    PROVE  \A i \in 0 .. n : i \in G
<1> DEFINE B == {i \in 0 .. n : i \notin G}
<1> SUFFICES ASSUME B # {} PROVE FALSE
  OBVIOUS
<1>1. B \in SUBSET Nat
  OBVIOUS
<1>2. PICK x \in B : \A y \in B : x <= y
  <2> HIDE DEF B
  <2> QED BY <1>1, LeastExists
<1>3. x # 0 /\ x - 1 \in 0 .. n - 1
  BY <1>2
<1>4. x - 1 \in G
  <2>1. ~(x <= x - 1)
    BY <1>3
  <2> QED BY <1>2, <1>3, <2>1
<1> QED BY <1>2, <1>3, <1>4

\* From all greater numbers to each one.
LEMMA Downwards ==
    ASSUME NEW n \in Nat, NEW G,
           \A i \in 0 .. n : (\A j \in i + 1 .. n : j \in G) => i \in G
    PROVE  \A i \in 0 .. n : i \in G
<1> DEFINE B == {d \in 0 .. n : n - d \notin G}
<1>1. B = {}
  <2> SUFFICES ASSUME B # {} PROVE FALSE
    OBVIOUS
  <2>1. B \in SUBSET Nat
    OBVIOUS
  <2>2. PICK x \in B : \A y \in B : x <= y
    <3> HIDE DEF B
    <3> QED BY <2>1, LeastExists
  <2>3. n - x \in 0 .. n
    BY <2>2
  <2>4. ASSUME NEW j \in n - x + 1 .. n PROVE j \in G
    <3>1. n - j \in 0 .. n /\ ~(x <= n - j) /\ n - (n - j) = j
      BY <2>2, <2>3
    <3> QED BY <2>2, <3>1
  <2> QED BY <2>2, <2>3, <2>4
<1> SUFFICES ASSUME NEW i \in 0 .. n PROVE i \in G
  OBVIOUS
<1>2. n - i \in 0 .. n /\ n - (n - i) = i
  OBVIOUS
<1> QED BY <1>1, <1>2

-----------------------------------------------------------------------------
(* The recursive functions of the models exist *)

\* A value at each number up to n that depends on the one at a greater
\* number, or is given.
Forward(n, V, Stop, base, next, step) ==
    /\ n \in Nat /\ base \in [0 .. n -> V]
    /\ step \in [(0 .. n) \X V -> V]
    /\ \A t \in 0 .. n : t \notin Stop => next[t] \in t + 1 .. n

Solves(f, n, Stop, base, next, step) ==
    \A t \in 0 .. n :
        f[t] = IF t \in Stop THEN base[t] ELSE step[<<t, f[next[t]]>>]

\* There is a function that has at every number what the one at a greater
\* number gives, as the LET-recursive functions of Files do.
LEMMA ForwardRecursion ==
    ASSUME NEW n, NEW V, NEW Stop, NEW base, NEW next, NEW step,
           Forward(n, V, Stop, base, next, step)
    PROVE  \E f \in [0 .. n -> V] : Solves(f, n, Stop, base, next, step)
<1>0. /\ n \in Nat /\ base \in [0 .. n -> V]
      /\ step \in [(0 .. n) \X V -> V]
      /\ \A t \in 0 .. n : t \notin Stop => next[t] \in t + 1 .. n
  BY DEF Forward
<1> DEFINE Right(f, i) == f[i] = IF i \in Stop THEN base[i]
                                 ELSE step[<<i, f[next[i]]>>]
           G == {t \in 0 .. n : \E f \in [t .. n -> V] :
                                  \A i \in t .. n : Right(f, i)}
<1>1. ASSUME NEW t \in 0 .. n, \A j \in t + 1 .. n : j \in G
      PROVE  t \in G
  <2>1. PICK f \in [t + 1 .. n -> V] : \A i \in t + 1 .. n : Right(f, i)
    <3>1. CASE t = n
      <4> DEFINE e == [i \in t + 1 .. n |-> base[t]]
      <4>1. t + 1 .. n = {}
        BY <3>1
      <4>2. e \in [t + 1 .. n -> V]
        BY <1>0
      <4> HIDE DEF e
      <4> QED BY <4>1, <4>2
    <3>2. CASE t # n
      <4>1. t + 1 \in t + 1 .. n
        BY <1>0, <3>2
      <4> QED BY <1>1, <4>1
    <3> QED BY <3>1, <3>2
  <2> DEFINE v == IF t \in Stop THEN base[t] ELSE step[<<t, f[next[t]]>>]
             g == [i \in t .. n |-> IF i = t THEN v ELSE f[i]]
  <2>2. v \in V
    <3>1. CASE t \in Stop
      BY <1>0, <3>1
    <3>2. CASE t \notin Stop
      <4>1. next[t] \in t + 1 .. n
        BY <1>0, <3>2
      <4>2. f[next[t]] \in V
        BY <4>1
      <4>3. <<t, f[next[t]]>> \in (0 .. n) \X V
        BY <4>2
      <4> QED BY <1>0, <3>2, <4>3
    <3> QED BY <3>1, <3>2
  <2>3. g \in [t .. n -> V]
    BY <2>2
  <2>4. ASSUME NEW i \in t .. n PROVE Right(g, i)
    <3>1. i \notin Stop => next[i] \in i + 1 .. n
      BY <1>0
    <3>2. i \notin Stop => g[next[i]] = f[next[i]]
      BY <3>1
    <3>3. CASE i = t
      BY <3>2, <3>3
    <3>4. CASE i # t
      <4>1. i \in t + 1 .. n /\ g[i] = f[i]
        BY <3>4
      <4>2. Right(f, i)
        BY <2>1, <4>1
      <4> QED BY <3>2, <4>1, <4>2
    <3> QED BY <3>3, <3>4
  <2> QED BY <2>3, <2>4
<1>2. 0 \in G
  <2> HIDE DEF G
  <2>1. \A t \in 0 .. n : (\A j \in t + 1 .. n : j \in G) => t \in G
    BY <1>1
  <2>2. \A t \in 0 .. n : t \in G
    BY <1>0, <2>1, Downwards
  <2> QED BY <1>0, <2>2
<1>3. PICK f \in [0 .. n -> V] : \A i \in 0 .. n : Right(f, i)
  BY <1>2
<1> QED BY <1>3 DEF Solves

-----------------------------------------------------------------------------
(* Pieces *)

\* Quotient and remainder.
LEMMA Division ==
    ASSUME NEW s \in Nat, NEW P \in Nat \ {0}
    PROVE  /\ s \div P \in Nat /\ s % P \in Nat /\ s % P < P
           /\ s = (s \div P) * P + (s % P)
OBVIOUS

\* Products grow with their factor, and only with it.
LEMMA Product ==
    ASSUME NEW a \in Int, NEW b \in Int, NEW P \in Nat \ {0}
    PROVE  /\ a * P \in Int /\ (a + 1) * P = a * P + P
           /\ a <= b => a * P <= b * P
           /\ a * P < b * P => a < b
OBVIOUS

\* The quotient is the only number of that place.
LEMMA Quotient ==
    ASSUME NEW s \in Nat, NEW P \in Nat \ {0}, NEW k \in Int,
           k * P <= s, s < k * P + P
    PROVE  s \div P = k
<1> DEFINE q == s \div P
           r == s % P
<1>1. q \in Nat /\ r \in Nat /\ r < P /\ s = q * P + r
  BY Division
<1> HIDE DEF q, r
<1>2. q * P \in Int /\ k * P \in Int
      /\ (q + 1) * P = q * P + P /\ (k + 1) * P = k * P + P
  BY <1>1, Product
<1>3. k * P < (q + 1) * P /\ q * P < (k + 1) * P
  BY <1>1, <1>2
<1>4. k < q + 1
  BY <1>1, <1>3, Product
<1>5. q < k + 1
  BY <1>1, <1>3, Product
<1>6. q = k
  BY <1>1, <1>4, <1>5
<1> QED BY <1>6 DEF q

\* The numbers that follow o.
Bytes(o, n) == [i \in 1 .. n |-> o + i]

\* A torrent as Files reads it.
Sized(tm) == tm.pieceLen \in Nat \ {0} /\ tm.totalLen \in Nat

\* A byte of a torrent is in a piece of it, at the remainder.
LEMMA PieceOfByte ==
    ASSUME NEW tm, Sized(tm), NEW s \in Nat, s < tm.totalLen
    PROVE  LET P == tm.pieceLen
               k == s \div P
               o == s % P
           IN /\ k \in Nat /\ o \in Nat /\ k < NumPieces(tm)
              /\ \E a, l \in Nat :
                    /\ a + o = s /\ o < l /\ Piece(tm, k) = Bytes(a, l)
                    /\ \A j \in 0 .. l - o - 1 : (s + j) \div P = k
<1> DEFINE P == tm.pieceLen
           T == tm.totalLen
           k == s \div P
           o == s % P
           l == LeastOf(P, T - k * P)
           N == (T + P - 1) \div P
<1>0. P \in Nat \ {0} /\ T \in Nat /\ s < T
  BY DEF Sized
<1>1. Piece(tm, k) = Bytes(k * P, l) /\ NumPieces(tm) = N
  BY DEF Piece, Bytes, NumPieces
<1> HIDE DEF P, T
<1>2. k \in Nat /\ o \in Nat /\ o < P /\ s = k * P + o
  BY <1>0, Division
<1>3. N \in Nat /\ T <= N * P
  <2> DEFINE r == (T + P - 1) % P
  <2>1. T + P - 1 \in Nat
    BY <1>0
  <2>2. N \in Nat /\ r \in Nat /\ r < P /\ T + P - 1 = N * P + r
    BY <1>0, <2>1, Division
  <2> HIDE DEF N, r
  <2>3. N * P \in Int
    BY <1>0, <2>2, Product
  <2> QED BY <1>0, <2>2, <2>3
<1> HIDE DEF N, o, k
<1>4. k * P \in Int /\ N * P \in Int
  BY <1>0, <1>2, <1>3, Product
<1>5. k < N
  <2>1. k * P < N * P
    BY <1>0, <1>2, <1>3, <1>4
  <2> QED BY <1>0, <1>2, <1>3, <2>1, Product
<1>6. l \in Nat /\ o < l /\ k * P + l <= T /\ l <= P
  BY <1>0, <1>2, <1>4 DEF LeastOf
<1> HIDE DEF l
<1>7. ASSUME NEW j \in 0 .. l - o - 1 PROVE (s + j) \div P = k
  <2>1. s + j \in Nat /\ k * P <= s + j /\ s + j < k * P + P
    BY <1>0, <1>2, <1>4, <1>6
  <2> QED BY <1>0, <1>2, <2>1, Quotient
<1> DEFINE a == k * P
<1>8. a \in Nat /\ a + o = s /\ Piece(tm, k) = Bytes(a, l)
  BY <1>0, <1>1, <1>2, <1>4
<1> HIDE DEF a
<1>9. \E x, y \in Nat :
         /\ x + o = s /\ o < y /\ Piece(tm, k) = Bytes(x, y)
         /\ \A j \in 0 .. y - o - 1 : (s + j) \div P = k
  BY <1>6, <1>7, <1>8
<1>10. k < NumPieces(tm)
  BY <1>1, <1>5
<1> QED BY <1>2, <1>9, <1>10 DEF P, k, o

-----------------------------------------------------------------------------
(* Reads *)

\* The bytes from a on.
LEMMA BytesFacts ==
    ASSUME NEW a \in Nat, NEW n \in Nat
    PROVE  /\ Bytes(a, n) \in Seq(Nat) /\ Len(Bytes(a, n)) = n
           /\ \A i \in 1 .. n : Bytes(a, n)[i] = a + i
           /\ n = 0 => Bytes(a, n) = <<>>
BY DEF Bytes

\* One sequence after the other, element by element.
LEMMA Joined ==
    ASSUME NEW K, NEW s \in Seq(K), NEW t \in Seq(K)
    PROVE  /\ s \o t \in Seq(K) /\ Len(s \o t) = Len(s) + Len(t)
           /\ \A i \in 1 .. Len(s) : (s \o t)[i] = s[i]
           /\ \A i \in 1 .. Len(t) : (s \o t)[Len(s) + i] = t[i]
OBVIOUS

\* Two sequences with the same elements are the same.
LEMMA SameElements ==
    ASSUME NEW K, NEW s \in Seq(K), NEW t \in Seq(K), Len(s) = Len(t),
           \A i \in 1 .. Len(s) : s[i] = t[i]
    PROVE  s = t
OBVIOUS

\* Bytes that follow bytes.
LEMMA BytesJoined ==
    ASSUME NEW a \in Nat, NEW m \in Nat, NEW n \in Nat
    PROVE  Bytes(a, m) \o Bytes(a + m, n) = Bytes(a, m + n)
<1> DEFINE x == Bytes(a, m)
           y == Bytes(a + m, n)
           z == Bytes(a, m + n)
<1>0. a + m \in Nat /\ m + n \in Nat
  OBVIOUS
<1>1. x \in Seq(Nat) /\ Len(x) = m /\ \A i \in 1 .. m : x[i] = a + i
  BY BytesFacts
<1>2. y \in Seq(Nat) /\ Len(y) = n /\ \A i \in 1 .. n : y[i] = a + m + i
  BY <1>0, BytesFacts
<1>3. /\ z \in Seq(Nat) /\ Len(z) = m + n
      /\ \A i \in 1 .. m + n : z[i] = a + i
  BY <1>0, BytesFacts
<1> HIDE DEF x, y, z
<1>4. /\ x \o y \in Seq(Nat) /\ Len(x \o y) = m + n
      /\ \A i \in 1 .. m : (x \o y)[i] = x[i]
      /\ \A i \in 1 .. n : (x \o y)[m + i] = y[i]
  <2> DEFINE w == x \o y
  <2>0. x \in Seq(Nat) /\ y \in Seq(Nat)
    BY <1>1, <1>2
  <2>1. /\ w \in Seq(Nat) /\ Len(w) = Len(x) + Len(y)
        /\ \A i \in 1 .. Len(x) : w[i] = x[i]
        /\ \A i \in 1 .. Len(y) : w[Len(x) + i] = y[i]
    BY <2>0, Joined
  <2> HIDE DEF w
  <2>2. /\ w \in Seq(Nat) /\ Len(w) = m + n
        /\ \A i \in 1 .. m : w[i] = x[i]
        /\ \A i \in 1 .. n : w[m + i] = y[i]
    BY <1>1, <1>2, <2>1
  <2> QED BY <2>2 DEF w
<1>5. ASSUME NEW i \in 1 .. m + n PROVE (x \o y)[i] = z[i]
  <2>1. CASE i <= m
    <3>1. i \in 1 .. m
      BY <2>1
    <3> QED BY <1>1, <1>3, <1>4, <3>1
  <2>2. CASE i > m
    <3>1. i - m \in 1 .. n /\ m + (i - m) = i /\ a + m + (i - m) = a + i
      BY <2>2
    <3> DEFINE j == i - m
    <3>2. j \in 1 .. n /\ m + j = i /\ a + m + j = a + i
      BY <3>1
    <3> HIDE DEF j
    <3>3. (x \o y)[m + j] = y[j]
      BY <1>4, <3>2
    <3>4. y[j] = a + m + j
      BY <1>2, <3>2
    <3>5. z[i] = a + i
      BY <1>3
    <3> QED BY <3>2, <3>3, <3>4, <3>5
  <2>3. i <= m \/ i > m
    OBVIOUS
  <2> QED BY <2>1, <2>2, <2>3
<1>6. x \o y = z
  BY <1>3, <1>4, <1>5, SameElements
<1> QED BY <1>6 DEF x, y, z

\* What the walk of ReadAt over the pieces returns: the bytes from b on, up
\* to the first one of a lost piece.
LEMMA WalkFacts ==
    ASSUME NEW tm, Sized(tm), NEW T, T = tm.totalLen,
           NEW b \in Nat, NEW want \in Nat, b + want <= T, NEW lost
    PROVE  \E c \in 0 .. want :
                 /\ Walk(tm, b, want, lost) = Bytes(b, c)
                 /\ \A i \in 0 .. c - 1 : (b + i) \div tm.pieceLen \notin lost
                 /\ c < want => (b + c) \div tm.pieceLen \in lost
<1> DEFINE P == tm.pieceLen
           num(t) == (b + t) \div P
           off(t) == (b + t) % P
           part(t) == IF num(t) \in lost THEN <<>> ELSE Piece(tm, num(t))
           cut(t) == LeastOf(want - t, Len(part(t)) - off(t))
           Body(f, t) ==
               IF t = want \/ num(t) >= NumPieces(tm) \/ off(t) >= Len(part(t))
               THEN <<>>
               ELSE SubSeq(part(t), off(t) + 1, off(t) + cut(t))
                        \o f[t + cut(t)]
           Stop == {t \in 0 .. want : t = want \/ num(t) \in lost}
           Good(f) == f = [t \in 0 .. want |-> Body(f, t)]
           walk == CHOOSE f : Good(f)
           R(s, t) == \E c \in 0 .. want - t :
                         /\ s = Bytes(b + t, c)
                         /\ \A i \in 0 .. c - 1 : (b + t + i) \div P \notin lost
                         /\ c < want - t => (b + t + c) \div P \in lost
<1>0. P \in Nat \ {0} /\ T \in Nat
  BY DEF Sized
<1>1. ASSUME NEW t \in 0 .. want, t \in Stop
      PROVE  \A f : Body(f, t) = <<>>
  <2>1. off(t) >= 0
    <3>1. b + t \in Nat
      OBVIOUS
    <3> QED BY <1>0, <3>1, Division
  <2> QED BY <1>1, <2>1
<1>2. ASSUME NEW t \in 0 .. want, t \notin Stop
      PROVE  /\ cut(t) \in 1 .. want - t
             /\ \A f : Body(f, t) = Bytes(b + t, cut(t)) \o f[t + cut(t)]
             /\ \A i \in 0 .. cut(t) - 1 : (b + t + i) \div P \notin lost
  <2> DEFINE s == b + t
             o == off(t)
             m == cut(t)
  <2>1. s \in Nat /\ s < T /\ t < want /\ num(t) \notin lost
    BY <1>0, <1>2
  <2>2. o \in Nat /\ num(t) < NumPieces(tm)
    BY <2>1, PieceOfByte
  <2>3. PICK a \in Nat, l \in Nat :
           /\ a + o = s /\ o < l /\ Piece(tm, num(t)) = Bytes(a, l)
           /\ \A j \in 0 .. l - o - 1 : (s + j) \div P = num(t)
    BY <2>1, PieceOfByte
  <2>4. part(t) = Bytes(a, l)
    BY <2>1, <2>3
  <2>5. Len(part(t)) = l
    BY <2>4, BytesFacts
  <2>6. m = LeastOf(want - t, l - o)
    BY <2>5
  <2> HIDE DEF o, m
  <2>7. m \in 1 .. want - t /\ m \in Nat /\ o + m <= l /\ m - 1 <= l - o - 1
    BY <2>1, <2>2, <2>3, <2>6 DEF LeastOf
  <2>8. SubSeq(part(t), o + 1, o + m) = Bytes(s, m)
    <3> DEFINE q == Bytes(a, l)
               e == o + m
               w == SubSeq(q, o + 1, e)
    <3>1. /\ s \in Nat /\ m \in Nat /\ o \in Nat /\ e \in Nat /\ e <= l
          /\ o <= e /\ e = o + m /\ a + o = s
      BY <2>1, <2>2, <2>3, <2>7
    <3>2. q \in Seq(Nat) /\ Len(q) = l /\ \A i \in 1 .. l : q[i] = a + i
      BY BytesFacts
    <3> HIDE DEF part, P, s, q, e
    <3>3. q \in Seq(Nat) /\ Len(q) = l /\ l \in Nat
      BY <3>2
    <3>4. o \in Nat /\ e \in Nat /\ o <= e /\ e <= l
      BY <3>1
    <3>5. w = [j \in 1 .. e - o |-> q[o + j]]
      BY <3>3, <3>4
    <3> HIDE DEF w
    <3>6. e - o = m
      BY <3>1
    <3>7. ASSUME NEW j \in 1 .. m PROVE q[o + j] = s + j
      <4>1. o + j \in 1 .. l /\ a + (o + j) = s + j
        BY <3>1
      <4> QED BY <3>2, <4>1
    <3>8. w = [j \in 1 .. m |-> s + j]
      BY <3>5, <3>6, <3>7
    <3> QED BY <2>4, <3>8 DEF q, e, w, Bytes
  <2>9. ~(num(t) >= NumPieces(tm)) /\ t # want /\ ~(o >= Len(part(t)))
    <3>1. NumPieces(tm) \in Int /\ num(t) \in Int
      BY <1>0, <2>1, PieceOfByte DEF NumPieces
    <3> QED BY <2>1, <2>2, <2>3, <2>5, <3>1
  <2>10. \A f : Body(f, t) = Bytes(s, m) \o f[t + m]
    <3> HIDE DEF part, P, s, num
    <3> QED BY <2>8, <2>9 DEF o, m
  <2>11. ASSUME NEW i \in 0 .. m - 1 PROVE (s + i) \div P \notin lost
    <3>1. i \in 0 .. l - o - 1
      BY <2>2, <2>3, <2>7
    <3> QED BY <2>1, <2>3, <3>1
  <2> QED BY <2>7, <2>10, <2>11 DEF m
<1> HIDE DEF cut, Stop, Body
<1>3. \E f : Good(f)
  <2> DEFINE V == Seq(Nat)
             base == [t \in 0 .. want |-> <<>>]
             next == [t \in 0 .. want |-> t + cut(t)]
             step == [x \in (0 .. want) \X V |->
                        IF x[1] \in Stop THEN <<>>
                        ELSE Bytes(b + x[1], cut(x[1])) \o x[2]]
  <2>1. base \in [0 .. want -> V]
    OBVIOUS
  <2>2. ASSUME NEW x \in (0 .. want) \X V, x[1] \notin Stop
        PROVE  Bytes(b + x[1], cut(x[1])) \o x[2] \in V
    <3>1. x[1] \in 0 .. want /\ x[2] \in V /\ b + x[1] \in Nat
      OBVIOUS
    <3>2. cut(x[1]) \in 1 .. want - x[1]
      BY <1>2, <2>2, <3>1
    <3>3. Bytes(b + x[1], cut(x[1])) \in Seq(Nat)
      <4>1. cut(x[1]) \in Nat
        BY <3>1, <3>2
      <4> QED BY <3>1, <4>1, BytesFacts
    <3> QED BY <3>1, <3>3
  <2>3. step \in [(0 .. want) \X V -> V]
    BY <2>2
  <2>4. ASSUME NEW t \in 0 .. want, t \notin Stop
        PROVE  next[t] \in t + 1 .. want
    <3>1. cut(t) \in 1 .. want - t /\ next[t] = t + cut(t)
      BY <1>2, <2>4
    <3> HIDE DEF next
    <3> QED BY <3>1
  <2> HIDE DEF base, next, step, V
  <2>5. Forward(want, V, Stop, base, next, step)
    BY <2>1, <2>3, <2>4 DEF Forward
  <2>6. PICK f \in [0 .. want -> V] :
           Solves(f, want, Stop, base, next, step)
    BY <2>5, ForwardRecursion
  <2>7. ASSUME NEW t \in 0 .. want PROVE f[t] = Body(f, t)
    <3>1. CASE t \in Stop
      <4>1. f[t] = base[t]
        BY <2>6, <3>1 DEF Solves
      <4> QED BY <1>1, <3>1, <4>1 DEF base
    <3>2. CASE t \notin Stop
      <4>1. f[t] = step[<<t, f[next[t]]>>]
        BY <2>6, <3>2 DEF Solves
      <4>2. next[t] \in 0 .. want /\ next[t] = t + cut(t)
        BY <2>4, <3>2 DEF next
      <4>3. f[next[t]] \in V
        BY <4>2
      <4> DEFINE y == f[next[t]]
      <4>4. step[<<t, y>>] = Bytes(b + t, cut(t)) \o y
        <5> HIDE DEF y
        <5>1. <<t, y>> \in (0 .. want) \X V
          BY <4>3 DEF y
        <5> QED BY <3>2, <5>1 DEF step
      <4> QED BY <1>2, <3>2, <4>1, <4>2, <4>4
    <3> QED BY <3>1, <3>2
  <2>8. f = [t \in 0 .. want |-> Body(f, t)]
    BY <2>7
  <2> QED BY <2>8
<1>4. Good(walk)
  <2> HIDE DEF Good
  <2> QED BY <1>3
<1>5. ASSUME NEW t \in 0 .. want PROVE walk[t] = Body(walk, t)
  <2> HIDE DEF walk
  <2> QED BY <1>4
<1> DEFINE G == {t \in 0 .. want : R(walk[t], t)}
<1>6. ASSUME NEW t \in 0 .. want, \A j \in t + 1 .. want : j \in G
      PROVE  t \in G
  <2> HIDE DEF walk
  <2>1. CASE t \in Stop
    <3>1. walk[t] = <<>>
      BY <1>1, <1>5, <2>1
    <3>2. b + t \in Nat /\ want - t >= 0
      OBVIOUS
    <3>3. walk[t] = Bytes(b + t, 0)
      BY <3>1, <3>2, BytesFacts
    <3>4. 0 < want - t => (b + t + 0) \div P \in lost
      BY <2>1 DEF Stop
    <3> QED BY <3>2, <3>3, <3>4
  <2>2. CASE t \notin Stop
    <3> DEFINE m == cut(t)
    <3>1. /\ m \in 1 .. want - t
          /\ walk[t] = Bytes(b + t, m) \o walk[t + m]
          /\ \A i \in 0 .. m - 1 : (b + t + i) \div P \notin lost
      BY <1>2, <1>5, <2>2
    <3> HIDE DEF m
    <3>2. t + m \in t + 1 .. want
      BY <3>1
    <3>3. PICK c \in 0 .. want - (t + m) :
             /\ walk[t + m] = Bytes(b + (t + m), c)
             /\ \A i \in 0 .. c - 1 : (b + (t + m) + i) \div P \notin lost
             /\ c < want - (t + m) => (b + (t + m) + c) \div P \in lost
      BY <1>6, <3>2
    <3> DEFINE d == m + c
    <3>4. d \in 0 .. want - t /\ d = m + c
      BY <3>1
    <3> HIDE DEF d
    <3>8. walk[t] = Bytes(b + t, d)
      <4>1. b + (t + m) = (b + t) + m /\ b + t \in Nat /\ m \in Nat /\ c \in Nat
        BY <3>1
      <4>2. walk[t] = Bytes(b + t, m) \o Bytes((b + t) + m, c)
        BY <3>1, <3>3, <4>1
      <4> DEFINE s == b + t
      <4>3. s \in Nat /\ m \in Nat /\ c \in Nat
        BY <4>1
      <4> HIDE DEF s
      <4>4. Bytes(s, m) \o Bytes(s + m, c) = Bytes(s, m + c)
        BY <4>3, BytesJoined
      <4>5. Bytes(s, m) \o Bytes(s + m, c) = Bytes(s, d)
        BY <3>4, <4>4
      <4> QED BY <4>2, <4>5 DEF s
    <3>9. ASSUME NEW i \in 0 .. d - 1 PROVE (b + t + i) \div P \notin lost
      <4>1. CASE i < m
        <5>1. i \in 0 .. m - 1
          BY <3>1, <4>1
        <5> QED BY <3>1, <5>1
      <4>2. CASE i >= m
        <5>1. i - m \in 0 .. c - 1 /\ b + (t + m) + (i - m) = b + t + i
          BY <3>1, <3>4, <4>2
        <5> QED BY <3>3, <5>1
      <4> QED BY <3>1, <4>1, <4>2
    <3>10. ASSUME d < want - t PROVE (b + t + d) \div P \in lost
      <4>1. c < want - (t + m) /\ b + (t + m) + c = b + t + d
        BY <3>1, <3>4, <3>10
      <4> QED BY <3>3, <4>1
    <3>11. R(walk[t], t)
      BY <3>4, <3>8, <3>9, <3>10
    <3> QED BY <3>11
  <2> QED BY <2>1, <2>2
<1>7. 0 \in G
  <2> HIDE DEF G
  <2>1. \A t \in 0 .. want : (\A j \in t + 1 .. want : j \in G) => t \in G
    BY <1>6
  <2>2. \A t \in 0 .. want : t \in G
    BY <2>1, Downwards
  <2> QED BY <2>2
<1>8. \E c \in 0 .. want :
         /\ walk[0] = Bytes(b, c)
         /\ \A i \in 0 .. c - 1 : (b + i) \div P \notin lost
         /\ c < want => (b + c) \div P \in lost
  <2> HIDE DEF walk
  <2>1. b + 0 = b /\ want - 0 = want
    OBVIOUS
  <2> QED BY <1>7, <2>1
<1> QED BY <1>8 DEF Walk, Body, cut, Stop

-----------------------------------------------------------------------------
(* buildMeta *)

FileInfo == [path : Seq(Parts), length : Nat]

\* Each file begins where the one before it ends, the first one at zero, and
\* none reaches beyond the end.
LEMMA OffsetsFacts ==
    ASSUME NEW files \in Seq(FileInfo), NEW n, n = Len(files),
           NEW o, o = Offsets(files)
    PROVE  /\ n \in Nat /\ o \in [1 .. n + 1 -> Nat] /\ o[1] = 0
           /\ \A i \in 1 .. n : o[i + 1] = o[i] + files[i].length
           /\ \A i \in 1 .. n + 1 : o[i] <= o[n + 1]
<1> DEFINE Next1(f, i) == IF i = 1 THEN 0 ELSE f[i - 1] + files[i - 1].length
           Good(f) == f = [i \in 1 .. n + 1 |-> Next1(f, i)]
           G == {k \in 0 .. n : \E f \in [1 .. k + 1 -> Nat] :
                                  \A i \in 1 .. k + 1 : f[i] = Next1(f, i)}
<1>0. n \in Nat /\ \A i \in 1 .. n : files[i].length \in Nat
  <2>1. \A i \in 1 .. n : files[i] \in FileInfo
    OBVIOUS
  <2> QED BY <2>1 DEF FileInfo
<1>1. 0 \in G
  <2> DEFINE f == [i \in 1 .. 1 |-> 0]
  <2>1. f \in [1 .. 0 + 1 -> Nat] /\ \A i \in 1 .. 0 + 1 : f[i] = Next1(f, i)
    OBVIOUS
  <2> HIDE DEF f
  <2> QED BY <1>0, <2>1
<1>2. ASSUME NEW k \in 0 .. n - 1, k \in G PROVE k + 1 \in G
  <2>1. PICK f \in [1 .. k + 1 -> Nat] :
           \A i \in 1 .. k + 1 : f[i] = Next1(f, i)
    BY <1>2
  <2> DEFINE g == [i \in 1 .. (k + 1) + 1 |->
                     IF i = k + 2 THEN f[k + 1] + files[k + 1].length
                     ELSE f[i]]
  <2>2. f[k + 1] + files[k + 1].length \in Nat
    BY <1>0
  <2>3. g \in [1 .. (k + 1) + 1 -> Nat]
    BY <2>2
  <2>4. ASSUME NEW i \in 1 .. (k + 1) + 1 PROVE g[i] = Next1(g, i)
    <3>1. CASE i = k + 2
      <4>1. /\ i - 1 = k + 1 /\ i - 1 \in 1 .. (k + 1) + 1
            /\ i # 1 /\ k + 1 # k + 2
        BY <3>1
      <4>2. g[i - 1] = f[k + 1]
        BY <4>1
      <4> QED BY <3>1, <4>1, <4>2
    <3>2. CASE i # k + 2
      <4>1. i \in 1 .. k + 1 /\ g[i] = f[i]
        BY <3>2
      <4>2. i # 1 => g[i - 1] = f[i - 1]
        BY <4>1
      <4> QED BY <2>1, <4>1, <4>2
    <3> QED BY <3>1, <3>2
  <2> HIDE DEF g
  <2>5. k + 1 \in 0 .. n
    BY <1>0
  <2> QED BY <2>3, <2>4, <2>5
<1>3. \E f : Good(f)
  <2>1. n \in G
    <3> HIDE DEF G
    <3>1. \A i \in 0 .. n - 1 : i \in G => i + 1 \in G
      BY <1>2
    <3>2. \A i \in 0 .. n : i \in G
      BY <1>0, <1>1, <3>1, Upwards
    <3> QED BY <1>0, <3>2
  <2>2. PICK f \in [1 .. n + 1 -> Nat] :
           \A i \in 1 .. n + 1 : f[i] = Next1(f, i)
    BY <2>1
  <2>3. f = [i \in 1 .. n + 1 |-> Next1(f, i)]
    BY <2>2
  <2> QED BY <2>3
<1> DEFINE w == CHOOSE f : Good(f)
<1>4. o = w
  BY DEF Offsets
<1>5. Good(w)
  <2> HIDE DEF Good
  <2> QED BY <1>3
<1> HIDE DEF w
<1>6. DOMAIN o = 1 .. n + 1 /\ \A i \in 1 .. n + 1 : o[i] = Next1(o, i)
  BY <1>4, <1>5
<1>7. o[1] = 0
  BY <1>0, <1>6
<1>8. \A i \in 1 .. n : o[i + 1] = o[i] + files[i].length
  <2> SUFFICES ASSUME NEW i \in 1 .. n
               PROVE  o[i + 1] = o[i] + files[i].length
    OBVIOUS
  <2>1. i + 1 \in 1 .. n + 1 /\ i + 1 # 1 /\ i + 1 - 1 = i
    BY <1>0
  <2> QED BY <1>6, <2>1
<1>9. \A i \in 1 .. n + 1 : o[i] \in Nat
  <2> DEFINE H == {k \in 0 .. n : o[k + 1] \in Nat}
  <2>1. 0 \in H
    BY <1>0, <1>7
  <2>2. ASSUME NEW k \in 0 .. n - 1, k \in H PROVE k + 1 \in H
    <3>1. k + 1 \in 1 .. n
      BY <1>0
    <3>2. o[(k + 1) + 1] = o[k + 1] + files[k + 1].length
      BY <1>8, <3>1
    <3> QED BY <1>0, <2>2, <3>1, <3>2
  <2>3. \A k \in 0 .. n : k \in H
    <3> HIDE DEF H
    <3>1. \A k \in 0 .. n - 1 : k \in H => k + 1 \in H
      BY <2>2
    <3> QED BY <1>0, <2>1, <3>1, Upwards
  <2> SUFFICES ASSUME NEW i \in 1 .. n + 1 PROVE o[i] \in Nat
    OBVIOUS
  <2>4. i - 1 \in 0 .. n /\ (i - 1) + 1 = i
    BY <1>0
  <2> QED BY <2>3, <2>4
<1>10. \A i \in 1 .. n + 1 : o[i] <= o[n + 1]
  <2> DEFINE H == {k \in 0 .. n : o[k + 1] <= o[n + 1]}
  <2>1. ASSUME NEW k \in 0 .. n, \A j \in k + 1 .. n : j \in H PROVE k \in H
    <3>1. CASE k = n
      BY <1>0, <1>9, <3>1
    <3>2. CASE k # n
      <4>1. k + 1 \in 1 .. n /\ k + 1 \in k + 1 .. n /\ k + 1 \in 1 .. n + 1
            /\ (k + 1) + 1 \in 1 .. n + 1 /\ n + 1 \in 1 .. n + 1
        BY <1>0, <3>2
      <4>2. o[(k + 1) + 1] <= o[n + 1]
        BY <2>1, <4>1
      <4>3. o[(k + 1) + 1] = o[k + 1] + files[k + 1].length
        BY <1>8, <4>1
      <4> DEFINE x == o[k + 1]
                 y == o[(k + 1) + 1]
                 z == o[n + 1]
                 l == files[k + 1].length
      <4>4. x \in Nat /\ y \in Nat /\ z \in Nat /\ l \in Nat
        BY <1>0, <1>9, <4>1
      <4>5. x <= z
        <5> HIDE DEF x, y, z, l
        <5>1. y = x + l /\ y <= z
          BY <4>2, <4>3 DEF x, y, z, l
        <5> QED BY <4>4, <5>1
      <4> QED BY <4>5
    <3> QED BY <3>1, <3>2
  <2>2. \A k \in 0 .. n : k \in H
    <3> HIDE DEF H
    <3>1. \A k \in 0 .. n : (\A j \in k + 1 .. n : j \in H) => k \in H
      BY <2>1
    <3> QED BY <1>0, <3>1, Downwards
  <2> SUFFICES ASSUME NEW i \in 1 .. n + 1 PROVE o[i] <= o[n + 1]
    OBVIOUS
  <2>3. i - 1 \in 0 .. n /\ (i - 1) + 1 = i
    BY <1>0
  <2> QED BY <2>2, <2>3
<1>11. o \in [1 .. n + 1 -> Nat]
  BY <1>5, <1>4, <1>9
<1> QED BY <1>0, <1>7, <1>8, <1>10, <1>11

\* The greatest of some numbers below a bound.
LEMMA GreatestExists ==
    ASSUME NEW n \in Nat, NEW S \in SUBSET (1 .. n), S # {}
    PROVE  \E x \in S : \A y \in S : x >= y
<1> DEFINE D == {n - x : x \in S}
<1>0. \A x \in S : x \in 1 .. n /\ n - x \in Nat
  <2>1. \A x \in S : x \in 1 .. n
    OBVIOUS
  <2> QED BY <2>1
<1>1. D \in SUBSET Nat /\ D # {}
  BY <1>0
<1>2. PICK d \in D : \A e \in D : d <= e
  <2> HIDE DEF D
  <2> QED BY <1>1, LeastExists
<1>3. PICK x \in S : d = n - x
  BY <1>2
<1>4. ASSUME NEW y \in S PROVE x >= y
  <2>1. n - y \in D /\ x \in Nat /\ y \in Nat
    BY <1>0
  <2>2. n - x <= n - y
    BY <1>2, <1>3, <2>1
  <2> QED BY <2>1, <2>2
<1> QED BY <1>4

\* A root name is made of parts, and one of one part a path can spell.
LEMMA SanitizeFacts ==
    ASSUME NEW n \in Seq(Parts)
    PROVE  /\ SanitizeName(n) \in Seq(Parts)
           /\ Len(SanitizeName(n)) = 1 =>
                 \E c \in Words : SanitizeName(n) = <<c>>
<1> DEFINE kept == {i \in DOMAIN n : n[i] # ""}
           trimmed == IF kept = {} THEN <<"">>
                      ELSE SubSeq(n, Min(kept), Max(kept))
           s == SanitizeName(n)
<1>1. s = IF trimmed \in {<<"">>, <<".">>, <<"..">>} THEN <<"torrent">>
          ELSE trimmed
  BY DEF SanitizeName
<1>2. trimmed \in Seq(Parts)
  <2>1. CASE kept = {}
    <3>1. trimmed = <<"">>
      BY <2>1
    <3>2. <<"">> \in Seq(Parts)
      <4>1. "" \in Parts
        BY ServeAssumption
      <4>2. \A x \in Parts : <<x>> \in Seq(Parts)
        OBVIOUS
      <4> QED BY <4>1, <4>2
    <3> HIDE DEF trimmed
    <3> QED BY <3>1, <3>2
  <2>2. CASE kept # {}
    <3>0. Len(n) \in Nat /\ DOMAIN n = 1 .. Len(n)
      OBVIOUS
    <3>1. \A i \in kept : i \in 1 .. Len(n)
      BY <3>0
    <3> HIDE DEF kept
    <3>2. kept \in SUBSET (1 .. Len(n)) /\ kept \in SUBSET Nat
      BY <3>0, <3>1
    <3>3. Min(kept) \in kept
      <4>1. \E x \in kept : \A y \in kept : x <= y
        BY <2>2, <3>2, LeastExists
      <4> QED BY <4>1 DEF Min
    <3>4. Max(kept) \in kept
      <4>1. \E x \in kept : \A y \in kept : x >= y
        BY <2>2, <3>0, <3>2, GreatestExists
      <4> QED BY <4>1 DEF Max
    <3>5. Min(kept) \in 1 .. Len(n) /\ Max(kept) \in 1 .. Len(n)
      BY <3>1, <3>3, <3>4
    <3> DEFINE a == Min(kept)
               b == Max(kept)
    <3>6. a \in 1 .. Len(n) /\ b \in 1 .. Len(n)
      BY <3>5
    <3> HIDE DEF a, b
    <3>7. SubSeq(n, a, b) \in Seq(Parts)
      BY <3>6
    <3> QED BY <2>2, <3>7 DEF a, b
  <2> QED BY <2>1, <2>2
<1> HIDE DEF trimmed, s
<1>3. CASE trimmed \in {<<"">>, <<".">>, <<"..">>}
  <2>1. "torrent" \in Words
    BY ServeAssumption DEF Words
  <2>2. s = <<"torrent">>
    BY <1>1, <1>3
  <2>3. <<"torrent">> \in Seq(Parts)
    <3>1. \A x \in Parts : <<x>> \in Seq(Parts)
      OBVIOUS
    <3> QED BY <2>1, <3>1 DEF Words
  <2> QED BY <2>1, <2>2, <2>3 DEF s
<1>4. CASE trimmed \notin {<<"">>, <<".">>, <<"..">>}
  <2>1. s = trimmed
    BY <1>1, <1>4 DEF s
  <2>2. ASSUME Len(s) = 1 PROVE \E c \in Words : s = <<c>>
    <3>1. trimmed = <<trimmed[1]>> /\ trimmed[1] \in Parts
      <4>1. Len(trimmed) = 1
        BY <2>1, <2>2
      <4> QED BY <1>2, <4>1
    <3>2. trimmed[1] \in Words
      BY <1>4, <3>1 DEF Words
    <3> QED BY <2>1, <3>1, <3>2
  <2> QED BY <1>2, <2>1, <2>2 DEF s
<1> QED BY <1>3, <1>4

\* The files of tm are its bytes, one file after the other.
Contiguous(tm) ==
    LET n == Len(tm.files)
        f == tm.files
    IN /\ n \in Nat \ {0} /\ f \in Seq(FileType)
       /\ \A i \in 1 .. n : f[i].offset + f[i].size <= tm.totalLen
       /\ f[1].offset = 0
       /\ \A i \in 1 .. n - 1 : f[i + 1].offset = f[i].offset + f[i].size
       /\ f[n].offset + f[n].size = tm.totalLen

\* Its name and its paths can be spelled, and no path leads through a file.
Spelled(tm) ==
    /\ \E c \in Words : tm.name = <<c>>
    /\ \A i, j \in DOMAIN tm.files :
          /\ tm.files[i].path \in Seq(Words)
          /\ IsPrefix(tm.files[i].path, tm.files[j].path) => i = j

\* A sequence, and where its elements are from.
LEMMA ElementsIn ==
    ASSUME NEW K, NEW L, NEW p \in Seq(K), \A i \in DOMAIN p : p[i] \in L
    PROVE  p \in Seq(L)
<1> DEFINE n == Len(p)
<1>1. n \in Nat /\ DOMAIN p = 1 .. n /\ p = [i \in 1 .. n |-> p[i]]
  OBVIOUS
<1> HIDE DEF n
<1>2. p \in [1 .. n -> L]
  BY <1>1
<1> QED BY <1>1, <1>2

\* The elements of a sequence are from where the sequence is from.
LEMMA ElementsOf ==
    ASSUME NEW K, NEW p \in Seq(K)
    PROVE  \A i \in DOMAIN p : p[i] \in K
OBVIOUS

\* A sequence of parts among which are none of the odd ones.
LEMMA SpelledPath ==
    ASSUME NEW p \in Seq(Parts), ToSet(p) \cap {"", ".", ".."} = {}
    PROVE  p \in Seq(Words)
<1>1. \A i \in DOMAIN p : p[i] \in Parts
  BY ElementsOf
<1>2. \A i \in DOMAIN p : p[i] \in Words
  BY <1>1 DEF Words, ToSet
<1> QED BY <1>2, ElementsIn

\* What buildMeta makes of a .torrent.
LEMMA TorrentFacts ==
    ASSUME NEW info \in Infos
    PROVE  LET tm == BuildMeta(info)
           IN /\ Sized(tm) /\ Contiguous(tm) /\ tm.name \in Seq(Parts)
              /\ WellFormed(info) => Spelled(tm)
<1> DEFINE tm == BuildMeta(info)
           n == Len(info.files)
           o == Offsets(info.files)
           name == SanitizeName(info.name)
<1>0. /\ info.name \in Seq(Parts) /\ info.length \in Nat
      /\ info.pieceLen \in Nat \ {0} /\ info.files \in Seq(FileInfo)
  <2>1. info \in InfoType
    BY ServeAssumption
  <2>2. FileInfo = [path : Seq(Parts), length : Nat]
    BY DEF FileInfo
  <2> QED BY <2>1, <2>2 DEF InfoType
<1>1. /\ name \in Seq(Parts)
      /\ WellFormed(info) => \E c \in Words : name = <<c>>
  BY <1>0, SanitizeFacts DEF WellFormed
<1>2. /\ n \in Nat /\ o \in [1 .. n + 1 -> Nat] /\ o[1] = 0
      /\ \A i \in 1 .. n : o[i + 1] = o[i] + info.files[i].length
      /\ \A i \in 1 .. n + 1 : o[i] <= o[n + 1]
  BY <1>0, OffsetsFacts
<1>3. \A i \in 1 .. n : /\ info.files[i] \in FileInfo
                        /\ info.files[i].length \in Nat
                        /\ info.files[i].path \in Seq(Parts)
  <2>1. \A i \in 1 .. n : info.files[i] \in FileInfo
    BY <1>0
  <2> QED BY <2>1 DEF FileInfo
<1>4. /\ tm.name = name /\ tm.pieceLen = info.pieceLen
      /\ tm.totalLen = IF n = 0 THEN info.length ELSE o[n + 1]
      /\ tm.files = IF n = 0 THEN <<Entry(name, info.length, 0)>>
                    ELSE [i \in 1 .. n |-> Entry(info.files[i].path,
                                                 info.files[i].length, o[i])]
  BY DEF BuildMeta
<1> HIDE DEF tm, n, o, name
<1>5. Sized(tm)
  <2>1. n # 0 => o[n + 1] \in Nat
    BY <1>2
  <2> QED BY <1>0, <1>4, <2>1 DEF Sized
<1>6. CASE n = 0
  <2>1. tm.files = <<Entry(name, info.length, 0)>>
    BY <1>4, <1>6
  <2>2. WellFormed(info) => name \in Seq(Words)
    <3>1. \A x \in Words : <<x>> \in Seq(Words)
      OBVIOUS
    <3> QED BY <1>1, <3>1
  <2>3. Entry(name, info.length, 0) \in FileType
    BY <1>0, <1>1 DEF Entry, FileType
  <2> DEFINE e == Entry(name, info.length, 0)
  <2>4. e.path = name /\ e.size = info.length /\ e.offset = 0
    BY DEF Entry
  <2> HIDE DEF e
  <2>5. tm.files \in Seq(FileType) /\ Len(tm.files) = 1 /\ tm.files[1] = e
        /\ DOMAIN tm.files = {1}
    BY <2>1, <2>3 DEF e
  <2>6. tm.totalLen = info.length
    BY <1>4, <1>6
  <2>7. Contiguous(tm)
    BY <1>0, <2>4, <2>5, <2>6 DEF Contiguous
  <2>8. WellFormed(info) => Spelled(tm)
    BY <1>1, <1>4, <2>2, <2>4, <2>5 DEF Spelled
  <2> QED BY <1>1, <1>4, <1>5, <2>7, <2>8 DEF tm
<1>7. CASE n # 0
  <2> DEFINE f == tm.files
             len(i) == info.files[i].length
  <2>1. f = [i \in 1 .. n |-> Entry(info.files[i].path, len(i), o[i])]
    BY <1>4, <1>7
  <2>2. \A i \in 1 .. n : o[i] \in Nat /\ o[i + 1] \in Nat
    BY <1>2
  <2>3. \A i \in 1 .. n :
           /\ f[i] \in FileType
           /\ f[i].path = info.files[i].path
           /\ f[i].size = len(i) /\ f[i].offset = o[i]
    BY <1>3, <2>1, <2>2 DEF Entry, FileType
  <2>4. f \in Seq(FileType) /\ Len(f) = n /\ DOMAIN f = 1 .. n
    <3>1. n \in Nat /\ DOMAIN f = 1 .. n /\ \A i \in 1 .. n : f[i] \in FileType
      BY <1>2, <2>1, <2>3
    <3>2. f = [i \in 1 .. n |-> f[i]]
      BY <2>1
    <3> HIDE DEF f
    <3>3. f \in [1 .. n -> FileType]
      BY <3>1, <3>2
    <3>4. f \in Seq(FileType)
      BY <3>1, <3>3
    <3>5. Len(f) = n
      BY <3>1, <3>4
    <3> QED BY <3>1, <3>4, <3>5
  <2>5. tm.totalLen = o[n + 1]
    BY <1>4, <1>7
  <2> HIDE DEF f
  <2>6. \A i \in 1 .. n : f[i].offset + f[i].size = o[i + 1]
    BY <1>2, <2>3
  <2>7. \A i \in 1 .. n : f[i].offset + f[i].size <= tm.totalLen
    <3>1. \A i \in 1 .. n : i + 1 \in 1 .. n + 1
      BY <1>2
    <3> QED BY <1>2, <2>5, <2>6, <3>1
  <2>8. f[1].offset = 0
    <3>1. 1 \in 1 .. n
      BY <1>2, <1>7
    <3> QED BY <1>2, <2>3, <3>1
  <2>9. \A i \in 1 .. n - 1 : f[i + 1].offset = f[i].offset + f[i].size
    <3>1. \A i \in 1 .. n - 1 : i \in 1 .. n /\ i + 1 \in 1 .. n
      BY <1>2
    <3> QED BY <2>3, <2>6, <3>1
  <2>10. f[n].offset + f[n].size = tm.totalLen
    <3>1. n \in 1 .. n
      BY <1>2, <1>7
    <3> QED BY <2>5, <2>6, <3>1
  <2>11. Contiguous(tm)
    BY <1>2, <1>7, <2>4, <2>7, <2>8, <2>9, <2>10 DEF Contiguous, f
  <2>12. ASSUME WellFormed(info), NEW i \in 1 .. n, NEW j \in 1 .. n
         PROVE  /\ f[i].path \in Seq(Words)
                /\ IsPrefix(f[i].path, f[j].path) => i = j
    <3>1. /\ ToSet(info.files[i].path) \cap {"", ".", ".."} = {}
          /\ IsPrefix(info.files[i].path, info.files[j].path) => i = j
      <4>1. DOMAIN info.files = 1 .. n
        BY <1>0 DEF n
      <4> QED BY <2>12, <4>1 DEF WellFormed
    <3>2. info.files[i].path \in Seq(Words)
      BY <1>3, <3>1, SpelledPath
    <3> QED BY <2>3, <3>1, <3>2
  <2>13. WellFormed(info) => Spelled(tm)
    BY <1>1, <1>4, <2>4, <2>12 DEF Spelled, f
  <2> QED BY <1>1, <1>4, <1>5, <2>11, <2>13 DEF tm
<1> QED BY <1>6, <1>7

\* A file of a torrent.
Inside(v) ==
    /\ Sized(v.tm) /\ v.file.offset \in Nat /\ v.file.size \in Nat
    /\ v.file.offset + v.file.size <= v.tm.totalLen

\* The bytes of a file, as a run of numbers.
LEMMA FileBytesFacts ==
    ASSUME NEW v
    PROVE  FileBytes(v) = Bytes(v.file.offset, v.file.size)
BY DEF FileBytes, Bytes

\* What a read returns: the bytes from off on, fewer than it can only before a
\* piece that is lost, and an end of file there or at the end.
ReadsRight(v, off, len, lost, r, n) ==
    /\ n \in Nat /\ r.bytes = Bytes(v.file.offset + off, n)
    /\ off + n <= v.file.size /\ n <= len
    /\ \A i \in 0 .. n - 1 :
          (v.file.offset + (off + i)) \div v.tm.pieceLen \notin lost
    /\ r.eof /\ off + n < v.file.size =>
          (v.file.offset + (off + n)) \div v.tm.pieceLen \in lost
    /\ ~r.eof => n = len /\ off + n < v.file.size

\* sftp.go:250-294: a read of a file, wherever it begins, however long it is
\* and whatever pieces are lost.
LEMMA ReadFacts ==
    ASSUME NEW v, Inside(v), NEW off \in 0 .. v.file.size, NEW len \in Nat,
           NEW lost
    PROVE  \E n \in Nat :
              ReadsRight(v, off, len, lost, ReadAt(v, off, len, lost), n)
<1> DEFINE tm == v.tm
           O == v.file.offset
           S == v.file.size
           T == tm.totalLen
           P == tm.pieceLen
           want == LeastOf(len, S - off)
           b == O + off
           got == Walk(tm, b, want, lost)
           r == ReadAt(v, off, len, lost)
<1>0. /\ Sized(tm) /\ O \in Nat /\ S \in Nat /\ T \in Nat /\ O + S <= T
      /\ off \in 0 .. S
  BY DEF Inside, Sized
<1>1. r = IF off >= S THEN [bytes |-> <<>>, eof |-> TRUE]
          ELSE [bytes |-> got, eof |-> Len(got) < want \/ off + Len(got) >= S]
  BY DEF ReadAt, Want
<1> HIDE DEF r, O, S, T, P
<1>2. CASE off >= S
  <2>1. r = [bytes |-> <<>>, eof |-> TRUE]
    BY <1>1, <1>2
  <2>2. r.bytes = <<>> /\ r.eof
    BY <2>1
  <2>3. r.bytes = Bytes(O + off, 0)
    <3>1. O + off \in Nat /\ 0 \in Nat
      BY <1>0
    <3>2. Bytes(O + off, 0) = <<>>
      BY <3>1, BytesFacts
    <3> QED BY <2>2, <3>2
  <2>4. off + 0 <= S /\ 0 <= len /\ ~(off + 0 < S)
    BY <1>0, <1>2
  <2>5. ReadsRight(v, off, len, lost, r, 0)
    BY <2>2, <2>3, <2>4 DEF ReadsRight, O, S
  <2> QED BY <2>5 DEF r
<1>3. CASE off < S
  <2>1. want \in Nat /\ want <= len /\ want <= S - off /\ b \in Nat
        /\ b + want <= T /\ (want = len \/ want = S - off)
    BY <1>0, <1>3 DEF LeastOf
  <2> HIDE DEF want, b
  <2>2. PICK c \in 0 .. want :
           /\ got = Bytes(b, c)
           /\ \A i \in 0 .. c - 1 : (b + i) \div P \notin lost
           /\ c < want => (b + c) \div P \in lost
    <3>1. T = tm.totalLen /\ P = tm.pieceLen
      BY DEF T, P
    <3> HIDE DEF tm
    <3> QED BY <1>0, <2>1, <3>1, WalkFacts
  <2> HIDE DEF got
  <2>3. Len(got) = c /\ c \in Nat
    BY <2>1, <2>2, BytesFacts
  <2>4. r = [bytes |-> got, eof |-> Len(got) < want \/ off + Len(got) >= S]
    BY <1>0, <1>1, <1>3 DEF got, want, b
  <2>5. r.bytes = got /\ (r.eof <=> c < want \/ off + c >= S)
    BY <2>3, <2>4
  <2> HIDE DEF r
  <2>6. off + c <= S /\ c <= len
    BY <1>0, <2>1, <2>2, <2>3
  <2>7. ~r.eof => c = len /\ off + c < S
    BY <1>0, <2>1, <2>2, <2>3, <2>5
  <2>8. b = O + off /\ \A i \in Int : b + i = O + (off + i)
    BY <1>0 DEF b
  <2>9. \A i \in 0 .. c - 1 : (O + (off + i)) \div P \notin lost
    <3> SUFFICES ASSUME NEW i \in 0 .. c - 1
                 PROVE  (O + (off + i)) \div P \notin lost
      OBVIOUS
    <3>1. b + i = O + (off + i)
      BY <2>8
    <3>2. (b + i) \div P \notin lost
      BY <2>2
    <3> QED BY <3>1, <3>2
  <2>10. r.eof /\ off + c < S => (O + (off + c)) \div P \in lost
    <3>1. ASSUME r.eof, off + c < S PROVE c < want
      BY <1>0, <2>3, <2>5, <3>1
    <3>2. b + c = O + (off + c)
      BY <2>3, <2>8
    <3> QED BY <2>2, <3>1, <3>2
  <2>11. r.bytes = Bytes(O + off, c)
    BY <2>2, <2>5, <2>8
  <2>12. ReadsRight(v, off, len, lost, r, c)
    BY <2>3, <2>6, <2>7, <2>9, <2>10, <2>11 DEF ReadsRight, O, S, P
  <2> QED BY <2>3, <2>12 DEF r
<1> QED BY <1>0, <1>2, <1>3

\* What begins a run of numbers.
LEMMA PrefixFacts ==
    ASSUME NEW a \in Nat, NEW n \in Nat, NEW s \in Seq(Nat)
    PROVE  IsPrefix(s, Bytes(a, n)) <=> \E m \in 0 .. n : s = Bytes(a, m)
<1> DEFINE t == Bytes(a, n)
<1>1. t \in Seq(Nat) /\ Len(t) = n /\ \A i \in 1 .. n : t[i] = a + i
  BY BytesFacts
<1> HIDE DEF t
<1>2. ASSUME NEW m \in 0 .. n
      PROVE  SubSeq(t, 1, m) = Bytes(a, m)
  <2>1. SubSeq(t, 1, m) = [j \in 1 .. m |-> t[j]]
    BY <1>1
  <2>2. \A j \in 1 .. m : t[j] = a + j
    BY <1>1
  <2> QED BY <2>1, <2>2 DEF Bytes
<1>3. ASSUME IsPrefix(s, t) PROVE \E m \in 0 .. n : s = Bytes(a, m)
  <2>1. Len(s) \in 0 .. n /\ SubSeq(s, 1, Len(s)) = SubSeq(t, 1, Len(s))
    BY <1>1, <1>3 DEF IsPrefix
  <2>2. SubSeq(s, 1, Len(s)) = s
    OBVIOUS
  <2> QED BY <1>2, <2>1, <2>2
<1>4. ASSUME NEW m \in 0 .. n, s = Bytes(a, m) PROVE IsPrefix(s, t)
  <2>1. Len(s) = m /\ m <= n
    BY <1>4, BytesFacts
  <2>2. SubSeq(s, 1, Len(s)) = s
    OBVIOUS
  <2> QED BY <1>1, <1>2, <1>4, <2>1, <2>2 DEF IsPrefix
<1> QED BY <1>3, <1>4 DEF t

-----------------------------------------------------------------------------
(* Paths *)

\* The beginnings of a sequence.
LEMMA Beginnings ==
    ASSUME NEW K, NEW p \in Seq(K)
    PROVE  /\ Len(p) \in Nat /\ SubSeq(p, 1, 0) = <<>>
           /\ SubSeq(p, 1, Len(p)) = p
           /\ \A i \in 1 .. Len(p) :
                 SubSeq(p, 1, i) = Append(SubSeq(p, 1, i - 1), p[i])
OBVIOUS

\* path.Clean leaves a path alone that has nothing to clean.
LEMMA CleanFacts ==
    ASSUME NEW p \in Seq(Words)
    PROVE  Clean(p) = p
<1> DEFINE n == Len(p)
           part(i) == SubSeq(p, 1, i)
           Body(f, i) ==
               IF i = 0 THEN <<>>
               ELSE LET done == f[i - 1]
                    IN IF p[i] \in {"", "."} THEN done
                       ELSE IF p[i] # ".." THEN Append(done, p[i])
                       ELSE IF done = <<>> THEN done ELSE Front(done)
           Good(f) == f = [i \in 0 .. n |-> Body(f, i)]
           cleaned == CHOOSE f : Good(f)
<1>1. n \in Nat /\ part(0) = <<>> /\ part(n) = p
      /\ \A i \in 1 .. n : part(i) = Append(part(i - 1), p[i])
  BY Beginnings
<1>2. \A i \in 1 .. n : p[i] \notin {"", "."} /\ p[i] # ".."
  <2>1. \A i \in DOMAIN p : p[i] \in Words
    BY ElementsOf
  <2>2. DOMAIN p = 1 .. n
    OBVIOUS
  <2> QED BY <2>1, <2>2 DEF Words
<1> HIDE DEF n, part
<1>3. \A f : \A i \in 1 .. n : Body(f, i) = Append(f[i - 1], p[i])
  <2> SUFFICES ASSUME NEW f, NEW i \in 1 .. n
               PROVE  Body(f, i) = Append(f[i - 1], p[i])
    OBVIOUS
  <2>1. i # 0
    BY <1>1
  <2>2. ~(p[i] \in {"", "."}) /\ p[i] # ".."
    BY <1>2
  <2> QED BY ONLY <2>1, <2>2
<1>4. \E f : Good(f)
  <2> DEFINE g == [i \in 0 .. n |-> part(i)]
  <2>1. ASSUME NEW i \in 0 .. n PROVE part(i) = Body(g, i)
    <3>1. CASE i = 0
      BY <1>1, <3>1
    <3>2. CASE i # 0
      <4>1. i \in 1 .. n /\ i - 1 \in 0 .. n
        BY <1>1, <3>2
      <4>2. g[i - 1] = part(i - 1)
        BY <4>1
      <4>3. Body(g, i) = Append(g[i - 1], p[i])
        BY <1>3, <4>1
      <4> QED BY <1>1, <4>1, <4>2, <4>3
    <3> QED BY <3>1, <3>2
  <2>2. Good(g)
    <3> HIDE DEF Body
    <3> QED BY <2>1
  <2> QED BY <2>2
<1>5. Good(cleaned)
  <2> HIDE DEF Good
  <2> QED BY <1>4
<1> HIDE DEF cleaned
<1>6. cleaned[0] = <<>>
      /\ \A i \in 1 .. n : cleaned[i] = Append(cleaned[i - 1], p[i])
  <2>1. \A i \in 0 .. n : cleaned[i] = Body(cleaned, i)
    <3> HIDE DEF Body
    <3> QED BY <1>5
  <2>2. 0 \in 0 .. n /\ \A i \in 1 .. n : i \in 0 .. n
    BY <1>1
  <2> QED BY <1>3, <2>1, <2>2
<1> DEFINE H == {i \in 0 .. n : cleaned[i] = part(i)}
<1>7. \A i \in 0 .. n : i \in H
  <2>1. 0 \in H
    BY <1>1, <1>6
  <2>2. ASSUME NEW i \in 0 .. n - 1, i \in H PROVE i + 1 \in H
    <3>1. i + 1 \in 1 .. n /\ (i + 1) - 1 = i /\ i + 1 \in 0 .. n
      BY <1>1
    <3>2. cleaned[i + 1] = Append(cleaned[i], p[i + 1])
      BY <1>6, <3>1
    <3>3. part(i + 1) = Append(part(i), p[i + 1])
      BY <1>1, <3>1
    <3> QED BY <2>2, <3>1, <3>2, <3>3
  <2> HIDE DEF H
  <2>3. \A i \in 0 .. n - 1 : i \in H => i + 1 \in H
    BY <2>2
  <2> QED BY <1>1, <2>1, <2>3, Upwards
<1>8. cleaned[n] = p
  BY <1>1, <1>7
<1> QED BY <1>8 DEF Clean, n, cleaned

\* One more part of a path, cleaned.
LEMMA CleanStep ==
    ASSUME NEW done \in Seq(Words), NEW x \in Parts
    PROVE  (IF x \in {"", "."} THEN done
            ELSE IF x # ".." THEN Append(done, x)
            ELSE IF done = <<>> THEN done ELSE Front(done)) \in Seq(Words)
<1>1. x \notin {"", ".", ".."} => x \in Words
  BY DEF Words
<1>2. x \in Words => Append(done, x) \in Seq(Words)
  OBVIOUS
<1>3. done # <<>> => Front(done) \in Seq(Words)
  BY DEF Front
<1> QED BY <1>1, <1>2, <1>3

\* path.Clean makes of every path one without odd parts.
LEMMA CleanType ==
    ASSUME NEW p \in Seq(Parts)
    PROVE  Clean(p) \in Seq(Words)
<1> DEFINE n == Len(p)
           Body(f, i) ==
               IF i = 0 THEN <<>>
               ELSE LET done == f[i - 1]
                    IN IF p[i] \in {"", "."} THEN done
                       ELSE IF p[i] # ".." THEN Append(done, p[i])
                       ELSE IF done = <<>> THEN done ELSE Front(done)
           Good(f) == f = [i \in 0 .. n |-> Body(f, i)]
           cleaned == CHOOSE f : Good(f)
           G == {k \in 0 .. n : \E f \in [0 .. k -> Seq(Words)] :
                                  \A i \in 0 .. k : f[i] = Body(f, i)}
<1>1. n \in Nat /\ \A i \in 1 .. n : p[i] \in Parts
  OBVIOUS
<1>2. /\ \A f : Body(f, 0) = <<>>
      /\ \A f, g : \A i \in 1 .. n :
            f[i - 1] = g[i - 1] => Body(f, i) = Body(g, i)
  <2> HIDE DEF n
  <2>1. \A i \in 1 .. n : i # 0
    BY <1>1
  <2> QED BY <2>1
<1>3. ASSUME NEW f, NEW i \in 1 .. n, f[i - 1] \in Seq(Words)
      PROVE  Body(f, i) \in Seq(Words)
  <2> DEFINE done == f[i - 1]
  <2>1. i # 0 /\ p[i] \in Parts
    BY <1>1
  <2>2. (IF p[i] \in {"", "."} THEN done
         ELSE IF p[i] # ".." THEN Append(done, p[i])
         ELSE IF done = <<>> THEN done ELSE Front(done)) \in Seq(Words)
    <3>1. done \in Seq(Words)
      BY <1>3
    <3> HIDE DEF done, n
    <3> QED BY <2>1, <3>1, CleanStep
  <2> QED BY <2>1, <2>2
<1> HIDE DEF Body, n
<1>4. 0 \in G
  <2> DEFINE f == [i \in 0 .. 0 |-> <<>>]
  <2>1. <<>> \in Seq(Words)
    OBVIOUS
  <2>2. f \in [0 .. 0 -> Seq(Words)] /\ \A i \in 0 .. 0 : f[i] = <<>> /\ i = 0
    BY <2>1
  <2> HIDE DEF f
  <2> QED BY <1>1, <1>2, <2>2
<1>5. ASSUME NEW k \in 0 .. n - 1, k \in G PROVE k + 1 \in G
  <2>1. PICK f \in [0 .. k -> Seq(Words)] :
           \A i \in 0 .. k : f[i] = Body(f, i)
    BY <1>5
  <2>2. k + 1 \in 1 .. n /\ (k + 1) - 1 = k /\ k + 1 \in 0 .. n
    BY <1>1
  <2> DEFINE v == Body(f, k + 1)
             g == [i \in 0 .. k + 1 |-> IF i = k + 1 THEN v ELSE f[i]]
  <2>3. v \in Seq(Words)
    <3>1. f[(k + 1) - 1] \in Seq(Words)
      BY <2>2
    <3> QED BY <1>3, <2>2, <3>1
  <2> HIDE DEF v
  <2>4. g \in [0 .. k + 1 -> Seq(Words)]
    BY <2>3
  <2>5. ASSUME NEW i \in 0 .. k + 1 PROVE g[i] = Body(g, i)
    <3>1. CASE i = 0
      <4>1. i \in 0 .. k /\ i # k + 1
        BY <2>2, <3>1
      <4> QED BY <1>2, <2>1, <3>1, <4>1
    <3>2. CASE i # 0
      <4>1. i \in 1 .. n /\ i - 1 \in 0 .. k /\ i - 1 # k + 1
        BY <1>1, <3>2
      <4>2. g[i - 1] = f[i - 1]
        BY <4>1
      <4>3. Body(g, i) = Body(f, i)
        <5> HIDE DEF g
        <5> QED BY <1>2, <4>1, <4>2
      <4>4. g[i] = Body(f, i)
        <5>1. CASE i = k + 1
          BY <5>1 DEF v
        <5>2. CASE i # k + 1
          <6>1. i \in 0 .. k
            BY <5>2
          <6> QED BY <2>1, <5>2, <6>1
        <5> QED BY <5>1, <5>2
      <4> QED BY <4>3, <4>4
    <3> QED BY <3>1, <3>2
  <2> HIDE DEF g
  <2> QED BY <2>2, <2>4, <2>5
<1>6. \E f : Good(f) /\ f[n] \in Seq(Words)
  <2>1. n \in G
    <3> HIDE DEF G
    <3>1. \A i \in 0 .. n - 1 : i \in G => i + 1 \in G
      BY <1>5
    <3>2. \A i \in 0 .. n : i \in G
      BY <1>1, <1>4, <3>1, Upwards
    <3> QED BY <1>1, <3>2
  <2>2. PICK f \in [0 .. n -> Seq(Words)] :
           \A i \in 0 .. n : f[i] = Body(f, i)
    BY <2>1
  <2>3. f = [i \in 0 .. n |-> Body(f, i)]
    BY <2>2
  <2> QED BY <1>1, <2>2, <2>3
<1>7. Good(cleaned)
  <2> HIDE DEF Good
  <2> QED BY <1>6
<1> HIDE DEF cleaned
<1> DEFINE H == {i \in 0 .. n : cleaned[i] \in Seq(Words)}
<1>8. 0 \in H
  <2>1. 0 \in 0 .. n /\ <<>> \in Seq(Words)
    BY <1>1
  <2>2. cleaned[0] = Body(cleaned, 0)
    BY <1>7, <2>1
  <2> QED BY <1>2, <2>1, <2>2
<1>9. ASSUME NEW i \in 0 .. n - 1, i \in H PROVE i + 1 \in H
  <2>1. i + 1 \in 1 .. n /\ (i + 1) - 1 = i /\ i + 1 \in 0 .. n
    BY <1>1
  <2>2. cleaned[i + 1] = Body(cleaned, i + 1)
    BY <1>7, <2>1
  <2>3. cleaned[(i + 1) - 1] \in Seq(Words)
    BY <1>9, <2>1
  <2> QED BY <1>3, <2>1, <2>2, <2>3
<1>10. cleaned[n] \in Seq(Words)
  <2> HIDE DEF H
  <2>1. \A i \in 0 .. n - 1 : i \in H => i + 1 \in H
    BY <1>9
  <2>2. \A i \in 0 .. n : i \in H
    BY <1>1, <1>8, <2>1, Upwards
  <2>3. n \in H
    BY <1>1, <2>2
  <2> QED BY <2>3 DEF H
<1> QED BY <1>10 DEF Clean, n, cleaned, Body

\* A path and what lies one step below it.
LEMMA StepBelow ==
    ASSUME NEW K, NEW p \in Seq(K), NEW w \in K
    PROVE  LET q == p \o <<w>>
           IN /\ q \in Seq(K) /\ q # <<>> /\ Len(q) = Len(p) + 1
              /\ q[Len(q)] = w
              /\ p = <<>> => q = <<w>>
              /\ p # <<>> => /\ Head(p) \in K /\ Tail(p) \in Seq(K)
                             /\ Head(q) = Head(p)
                             /\ Tail(q) = Tail(p) \o <<w>>
                             /\ Len(q) >= 2
<1> DEFINE q == p \o <<w>>
<1>1. /\ q \in Seq(K) /\ q # <<>> /\ Len(q) = Len(p) + 1 /\ q[Len(q)] = w
      /\ p = <<>> => q = <<w>>
  <2>1. q \in Seq(K) /\ Len(q) = Len(p) + 1
    OBVIOUS
  <2>2. Len(p) \in Nat /\ q[Len(p) + 1] = w
    OBVIOUS
  <2>3. p = <<>> => q = <<w>>
    OBVIOUS
  <2> HIDE DEF q
  <2>4. q # <<>>
    BY <2>1, <2>2
  <2> QED BY <2>1, <2>2, <2>3, <2>4
<1>2. ASSUME p # <<>>
      PROVE  /\ Head(p) \in K /\ Tail(p) \in Seq(K) /\ Head(q) = Head(p)
             /\ Tail(q) = Tail(p) \o <<w>> /\ Len(q) >= 2
  <2>1. Len(p) \in Nat /\ Len(p) # 0
    BY <1>2
  <2>2. Head(p) \in K /\ Tail(p) \in Seq(K) /\ Len(Tail(p)) = Len(p) - 1
    BY <1>2
  <2>3. Head(q) = Head(p)
    BY <1>2, <2>1
  <2>4. Tail(q) = Tail(p) \o <<w>>
    BY <1>2, <2>1
  <2> HIDE DEF q
  <2>5. Len(q) >= 2
    BY <1>1, <2>1
  <2> QED BY <2>2, <2>3, <2>4, <2>5
<1> QED BY <1>1, <1>2

\* A sequence of one element.
LEMMA OneElement ==
    ASSUME NEW K, NEW s \in Seq(K), Len(s) = 1
    PROVE  s = <<Head(s)>>
OBVIOUS

\* The path g leads through the directory p to rest, whose first word is w.
Leads(p, g, rest, w) ==
    /\ IsStrictPrefix(p, g)
    /\ rest = SubSeq(g, Len(p) + 1, Len(g)) /\ w = g[Len(p) + 1]

\* A path through the directory p, and where it goes from there.
LEMMA BeyondPrefix ==
    ASSUME NEW K, NEW p \in Seq(K), NEW g \in Seq(K), NEW rest, NEW w,
           Leads(p, g, rest, w)
    PROVE  /\ w \in K /\ rest \in Seq(K) /\ Head(rest) = w
           /\ Len(rest) \in Nat \ {0}
           /\ Len(rest) = 1 => rest = <<w>> /\ p \o <<w>> = g
           /\ Len(rest) > 1 => IsStrictPrefix(p \o <<w>>, g)
<1> DEFINE m == Len(p)
           n == Len(g)
           q == p \o <<g[m + 1]>>
<1>0. /\ IsStrictPrefix(p, g)
      /\ rest = SubSeq(g, m + 1, n) /\ w = g[m + 1]
  BY DEF Leads
<1>1. m \in Nat /\ n \in Nat /\ m <= n
      /\ SubSeq(p, 1, m) = SubSeq(g, 1, m) /\ p # g
  BY <1>0 DEF IsStrictPrefix, IsPrefix
<1>2. SubSeq(p, 1, m) = p /\ SubSeq(g, 1, n) = g
  BY Beginnings
<1>3. m < n
  BY <1>1, <1>2
<1>4. m + 1 \in 1 .. n /\ g[m + 1] \in K
  BY <1>1, <1>3
<1>5. rest \in Seq(K) /\ Len(rest) = n - m /\ Head(rest) = g[m + 1]
  BY <1>0, <1>1, <1>3
<1>6. q = SubSeq(g, 1, m + 1)
  <2>1. SubSeq(g, 1, m + 1) = Append(SubSeq(g, 1, m), g[m + 1])
    <3>1. (m + 1) - 1 = m
      BY <1>1
    <3> QED BY <1>4, <3>1, Beginnings
  <2>2. Append(p, g[m + 1]) = p \o <<g[m + 1]>>
    BY <1>4
  <2> QED BY <1>1, <1>2, <2>1, <2>2
<1>7. q \in Seq(K) /\ Len(q) = m + 1
  BY <1>4, StepBelow
<1>8. CASE n = m + 1
  <2>1. q = g
    BY <1>2, <1>6, <1>8
  <2>2. rest = <<g[m + 1]>>
    <3>1. Len(rest) = 1
      BY <1>1, <1>5, <1>8
    <3> QED BY <1>5, <3>1, OneElement
  <2> HIDE DEF q
  <2>3. Len(rest) = 1
    BY <1>1, <1>5, <1>8
  <2>4. /\ g[m + 1] \in K /\ rest \in Seq(K) /\ Head(rest) = g[m + 1]
        /\ Len(rest) \in Nat \ {0}
        /\ Len(rest) = 1 => rest = <<g[m + 1]>> /\ q = g
        /\ Len(rest) > 1 => IsStrictPrefix(q, g)
    BY <1>4, <1>5, <2>1, <2>2, <2>3
  <2> QED BY <1>0, <2>4 DEF q
<1>9. CASE n > m + 1
  <2>1. SubSeq(q, 1, m + 1) = q
    BY <1>7, Beginnings
  <2>2. IsStrictPrefix(q, g)
    BY <1>1, <1>6, <1>7, <1>9, <2>1 DEF IsStrictPrefix, IsPrefix
  <2> HIDE DEF q
  <2>3. Len(rest) \in Nat /\ Len(rest) > 1
    BY <1>1, <1>5, <1>9
  <2>4. /\ g[m + 1] \in K /\ rest \in Seq(K) /\ Head(rest) = g[m + 1]
        /\ Len(rest) \in Nat \ {0}
        /\ Len(rest) = 1 => rest = <<g[m + 1]>> /\ q = g
        /\ Len(rest) > 1 => IsStrictPrefix(q, g)
    BY <1>4, <1>5, <2>2, <2>3
  <2> QED BY <1>0, <2>4 DEF q
<1> QED BY <1>1, <1>3, <1>8, <1>9

-----------------------------------------------------------------------------
(* Listings *)

\* A torrent of the model, and that its name is its own.
LEMMA TorrentsFacts ==
    ASSUME NEW tm \in TorrentMetas
    PROVE  /\ Sized(tm) /\ Contiguous(tm) /\ tm.name \in Seq(Parts)
           /\ \A t \in TorrentMetas : t.name = tm.name => t = tm
<1>1. PICK info \in Infos : tm = BuildMeta(info)
  BY DEF TorrentMetas
<1>2. Sized(tm) /\ Contiguous(tm) /\ tm.name \in Seq(Parts)
  BY <1>1, TorrentFacts
<1>3. ASSUME NEW t \in TorrentMetas, t.name = tm.name PROVE t = tm
  <2>1. PICK j \in Infos : t = BuildMeta(j)
    BY DEF TorrentMetas
  <2>2. t.name = SanitizeName(j.name) /\ tm.name = SanitizeName(info.name)
    BY <1>1, <2>1 DEF BuildMeta
  <2>3. j = info
    BY <1>3, <2>2, ServeAssumption
  <2> QED BY <1>1, <2>1, <2>3
<1> QED BY <1>2, <1>3

\* The torrents of a name: the one that has it, when it is loaded.
LEMMA NamedFacts ==
    ASSUME NEW dir \in SUBSET TorrentMetas, NEW tm \in TorrentMetas, NEW c,
           tm.name = <<c>>
    PROVE  Named(dir, c) = IF tm \in dir THEN {tm} ELSE {}
<1>1. \A t \in dir : t.name = <<c>> => t = tm
  BY TorrentsFacts
<1> QED BY <1>1 DEF Named

\* The files of a torrent.
LEMMA FilesType ==
    ASSUME NEW tm \in TorrentMetas
    PROVE  /\ \A i \in DOMAIN tm.files : tm.files[i] \in FileType
           /\ \A f \in ToSet(tm.files) : f \in FileType
           /\ DOMAIN tm.files = 1 .. Len(tm.files) /\ Len(tm.files) \in Nat
<1> DEFINE fs == tm.files
<1>1. fs \in Seq(FileType)
  BY TorrentsFacts DEF Contiguous
<1>2. \A f \in ToSet(fs) : \E i \in DOMAIN fs : f = fs[i]
  BY DEF ToSet
<1> HIDE DEF fs
<1>3. /\ \A i \in DOMAIN fs : fs[i] \in FileType
      /\ DOMAIN fs = 1 .. Len(fs) /\ Len(fs) \in Nat
  BY <1>1, ElementsOf
<1> QED BY <1>2, <1>3 DEF fs

\* The files of a torrent whose names can be spelled.
LEMMA FilesFacts ==
    ASSUME NEW tm \in TorrentMetas, Spelled(tm)
    PROVE  /\ \A i \in DOMAIN tm.files : tm.files[i].path \in Seq(Words)
           /\ \A f \in ToSet(tm.files) : f.path \in Seq(Words)
           /\ \A f, g \in ToSet(tm.files) :
                 IsPrefix(f.path, g.path) => f = g
           /\ \A i, j \in DOMAIN tm.files :
                 IsPrefix(tm.files[i].path, tm.files[j].path) => i = j
<1>1. /\ \A i \in DOMAIN tm.files : tm.files[i].path \in Seq(Words)
      /\ \A i, j \in DOMAIN tm.files :
            IsPrefix(tm.files[i].path, tm.files[j].path) => i = j
  BY DEF Spelled
<1>2. \A f \in ToSet(tm.files) : \E i \in DOMAIN tm.files : f = tm.files[i]
  BY DEF ToSet
<1> QED BY <1>1, <1>2

\* Every sequence is a prefix of itself.
LEMMA PrefixOfItself ==
    ASSUME NEW K, NEW p \in Seq(K)
    PROVE  IsPrefix(p, p)
BY DEF IsPrefix

\* A path leads to at most one file, the first that has it.
LEMMA FileAtType ==
    ASSUME NEW tm \in TorrentMetas, NEW p
    PROVE  /\ FileAt(tm, p) \subseteq ToSet(tm.files)
           /\ \A f, g \in FileAt(tm, p) : f = g
<1> DEFINE at == {i \in DOMAIN tm.files : tm.files[i].path = p}
<1>1. FileAt(tm, p) = {tm.files[i] : i \in IF at = {} THEN {} ELSE {Min(at)}}
  BY DEF FileAt
<1>2. at \subseteq DOMAIN tm.files /\ at \in SUBSET Nat
  BY FilesType
<1> HIDE DEF at
<1>3. at # {} => Min(at) \in at
  <2>1. at # {} => \E x \in at : \A y \in at : x <= y
    BY <1>2, LeastExists
  <2> QED BY <2>1 DEF Min
<1> QED BY <1>1, <1>2, <1>3 DEF ToSet

\* The path of a file leads to that file.
LEMMA FileAtFacts ==
    ASSUME NEW tm \in TorrentMetas, Spelled(tm)
    PROVE  /\ \A i \in DOMAIN tm.files :
                 FileAt(tm, tm.files[i].path) = {tm.files[i]}
           /\ \A p : (\A f \in ToSet(tm.files) : f.path # p)
                        => FileAt(tm, p) = {}
<1> DEFINE at(p) == {i \in DOMAIN tm.files : tm.files[i].path = p}
<1>1. \A p : FileAt(tm, p)
                = {tm.files[i] : i \in IF at(p) = {} THEN {} ELSE {Min(at(p))}}
  BY DEF FileAt
<1>2. ASSUME NEW p, NEW i \in DOMAIN tm.files, tm.files[i].path = p
      PROVE  at(p) = {i}
  <2>1. ASSUME NEW j \in DOMAIN tm.files, tm.files[j].path = p PROVE j = i
    <3>1. IsPrefix(p, p)
      BY <1>2, FilesFacts, PrefixOfItself
    <3> QED BY <1>2, <2>1, <3>1, FilesFacts
  <2> QED BY <1>2, <2>1
<1>3. ASSUME NEW i \in DOMAIN tm.files PROVE Min({i}) = i
  <2>1. i \in Nat
    BY FilesType
  <2>2. \E x \in {i} : \A y \in {i} : x <= y
    BY <2>1
  <2> QED BY <2>2 DEF Min
<1>4. ASSUME NEW i \in DOMAIN tm.files
      PROVE  FileAt(tm, tm.files[i].path) = {tm.files[i]}
  <2>1. at(tm.files[i].path) = {i}
    BY <1>2
  <2> HIDE DEF at
  <2> QED BY <1>1, <1>3, <2>1
<1>5. ASSUME NEW p, \A f \in ToSet(tm.files) : f.path # p
      PROVE  FileAt(tm, p) = {}
  <2>1. at(p) = {}
    BY <1>5 DEF ToSet
  <2> HIDE DEF at
  <2> QED BY <1>1, <2>1
<1> QED BY <1>4, <1>5

\* Names of one part.
LEMMA OnePart ==
    /\ \A x \in Parts : <<x>> \in Seq(Parts)
    /\ \A x \in Words : <<x>> \in Seq(Words) /\ x \in Parts
    /\ \A p \in Seq(Words) : p \in Seq(Parts)
<1>1. \A p \in Seq(Words) : p \in Seq(Parts)
  <2> SUFFICES ASSUME NEW p \in Seq(Words) PROVE p \in Seq(Parts)
    OBVIOUS
  <2>1. \A i \in DOMAIN p : p[i] \in Parts
    BY ElementsOf DEF Words
  <2> QED BY <2>1, ElementsIn
<1>2. /\ \A x \in Parts : <<x>> \in Seq(Parts)
      /\ \A x \in Words : <<x>> \in Seq(Words)
  OBVIOUS
<1> QED BY <1>1, <1>2 DEF Words

\* An entry, whatever is in it, has its type.
LEMMA NodeFacts ==
    ASSUME NEW name \in Seq(Parts), NEW size \in Nat, NEW b \in BOOLEAN
    PROVE  LET e == Node(name, size, b)
           IN /\ e \in NodeType /\ e.name = name /\ e.size = size /\ e.dir = b
              /\ name # <<>> => e # None
<1> DEFINE e == Node(name, size, b)
<1>1. e.name = name /\ e.size = size /\ e.dir = b
  BY DEF Node
<1>2. e \in NodeType
  BY DEF Node, NodeType
<1>3. None.name = <<>>
  BY DEF None
<1> HIDE DEF e
<1> QED BY <1>1, <1>2, <1>3 DEF e

\* The entry of an error is typed like the others.
LEMMA NoneFacts == None \in NodeType
<1>1. <<>> \in Seq(Parts)
  OBVIOUS
<1> QED BY <1>1 DEF None, NodeType

\* The entry of a file below the directory fp, of any torrent.
LEMMA ListedType ==
    ASSUME NEW tm \in TorrentMetas, NEW fp \in Seq(Words),
           NEW f \in Below(tm, fp)
    PROVE  Listed(f, fp) \in NodeType
<1> DEFINE g == f.path
           rest == SubSeq(g, Len(fp) + 1, Len(g))
           w == g[Len(fp) + 1]
<1>1. f \in FileType /\ IsStrictPrefix(fp, g)
  BY FilesType DEF Below
<1>2. w \in Parts /\ rest \in Seq(Parts) /\ Head(rest) = w
  <2>1. fp \in Seq(Parts) /\ g \in Seq(Parts)
    BY <1>1, OnePart DEF FileType
  <2> HIDE DEF g
  <2>2. Leads(fp, g, rest, w)
    BY <1>1 DEF Leads
  <2> HIDE DEF rest, w
  <2> QED BY <2>1, <2>2, BeyondPrefix
<1>3. Listed(f, fp) = IF Len(rest) > 1 THEN Node(<<Head(rest)>>, 0, TRUE)
                      ELSE Node(rest, f.size, FALSE)
  BY DEF Listed
<1> HIDE DEF g, rest, w
<1>4. <<w>> \in Seq(Parts) /\ f.size \in Nat
  BY <1>1, <1>2, OnePart DEF FileType
<1>5. /\ Node(<<w>>, 0, TRUE) \in NodeType
      /\ Node(rest, f.size, FALSE) \in NodeType
  BY <1>2, <1>4, NodeFacts
<1> QED BY <1>2, <1>3, <1>5

\* What a listing says of a file below the directory fp of a torrent whose
\* names can be spelled.
LEMMA ListedFacts ==
    ASSUME NEW tm \in TorrentMetas, Spelled(tm), NEW fp \in Seq(Words),
           NEW f \in Below(tm, fp)
    PROVE  LET e == Listed(f, fp)
               q == fp \o e.name
           IN /\ f \in ToSet(tm.files) /\ e \in NodeType
              /\ \E w \in Words : e.name = <<w>>
              /\ e.dir => IsStrictPrefix(q, f.path)
              /\ ~e.dir => q = f.path /\ e.size = f.size
<1> DEFINE g == f.path
           rest == SubSeq(g, Len(fp) + 1, Len(g))
           e == Listed(f, fp)
           w == g[Len(fp) + 1]
<1>1. f \in ToSet(tm.files) /\ IsStrictPrefix(fp, g)
  BY DEF Below
<1>2. f \in FileType /\ g \in Seq(Words)
  BY <1>1, FilesType, FilesFacts
<1>3. /\ w \in Words /\ Head(rest) = w
      /\ Len(rest) \in Nat \ {0}
      /\ Len(rest) = 1 => rest = <<w>> /\ fp \o <<w>> = g
      /\ Len(rest) > 1 => IsStrictPrefix(fp \o <<w>>, g)
  <2> HIDE DEF g
  <2>1. Leads(fp, g, rest, w)
    BY <1>1 DEF Leads
  <2>2. g \in Seq(Words)
    BY <1>2
  <2> HIDE DEF rest, w
  <2> QED BY <2>1, <2>2, BeyondPrefix
<1>4. e = IF Len(rest) > 1 THEN Node(<<Head(rest)>>, 0, TRUE)
          ELSE Node(rest, f.size, FALSE)
  BY DEF Listed
<1>5. <<w>> \in Seq(Parts) /\ f.size \in Nat
  BY <1>2, <1>3, OnePart DEF FileType
<1>6. e \in NodeType
  BY ListedType
<1> HIDE DEF g, rest, e, w
<1>7. CASE Len(rest) > 1
  <2>1. e = Node(<<w>>, 0, TRUE)
    BY <1>3, <1>4, <1>7
  <2>2. e.name = <<w>> /\ e.dir
    BY <2>1 DEF Node
  <2> QED BY <1>1, <1>3, <1>6, <1>7, <2>2 DEF g, e
<1>8. CASE ~(Len(rest) > 1)
  <2>1. Len(rest) = 1
    <3> DEFINE n == Len(rest)
    <3>1. n \in Nat \ {0} /\ ~(n > 1)
      BY <1>3, <1>8
    <3> HIDE DEF n
    <3>2. n = 1
      BY <3>1
    <3> QED BY <3>2 DEF n
  <2>2. e = Node(<<w>>, f.size, FALSE)
    BY <1>3, <1>4, <1>8, <2>1
  <2>3. e.name = <<w>> /\ ~e.dir /\ e.size = f.size
    BY <2>2 DEF Node
  <2> QED BY <1>1, <1>3, <1>6, <2>1, <2>3 DEF g, e
<1> QED BY <1>7, <1>8

\* An entry of a listing has a name that can be looked up.
LEMMA ShownFacts ==
    ASSUME NEW path \in Seq(Words), NEW e, Shown(path, e)
    PROVE  e \in NodeType /\ path \o e.name \in Seq(Parts)
<1>1. PICK tm \in TorrentMetas : Lists(tm, path, e)
  BY DEF Shown
<1>2. e \in NodeType
  <2>1. CASE path = <<>>
    <3>1. e = Node(tm.name, 0, TRUE)
      BY <1>1, <2>1 DEF Lists
    <3> QED BY <3>1, TorrentsFacts, NodeFacts
  <2>2. CASE path # <<>>
    <3>1. Tail(path) \in Seq(Words)
      BY <2>2
    <3>2. PICK f \in Below(tm, Tail(path)) : e = Listed(f, Tail(path))
      BY <1>1, <2>2 DEF Lists
    <3> QED BY <3>1, <3>2, ListedType
  <2> QED BY <2>1, <2>2
<1>3. path \in Seq(Parts) /\ e.name \in Seq(Parts)
  BY <1>2, OnePart DEF NodeType
<1>4. \A p, q \in Seq(Parts) : p \o q \in Seq(Parts)
  OBVIOUS
<1> QED BY <1>2, <1>3, <1>4

\* What List shows.
LEMMA ListFacts ==
    ASSUME NEW dir \in SUBSET TorrentMetas, NEW path \in Seq(Words),
           NEW e \in List(dir, path)
    PROVE  Shown(path, e)
<1>1. Clean(path) = path
  BY CleanFacts
<1>2. CASE path = <<>>
  <2>1. PICK tm \in dir : e = Node(tm.name, 0, TRUE)
    BY <1>1, <1>2 DEF List
  <2> QED BY <1>2, <2>1 DEF Shown, Lists
<1>3. CASE path # <<>>
  <2>1. PICK tm \in Named(dir, Head(path)) :
           \E f \in Below(tm, Tail(path)) : e = Listed(f, Tail(path))
    BY <1>1, <1>3 DEF List
  <2>2. tm \in TorrentMetas /\ tm.name = <<Head(path)>>
    BY <2>1 DEF Named
  <2> QED BY <1>3, <2>1, <2>2 DEF Shown, Lists
<1> QED BY <1>2, <1>3

\* What stat finds, for any path.
LEMMA StatType ==
    ASSUME NEW dir \in SUBSET TorrentMetas, NEW p \in Seq(Parts)
    PROVE  Stat(dir, p) \in NodeType
<1> DEFINE path == Clean(p)
           tm == CHOOSE t \in Named(dir, Head(path)) : TRUE
           fpath == Tail(path)
           f == CHOOSE f \in FileAt(tm, fpath) : TRUE
<1>1. path \in Seq(Words)
  BY CleanType
<1>2. CASE path = <<>>
  <2>1. Stat(dir, p) = Node(<<"">>, 0, TRUE)
    BY <1>2 DEF Stat
  <2>2. <<"">> \in Seq(Parts)
    <3>1. "" \in Parts
      BY ServeAssumption
    <3> QED BY <3>1, OnePart
  <2>3. Node(<<"">>, 0, TRUE) \in NodeType
    BY <2>2, NodeFacts
  <2> QED BY <2>1, <2>3
<1>3. CASE path # <<>> /\ Named(dir, Head(path)) = {}
  <2>1. Stat(dir, p) = None
    BY <1>3 DEF Stat
  <2> QED BY <2>1, NoneFacts
<1>4. CASE path # <<>> /\ Named(dir, Head(path)) # {}
  <2>1. Stat(dir, p)
           = IF fpath = <<>> THEN Node(tm.name, tm.totalLen, TRUE)
             ELSE IF FileAt(tm, fpath) # {}
             THEN Node(<<Last(fpath)>>, f.size, FALSE)
             ELSE IF Below(tm, fpath) # {} THEN Node(<<Last(fpath)>>, 0, TRUE)
             ELSE None
    BY <1>4 DEF Stat
  <2>2. tm \in TorrentMetas
    BY <1>4 DEF Named
  <2>3. fpath \in Seq(Words)
    <3> HIDE DEF path
    <3> QED BY <1>1, <1>4
  <2>4. FileAt(tm, fpath) # {} => f \in FileType
    <3>1. FileAt(tm, fpath) # {} => f \in FileAt(tm, fpath)
      OBVIOUS
    <3> HIDE DEF f, tm, fpath
    <3> QED BY <2>2, <3>1, FileAtType, FilesType
  <2> HIDE DEF f, tm, fpath
  <2>5. fpath # <<>> => <<Last(fpath)>> \in Seq(Parts)
    <3>1. fpath # <<>> => Last(fpath) \in Words
      BY <2>3 DEF Last
    <3> QED BY <3>1, OnePart
  <2>6. tm.name \in Seq(Parts) /\ tm.totalLen \in Nat
        /\ (FileAt(tm, fpath) # {} => f.size \in Nat)
    BY <2>2, <2>4, TorrentsFacts DEF Sized, FileType
  <2>7. Node(tm.name, tm.totalLen, TRUE) \in NodeType
    BY <2>6, NodeFacts
  <2>8. fpath # <<>> => Node(<<Last(fpath)>>, 0, TRUE) \in NodeType
    BY <2>5, NodeFacts
  <2>9. fpath # <<>> /\ FileAt(tm, fpath) # {} =>
           Node(<<Last(fpath)>>, f.size, FALSE) \in NodeType
    BY <2>5, <2>6, NodeFacts
  <2> QED BY <2>1, <2>7, <2>8, <2>9, NoneFacts
<1> QED BY <1>2, <1>3, <1>4

\* What openFile opens, for any path.
LEMMA OpenType ==
    ASSUME NEW dir \in SUBSET TorrentMetas, NEW p
    PROVE  /\ OpenFile(dir, p) \subseteq Views
           /\ \A v \in OpenFile(dir, p) : v.file \in ToSet(v.tm.files)
           /\ \A v, w \in OpenFile(dir, p) : v = w
<1> DEFINE at == Tail(Clean(p))
           named == Named(dir, Head(Clean(p)))
<1>1. \A v \in OpenFile(dir, p) : \E tm \in named : \E f \in FileAt(tm, at) :
         v = [tm |-> tm, file |-> f]
  BY DEF OpenFile
<1>2. named \subseteq TorrentMetas /\ \A t, u \in named : t = u
  BY TorrentsFacts DEF Named
<1> HIDE DEF at, named
<1>3. \A tm \in named : \A f \in FileAt(tm, at) :
         f \in ToSet(tm.files) /\ f \in FileType
  BY <1>2, FileAtType, FilesType
<1>4. ASSUME NEW v \in OpenFile(dir, p)
      PROVE  v \in Views /\ v.file \in ToSet(v.tm.files)
  <2>1. PICK tm \in named :
           \E f \in FileAt(tm, at) : v = [tm |-> tm, file |-> f]
    BY <1>1
  <2>2. PICK f \in FileAt(tm, at) : v = [tm |-> tm, file |-> f]
    BY <2>1
  <2> QED BY <1>2, <1>3, <2>2 DEF Views
<1>5. ASSUME NEW v \in OpenFile(dir, p), NEW w \in OpenFile(dir, p)
      PROVE  v = w
  <2>1. PICK tm \in named :
           \E f \in FileAt(tm, at) : v = [tm |-> tm, file |-> f]
    BY <1>1
  <2>2. \E f \in FileAt(tm, at) : w = [tm |-> tm, file |-> f]
    BY <1>1, <1>2
  <2> QED BY <1>2, <2>1, <2>2, FileAtType
<1> QED BY <1>4, <1>5

\* What stat and open say of an entry that was listed, after torrents may have
\* been dropped.
StatsRight(dir, path, e) ==
    LET p == path \o e.name
        found == Stat(dir, p)
        gone == Named(dir, Head(p)) = {}
    IN /\ found = None => gone
       /\ found # None => /\ found.dir = e.dir
                          /\ found.name = <<Last(e.name)>>
                          /\ ~found.dir => found.size = e.size
       /\ ~e.dir /\ OpenFile(dir, p) = {} => gone

\* Below the root are the torrents.
LEMMA StatTorrent ==
    ASSUME NEW dir \in SUBSET TorrentMetas, NEW tm \in TorrentMetas,
           Spelled(tm), NEW e, Lists(tm, <<>>, e)
    PROVE  StatsRight(dir, <<>>, e)
<1>1. e = Node(tm.name, 0, TRUE)
  BY DEF Lists
<1>2. PICK c \in Words : tm.name = <<c>>
  BY DEF Spelled
<1> DEFINE p == <<>> \o e.name
           found == Stat(dir, p)
<1>3. e.name = <<c>> /\ e.dir = TRUE
  BY <1>1, <1>2 DEF Node
<1>4. p = <<c>> /\ p # <<>> /\ Head(p) = c /\ Tail(p) = <<>>
  BY <1>3
<1>5. Clean(p) = p
  BY <1>4, OnePart, CleanFacts
<1>6. Named(dir, c) = IF tm \in dir THEN {tm} ELSE {}
  BY <1>2, NamedFacts
<1> HIDE DEF p
<1>7. CASE tm \in dir
  <2>1. Named(dir, Head(p)) = {tm}
    BY <1>4, <1>6, <1>7
  <2>2. found = Node(tm.name, tm.totalLen, TRUE)
    <3>1. (CHOOSE t \in {tm} : TRUE) = tm
      OBVIOUS
    <3> QED BY <1>4, <1>5, <2>1, <3>1 DEF Stat
  <2>3. <<c>> \in Seq(Parts) /\ tm.totalLen \in Nat
    BY TorrentsFacts, OnePart DEF Sized
  <2>4. found.name = <<c>> /\ found.dir = TRUE /\ found # None
    <3>1. found = Node(<<c>>, tm.totalLen, TRUE)
      BY <1>2, <2>2
    <3> HIDE DEF found
    <3> QED BY <2>3, <3>1, NodeFacts
  <2>5. Last(<<c>>) = c
    BY DEF Last
  <2> HIDE DEF found
  <2> QED BY <1>3, <2>4, <2>5 DEF StatsRight, p, found
<1>8. CASE tm \notin dir
  <2>1. Named(dir, Head(p)) = {}
    BY <1>4, <1>6, <1>8
  <2>2. found = None
    BY <1>4, <1>5, <2>1 DEF Stat
  <2> HIDE DEF found
  <2> QED BY <2>1, <2>2 DEF StatsRight, p, found
<1> QED BY <1>7, <1>8

\* What openFile opens.
OpensFiles(dir, p) ==
    \A x : x \in OpenFile(dir, p) <=>
              \E t \in Named(dir, Head(p)) : \E g \in FileAt(t, Tail(p)) :
                 x = [tm |-> t, file |-> g]

\* What openFile opens, for a path of two words or more.
LEMMA OpenFileFacts ==
    ASSUME NEW dir, NEW p, Clean(p) = p, ~(Len(p) < 2)
    PROVE  OpensFiles(dir, p)
<1> DEFINE at == Tail(Clean(p))
           named == Named(dir, Head(Clean(p)))
<1>1. ~(Len(Clean(p)) < 2)
  OBVIOUS
<1>2. OpenFile(dir, p)
         = UNION {{[tm |-> t, file |-> g] : g \in FileAt(t, at)} : t \in named}
  BY <1>1 DEF OpenFile
<1>3. at = Tail(p) /\ named = Named(dir, Head(p))
  OBVIOUS
<1> HIDE DEF at, named
<1>4. \A x : x \in OpenFile(dir, p) <=>
                \E t \in named : \E g \in FileAt(t, at) :
                   x = [tm |-> t, file |-> g]
  BY <1>2
<1> QED BY <1>3, <1>4 DEF OpensFiles

\* Below a torrent are its files and their directories.
LEMMA StatBelow ==
    ASSUME NEW dir \in SUBSET TorrentMetas, NEW tm \in TorrentMetas,
           Spelled(tm),
           NEW path \in Seq(Words), path # <<>>, NEW e, Lists(tm, path, e)
    PROVE  StatsRight(dir, path, e)
<1> DEFINE c == Head(path)
           fp == Tail(path)
           p == path \o e.name
           found == Stat(dir, p)
<1>1. tm.name = <<c>> /\ \E f \in Below(tm, fp) : e = Listed(f, fp)
  BY DEF Lists
<1>2. PICK f \in Below(tm, fp) : e = Listed(f, fp)
  BY <1>1
<1>3. fp \in Seq(Words) /\ c \in Words
  OBVIOUS
<1>4. /\ f \in ToSet(tm.files) /\ e \in NodeType
      /\ \E w \in Words : e.name = <<w>>
      /\ e.dir => IsStrictPrefix(fp \o e.name, f.path)
      /\ ~e.dir => fp \o e.name = f.path /\ e.size = f.size
  BY <1>2, <1>3, ListedFacts
<1>5. PICK w \in Words : e.name = <<w>>
  BY <1>4
<1> DEFINE q == fp \o <<w>>
<1>6. /\ p \in Seq(Words) /\ p # <<>> /\ Head(p) = c /\ Tail(p) = q
      /\ Len(p) >= 2
  <2>1. path \in Seq(Words) /\ path # <<>> /\ w \in Words
    OBVIOUS
  <2> QED BY <1>5, <2>1, StepBelow
<1>7. q \in Seq(Words) /\ q # <<>> /\ Last(q) = w /\ Last(<<w>>) = w
  <2>1. q \in Seq(Words) /\ q # <<>> /\ q[Len(q)] = w
    BY <1>3, StepBelow
  <2> HIDE DEF q
  <2> QED BY <2>1 DEF Last
<1>8. Clean(p) = p /\ ~(Len(p) < 2)
  <2> HIDE DEF p
  <2>1. Len(p) \in Nat
    BY <1>6
  <2> QED BY <1>6, <2>1, CleanFacts
<1>9. Named(dir, Head(p)) = IF tm \in dir THEN {tm} ELSE {}
  <2>1. tm.name = <<Head(p)>>
    BY <1>1, <1>6
  <2> QED BY <2>1, NamedFacts
<1> HIDE DEF p, q, fp, c
<1>10. \A x : x \in OpenFile(dir, p) <=>
                 \E t \in Named(dir, Head(p)) : \E g \in FileAt(t, q) :
                    x = [tm |-> t, file |-> g]
  <2>1. OpensFiles(dir, p)
    BY <1>8, OpenFileFacts
  <2> QED BY <1>6, <2>1 DEF OpensFiles
<1>11. CASE tm \notin dir
  <2>1. Named(dir, Head(p)) = {}
    BY <1>9, <1>11
  <2>2. found = None
    BY <1>6, <1>8, <2>1 DEF Stat
  <2> HIDE DEF found
  <2> QED BY <2>1, <2>2 DEF StatsRight, p, found
<1>12. CASE tm \in dir
  <2>1. Named(dir, Head(p)) = {tm}
    BY <1>9, <1>12
  <2>2. OpenFile(dir, p) = {[tm |-> tm, file |-> g] : g \in FileAt(tm, q)}
    BY <1>10, <2>1
  <2>3. <<w>> \in Seq(Parts) /\ <<w>> # <<>> /\ f \in FileType
    BY <1>4, FilesType, OnePart
  <2>4. /\ FileAt(tm, q) = {f} => found = Node(<<w>>, f.size, FALSE)
        /\ FileAt(tm, q) = {} /\ Below(tm, q) # {} =>
              found = Node(<<w>>, 0, TRUE)
    <3> DEFINE t == CHOOSE t \in Named(dir, Head(Clean(p))) : TRUE
               g == CHOOSE g \in FileAt(t, Tail(Clean(p))) : TRUE
    <3>1. t = tm
      BY <1>8, <2>1
    <3> HIDE DEF t
    <3>2. FileAt(tm, q) = {f} => g = f
      <4>1. FileAt(t, Tail(Clean(p))) = FileAt(tm, q)
        BY <1>6, <1>8, <3>1
      <4> DEFINE S == FileAt(t, Tail(Clean(p)))
      <4> HIDE DEF S
      <4>2. S = {f} => (CHOOSE x \in S : TRUE) = f
        OBVIOUS
      <4> QED BY <4>1, <4>2 DEF S
    <3> HIDE DEF g
    <3>3. found = IF FileAt(t, Tail(Clean(p))) # {}
                  THEN Node(<<Last(Tail(Clean(p)))>>, g.size, FALSE)
                  ELSE IF Below(t, Tail(Clean(p))) # {}
                  THEN Node(<<Last(Tail(Clean(p)))>>, 0, TRUE)
                  ELSE None
      <4>1. Clean(p) # <<>> /\ Named(dir, Head(Clean(p))) # {}
            /\ Tail(Clean(p)) # <<>>
        BY <1>6, <1>7, <1>8, <2>1
      <4> QED BY <4>1 DEF Stat, t, g
    <3> HIDE DEF found
    <3> QED BY <1>6, <1>7, <1>8, <3>1, <3>2, <3>3
  <2> HIDE DEF found
  <2>5. CASE e.dir
    <3>1. IsStrictPrefix(q, f.path)
      BY <1>4, <1>5, <2>5 DEF q
    <3>2. \A g \in ToSet(tm.files) : g.path # q
      <4> SUFFICES ASSUME NEW g \in ToSet(tm.files), g.path = q PROVE FALSE
        OBVIOUS
      <4>1. g = f
        BY <1>4, <3>1, FilesFacts DEF IsStrictPrefix
      <4> QED BY <3>1, <4>1 DEF IsStrictPrefix
    <3>3. FileAt(tm, q) = {} /\ f \in Below(tm, q)
      BY <1>4, <3>1, <3>2, FileAtFacts DEF Below
    <3>4. found = Node(<<w>>, 0, TRUE)
      BY <1>7, <2>4, <3>3
    <3>5. found # None /\ found.name = <<w>> /\ found.dir = TRUE
      <4> DEFINE node == Node(<<w>>, 0, TRUE)
      <4>1. node.name = <<w>> /\ node.dir = TRUE
        BY DEF Node
      <4>2. None.name = <<>>
        BY DEF None
      <4> HIDE DEF node
      <4>3. found = node
        BY <3>4 DEF node
      <4> QED BY <2>3, <4>1, <4>2, <4>3
    <3>6. e.dir = TRUE
      BY <1>4, <2>5 DEF NodeType
    <3> QED BY <1>5, <1>7, <3>5, <3>6 DEF StatsRight, p, found
  <2>6. CASE ~e.dir
    <3>1. q = f.path /\ e.size = f.size
      BY <1>4, <1>5, <2>6 DEF q
    <3>2. FileAt(tm, q) = {f}
      <4>1. PICK i \in DOMAIN tm.files : f = tm.files[i]
        BY <1>4 DEF ToSet
      <4> QED BY <3>1, <4>1, FileAtFacts
    <3>3. found = Node(<<w>>, f.size, FALSE)
      <4>1. (CHOOSE g \in {f} : TRUE) = f
        OBVIOUS
      <4> QED BY <1>7, <2>4, <3>2, <4>1
    <3>4. f.size \in Nat
      BY <2>3 DEF FileType
    <3>5. /\ found # None /\ found.name = <<w>>
          /\ found.size = f.size /\ found.dir = FALSE
      BY <2>3, <3>3, <3>4, NodeFacts
    <3>6. OpenFile(dir, p) # {}
      BY <2>2, <3>2
    <3>7. e.dir = FALSE
      BY <1>4, <2>6 DEF NodeType
    <3> QED BY <1>5, <1>7, <3>1, <3>5, <3>6, <3>7 DEF StatsRight, p, found
  <2> QED BY <2>5, <2>6
<1> QED BY <1>11, <1>12

-----------------------------------------------------------------------------
(* The invariant, client by client *)

SeenOk(cl, dir) ==
    LET gone == Named(dir, Head(Here(cl))) = {}
    IN Reachable(cl) =>
         /\ cl.at = "seen" /\ cl.found = None => gone
         /\ cl.found # None =>
               /\ cl.found.dir = cl.entry.dir
               /\ cl.found.name = <<Last(cl.entry.name)>>
               /\ ~cl.found.dir => cl.found.size = cl.entry.size
         /\ cl.at = "failed" => gone

ExactOk(cl, n) ==
    \A v \in cl.open :
        /\ IsPrefix(cl.got, FileBytes(v))
        /\ cl.at = "done" /\ n = 0 => cl.got = FileBytes(v)

ClientOk(cl, dir, n) ==
    cl \in ClientType /\ StageInv(cl) /\ SeenOk(cl, dir) /\ ExactOk(cl, n)

\* ServeInv is the same as what each client is promised.
LEMMA ByClient ==
    ServeInv <=> /\ loaded \subseteq Infos /\ faults \in Nat
                 /\ client \in [Channels -> ClientType]
                 /\ \A c \in Channels : ClientOk(client[c], Dir, faults)
<1>1. ListedIsThere <=> \A c \in Channels : SeenOk(client[c], Dir)
  BY DEF ListedIsThere, SeenOk
<1>2. DownloadsAreExact <=> \A c \in Channels : ExactOk(client[c], faults)
  BY DEF DownloadsAreExact, ExactOk
<1>3. client \in [Channels -> ClientType] =>
         \A c \in Channels : client[c] \in ClientType
  OBVIOUS
<1> QED BY <1>1, <1>2, <1>3 DEF ServeInv, ClientOk

\* The loaded torrents are torrents of the model.
LEMMA DirFacts ==
    ASSUME loaded \subseteq Infos
    PROVE  Dir \in SUBSET TorrentMetas
BY DEF Dir, TorrentMetas

\* Fewer torrents, and more faults, leave what a client knows in order.
LEMMA ClientOkStays ==
    ASSUME NEW cl, NEW dir, NEW fewer \in SUBSET dir,
           NEW n \in Nat, NEW m \in Nat, n <= m, ClientOk(cl, dir, n)
    PROVE  ClientOk(cl, fewer, m)
<1>1. \A c : Named(dir, c) = {} => Named(fewer, c) = {}
  BY DEF Named
<1>2. SeenOk(cl, fewer)
  BY <1>1 DEF ClientOk, SeenOk
<1>3. m = 0 => n = 0
  OBVIOUS
<1>4. ExactOk(cl, m)
  BY <1>3 DEF ClientOk, ExactOk
<1> QED BY <1>2, <1>4 DEF ClientOk

\* A step that moves one client.
LEMMA OneClient ==
    ASSUME ServeInv, NEW c \in Channels, NEW cl, SetClient(c, cl),
           loaded' = loaded, faults' \in Nat, faults <= faults',
           ClientOk(cl, Dir, faults')
    PROVE  ServeInv'
<1>1. /\ loaded \subseteq Infos /\ faults \in Nat
      /\ client \in [Channels -> ClientType]
      /\ \A d \in Channels : ClientOk(client[d], Dir, faults)
  BY ByClient
<1>2. Dir' = Dir
  BY DEF Dir
<1>3. client' \in [Channels -> ClientType]
  BY <1>1 DEF ClientOk, SetClient
<1>4. ASSUME NEW d \in Channels PROVE ClientOk(client'[d], Dir', faults')
  <2>1. CASE d = c
    <3>1. client'[d] = cl
      BY <1>1, <2>1 DEF SetClient
    <3> QED BY <1>2, <3>1
  <2>2. CASE d # c
    <3>1. client'[d] = client[d]
      BY <1>1, <2>2 DEF SetClient
    <3>2. ClientOk(client[d], Dir, faults')
      BY <1>1, ClientOkStays
    <3> QED BY <1>2, <3>1, <3>2
  <2> QED BY <2>1, <2>2
<1>5. \A d \in Channels :
         StageInv(client'[d]) /\ SeenOk(client'[d], Dir')
            /\ ExactOk(client'[d], faults')
  BY <1>4 DEF ClientOk
<1>6. ListedIsThere'
  BY <1>5 DEF ListedIsThere, SeenOk, Reachable
<1>7. DownloadsAreExact'
  BY <1>5 DEF DownloadsAreExact, ExactOk
<1> QED BY <1>1, <1>3, <1>5, <1>6, <1>7 DEF ServeInv

\* A step of the library or of the session: no client moves.
LEMMA NoClient ==
    ASSUME ServeInv, UNCHANGED <<loaded, client, faults>>
    PROVE  ServeInv'
<1>1. Dir' = Dir
  BY DEF Dir
<1> QED BY <1>1 DEF ServeInv, ListedIsThere, DownloadsAreExact, Here, FileBytes,
                    Reachable

-----------------------------------------------------------------------------
(* The client *)

\* The invariant holds when the session begins.
LEMMA InitServeInv == Init => ServeInv
<1> SUFFICES ASSUME Init PROVE ServeInv
  OBVIOUS
<1>1. /\ loaded = Infos /\ faults = 0
      /\ client = [c \in Channels |-> NewClient]
  BY DEF Init
<1>2. NewClient \in ClientType
  <2>1. <<>> \in Seq(Words) /\ <<>> \in Seq(Nat)
    OBVIOUS
  <2>2. None \in NodeType
    BY NoneFacts
  <2> QED BY <2>1, <2>2 DEF NewClient, ClientType
<1>3. StageInv(NewClient) /\ SeenOk(NewClient, Dir) /\ ExactOk(NewClient, 0)
  BY DEF StageInv, SeenOk, ExactOk, NewClient
<1>4. \A c \in Channels : ClientOk(client[c], Dir, faults)
  BY <1>1, <1>2, <1>3 DEF ClientOk
<1>5. client \in [Channels -> ClientType]
  BY <1>1, <1>2
<1> QED BY <1>1, <1>4, <1>5, ByClient

\* A client that changes only its place, its counts and the length it reads.
LEMMA Moves ==
    ASSUME NEW cl \in ClientType, NEW cm \in ClientType, NEW dir,
           NEW n \in Nat, ClientOk(cl, dir, n),
           cm.path = cl.path, cm.entry = cl.entry, cm.found = cl.found,
           cm.open = cl.open, cm.got = cl.got,
           \/ cm.at = cl.at
           \/ cm.at = "closed"
           \/ cl.at = "new" /\ cm.at = "dir"
           \/ cl.at = "dir" /\ cm.at = "list"
           \/ cl.at = "chosen" /\ cm.at = "stat"
           \/ cl.at = "found" /\ cm.at = "open"
           \/ cl.at = "file" /\ cm.at = "read"
    PROVE  ClientOk(cm, dir, n)
<1>1. StageInv(cm)
  BY DEF ClientOk, StageInv
<1>2. SeenOk(cm, dir)
  <2>1. Here(cm) = Here(cl) /\ (Reachable(cm) <=> Reachable(cl))
    BY DEF Here, Reachable
  <2> QED BY <2>1 DEF ClientOk, SeenOk
<1>3. ExactOk(cm, n)
  BY DEF ClientOk, ExactOk
<1> QED BY <1>1, <1>2, <1>3 DEF ClientOk

\* A request that a client sends, and what it does with an answer.
LEMMA ClientStepInv ==
    ASSUME ServeInv, NEW c \in Channels, ClientStep(c)
    PROVE  ServeInv'
<1> DEFINE cl == client[c]
<1>1. cl \in ClientType /\ ClientOk(cl, Dir, faults) /\ faults \in Nat
  BY ByClient
<1>2. \E cm : SetClient(c, cm) /\ ClientOk(cm, Dir, faults)
  <2>1. ASSUME NEW what, Ask(c, what)
        PROVE  \E cm : SetClient(c, cm) /\ ClientOk(cm, Dir, faults)
    <3> DEFINE sent == cl.sent + 1
               asked == IF what = "sftp" THEN cl.asked + 1 ELSE cl.asked
               cm == [cl EXCEPT !.sent = sent, !.asked = asked]
    <3>0. sent \in Nat /\ asked \in Nat
      BY <1>1 DEF ClientType
    <3>1. SetClient(c, cm)
      BY <2>1 DEF Ask
    <3> HIDE DEF sent, asked
    <3>2. /\ cm \in ClientType /\ cm.at = cl.at
          /\ cm.path = cl.path /\ cm.entry = cl.entry /\ cm.found = cl.found
          /\ cm.open = cl.open /\ cm.got = cl.got
      BY <1>1, <3>0 DEF ClientType
    <3> HIDE DEF cm
    <3>3. ClientOk(cm, Dir, faults)
      BY <1>1, <3>2, Moves
    <3> QED BY <3>1, <3>3
  <2>2. ASSUME Requests(c)
        PROVE  \E cm : SetClient(c, cm) /\ ClientOk(cm, Dir, faults)
    <3>1. CASE /\ cl.at = "dir"
               /\ SetClient(c, [cl EXCEPT !.at = "list"])
      <4> DEFINE cm == [cl EXCEPT !.at = "list"]
      <4>1. /\ cm \in ClientType /\ cm.at = "list"
            /\ cm.path = cl.path /\ cm.entry = cl.entry /\ cm.found = cl.found
            /\ cm.open = cl.open /\ cm.got = cl.got
        BY <1>1 DEF ClientType
      <4> HIDE DEF cm
      <4>2. ClientOk(cm, Dir, faults)
        BY <1>1, <3>1, <4>1, Moves
      <4> QED BY <3>1, <4>2 DEF cm
    <3>2. CASE /\ cl.at = "chosen"
               /\ SetClient(c, [cl EXCEPT !.at = "stat"])
      <4> DEFINE cm == [cl EXCEPT !.at = "stat"]
      <4>1. /\ cm \in ClientType /\ cm.at = "stat"
            /\ cm.path = cl.path /\ cm.entry = cl.entry /\ cm.found = cl.found
            /\ cm.open = cl.open /\ cm.got = cl.got
        BY <1>1 DEF ClientType
      <4> HIDE DEF cm
      <4>2. ClientOk(cm, Dir, faults)
        BY <1>1, <3>2, <4>1, Moves
      <4> QED BY <3>2, <4>2 DEF cm
    <3>3. CASE /\ cl.at = "found"
               /\ SetClient(c, [cl EXCEPT !.at = "open"])
      <4> DEFINE cm == [cl EXCEPT !.at = "open"]
      <4>1. /\ cm \in ClientType /\ cm.at = "open"
            /\ cm.path = cl.path /\ cm.entry = cl.entry /\ cm.found = cl.found
            /\ cm.open = cl.open /\ cm.got = cl.got
        BY <1>1 DEF ClientType
      <4> HIDE DEF cm
      <4>2. ClientOk(cm, Dir, faults)
        BY <1>1, <3>3, <4>1, Moves
      <4> QED BY <3>3, <4>2 DEF cm
    <3>4. ASSUME cl.at = "file", NEW n \in ReadLens,
                 SetClient(c, [cl EXCEPT !.at = "read", !.len = n])
          PROVE  \E cm : SetClient(c, cm) /\ ClientOk(cm, Dir, faults)
      <4> DEFINE cm == [cl EXCEPT !.at = "read", !.len = n]
      <4>0. n \in Nat
        BY ServeAssumption
      <4>1. /\ cm \in ClientType /\ cm.at = "read"
            /\ cm.path = cl.path /\ cm.entry = cl.entry /\ cm.found = cl.found
            /\ cm.open = cl.open /\ cm.got = cl.got
        BY <1>1, <4>0 DEF ClientType
      <4> HIDE DEF cm
      <4>2. ClientOk(cm, Dir, faults)
        BY <1>1, <3>4, <4>1, Moves
      <4> QED BY <3>4, <4>2 DEF cm
    <3> QED BY <2>2, <3>1, <3>2, <3>3, <3>4 DEF Requests
  <2>3. ASSUME Enters(c)
        PROVE  \E cm : SetClient(c, cm) /\ ClientOk(cm, Dir, faults)
    <3> DEFINE cm == [cl EXCEPT !.at = "dir", !.path = Clean(Here(cl)),
                                !.entry = None, !.found = None]
    <3>1. SetClient(c, cm) /\ cl.at = "seen"
      BY <2>3 DEF Enters
    <3>2. Clean(Here(cl)) \in Seq(Words)
      <4>1. Shown(cl.path, cl.entry) /\ cl.path \in Seq(Words)
        BY <1>1, <3>1 DEF ClientOk, StageInv, ClientType
      <4> QED BY <4>1, ShownFacts, CleanType DEF Here
    <3>3. /\ cm \in ClientType /\ cm.at = "dir" /\ cm.found = None
          /\ cm.open = cl.open /\ cm.got = cl.got
      BY <1>1, <3>2, NoneFacts DEF ClientType
    <3>4. cl.open = {} /\ cl.got = <<>>
      BY <1>1, <3>1 DEF ClientOk, StageInv
    <3> HIDE DEF cm
    <3>5. StageInv(cm) /\ SeenOk(cm, Dir) /\ ExactOk(cm, faults)
      BY <3>3, <3>4 DEF StageInv, SeenOk, ExactOk
    <3> QED BY <3>1, <3>3, <3>5 DEF ClientOk
  <2>4. ASSUME Closes(c)
        PROVE  \E cm : SetClient(c, cm) /\ ClientOk(cm, Dir, faults)
    <3> DEFINE cm == [cl EXCEPT !.at = "closed"]
    <3>1. SetClient(c, cm)
      BY <2>4 DEF Closes
    <3>2. /\ cm \in ClientType /\ cm.at = "closed"
          /\ cm.path = cl.path /\ cm.entry = cl.entry /\ cm.found = cl.found
          /\ cm.open = cl.open /\ cm.got = cl.got
      BY <1>1 DEF ClientType
    <3> HIDE DEF cm
    <3>3. ClientOk(cm, Dir, faults)
      BY <1>1, <3>2, Moves
    <3> QED BY <3>1, <3>3
  <2> QED BY <2>1, <2>2, <2>3, <2>4 DEF ClientStep
<1>3. UNCHANGED <<loaded, faults>>
  BY DEF ClientStep, Ask, Requests, Enters, Closes
<1> QED BY <1>1, <1>2, <1>3, OneClient

-----------------------------------------------------------------------------
(* The session *)

\* The file of an open view, and the torrent it is in.
LEMMA ViewFacts ==
    ASSUME NEW v \in Views, v.file \in ToSet(v.tm.files)
    PROVE  Inside(v)
<1>1. v.tm \in TorrentMetas /\ v.file \in FileType
  BY DEF Views
<1>2. Sized(v.tm) /\ Contiguous(v.tm)
  BY <1>1, TorrentsFacts
<1>3. PICK i \in DOMAIN v.tm.files : v.file = v.tm.files[i]
  BY DEF ToSet
<1>4. DOMAIN v.tm.files = 1 .. Len(v.tm.files)
  <2> DEFINE fs == v.tm.files
  <2>1. fs \in Seq(FileType)
    BY <1>2 DEF Contiguous
  <2> HIDE DEF fs
  <2>2. DOMAIN fs = 1 .. Len(fs)
    BY <2>1
  <2> QED BY <2>2 DEF fs
<1>5. v.file.offset + v.file.size <= v.tm.totalLen
  BY <1>2, <1>3, <1>4 DEF Contiguous
<1> QED BY <1>1, <1>2, <1>5 DEF Inside, FileType

\* serveList: the client picks one of the entries it was shown.
LEMMA ServeListInv ==
    ASSUME ServeInv, NEW c \in Channels, ServeList(c)
    PROVE  \E cm : SetClient(c, cm) /\ ClientOk(cm, Dir, faults)
<1> DEFINE cl == client[c]
           shown == List(Dir, cl.path)
<1>1. /\ cl \in ClientType /\ ClientOk(cl, Dir, faults) /\ faults \in Nat
      /\ cl.at = "list" /\ Dir \in SUBSET TorrentMetas
  BY ByClient, DirFacts DEF ServeList
<1>2. cl.found = None /\ cl.open = {} /\ cl.got = <<>>
  BY <1>1 DEF ClientOk, StageInv
<1>3. CASE SetClient(c, [cl EXCEPT !.at = "done"])
  <2> DEFINE cm == [cl EXCEPT !.at = "done"]
  <2>1. /\ cm \in ClientType /\ cm.at = "done"
        /\ cm.path = cl.path /\ cm.entry = cl.entry /\ cm.found = cl.found
        /\ cm.open = cl.open /\ cm.got = cl.got
    BY <1>1 DEF ClientType
  <2> HIDE DEF cm
  <2>2. StageInv(cm) /\ SeenOk(cm, Dir) /\ ExactOk(cm, faults)
    BY <1>2, <2>1 DEF StageInv, SeenOk, ExactOk
  <2> QED BY <1>3, <2>1, <2>2 DEF ClientOk, cm
<1>4. ASSUME NEW e \in shown,
             SetClient(c, [cl EXCEPT !.at = "chosen", !.entry = e])
      PROVE  \E cm : SetClient(c, cm) /\ ClientOk(cm, Dir, faults)
  <2> DEFINE cm == [cl EXCEPT !.at = "chosen", !.entry = e]
  <2>1. cl.path \in Seq(Words)
    BY <1>1 DEF ClientType
  <2>2. Shown(cl.path, e) /\ e \in NodeType
    BY <1>1, <1>4, <2>1, ListFacts, ShownFacts
  <2>3. /\ cm \in ClientType /\ cm.at = "chosen"
        /\ cm.path = cl.path /\ cm.entry = e /\ cm.found = cl.found
        /\ cm.open = cl.open /\ cm.got = cl.got
    BY <1>1, <2>2 DEF ClientType
  <2> HIDE DEF cm
  <2>4. StageInv(cm) /\ SeenOk(cm, Dir) /\ ExactOk(cm, faults)
    BY <1>2, <2>2, <2>3 DEF StageInv, SeenOk, ExactOk
  <2> QED BY <1>4, <2>3, <2>4 DEF ClientOk, cm
<1> QED BY <1>3, <1>4 DEF ServeList

\* What a client may be shown of a reachable entry.
LEMMA ReachableFacts ==
    ASSUME NEW cl \in ClientType, Reachable(cl), NEW dir \in SUBSET TorrentMetas
    PROVE  StatsRight(dir, cl.path, cl.entry)
<1>1. PICK info \in Infos :
         WellFormed(info) /\ Lists(BuildMeta(info), cl.path, cl.entry)
  BY DEF Reachable
<1>2. BuildMeta(info) \in TorrentMetas /\ Spelled(BuildMeta(info))
  BY <1>1, TorrentFacts DEF TorrentMetas
<1>3. cl.path \in Seq(Words)
  BY DEF ClientType
<1>4. CASE cl.path = <<>>
  BY <1>1, <1>2, <1>4, StatTorrent
<1>5. CASE cl.path # <<>>
  BY <1>1, <1>2, <1>3, <1>5, StatBelow
<1> QED BY <1>4, <1>5

\* Stat: what was listed is found again, or its torrent is gone.
LEMMA ServeStatInv ==
    ASSUME ServeInv, NEW c \in Channels, ServeStat(c)
    PROVE  \E cm : SetClient(c, cm) /\ ClientOk(cm, Dir, faults)
<1> DEFINE cl == client[c]
           found == Stat(Dir, Here(cl))
           at == IF found = None \/ found.dir THEN "seen" ELSE "found"
           cm == [cl EXCEPT !.found = found, !.at = at]
<1>1. /\ cl \in ClientType /\ ClientOk(cl, Dir, faults) /\ faults \in Nat
      /\ cl.at = "stat" /\ Dir \in SUBSET TorrentMetas /\ SetClient(c, cm)
  BY ByClient, DirFacts DEF ServeStat
<1>2. /\ cl.open = {} /\ cl.got = <<>>
      /\ Shown(cl.path, cl.entry) /\ cl.path \in Seq(Words)
  BY <1>1 DEF ClientOk, StageInv, ClientType
<1>3. found \in NodeType
  BY <1>1, <1>2, ShownFacts, StatType DEF Here
<1>4. Reachable(cl) =>
         /\ found = None => Named(Dir, Head(Here(cl))) = {}
         /\ found # None => /\ found.dir = cl.entry.dir
                            /\ found.name = <<Last(cl.entry.name)>>
                            /\ ~found.dir => found.size = cl.entry.size
  BY <1>1, ReachableFacts DEF StatsRight, Here
<1>5. \/ at = "seen"
      \/ at = "found" /\ found # None /\ ~found.dir
  OBVIOUS
<1> HIDE DEF found, at
<1>6. /\ cm \in ClientType /\ cm.at = at
      /\ cm.path = cl.path /\ cm.entry = cl.entry /\ cm.found = found
      /\ cm.open = cl.open /\ cm.got = cl.got
  BY <1>1, <1>3, <1>5 DEF ClientType
<1> HIDE DEF cm
<1>7. StageInv(cm)
  BY <1>2, <1>5, <1>6 DEF StageInv
<1>8. SeenOk(cm, Dir)
  <2>1. Here(cm) = Here(cl) /\ (Reachable(cm) <=> Reachable(cl))
    BY <1>6 DEF Here, Reachable
  <2> QED BY <1>4, <1>5, <1>6, <2>1 DEF SeenOk
<1>9. ExactOk(cm, faults)
  BY <1>2, <1>6 DEF ExactOk
<1> QED BY <1>1, <1>6, <1>7, <1>8, <1>9 DEF ClientOk

\* openFile: the file that was found opens, or its torrent is gone by now.
LEMMA ServeOpenInv ==
    ASSUME ServeInv, NEW c \in Channels, ServeOpen(c)
    PROVE  \E cm : SetClient(c, cm) /\ ClientOk(cm, Dir, faults)
<1> DEFINE cl == client[c]
           open == OpenFile(Dir, Here(cl))
           at == IF open = {} THEN "failed" ELSE "file"
           cm == [cl EXCEPT !.open = open, !.at = at]
<1>1. /\ cl \in ClientType /\ ClientOk(cl, Dir, faults) /\ faults \in Nat
      /\ cl.at = "open" /\ Dir \in SUBSET TorrentMetas /\ SetClient(c, cm)
  BY ByClient, DirFacts DEF ServeOpen
<1>2. /\ cl.open = {} /\ cl.got = <<>>
      /\ cl.found # None /\ ~cl.found.dir
  BY <1>1 DEF ClientOk, StageInv
<1>3. /\ open \subseteq Views
      /\ \A v \in open : v.file \in ToSet(v.tm.files)
      /\ \A v, w \in open : v = w
  BY <1>1, OpenType
<1>4. Reachable(cl) =>
         /\ cl.found.dir = cl.entry.dir
         /\ cl.found.name = <<Last(cl.entry.name)>>
         /\ cl.found.size = cl.entry.size
         /\ open = {} => Named(Dir, Head(Here(cl))) = {}
  <2> SUFFICES ASSUME Reachable(cl)
               PROVE  /\ cl.found.dir = cl.entry.dir
                      /\ cl.found.name = <<Last(cl.entry.name)>>
                      /\ cl.found.size = cl.entry.size
                      /\ open = {} => Named(Dir, Head(Here(cl))) = {}
    OBVIOUS
  <2>1. /\ cl.found.dir = cl.entry.dir
        /\ cl.found.name = <<Last(cl.entry.name)>>
        /\ cl.found.size = cl.entry.size
    BY <1>1, <1>2 DEF ClientOk, SeenOk
  <2>2. ~cl.entry.dir
    BY <1>2, <2>1
  <2>3. open = {} => Named(Dir, Head(Here(cl))) = {}
    BY <1>1, <2>2, ReachableFacts DEF StatsRight, Here
  <2> QED BY <2>1, <2>3
<1>5. \/ at = "failed" /\ open = {}
      \/ at = "file" /\ open # {}
  OBVIOUS
<1> HIDE DEF open, at
<1>6. /\ cm \in ClientType /\ cm.at = at
      /\ cm.path = cl.path /\ cm.entry = cl.entry /\ cm.found = cl.found
      /\ cm.open = open /\ cm.got = cl.got
  BY <1>1, <1>3, <1>5 DEF ClientType
<1> HIDE DEF cm
<1>7. StageInv(cm)
  BY <1>2, <1>3, <1>5, <1>6 DEF StageInv
<1>8. SeenOk(cm, Dir)
  <2>1. Here(cm) = Here(cl) /\ (Reachable(cm) <=> Reachable(cl))
    BY <1>6 DEF Here, Reachable
  <2> QED BY <1>4, <1>5, <1>6, <2>1 DEF SeenOk
<1>9. ExactOk(cm, faults)
  <2> SUFFICES ASSUME NEW v \in open
               PROVE  /\ IsPrefix(cm.got, FileBytes(v))
                      /\ cm.at = "done" => cm.got = FileBytes(v)
    BY <1>6 DEF ExactOk
  <2>1. v \in Views /\ v.file \in ToSet(v.tm.files) /\ cm.at # "done"
    BY <1>3, <1>5, <1>6
  <2>2. v.file.offset \in Nat /\ v.file.size \in Nat
    BY <2>1, ViewFacts DEF Inside
  <2>3. IsPrefix(<<>>, Bytes(v.file.offset, v.file.size))
    <3>1. Bytes(v.file.offset, 0) = <<>>
      BY <2>2, BytesFacts
    <3>2. <<>> \in Seq(Nat) /\ 0 \in 0 .. v.file.size
      BY <2>2
    <3> QED BY <2>2, <3>1, <3>2, PrefixFacts
  <2> QED BY <1>2, <1>6, <2>1, <2>3, FileBytesFacts
<1> QED BY <1>1, <1>6, <1>7, <1>8, <1>9 DEF ClientOk

\* A read goes on where the last one ended.
LEMMA ServeReadInv ==
    ASSUME ServeInv, NEW c \in Channels, ServeRead(c)
    PROVE  /\ faults' \in Nat /\ faults <= faults'
           /\ \E cm : SetClient(c, cm) /\ ClientOk(cm, Dir, faults')
<1> DEFINE cl == client[c]
<1>1. /\ cl \in ClientType /\ ClientOk(cl, Dir, faults) /\ faults \in Nat
      /\ cl.at = "read"
  BY ByClient DEF ServeRead
<1>2. PICK v \in cl.open : \E lost \in {{}} \cup {{k} : k \in PieceRange(v)} :
         LET r == ReadAt(v, Len(cl.got), cl.len, lost)
         IN /\ IF lost = {} THEN UNCHANGED faults
               ELSE faults < MaxFaults /\ faults' = faults + 1
            /\ SetClient(c, [cl EXCEPT !.got = @ \o r.bytes,
                                !.at = IF r.eof THEN "done" ELSE "file"])
  BY DEF ServeRead
<1>3. PICK lost :
         LET r == ReadAt(v, Len(cl.got), cl.len, lost)
         IN /\ IF lost = {} THEN UNCHANGED faults
               ELSE faults < MaxFaults /\ faults' = faults + 1
            /\ SetClient(c, [cl EXCEPT !.got = @ \o r.bytes,
                                !.at = IF r.eof THEN "done" ELSE "file"])
  BY <1>2
<1> DEFINE r == ReadAt(v, Len(cl.got), cl.len, lost)
           at == IF r.eof THEN "done" ELSE "file"
           got == cl.got \o r.bytes
           cm == [cl EXCEPT !.got = got, !.at = at]
           O == v.file.offset
           S == v.file.size
           n == Len(cl.got)
<1>4. /\ faults' \in Nat /\ faults <= faults' /\ (faults' = 0 => lost = {})
      /\ SetClient(c, cm)
  BY <1>1, <1>3
<1>5. /\ v \in Views /\ v.file \in ToSet(v.tm.files) /\ Inside(v)
      /\ IsPrefix(cl.got, FileBytes(v)) /\ cl.got \in Seq(Nat)
      /\ cl.len \in Nat /\ \A w \in cl.open : w = v
  <2>1. v \in Views /\ cl.got \in Seq(Nat) /\ cl.len \in Nat
    BY <1>1 DEF ClientType
  <2>2. v.file \in ToSet(v.tm.files) /\ IsPrefix(cl.got, FileBytes(v))
        /\ \A w \in cl.open : w = v
    BY <1>1 DEF ClientOk, StageInv, ExactOk
  <2> QED BY <2>1, <2>2, ViewFacts
<1>6. O \in Nat /\ S \in Nat
  BY <1>5 DEF Inside
<1>7. n \in 0 .. S /\ cl.got = Bytes(O, n)
  <2>1. PICK m \in 0 .. S : cl.got = Bytes(O, m)
    BY <1>5, <1>6, FileBytesFacts, PrefixFacts
  <2>2. n = m
    <3>1. m \in Nat
      BY <1>6
    <3>2. Len(Bytes(O, m)) = m
      BY <1>6, <3>1, BytesFacts
    <3> QED BY <2>1, <3>2
  <2> QED BY <2>1, <2>2
<1>8. PICK m \in Nat : ReadsRight(v, n, cl.len, lost, r, m)
  BY <1>5, <1>7, ReadFacts
<1>9. /\ r.bytes = Bytes(O + n, m) /\ n + m <= S
      /\ r.eof /\ lost = {} => n + m = S
  <2>1. /\ r.bytes = Bytes(O + n, m) /\ n + m <= S
        /\ r.eof /\ n + m < S => (O + (n + m)) \div v.tm.pieceLen \in lost
    BY <1>8 DEF ReadsRight
  <2> HIDE DEF r, n, S, O
  <2>2. r.eof /\ lost = {} => ~(n + m < S)
    BY <2>1
  <2> QED BY <1>6, <1>7, <2>1, <2>2
<1> HIDE DEF r, n, O, S
<1>10. got = Bytes(O, n + m) /\ got \in Seq(Nat) /\ n + m \in 0 .. S
  <2>1. n \in Nat /\ m \in Nat
    BY <1>7, <1>6
  <2>2. got = Bytes(O, n) \o Bytes(O + n, m)
    BY <1>7, <1>9
  <2>3. got = Bytes(O, n + m)
    BY <1>6, <2>1, <2>2, BytesJoined
  <2> HIDE DEF got
  <2>4. n + m \in Nat
    BY <2>1
  <2>5. got \in Seq(Nat)
    BY <1>6, <2>3, <2>4, BytesFacts
  <2> QED BY <1>6, <1>9, <2>3, <2>4, <2>5
<1>11. (at = "done" /\ r.eof) \/ at = "file"
  OBVIOUS
<1> HIDE DEF got, at
<1>12. /\ cm \in ClientType /\ cm.at = at
       /\ cm.path = cl.path /\ cm.entry = cl.entry /\ cm.found = cl.found
       /\ cm.open = cl.open /\ cm.got = got
  BY <1>1, <1>10, <1>11 DEF ClientType
<1> HIDE DEF cm
<1>13. cl.open # {} /\ v \in cl.open
  OBVIOUS
<1>14. StageInv(cm)
  BY <1>1, <1>11, <1>12, <1>13 DEF StageInv, ClientOk
<1>15. SeenOk(cm, Dir)
  <2>1. Here(cm) = Here(cl) /\ (Reachable(cm) <=> Reachable(cl))
    BY <1>12 DEF Here, Reachable
  <2> QED BY <1>1, <1>11, <1>12, <2>1 DEF SeenOk, ClientOk
<1>16. ExactOk(cm, faults')
  <2>1. FileBytes(v) = Bytes(O, S)
    BY FileBytesFacts DEF O, S
  <2>2. IsPrefix(got, Bytes(O, S))
    BY <1>6, <1>10, PrefixFacts
  <2>3. ASSUME at = "done", faults' = 0 PROVE got = Bytes(O, S)
    <3>1. r.eof /\ lost = {}
      BY <1>4, <1>11, <2>3
    <3> QED BY <1>9, <1>10, <3>1
  <2> QED BY <1>5, <1>12, <2>1, <2>2, <2>3 DEF ExactOk
<1>17. ClientOk(cm, Dir, faults')
  BY <1>12, <1>14, <1>15, <1>16 DEF ClientOk
<1> QED BY <1>4, <1>17 DEF cm

\* The session answers a channel request or starts to serve it.
LEMMA AnswerInv ==
    ASSUME ServeInv, NEW c \in Channels, Answer(c)
    PROVE  ServeInv'
<1> DEFINE cl == client[c]
           cm == [cl EXCEPT !.at = "dir"]
<1>1. /\ cl \in ClientType /\ ClientOk(cl, Dir, faults) /\ faults \in Nat
  BY ByClient
<1>2. UNCHANGED <<loaded, faults>>
  BY DEF Answer
<1>3. CASE cl.at = "new" /\ SetClient(c, cm)
  <2>1. /\ cm \in ClientType /\ cm.at = "dir"
        /\ cm.path = cl.path /\ cm.entry = cl.entry /\ cm.found = cl.found
        /\ cm.open = cl.open /\ cm.got = cl.got
    BY <1>1 DEF ClientType
  <2> HIDE DEF cm
  <2>2. ClientOk(cm, Dir, faults)
    BY <1>1, <1>3, <2>1, Moves
  <2> QED BY <1>1, <1>2, <1>3, <2>2, OneClient
<1>4. CASE UNCHANGED client
  BY <1>2, <1>4, NoClient
<1> QED BY <1>3, <1>4 DEF Answer

\* One request of the file server: list, stat, open or read.
LEMMA ServeRequestInv ==
    ASSUME ServeInv, NEW c \in Channels, ServeRequest(c)
    PROVE  ServeInv'
<1>1. UNCHANGED loaded /\ faults \in Nat
  BY DEF ServeRequest, ServeInv
<1>2. CASE UNCHANGED <<client, faults>>
  BY <1>1, <1>2, NoClient
<1>3. CASE ServeList(c)
  <2>1. UNCHANGED faults
    BY <1>3 DEF ServeList
  <2> QED BY <1>1, <1>3, <2>1, ServeListInv, OneClient
<1>4. CASE ServeStat(c)
  <2>1. UNCHANGED faults
    BY <1>4 DEF ServeStat
  <2> QED BY <1>1, <1>4, <2>1, ServeStatInv, OneClient
<1>5. CASE ServeOpen(c)
  <2>1. UNCHANGED faults
    BY <1>5 DEF ServeOpen
  <2> QED BY <1>1, <1>5, <2>1, ServeOpenInv, OneClient
<1>6. CASE ServeRead(c)
  BY <1>1, <1>6, ServeReadInv, OneClient
<1> QED BY <1>2, <1>3, <1>4, <1>5, <1>6 DEF ServeRequest

\* One step of the goroutines of a channel.
LEMMA SessionStepInv ==
    ASSUME ServeInv, NEW c \in Channels, SessionStep(c)
    PROVE  ServeInv'
<1>1. CASE Answer(c)
  BY <1>1, AnswerInv
<1>2. CASE ServeRequest(c)
  BY <1>2, ServeRequestInv
<1>3. CASE Accept(c) \/ AnswererEnds(c) \/ Begin(c) \/ ServeEnds(c)
  <2>1. UNCHANGED <<loaded, client, faults>>
    BY <1>3 DEF Accept, AnswererEnds, Begin, ServeEnds
  <2> QED BY <2>1, NoClient
<1> QED BY <1>1, <1>2, <1>3 DEF SessionStep

\* A reload that drops a torrent takes nothing from a client that it still
\* needs: what it opened it keeps.
LEMMA DropsInv ==
    ASSUME ServeInv, NEW info, Drops(info)
    PROVE  ServeInv'
<1>1. /\ loaded \subseteq Infos /\ faults \in Nat
      /\ client \in [Channels -> ClientType]
      /\ \A c \in Channels : ClientOk(client[c], Dir, faults)
  BY ByClient
<1>2. loaded' \subseteq loaded /\ UNCHANGED <<client, faults>>
  BY DEF Drops
<1>3. Dir' \in SUBSET Dir
  BY <1>2 DEF Dir
<1>4. \A c \in Channels : ClientOk(client[c], Dir', faults)
  BY <1>1, <1>3, ClientOkStays
<1>5. ListedIsThere'
  BY <1>2, <1>4 DEF ListedIsThere, ClientOk, SeenOk, Here, Reachable
<1>6. DownloadsAreExact'
  BY <1>2, <1>4 DEF DownloadsAreExact, ClientOk, ExactOk
<1>7. \A c \in Channels : StageInv(client'[c])
  BY <1>2, <1>4 DEF ClientOk
<1> QED BY <1>1, <1>2, <1>5, <1>6, <1>7 DEF ServeInv

-----------------------------------------------------------------------------
(* What holds of every run *)

\* ServeInv is inductive: it holds through every request of every client, every
\* dropped torrent and every lost piece.
THEOREM ServeInvariant == Spec => []ServeInv
<1>1. ASSUME ServeInv, Next PROVE ServeInv'
  <2>1. CASE \E c \in Channels : ClientStep(c) \/ SessionStep(c)
    BY <1>1, <2>1, ClientStepInv, SessionStepInv
  <2>2. CASE Deliver
    <3>1. UNCHANGED <<loaded, client, faults>>
      BY <2>2 DEF Deliver
    <3> QED BY <1>1, <3>1, NoClient
  <2>3. CASE \E info \in Infos : Drops(info)
    BY <1>1, <2>3, DropsInv
  <2> QED BY <1>1, <2>1, <2>2, <2>3 DEF Next
<1>2. ASSUME ServeInv, UNCHANGED vars PROVE ServeInv'
  BY <1>2, NoClient DEF vars
<1> QED BY <1>1, <1>2, InitServeInv, PTL DEF Spec

\* sftp.go:250-294: whatever is read, and whatever is dropped or lost.
THEOREM DownloadsExact == Spec => []DownloadsAreExact
<1>1. ServeInv => DownloadsAreExact
  BY DEF ServeInv
<1> QED BY <1>1, ServeInvariant, PTL

\* sftp.go:35-230: what was listed of a torrent whose names a path can spell is
\* there for the stat and for the open that follow, each with a look-up of its
\* own, unless a reload dropped the torrent before.
THEOREM ListedStays == Spec => []ListedIsThere
<1>1. ServeInv => ListedIsThere
  BY DEF ServeInv
<1> QED BY <1>1, ServeInvariant, PTL

-----------------------------------------------------------------------------
(* The files that get and get2 are told to read *)

\* A path of one word and what follows it.
LEMMA BelowWord ==
    ASSUME NEW K, NEW c \in K, NEW g \in Seq(K)
    PROVE  LET p == <<c>> \o g
           IN /\ p \in Seq(K) /\ Len(p) = Len(g) + 1 /\ Len(g) \in Nat
              /\ Head(p) = c /\ Tail(p) = g
<1> DEFINE p == <<c>> \o g
<1>1. p \in Seq(K) /\ Len(p) = Len(g) + 1 /\ Len(g) \in Nat
  OBVIOUS
<1>2. Head(p) = c
  OBVIOUS
<1>3. Tail(p) = g
  OBVIOUS
<1> QED BY <1>1, <1>2, <1>3

ViewOf(tm, i) == [tm |-> tm, file |-> tm.files[i]]

\* get.go:84: the path of a file of a torrent opens that file.
LEMMA OpenedFacts ==
    ASSUME NEW tm \in TorrentMetas, Spelled(tm), NEW i \in DOMAIN tm.files
    PROVE  Opened(tm, i) = ViewOf(tm, i)
<1> DEFINE g == tm.files[i].path
           p == tm.name \o g
           v == ViewOf(tm, i)
<1>1. PICK c \in Words : tm.name = <<c>>
  BY DEF Spelled
<1>2. g \in Seq(Words)
  BY FilesFacts
<1>3. p \in Seq(Words) /\ Len(p) = Len(g) + 1 /\ Len(g) \in Nat
      /\ Head(p) = c /\ Tail(p) = g
  <2> HIDE DEF g
  <2>1. p = <<c>> \o g
    BY <1>1
  <2> QED BY <1>2, <2>1, BelowWord
<1>4. Named({tm}, Head(p)) = {tm}
  <2>1. {tm} \in SUBSET TorrentMetas /\ tm.name = <<Head(p)>>
    BY <1>1, <1>3
  <2> HIDE DEF p
  <2> QED BY <2>1, NamedFacts
<1>5. Clean(p) = p
  BY <1>3, CleanFacts
<1>6. FileAt(tm, g) = {tm.files[i]}
  BY FileAtFacts
<1>7. g = <<>> => Len(tm.files) = 1 /\ i = 1
  <2> SUFFICES ASSUME g = <<>> PROVE Len(tm.files) = 1 /\ i = 1
    OBVIOUS
  <2>1. ASSUME NEW j \in DOMAIN tm.files PROVE j = i
    <3>1. tm.files[j].path \in Seq(Words)
      BY FilesFacts
    <3>2. IsPrefix(<<>>, tm.files[j].path)
      <4> DEFINE h == tm.files[j].path
      <4>1. h \in Seq(Words)
        BY <3>1
      <4> HIDE DEF h
      <4>2. Len(<<>>) = 0 /\ SubSeq(<<>>, 1, 0) = <<>> /\ SubSeq(h, 1, 0) = <<>>
            /\ 0 <= Len(h)
        BY <4>1
      <4>3. IsPrefix(<<>>, h)
        BY <4>2 DEF IsPrefix
      <4> QED BY <4>3 DEF h
    <3> QED BY <3>2, FilesFacts
  <2>2. DOMAIN tm.files = 1 .. Len(tm.files) /\ Len(tm.files) \in Nat \ {0}
    <3> DEFINE fs == tm.files
    <3>1. fs \in Seq(FileType) /\ Len(fs) \in Nat \ {0}
      BY TorrentsFacts DEF Contiguous
    <3> HIDE DEF fs
    <3>2. DOMAIN fs = 1 .. Len(fs)
      BY <3>1
    <3> QED BY <3>1, <3>2 DEF fs
  <2>3. 1 \in DOMAIN tm.files /\ Len(tm.files) \in DOMAIN tm.files
    BY <2>2
  <2> QED BY <2>1, <2>3
<1> HIDE DEF g, p
<1>8. Target({tm}, p) = {v}
  <2>1. CASE g = <<>>
    <3>1. Len(Clean(p)) = 1 /\ Len(tm.files) = 1 /\ i = 1
      BY <1>3, <1>5, <1>7, <2>1
    <3>2. {t \in Named({tm}, Head(Clean(p))) : Len(t.files) = 1} = {tm}
      BY <1>4, <1>5, <3>1
    <3> QED BY <3>1, <3>2 DEF Target, ViewOf
  <2>2. CASE g # <<>>
    <3>1. Len(g) # 0
      BY <1>2, <2>2
    <3>2. ~(Len(p) < 2) /\ Len(Clean(p)) # 1
      BY <1>3, <1>5, <3>1
    <3>3. \A x : x \in OpenFile({tm}, p) <=>
                \E t \in Named({tm}, Head(p)) : \E h \in FileAt(t, Tail(p)) :
                   x = [tm |-> t, file |-> h]
      <4>1. OpensFiles({tm}, p)
        BY <1>5, <3>2, OpenFileFacts
      <4> QED BY <4>1 DEF OpensFiles
    <3>4. OpenFile({tm}, p) = {v}
      BY <1>3, <1>4, <1>6, <3>3 DEF ViewOf
    <3> QED BY <3>2, <3>4 DEF Target
  <2> QED BY <2>1, <2>2
<1>9. Opened(tm, i) = CHOOSE x \in Target({tm}, p) : TRUE
  BY DEF Opened, p, g
<1>10. (CHOOSE x \in {v} : TRUE) = v
  OBVIOUS
<1> QED BY <1>8, <1>9, <1>10

\* The bare name of a torrent is its only file, for get.
LEMMA BareName ==
    ASSUME NEW tm \in TorrentMetas, Spelled(tm)
    PROVE  Target({tm}, tm.name)
              = IF Len(tm.files) = 1 THEN {Opened(tm, 1)} ELSE {}
<1> DEFINE p == tm.name
<1>1. PICK c \in Words : p = <<c>>
  BY DEF Spelled
<1>2. p \in Seq(Words) /\ Len(p) = 1 /\ Head(p) = c
  <2>1. \A x \in Words : <<x>> \in Seq(Words)
    OBVIOUS
  <2> QED BY <1>1, <2>1
<1>3. Clean(p) = p
  BY <1>2, CleanFacts
<1>4. Named({tm}, Head(p)) = {tm}
  <2>1. {tm} \in SUBSET TorrentMetas /\ tm.name = <<Head(p)>>
    BY <1>1, <1>2
  <2> HIDE DEF p
  <2> QED BY <2>1, NamedFacts
<1> HIDE DEF p
<1>5. CASE Len(tm.files) = 1
  <2>1. {t \in Named({tm}, Head(Clean(p))) : Len(t.files) = 1} = {tm}
    BY <1>3, <1>4, <1>5
  <2>2. Target({tm}, p) = {ViewOf(tm, 1)}
    BY <1>2, <1>3, <2>1 DEF Target, ViewOf
  <2>3. 1 \in DOMAIN tm.files
    <3> DEFINE fs == tm.files
    <3>1. fs \in Seq(FileType) /\ Len(fs) = 1
      BY <1>5, TorrentsFacts DEF Contiguous
    <3> HIDE DEF fs
    <3>2. 1 \in DOMAIN fs
      BY <3>1
    <3> QED BY <3>2 DEF fs
  <2> QED BY <1>5, <2>2, <2>3, OpenedFacts DEF p
<1>6. CASE Len(tm.files) # 1
  <2>1. {t \in Named({tm}, Head(Clean(p))) : Len(t.files) = 1} = {}
    BY <1>3, <1>4, <1>6
  <2>2. Target({tm}, p) = {}
    BY <1>2, <1>3, <2>1 DEF Target
  <2> QED BY <1>6, <2>2 DEF p
<1> QED BY <1>5, <1>6

\* A view of a file lies inside its torrent.
LEMMA ViewOfFacts ==
    ASSUME NEW tm \in TorrentMetas, NEW i \in DOMAIN tm.files
    PROVE  /\ Inside(ViewOf(tm, i)) /\ ViewOf(tm, i).tm = tm
           /\ ViewOf(tm, i).file = tm.files[i]
<1> DEFINE v == ViewOf(tm, i)
<1>1. v.tm = tm /\ v.file = tm.files[i]
  BY DEF ViewOf
<1>2. v \in Views /\ v.file \in ToSet(v.tm.files)
  BY <1>1, FilesType DEF Views, ViewOf, ToSet
<1> HIDE DEF v
<1> QED BY <1>1, <1>2, ViewFacts DEF v

-----------------------------------------------------------------------------
(* The range of get2 *)

\* A byte further on is not in an earlier piece.
LEMMA Monotone ==
    ASSUME NEW s \in Nat, NEW t \in Nat, s <= t, NEW P \in Nat \ {0}
    PROVE  s \div P <= t \div P
<1> DEFINE a == s \div P
           b == t \div P
<1>1. a \in Nat /\ s % P \in Nat /\ s = a * P + (s % P)
  BY Division
<1>2. b \in Nat /\ t % P \in Nat /\ t % P < P /\ t = b * P + (t % P)
  BY Division
<1> HIDE DEF a, b
<1>3. a * P \in Int /\ b * P \in Int /\ (b + 1) * P = b * P + P
  BY <1>1, <1>2, Product
<1>4. a * P < (b + 1) * P
  BY <1>1, <1>2, <1>3
<1>5. a < b + 1
  BY <1>1, <1>2, <1>4, Product
<1>6. a <= b
  BY <1>1, <1>2, <1>5
<1> QED BY <1>6 DEF a, b

\* Which bytes a piece has.
LEMMA PieceHas ==
    ASSUME NEW tm, Sized(tm), NEW k \in Nat, NEW x
    PROVE  x \in ToSet(Piece(tm, k)) <=>
              \E s \in Nat : s < tm.totalLen /\ s \div tm.pieceLen = k
                             /\ x = s + 1
<1> DEFINE P == tm.pieceLen
           T == tm.totalLen
           a == k * P
           l == LeastOf(P, T - a)
           p == Piece(tm, k)
<1>0. P \in Nat \ {0} /\ T \in Nat
  BY DEF Sized
<1>1. p = [i \in 1 .. l |-> a + i]
  BY DEF Piece
<1>2. x \in ToSet(p) <=> \E i \in 1 .. l : x = a + i
  <2>1. DOMAIN p = 1 .. l /\ \A i \in 1 .. l : p[i] = a + i
    BY <1>1
  <2> HIDE DEF p, a, l
  <2>2. x \in ToSet(p) <=> \E i \in DOMAIN p : x = p[i]
    BY DEF ToSet
  <2> QED BY <2>1, <2>2
<1> HIDE DEF P, T, p
<1>3. a \in Nat
  BY <1>0
<1>4. l \in Int /\ \A i \in Int : i <= l <=> i <= P /\ i <= T - a
  <2> HIDE DEF a
  <2> QED BY <1>0, <1>3 DEF LeastOf
<1> HIDE DEF l
<1>5. ASSUME NEW i \in 1 .. l
      PROVE  \E s \in Nat : s < T /\ s \div P = k /\ a + i = s + 1
  <2> DEFINE s == a + i - 1
  <2>1. s \in Nat /\ s < T /\ a <= s /\ s < a + P /\ a + i = s + 1
    <3> HIDE DEF a
    <3> QED BY <1>0, <1>3, <1>4
  <2> HIDE DEF s
  <2>2. s \div P = k
    BY <1>0, <2>1, Quotient
  <2> QED BY <2>1, <2>2
<1>6. ASSUME NEW s \in Nat, s < T, s \div P = k
      PROVE  \E i \in 1 .. l : s + 1 = a + i
  <2>1. s % P \in Nat /\ s % P < P /\ s = a + (s % P)
    BY <1>0, <1>6, Division
  <2> DEFINE i == (s % P) + 1
  <2>2. i \in 1 .. l /\ s + 1 = a + i
    <3> DEFINE r == s % P
    <3> HIDE DEF a, r
    <3>1. r \in Nat /\ r < P /\ s = a + r
      BY <2>1 DEF r
    <3>2. r + 1 \in Int /\ r + 1 <= P /\ r + 1 <= T - a /\ s + 1 = a + (r + 1)
      BY <1>0, <1>3, <1>6, <3>1
    <3>3. r + 1 \in 1 .. l
      BY <1>4, <3>1, <3>2
    <3> QED BY <3>2, <3>3 DEF r
  <2> QED BY <2>2
<1>7. x \in ToSet(p) <=> \E s \in Nat : s < T /\ s \div P = k /\ x = s + 1
  <2> HIDE DEF a
  <2> QED BY <1>2, <1>5, <1>6
<1> QED BY <1>7 DEF p, T, P

\* The bytes of a file.
LEMMA FileHas ==
    ASSUME NEW v, Inside(v), NEW x
    PROVE  x \in ToSet(FileBytes(v)) <=>
              \E s \in v.file.offset .. v.file.offset + v.file.size - 1 :
                 x = s + 1
<1> DEFINE O == v.file.offset
           S == v.file.size
           b == FileBytes(v)
<1>0. O \in Nat /\ S \in Nat
  BY DEF Inside
<1>1. b = [i \in 1 .. S |-> O + i]
  BY DEF FileBytes
<1> HIDE DEF b, O, S
<1>2. x \in ToSet(b) <=> \E i \in 1 .. S : x = O + i
  <2>1. DOMAIN b = 1 .. S /\ \A i \in 1 .. S : b[i] = O + i
    BY <1>1
  <2>2. x \in ToSet(b) <=> \E i \in DOMAIN b : x = b[i]
    BY DEF ToSet
  <2> QED BY <2>1, <2>2
<1>3. ASSUME NEW i \in 1 .. S
      PROVE  O + i - 1 \in O .. O + S - 1 /\ O + i = (O + i - 1) + 1
  BY <1>0
<1>4. ASSUME NEW s \in O .. O + S - 1
      PROVE  s - O + 1 \in 1 .. S /\ s + 1 = O + (s - O + 1)
  BY <1>0
<1>5. x \in ToSet(b) <=> \E s \in O .. O + S - 1 : x = s + 1
  BY <1>2, <1>3, <1>4
<1> QED BY <1>5 DEF b, O, S

\* The pieces of a file are those that its bytes are in.
LEMMA PiecesFacts ==
    ASSUME NEW v, Inside(v), NEW k
    PROVE  k \in PiecesOfFile(v) <=>
              \E s \in v.file.offset .. v.file.offset + v.file.size - 1 :
                 s \div v.tm.pieceLen = k
<1> DEFINE tm == v.tm
           O == v.file.offset
           S == v.file.size
           T == tm.totalLen
           P == tm.pieceLen
<1>0. O \in Nat /\ S \in Nat /\ Sized(tm) /\ O + S <= T
      /\ P \in Nat \ {0} /\ T \in Nat
  BY DEF Inside, Sized
<1>1. k \in PiecesOfFile(v) <=>
         /\ k \in 0 .. NumPieces(tm) - 1
         /\ \E x : x \in ToSet(Piece(tm, k)) /\ x \in ToSet(FileBytes(v))
  BY DEF PiecesOfFile
<1>2. \A x : x \in ToSet(FileBytes(v)) <=> \E s \in O .. O + S - 1 : x = s + 1
  BY FileHas
<1>3. ASSUME k \in Nat
      PROVE  \A x : x \in ToSet(Piece(tm, k)) <=>
                       \E s \in Nat : s < T /\ s \div P = k /\ x = s + 1
  BY <1>0, <1>3, PieceHas
<1> HIDE DEF O, S, T, P, tm
<1>4. \A s \in O .. O + S - 1 : s \in Nat /\ s < T
  BY <1>0
<1>5. ASSUME k \in PiecesOfFile(v)
      PROVE  \E s \in O .. O + S - 1 : s \div P = k
  <2>1. k \in Nat
    <3>1. k \in 0 .. NumPieces(tm) - 1
      BY <1>1, <1>5
    <3> QED BY <3>1
  <2>2. PICK x : x \in ToSet(Piece(tm, k)) /\ x \in ToSet(FileBytes(v))
    BY <1>1, <1>5
  <2>3. PICK s \in O .. O + S - 1 : x = s + 1
    BY <1>2, <2>2
  <2>4. PICK t \in Nat : t < T /\ t \div P = k /\ x = t + 1
    BY <1>3, <2>1, <2>2
  <2>5. s = t
    BY <1>4, <2>3, <2>4
  <2> QED BY <2>3, <2>4, <2>5
<1>6. ASSUME NEW s \in O .. O + S - 1, s \div P = k
      PROVE  k \in PiecesOfFile(v)
  <2>1. s \in Nat /\ s < T
    BY <1>4
  <2>2. k \in Nat /\ k < NumPieces(tm)
    BY <1>0, <1>6, <2>1, PieceOfByte DEF P, T
  <2>3. s + 1 \in ToSet(Piece(tm, k)) /\ s + 1 \in ToSet(FileBytes(v))
    BY <1>2, <1>3, <1>6, <2>1, <2>2
  <2>4. k \in 0 .. NumPieces(tm) - 1
    <3> DEFINE N == NumPieces(tm)
    <3>1. N \in Int
      <4>1. T + P - 1 \in Int
        BY <1>0
      <4>2. (T + P - 1) \div P \in Int
        BY <1>0, <4>1
      <4> QED BY <4>2 DEF NumPieces, T, P
    <3> HIDE DEF N
    <3>2. k < N
      BY <2>2 DEF N
    <3>3. k \in 0 .. N - 1
      BY <2>2, <3>1, <3>2
    <3> QED BY <3>3 DEF N
  <2> QED BY <1>1, <2>3, <2>4
<1>7. k \in PiecesOfFile(v) <=> \E s \in O .. O + S - 1 : s \div P = k
  BY <1>5, <1>6
<1> QED BY <1>7 DEF O, S, P, tm

\* get2.go:222-228: the range of a view is the pieces that its bytes are in, or
\* for an empty file at most one piece of the torrent.
LEMMA RangeFacts ==
    ASSUME NEW v, Inside(v)
    PROVE  IF v.file.size > 0 THEN PieceRange(v) = PiecesOfFile(v)
           ELSE /\ \A j, k \in PieceRange(v) : j = k
                /\ v.tm.totalLen > 0 =>
                      PieceRange(v) \subseteq 0 .. NumPieces(v.tm) - 1
<1> DEFINE tm == v.tm
           O == v.file.offset
           S == v.file.size
           T == tm.totalLen
           P == tm.pieceLen
           N == NumPieces(tm)
           first == O \div P
           last == EndPiece(v)
<1>0. O \in Nat /\ S \in Nat /\ Sized(tm) /\ O + S <= T
      /\ P \in Nat \ {0} /\ T \in Nat
  BY DEF Inside, Sized
<1>1. last = Quo(O + S - 1, P) /\ PieceRange(v) = Quo(O, P) .. last
  BY DEF EndPiece, PieceRange
<1>2. \A k : k \in PiecesOfFile(v) <=> \E s \in O .. O + S - 1 : s \div P = k
  BY PiecesFacts
<1>3. N \in Int /\ \A s \in Nat : s < T => s \div P < N
  <2>1. T + P - 1 \in Int
    BY <1>0
  <2>2. (T + P - 1) \div P \in Int
    BY <1>0, <2>1
  <2>3. \A s \in Nat : s < T => s \div P < N
    BY <1>0, PieceOfByte
  <2> QED BY <2>2, <2>3 DEF NumPieces
<1> HIDE DEF O, S, T, P, N, last, tm
<1>4. first \in Nat /\ PieceRange(v) = first .. last
  <2>1. ~(O < 0)
    BY <1>0
  <2>2. Quo(O, P) = first
    BY <2>1 DEF Quo
  <2> QED BY <1>0, <1>1, <2>2, Division
<1>5. CASE S > 0
  <2>1. O + S - 1 \in Nat /\ ~(O + S - 1 < 0)
    BY <1>0, <1>5
  <2>2. last = (O + S - 1) \div P /\ last \in Nat
    BY <1>0, <1>1, <2>1, Division DEF Quo
  <2>3. ASSUME NEW k \in PiecesOfFile(v) PROVE k \in PieceRange(v)
    <3>1. PICK s \in O .. O + S - 1 : s \div P = k
      BY <1>2
    <3>2. s \in Nat /\ O <= s /\ s <= O + S - 1
      BY <1>0
    <3>3. first <= k /\ k <= last /\ k \in Nat
      BY <1>0, <2>1, <2>2, <3>1, <3>2, Monotone, Division
    <3> HIDE DEF first
    <3> QED BY <1>4, <2>2, <3>3
  <2>4. ASSUME NEW k \in PieceRange(v) PROVE k \in PiecesOfFile(v)
    <3>1. k \in Nat /\ first <= k /\ k <= last
      <4> HIDE DEF first
      <4> QED BY <1>4, <2>2
    <3>2. CASE k = first
      <4>1. O \in O .. O + S - 1
        BY <1>0, <1>5
      <4> QED BY <1>2, <3>2, <4>1
    <3>3. CASE k # first
      <4> DEFINE s == k * P
                 e == O + S - 1
      <4>1. O % P \in Nat /\ O % P < P /\ O = first * P + (O % P)
        BY <1>0, Division
      <4>2. e % P \in Nat /\ e = last * P + (e % P)
        BY <1>0, <2>1, <2>2, Division
      <4> HIDE DEF first, e
      <4>3. first + 1 <= k
        BY <1>4, <3>1, <3>3
      <4>4. /\ s \in Int /\ first * P \in Int /\ last * P \in Int
            /\ (first + 1) * P = first * P + P
            /\ (first + 1) * P <= s /\ s <= last * P
        BY <1>0, <1>4, <2>2, <3>1, <4>3, Product
      <4> HIDE DEF s
      <4>5. O <= s /\ s <= e
        BY <1>0, <4>1, <4>2, <4>4
      <4>6. s \in O .. O + S - 1 /\ s \in Nat /\ s <= s /\ s < s + P
        BY <1>0, <4>4, <4>5 DEF e
      <4>7. s \div P = k
        BY <1>0, <3>1, <4>6, Quotient DEF s
      <4> QED BY <1>2, <4>6, <4>7
    <3> QED BY <3>2, <3>3
  <2>5. PieceRange(v) = PiecesOfFile(v)
    BY <2>3, <2>4
  <2> QED BY <1>5, <2>5 DEF S
<1>6. CASE ~(S > 0)
  <2>0. S = 0 /\ O <= T
    BY <1>0, <1>6
  <2>1. /\ last \in Int /\ last <= first
        /\ O > 0 => last = (O - 1) \div P
    <3>1. CASE O = 0
      <4>1. O + S - 1 = -1 /\ -1 < 0
        BY <2>0, <3>1
      <4>2. last = -((-(-1)) \div P)
        BY <1>1, <4>1 DEF Quo
      <4>3. last = -(1 \div P)
        BY <4>2
      <4>4. 1 \div P \in Nat
        BY <1>0, Division
      <4> HIDE DEF first
      <4> QED BY <1>4, <3>1, <4>3, <4>4
    <3>2. CASE O # 0
      <4>1. O - 1 \in Nat /\ O + S - 1 = O - 1 /\ ~(O - 1 < 0) /\ O - 1 <= O
        BY <1>0, <2>0, <3>2
      <4>2. last = (O - 1) \div P
        BY <1>1, <4>1 DEF Quo
      <4>3. (O - 1) \div P \in Nat /\ (O - 1) \div P <= first
        BY <1>0, <4>1, Division, Monotone
      <4> QED BY <4>2, <4>3
    <3> QED BY <3>1, <3>2
  <2>2. \A k \in PieceRange(v) : k = first /\ last = first
    <3> HIDE DEF first
    <3> QED BY <1>4, <2>1
  <2>3. ASSUME T > 0, NEW k \in PieceRange(v)
        PROVE  k \in 0 .. N - 1
    <3>1. k = first /\ last = first
      BY <2>2
    <3>2. first < N
      <4>1. CASE O = 0
        <5>1. 0 < T
          BY <1>0, <2>3
        <5> QED BY <1>0, <1>3, <4>1, <5>1
      <4>2. CASE O # 0
        <5>1. O - 1 \in Nat /\ O - 1 < T /\ O > 0
          BY <1>0, <2>0, <4>2
        <5> QED BY <1>3, <2>1, <3>1, <5>1
      <4> QED BY <4>1, <4>2
    <3> HIDE DEF first
    <3> QED BY <1>3, <1>4, <3>1, <3>2
  <2>4. /\ \A j, k \in PieceRange(v) : j = k
        /\ T > 0 => PieceRange(v) \subseteq 0 .. N - 1
    BY <2>2, <2>3
  <2> QED BY <1>6, <2>4 DEF S, T, N, tm
<1> QED BY <1>5, <1>6

\* The same for every file of a torrent.
LEMMA RangeWorksFacts ==
    ASSUME NEW tm \in TorrentMetas, Spelled(tm)
    PROVE  RangeWorks(tm)
<1> SUFFICES ASSUME NEW i \in DOMAIN tm.files
             PROVE  LET v == Opened(tm, i)
                    IN IF v.file.size > 0 THEN PieceRange(v) = PiecesOfFile(v)
                       ELSE /\ \A j, k \in PieceRange(v) : j = k
                            /\ tm.totalLen > 0 =>
                                  PieceRange(v) \subseteq 0 .. NumPieces(tm) - 1
  BY DEF RangeWorks
<1> DEFINE v == Opened(tm, i)
<1>1. v = ViewOf(tm, i)
  BY OpenedFacts
<1> HIDE DEF v
<1>2. Inside(v) /\ v.tm = tm
  BY <1>1, ViewOfFacts
<1>3. IF v.file.size > 0 THEN PieceRange(v) = PiecesOfFile(v)
      ELSE /\ \A j, k \in PieceRange(v) : j = k
           /\ v.tm.totalLen > 0 =>
                 PieceRange(v) \subseteq 0 .. NumPieces(v.tm) - 1
  BY <1>2, RangeFacts
<1> QED BY <1>2, <1>3 DEF v

\* get2.go:222-228: the range that get2 downloads, of every file of every
\* torrent whose names a path can spell.
THEOREM RangeExact == Spec => []RangeIsExact
<1>1. ServeInv => RangeIsExact
  <2> SUFFICES ASSUME ServeInv, NEW info \in loaded PROVE RangeOf[info]
    BY DEF RangeIsExact
  <2>1. info \in Infos
    BY DEF ServeInv
  <2>2. WellFormed(info) => RangeWorks(BuildMeta(info))
    <3>1. BuildMeta(info) \in TorrentMetas
          /\ (WellFormed(info) => Spelled(BuildMeta(info)))
      BY <2>1, TorrentFacts DEF TorrentMetas
    <3> QED BY <3>1, RangeWorksFacts
  <2> QED BY <2>1, <2>2 DEF RangeOf
<1> QED BY <1>1, ServeInvariant, PTL

-----------------------------------------------------------------------------
(* get *)

\* What get has written and how it ended, from off on: all there is, or what
\* comes before a piece that is lost, and an exception.
GetsRight(O, S, P, off, lost, g, n) ==
    /\ n \in 0 .. S - off /\ g.out = Bytes(O + off, n)
    /\ g.thrown \in BOOLEAN /\ (g.thrown <=> n < S - off)
    /\ \A i \in 0 .. n - 1 : (O + (off + i)) \div P \notin lost
    /\ n < S - off => (O + (off + n)) \div P \in lost

Written == [out : Seq(Nat), thrown : BOOLEAN]

\* get.go:100-165: the loop of reads, for every file, chunk and loss.
LEMMA GetFacts ==
    ASSUME NEW v, Inside(v), NEW chunk \in Nat \ {0}, NEW lost
    PROVE  \E n : GetsRight(v.file.offset, v.file.size, v.tm.pieceLen, 0,
                             lost, Get(v, chunk, lost), n)
<1> DEFINE O == v.file.offset
           S == v.file.size
           P == v.tm.pieceLen
           want(off) == LeastOf(chunk, S - off)
           r(off) == ReadAt(v, off, want(off), lost)
           next(off) == off + Len(r(off).bytes)
           Body(f, off) ==
               IF off = S THEN [out |-> <<>>, thrown |-> FALSE]
               ELSE LET rest == IF r(off).eof THEN AtEof(v, next(off))
                                ELSE f[next(off)]
                    IN [rest EXCEPT !.out = r(off).bytes \o @]
           Stop == {off \in 0 .. S : off = S \/ r(off).eof}
           Good(f) == f = [off \in 0 .. S |-> Body(f, off)]
           from == CHOOSE f : Good(f)
           R(g, off) == \E n : GetsRight(O, S, P, off, lost, g, n)
<1>0. O \in Nat /\ S \in Nat /\ Sized(v.tm) /\ P \in Nat \ {0}
  BY DEF Inside, Sized
<1>1. ASSUME NEW off \in 0 .. S, off # S
      PROVE  /\ want(off) \in Nat /\ want(off) > 0
             /\ \E n \in Nat : ReadsRight(v, off, want(off), lost, r(off), n)
  <2>1. want(off) \in Nat /\ want(off) > 0
    <3> HIDE DEF S
    <3> QED BY <1>0, <1>1 DEF LeastOf
  <2> HIDE DEF want
  <2> QED BY <2>1, ReadFacts
<1>2. ASSUME NEW off, NEW n, ReadsRight(v, off, want(off), lost, r(off), n)
       PROVE  /\ r(off).bytes = Bytes(O + off, n) /\ off + n <= S
              /\ \A i \in 0 .. n - 1 : (O + (off + i)) \div P \notin lost
              /\ r(off).eof /\ off + n < S => (O + (off + n)) \div P \in lost
              /\ ~r(off).eof => n = want(off) /\ off + n < S
  BY <1>2 DEF ReadsRight
<1> HIDE DEF want, r, O, S, P
\* The end, or a read that is cut short.
<1>3. ASSUME NEW off \in 0 .. S, off \in Stop
      PROVE  \E g \in Written : R(g, off) /\ \A f : Body(f, off) = g
  <2>1. CASE off = S
    <3> DEFINE g == [out |-> <<>>, thrown |-> FALSE]
    <3>1. g.out = <<>> /\ g.thrown = FALSE /\ g \in Written
      <4>1. <<>> \in Seq(Nat)
        OBVIOUS
      <4> QED BY <4>1 DEF Written
    <3>2. \A f : Body(f, off) = g
      BY <2>1
    <3>3. Bytes(O + off, 0) = <<>>
      <4>1. O + off \in Nat
        BY <1>0
      <4> QED BY <4>1, BytesFacts
    <3> HIDE DEF g
    <3>4. GetsRight(O, S, P, off, lost, g, 0)
      <4>1. 0 \in 0 .. S - off /\ ~(0 < S - off) /\ 0 .. 0 - 1 = {}
        BY <1>0, <2>1
      <4>2. g.out = Bytes(O + off, 0) /\ g.thrown \in BOOLEAN /\ ~g.thrown
        BY <3>1, <3>3
      <4> QED BY <4>1, <4>2 DEF GetsRight
    <3> QED BY <3>1, <3>2, <3>4
  <2>2. CASE off # S
    <3>1. r(off).eof
      BY <1>3, <2>2
    <3>2. PICK n \in Nat : ReadsRight(v, off, want(off), lost, r(off), n)
      BY <1>1, <2>2
    <3>3. /\ r(off).bytes = Bytes(O + off, n) /\ off + n <= S
          /\ \A i \in 0 .. n - 1 : (O + (off + i)) \div P \notin lost
          /\ off + n < S => (O + (off + n)) \div P \in lost
      BY <1>2, <3>1, <3>2
    <3>4. O + off \in Nat
      BY <1>0
    <3>5. Bytes(O + off, n) \in Seq(Nat) /\ Len(Bytes(O + off, n)) = n
      BY <3>4, BytesFacts
    <3> DEFINE g == [out |-> r(off).bytes, thrown |-> off + n < S]
    <3>6. /\ g.out = Bytes(O + off, n) /\ g.thrown \in BOOLEAN
          /\ (g.thrown <=> off + n < S) /\ g \in Written
      <4> DEFINE t == off + n < S
                 b == r(off).bytes
                 h == [out |-> b, thrown |-> t]
      <4>1. t \in BOOLEAN /\ (t <=> off + n < S) /\ b \in Seq(Nat)
            /\ b = Bytes(O + off, n)
        BY <3>3, <3>5
      <4>2. g = h
        OBVIOUS
      <4> HIDE DEF t, b, g
      <4>3. h.out = b /\ h.thrown = t /\ h \in Written
        BY <4>1 DEF Written
      <4> QED BY <4>1, <4>2, <4>3
    <3>7. \A f : Body(f, off) = g
      <4>1. r(off).bytes \o <<>> = r(off).bytes
        <5> DEFINE b == r(off).bytes
        <5>1. b \in Seq(Nat)
          BY <3>3, <3>5
        <5> HIDE DEF b
        <5>2. b \o <<>> = b
          BY <5>1
        <5> QED BY <5>2 DEF b
      <4>2. AtEof(v, next(off)) = [out |-> <<>>, thrown |-> off + n < S]
        <5>1. next(off) = off + n
          BY <3>3, <3>5
        <5> HIDE DEF next
        <5> QED BY <5>1 DEF AtEof, S
      <4>3. \A f : Body(f, off)
                     = [AtEof(v, next(off)) EXCEPT !.out = r(off).bytes \o @]
        BY <2>2, <3>1
      <4> DEFINE b == r(off).bytes
                 c == b \o <<>>
                 t == off + n < S
      <4>4. \A f : Body(f, off)
                     = [[out |-> <<>>, thrown |-> t] EXCEPT !.out = b \o @]
        BY <4>2, <4>3
      <4> HIDE DEF Body, b, t
      <4>5. [[out |-> <<>>, thrown |-> t] EXCEPT !.out = b \o @]
               = [out |-> c, thrown |-> t]
        OBVIOUS
      <4>6. c = b
        BY <4>1 DEF b
      <4> QED BY <4>4, <4>5, <4>6 DEF b, t
    <3> HIDE DEF g
    <3>8. n \in 0 .. S - off /\ (off + n < S <=> n < S - off)
      BY <1>0, <3>3
    <3>9. GetsRight(O, S, P, off, lost, g, n)
      BY <3>3, <3>6, <3>8 DEF GetsRight
    <3> QED BY <3>6, <3>7, <3>9
  <2> QED BY <2>1, <2>2
\* A read with more to come.
<1>4. ASSUME NEW off \in 0 .. S, off \notin Stop
      PROVE  /\ next(off) \in off + 1 .. S
             /\ \A f : Body(f, off)
                         = [f[next(off)] EXCEPT !.out = r(off).bytes \o @]
             /\ r(off).bytes \in Seq(Nat)
             /\ r(off).bytes = Bytes(O + off, next(off) - off)
             /\ \A i \in 0 .. next(off) - off - 1 :
                   (O + (off + i)) \div P \notin lost
  <2>1. off # S /\ ~r(off).eof
    BY <1>4
  <2>2. PICK n \in Nat : ReadsRight(v, off, want(off), lost, r(off), n)
    BY <1>1, <2>1
  <2>3. /\ r(off).bytes = Bytes(O + off, n) /\ n = want(off) /\ off + n < S
        /\ \A i \in 0 .. n - 1 : (O + (off + i)) \div P \notin lost
    BY <1>2, <2>1, <2>2
  <2>4. O + off \in Nat
    BY <1>0
  <2>5. Bytes(O + off, n) \in Seq(Nat) /\ Len(Bytes(O + off, n)) = n
    BY <2>4, BytesFacts
  <2>6. next(off) = off + n /\ n > 0
    BY <1>1, <2>1, <2>3, <2>5
  <2>7. \A f : Body(f, off) = [f[next(off)] EXCEPT !.out = r(off).bytes \o @]
    BY <2>1
  <2>8. next(off) \in off + 1 .. S /\ next(off) - off = n
    <3> HIDE DEF next
    <3> QED BY <1>0, <2>3, <2>6
  <2> HIDE DEF next, Body
  <2> QED BY <2>3, <2>5, <2>7, <2>8
<1> HIDE DEF Stop, Body, next
<1>5. \E f : Good(f)
  <2> DEFINE V == Written
             base == [off \in 0 .. S |->
                        IF off \in Stop
                        THEN CHOOSE g \in Written :
                                R(g, off) /\ \A f : Body(f, off) = g
                        ELSE [out |-> <<>>, thrown |-> FALSE]]
             nxt == [off \in 0 .. S |-> next(off)]
             step == [x \in (0 .. S) \X V |->
                        IF x[1] \in Stop THEN x[2]
                        ELSE [x[2] EXCEPT !.out = r(x[1]).bytes \o @]]
  <2>1. ASSUME NEW off \in 0 .. S, off \in Stop
        PROVE  base[off] \in V /\ \A f : Body(f, off) = base[off]
    <3>1. \E g \in Written : R(g, off) /\ \A f : Body(f, off) = g
      BY <1>3, <2>1
    <3> DEFINE h == CHOOSE g \in Written : R(g, off) /\ \A f : Body(f, off) = g
    <3>2. h \in Written /\ \A f : Body(f, off) = h
      BY <3>1
    <3> HIDE DEF h
    <3>3. base[off] = h
      BY <2>1 DEF h
    <3> QED BY <3>2, <3>3
  <2>2. base \in [0 .. S -> V]
    <3>1. [out |-> <<>>, thrown |-> FALSE] \in V
      <4>1. <<>> \in Seq(Nat)
        OBVIOUS
      <4> QED BY <4>1 DEF Written
    <3>2. \A off \in 0 .. S : base[off] \in V
      <4> SUFFICES ASSUME NEW off \in 0 .. S, off \notin Stop
                   PROVE  base[off] \in V
        BY <2>1
      <4> QED BY <3>1
    <3> QED BY <3>2
  <2>3. ASSUME NEW off \in 0 .. S, off \notin Stop, NEW g \in V
        PROVE  [g EXCEPT !.out = r(off).bytes \o @] \in V
    <3>1. r(off).bytes \in Seq(Nat)
      BY <1>4, <2>3
    <3>2. g.out \in Seq(Nat)
      BY DEF Written
    <3>3. r(off).bytes \o g.out \in Seq(Nat)
      BY <3>1, <3>2, Joined
    <3> QED BY <3>3 DEF Written
  <2>4. step \in [(0 .. S) \X V -> V]
    <3>1. ASSUME NEW x \in (0 .. S) \X V
          PROVE  IF x[1] \in Stop THEN x[2] \in V
                 ELSE [x[2] EXCEPT !.out = r(x[1]).bytes \o @] \in V
      <4>1. x[1] \in 0 .. S /\ x[2] \in V
        OBVIOUS
      <4> HIDE DEF V
      <4> QED BY <2>3, <4>1
    <3> HIDE DEF V
    <3> QED BY <3>1
  <2>5. \A off \in 0 .. S : off \notin Stop => nxt[off] \in off + 1 .. S
    BY <1>4
  <2> HIDE DEF base, nxt, step, V
  <2>6. Forward(S, V, Stop, base, nxt, step)
    BY <1>0, <2>2, <2>4, <2>5 DEF Forward
  <2>7. PICK f \in [0 .. S -> V] : Solves(f, S, Stop, base, nxt, step)
    BY <2>6, ForwardRecursion
  <2>8. ASSUME NEW off \in 0 .. S PROVE f[off] = Body(f, off)
    <3>1. CASE off \in Stop
      <4>1. f[off] = base[off]
        BY <2>7, <3>1 DEF Solves
      <4> QED BY <2>1, <3>1, <4>1
    <3>2. CASE off \notin Stop
      <4> DEFINE y == f[nxt[off]]
      <4>1. f[off] = step[<<off, y>>]
        BY <2>7, <3>2 DEF Solves
      <4>2. nxt[off] \in 0 .. S /\ nxt[off] = next(off)
        BY <2>5, <3>2 DEF nxt
      <4>3. y \in V
        BY <4>2
      <4>4. step[<<off, y>>] = [y EXCEPT !.out = r(off).bytes \o @]
        <5> HIDE DEF y
        <5>1. <<off, y>> \in (0 .. S) \X V
          BY <4>3
        <5> QED BY <3>2, <5>1 DEF step
      <4> QED BY <1>4, <3>2, <4>1, <4>2, <4>4
    <3> QED BY <3>1, <3>2
  <2>9. f = [off \in 0 .. S |-> Body(f, off)]
    BY <2>8
  <2> QED BY <2>9
<1>6. Good(from)
  <2> HIDE DEF Good
  <2> QED BY <1>5
<1>7. ASSUME NEW off \in 0 .. S PROVE from[off] = Body(from, off)
  <2> HIDE DEF from
  <2> QED BY <1>6
<1> HIDE DEF from
<1> DEFINE G == {off \in 0 .. S : from[off] \in Written /\ R(from[off], off)}
<1>8. ASSUME NEW off \in 0 .. S, \A j \in off + 1 .. S : j \in G
      PROVE  off \in G
  <2>1. CASE off \in Stop
    BY <1>3, <1>7, <2>1
  <2>2. CASE off \notin Stop
    <3> DEFINE nx == next(off)
               m == nx - off
               g == from[nx]
               b == r(off).bytes
    <3>1. /\ nx \in off + 1 .. S
          /\ from[off] = [g EXCEPT !.out = b \o @]
          /\ b \in Seq(Nat) /\ b = Bytes(O + off, m)
          /\ \A i \in 0 .. m - 1 : (O + (off + i)) \div P \notin lost
      BY <1>4, <1>7, <2>2
    <3>2. g \in Written /\ R(g, nx)
      BY <1>8, <3>1
    <3>3. PICK n : GetsRight(O, S, P, nx, lost, g, n)
      BY <3>2
    <3>4. /\ n \in 0 .. S - nx /\ g.out = Bytes(O + nx, n)
          /\ g.thrown \in BOOLEAN /\ (g.thrown <=> n < S - nx)
          /\ \A i \in 0 .. n - 1 : (O + (nx + i)) \div P \notin lost
          /\ n < S - nx => (O + (nx + n)) \div P \in lost
      BY <3>3 DEF GetsRight
    <3> DEFINE h == [g EXCEPT !.out = b \o @]
    <3> HIDE DEF nx, g, b
    <3>5. /\ m \in Nat /\ nx = off + m /\ O + nx = (O + off) + m
          /\ O + off \in Nat /\ n \in Nat /\ nx + n = off + (m + n)
          /\ m + n \in 0 .. S - off /\ (n < S - nx <=> m + n < S - off)
      <4>1. /\ O \in Nat /\ S \in Nat /\ off \in 0 .. S
            /\ nx \in off + 1 .. S /\ n \in 0 .. S - nx
        BY <1>0, <3>1, <3>4
      <4> QED BY ONLY <4>1
    <3>6. b \o g.out = Bytes(O + off, m + n)
      <4> HIDE DEF m
      <4>1. b \o g.out = Bytes(O + off, m) \o Bytes((O + off) + m, n)
        BY <3>1, <3>4, <3>5
      <4> QED BY <3>5, <4>1, BytesJoined
    <3>7. h.out = b \o g.out /\ h.thrown = g.thrown
      BY <3>2 DEF Written
    <3>8. h \in Written
      <4>1. g.out \in Seq(Nat)
        BY <3>2 DEF Written
      <4>2. b \o g.out \in Seq(Nat)
        BY <3>1, <4>1, Joined
      <4> QED BY <3>2, <4>2 DEF Written
    <3>9. \A i \in 0 .. (m + n) - 1 : (O + (off + i)) \div P \notin lost
      <4> SUFFICES ASSUME NEW i \in 0 .. (m + n) - 1
                   PROVE  (O + (off + i)) \div P \notin lost
        OBVIOUS
      <4>1. CASE i < m
        <5>1. i \in 0 .. m - 1
          BY <3>5, <4>1
        <5> QED BY <3>1, <5>1
      <4>2. CASE i >= m
        <5>1. i - m \in 0 .. n - 1 /\ nx + (i - m) = off + i
          <6> HIDE DEF m
          <6> QED BY <3>5, <4>2
        <5>2. (O + (nx + (i - m))) \div P \notin lost
          BY <3>4, <5>1
        <5> QED BY <5>1, <5>2
      <4> QED BY <3>5, <4>1, <4>2
    <3>10. m + n < S - off => (O + (off + (m + n))) \div P \in lost
      BY <3>4, <3>5
    <3> HIDE DEF h, m
    <3>11. GetsRight(O, S, P, off, lost, h, m + n)
      BY <3>4, <3>5, <3>6, <3>7, <3>9, <3>10 DEF GetsRight
    <3>12. from[off] = h
      BY <3>1 DEF h
    <3> QED BY <3>8, <3>11, <3>12
  <2> QED BY <2>1, <2>2
<1>9. 0 \in G
  <2> HIDE DEF G
  <2>1. \A off \in 0 .. S : (\A j \in off + 1 .. S : j \in G) => off \in G
    BY <1>8
  <2>2. \A off \in 0 .. S : off \in G
    BY <1>0, <2>1, Downwards
  <2> QED BY <1>0, <2>2
<1>10. R(from[0], 0)
  BY <1>9
<1>11. Get(v, chunk, lost) = from[0]
  BY DEF Get, from, Body, next, r, want, S
<1> QED BY <1>10, <1>11 DEF O, S, P

\* get of a file when nothing is lost.
LEMMA GetWhole ==
    ASSUME NEW v, Inside(v), NEW chunk \in Nat \ {0}
    PROVE  Get(v, chunk, {}).out = Bytes(v.file.offset, v.file.size)
<1> DEFINE O == v.file.offset
           S == v.file.size
           P == v.tm.pieceLen
           g == Get(v, chunk, {})
<1>1. PICK n : GetsRight(O, S, P, 0, {}, g, n)
  BY GetFacts
<1>2. O \in Nat /\ S \in Nat
  BY DEF Inside
<1> HIDE DEF O, S, P, g
<1>3. n \in 0 .. S - 0 /\ ~(n < S - 0) /\ g.out = Bytes(O + 0, n)
  BY <1>1 DEF GetsRight
<1>4. n = S /\ O + 0 = O
  BY <1>2, <1>3
<1>5. g.out = Bytes(O, S)
  BY <1>3, <1>4
<1> QED BY <1>5 DEF g, O, S

\* get of a file when a piece may be lost.
LEMMA GetOrThrow ==
    ASSUME NEW v, Inside(v), NEW chunk \in Nat \ {0}, NEW lost
    PROVE  LET g == Get(v, chunk, lost)
           IN /\ g.thrown <=> lost \cap PiecesOfFile(v) # {}
              /\ IsPrefix(g.out, Bytes(v.file.offset, v.file.size))
<1> DEFINE O == v.file.offset
           S == v.file.size
           P == v.tm.pieceLen
           g == Get(v, chunk, lost)
<1>1. PICK n : GetsRight(O, S, P, 0, lost, g, n)
  BY GetFacts
<1>2. O \in Nat /\ S \in Nat
  BY DEF Inside
<1>3. \A k : k \in PiecesOfFile(v) <=> \E s \in O .. O + S - 1 : s \div P = k
  BY PiecesFacts
<1> HIDE DEF O, S, P, g
<1>4. /\ n \in 0 .. S /\ g.out = Bytes(O, n) /\ (g.thrown <=> n < S)
      /\ \A i \in 0 .. n - 1 : (O + i) \div P \notin lost
      /\ n < S => (O + n) \div P \in lost
  <2>1. /\ n \in 0 .. S - 0 /\ g.out = Bytes(O + 0, n)
        /\ (g.thrown <=> n < S - 0)
        /\ \A i \in 0 .. n - 1 : (O + (0 + i)) \div P \notin lost
        /\ n < S - 0 => (O + (0 + n)) \div P \in lost
    BY <1>1 DEF GetsRight
  <2>2. S - 0 = S /\ O + 0 = O /\ \A i \in Int : 0 + i = i
    BY <1>2
  <2>3. n \in 0 .. S /\ n \in Int
    BY <1>2, <2>1, <2>2
  <2>4. \A i \in 0 .. n - 1 : (O + i) \div P \notin lost
    <3> SUFFICES ASSUME NEW i \in 0 .. n - 1 PROVE (O + i) \div P \notin lost
      OBVIOUS
    <3>1. 0 + i = i
      BY <2>2
    <3>2. (O + (0 + i)) \div P \notin lost
      BY <2>1
    <3> QED BY <3>1, <3>2
  <2> QED BY <2>1, <2>2, <2>3, <2>4
<1>5. ASSUME g.thrown PROVE lost \cap PiecesOfFile(v) # {}
  <2>1. n < S /\ (O + n) \div P \in lost
    BY <1>4, <1>5
  <2>2. O + n \in O .. O + S - 1
    BY <1>2, <1>4, <2>1
  <2>3. (O + n) \div P \in PiecesOfFile(v)
    BY <1>3, <2>2
  <2> QED BY <2>1, <2>3
<1>6. ASSUME NEW k \in lost, k \in PiecesOfFile(v) PROVE g.thrown
  <2>1. PICK s \in O .. O + S - 1 : s \div P = k
    BY <1>3, <1>6
  <2>2. CASE n < S
    BY <1>4, <2>2
  <2>3. CASE ~(n < S)
    <3>1. s - O \in 0 .. n - 1 /\ O + (s - O) = s
      BY <1>2, <1>4, <2>3
    <3>2. (O + (s - O)) \div P \notin lost
      BY <1>4, <3>1
    <3> QED BY <1>6, <2>1, <3>1, <3>2
  <2> QED BY <2>2, <2>3
<1>7. IsPrefix(g.out, Bytes(O, S))
  <2>1. n \in Nat
    BY <1>2, <1>4
  <2>2. Bytes(O, n) \in Seq(Nat)
    BY <1>2, <2>1, BytesFacts
  <2> QED BY <1>2, <1>4, <2>2, PrefixFacts
<1>8. g.thrown <=> lost \cap PiecesOfFile(v) # {}
  BY <1>5, <1>6
<1> QED BY <1>7, <1>8 DEF g, O, S

\* The files of a torrent, one after the other, are its bytes.
LEMMA FlattenFacts ==
    ASSUME NEW tm, Contiguous(tm), NEW s,
           s = [i \in DOMAIN tm.files |->
                   Bytes(tm.files[i].offset, tm.files[i].size)]
    PROVE  FlattenSeq(s) = Bytes(0, tm.totalLen)
<1> DEFINE f == tm.files
           n == Len(f)
           T == tm.totalLen
           o(i) == f[i].offset
           z(i) == f[i].size
           Body(g, i) == IF i = 1 THEN s[i] ELSE g[i - 1] \o s[i]
           Good(g) == g = [i \in 1 .. n |-> Body(g, i)]
           flatten == CHOOSE g : Good(g)
           sum(i) == Bytes(0, o(i) + z(i))
<1>1. /\ n \in Nat \ {0} /\ f \in Seq(FileType) /\ o(1) = 0
      /\ \A i \in 1 .. n - 1 : o(i + 1) = o(i) + z(i)
      /\ o(n) + z(n) = T
  BY DEF Contiguous
<1>2. DOMAIN f = 1 .. n
  <2> HIDE DEF f
  <2> QED BY <1>1
<1>3. \A i \in 1 .. n : o(i) \in Nat /\ z(i) \in Nat
  <2>1. \A i \in 1 .. n : f[i] \in FileType
    <3> HIDE DEF f
    <3> QED BY <1>1
  <2> QED BY <2>1 DEF FileType
<1>4. \A i \in 1 .. n : s[i] = Bytes(o(i), z(i))
  BY <1>2
<1>5. s \in Seq(Seq(Nat)) /\ Len(s) = n
  <2>1. \A i \in 1 .. n : Bytes(o(i), z(i)) \in Seq(Nat)
    BY <1>3, BytesFacts
  <2>2. s = [i \in 1 .. n |-> Bytes(o(i), z(i))]
    BY <1>2
  <2> DEFINE b(i) == Bytes(o(i), z(i))
             m == n
  <2> HIDE DEF b, m
  <2>3. s = [i \in 1 .. m |-> b(i)] /\ \A i \in 1 .. m : b(i) \in Seq(Nat)
    BY <2>1, <2>2 DEF b, m
  <2>4. m \in Nat
    BY <1>1 DEF m
  <2>5. s \in Seq(Seq(Nat)) /\ Len(s) = m
    BY ONLY <2>3, <2>4
  <2> QED BY <2>5 DEF m
<1> HIDE DEF f, n, T, o, z
<1>6. sum(1) = s[1] /\ \A i \in 2 .. n : sum(i) = sum(i - 1) \o s[i]
  <2>1. sum(1) = s[1]
    <3>1. 1 \in 1 .. n
      BY <1>1
    <3>2. o(1) + z(1) = z(1)
      BY <1>1, <1>3, <3>1
    <3> QED BY <1>1, <1>4, <3>1, <3>2
  <2>2. ASSUME NEW i \in 2 .. n PROVE sum(i) = sum(i - 1) \o s[i]
    <3>1. /\ i \in 1 .. n /\ i - 1 \in 1 .. n - 1 /\ i - 1 \in 1 .. n
          /\ (i - 1) + 1 = i
      BY <1>1
    <3>2. o(i) = o(i - 1) + z(i - 1)
      BY <1>1, <3>1
    <3>3. sum(i - 1) = Bytes(0, o(i))
      BY <3>2
    <3>4. s[i] = Bytes(0 + o(i), z(i))
      <4>1. 0 + o(i) = o(i)
        BY <1>3, <3>1
      <4> QED BY <1>4, <3>1, <4>1
    <3>5. Bytes(0, o(i)) \o Bytes(0 + o(i), z(i)) = Bytes(0, o(i) + z(i))
      <4>1. 0 \in Nat /\ o(i) \in Nat /\ z(i) \in Nat
        BY <1>3, <3>1
      <4> QED BY <4>1, BytesJoined
    <3> QED BY <3>3, <3>4, <3>5
  <2> QED BY <2>1, <2>2
<1> HIDE DEF sum
<1>7. \E g : Good(g)
  <2> DEFINE g == [i \in 1 .. n |-> sum(i)]
  <2>1. ASSUME NEW i \in 1 .. n PROVE sum(i) = Body(g, i)
    <3>1. CASE i = 1
      BY <1>6, <3>1
    <3>2. CASE i # 1
      <4>1. i \in 2 .. n /\ i - 1 \in 1 .. n
        BY <1>1, <3>2
      <4>2. g[i - 1] = sum(i - 1)
        BY <4>1
      <4> QED BY <1>6, <3>2, <4>1, <4>2
    <3> QED BY <3>1, <3>2
  <2>2. Good(g)
    <3> HIDE DEF Body
    <3> QED BY <2>1
  <2> QED BY <2>2
<1>8. Good(flatten)
  <2> HIDE DEF Good
  <2> QED BY <1>7
<1> HIDE DEF flatten
<1>9. \A i \in 1 .. n : flatten[i] = Body(flatten, i)
  <2> HIDE DEF Body
  <2> QED BY <1>8
<1> DEFINE m == n - 1
           G == {i \in 0 .. m : flatten[i + 1] = sum(i + 1)}
<1>10. m \in Nat
  BY <1>1
<1>11. \A i \in 0 .. m : i \in G
  <2>1. 0 \in G
    <3>1. 1 \in 1 .. n /\ 0 \in 0 .. m
      BY <1>1
    <3>2. flatten[1] = s[1]
      BY <1>9, <3>1
    <3> QED BY <1>6, <3>1, <3>2
  <2>2. ASSUME NEW i \in 0 .. m - 1, i \in G PROVE i + 1 \in G
    <3>1. /\ (i + 1) + 1 \in 2 .. n /\ (i + 1) + 1 \in 1 .. n
          /\ (i + 1) + 1 # 1 /\ ((i + 1) + 1) - 1 = i + 1 /\ i + 1 \in 0 .. m
      BY <1>1
    <3>2. flatten[(i + 1) + 1] = flatten[i + 1] \o s[(i + 1) + 1]
      BY <1>9, <3>1
    <3>3. sum((i + 1) + 1) = sum(i + 1) \o s[(i + 1) + 1]
      BY <1>6, <3>1
    <3> QED BY <2>2, <3>1, <3>2, <3>3
  <2> HIDE DEF G, m
  <2>3. \A i \in 0 .. m - 1 : i \in G => i + 1 \in G
    BY <2>2
  <2> QED BY <1>10, <2>1, <2>3, Upwards
<1>12. flatten[n] = sum(n)
  <2>1. m \in 0 .. m /\ m + 1 = n
    BY <1>1, <1>10
  <2> QED BY <1>11, <2>1
<1>13. FlattenSeq(s) = flatten[n]
  <2>1. Len(s) # 0
    BY <1>1, <1>5
  <2> QED BY <1>5, <2>1 DEF FlattenSeq, flatten
<1>14. sum(n) = Bytes(0, T)
  BY <1>1 DEF sum
<1> QED BY <1>12, <1>13, <1>14 DEF T

\* The same for all files of a torrent, and the files one after the other.
LEMMA GetWorksFacts ==
    ASSUME NEW tm \in TorrentMetas, Spelled(tm)
    PROVE  GetWorks(tm)
<1>1. \A i \in DOMAIN tm.files :
         /\ Inside(Opened(tm, i)) /\ Opened(tm, i).file = tm.files[i]
  BY OpenedFacts, ViewOfFacts
<1>2. Contiguous(tm) /\ tm.totalLen \in Nat
  BY TorrentsFacts DEF Sized
<1>3. ASSUME NEW chunk \in 1 .. tm.totalLen + 1
      PROVE  LET file(i) == Get(Opened(tm, i), chunk, {}).out
             IN /\ FlattenSeq([i \in DOMAIN tm.files |-> file(i)])
                      = [i \in 1 .. tm.totalLen |-> i]
                /\ \A i \in DOMAIN tm.files :
                   \A lost \in SUBSET (0 .. NumPieces(tm) - 1) :
                      LET g == Get(Opened(tm, i), chunk, lost)
                          needed == PiecesOfFile(Opened(tm, i))
                      IN /\ g.thrown <=> lost \cap needed # {}
                         /\ IsPrefix(g.out, file(i))
  <2> DEFINE file(i) == Get(Opened(tm, i), chunk, {}).out
  <2>0. chunk \in Nat \ {0}
    BY <1>2
  <2>1. ASSUME NEW i \in DOMAIN tm.files
        PROVE  file(i) = Bytes(tm.files[i].offset, tm.files[i].size)
    BY <1>1, <2>0, GetWhole
  <2>2. FlattenSeq([i \in DOMAIN tm.files |-> file(i)])
           = [i \in 1 .. tm.totalLen |-> i]
    <3> DEFINE s == [i \in DOMAIN tm.files |-> file(i)]
    <3>1. s = [i \in DOMAIN tm.files |->
                  Bytes(tm.files[i].offset, tm.files[i].size)]
      BY <2>1
    <3> HIDE DEF s
    <3>2. FlattenSeq(s) = Bytes(0, tm.totalLen)
      BY <1>2, <3>1, FlattenFacts
    <3>3. Bytes(0, tm.totalLen) = [i \in 1 .. tm.totalLen |-> i]
      <4>1. \A i \in 1 .. tm.totalLen : 0 + i = i
        OBVIOUS
      <4> QED BY <4>1 DEF Bytes
    <3> QED BY <3>2, <3>3 DEF s
  <2>3. ASSUME NEW i \in DOMAIN tm.files, NEW lost
        PROVE  LET g == Get(Opened(tm, i), chunk, lost)
                   needed == PiecesOfFile(Opened(tm, i))
               IN /\ g.thrown <=> lost \cap needed # {}
                  /\ IsPrefix(g.out, file(i))
    <3> DEFINE v == Opened(tm, i)
    <3>1. Inside(v) /\ v.file = tm.files[i]
      BY <1>1
    <3>2. file(i) = Bytes(v.file.offset, v.file.size)
      BY <2>1, <3>1
    <3> HIDE DEF v, file
    <3> DEFINE g == Get(v, chunk, lost)
    <3>3. /\ g.thrown <=> lost \cap PiecesOfFile(v) # {}
          /\ IsPrefix(g.out, Bytes(v.file.offset, v.file.size))
      BY <2>0, <3>1, GetOrThrow
    <3>4. /\ g.thrown <=> lost \cap PiecesOfFile(v) # {}
          /\ IsPrefix(g.out, file(i))
      BY <3>2, <3>3
    <3> QED BY <3>4 DEF v
  <2> HIDE DEF file
  <2>4. /\ FlattenSeq([i \in DOMAIN tm.files |-> file(i)])
              = [i \in 1 .. tm.totalLen |-> i]
        /\ \A i \in DOMAIN tm.files :
           \A lost \in SUBSET (0 .. NumPieces(tm) - 1) :
              LET g == Get(Opened(tm, i), chunk, lost)
                  needed == PiecesOfFile(Opened(tm, i))
              IN /\ g.thrown <=> lost \cap needed # {}
                 /\ IsPrefix(g.out, file(i))
    BY <2>2, <2>3
  <2> QED BY <2>4 DEF file
<1> QED BY <1>3, BareName DEF GetWorks

\* get.go:80-176: get writes a whole file or throws, of every file of every
\* torrent whose names a path can spell, with every chunk size and whatever is
\* missing.
THEOREM GetWholeOrThrows == Spec => []GetIsWholeOrThrows
<1>1. ServeInv => GetIsWholeOrThrows
  <2> SUFFICES ASSUME ServeInv, NEW info \in loaded PROVE GetOf[info]
    BY DEF GetIsWholeOrThrows
  <2>1. info \in Infos
    BY DEF ServeInv
  <2>2. WellFormed(info) => GetWorks(BuildMeta(info))
    <3>1. BuildMeta(info) \in TorrentMetas
          /\ (WellFormed(info) => Spelled(BuildMeta(info)))
      BY <2>1, TorrentFacts DEF TorrentMetas
    <3> QED BY <3>1, GetWorksFacts
  <2> QED BY <2>1, <2>2 DEF GetOf
<1> QED BY <1>1, ServeInvariant, PTL

-----------------------------------------------------------------------------
(* Why requests are served and sessions end *)

\* Times counts: it is a number, and not 0 where there is one.
LEMMA TimesFacts ==
    ASSUME NEW T, NEW s \in Seq(T), NEW x
    PROVE  /\ IsFiniteSet({i \in DOMAIN s : s[i] = x})
           /\ Times(x, s) \in Nat
           /\ Times(x, s) > 0 <=> \E i \in DOMAIN s : s[i] = x
<1> DEFINE S == {i \in DOMAIN s : s[i] = x}
<1>1. DOMAIN s = 1 .. Len(s) /\ Len(s) \in Nat
  OBVIOUS
<1>2. IsFiniteSet(1 .. Len(s))
  BY <1>1, FS_Interval
<1>3. IsFiniteSet(S)
  <2>1. S \in SUBSET (1 .. Len(s))
    BY <1>1
  <2> HIDE DEF S
  <2> QED BY <1>2, <2>1, FS_Subset
<1>4. Times(x, s) = Cardinality(S)
  BY DEF Times
<1>5. Cardinality(S) \in Nat /\ (Cardinality(S) = 0 <=> S = {})
  <2> HIDE DEF S
  <2> QED BY <1>3, FS_CardinalityType, FS_EmptySet
<1>6. Cardinality(S) > 0 <=> S # {}
  <2> HIDE DEF S
  <2> QED BY <1>5
<1>7. S # {} <=> \E i \in DOMAIN s : s[i] = x
  OBVIOUS
<1> QED BY <1>3, <1>4, <1>5, <1>6, <1>7

LEMMA TimesEmpty ==
    ASSUME NEW x PROVE Times(x, <<>>) = 0
<1>1. {i \in DOMAIN <<>> : <<>>[i] = x} = {}
  OBVIOUS
<1> QED BY <1>1, FS_EmptySet DEF Times

\* One more at the end.
LEMMA TimesAppend ==
    ASSUME NEW T, NEW s \in Seq(T), NEW y \in T, NEW x
    PROVE  Times(x, Append(s, y)) = Times(x, s) + One(y = x)
<1> DEFINE t == Append(s, y)
           S == {i \in DOMAIN s : s[i] = x}
           U == {i \in DOMAIN t : t[i] = x}
           n == Len(s) + 1
<1>1. /\ DOMAIN s = 1 .. Len(s) /\ Len(s) \in Nat
      /\ DOMAIN t = 1 .. n /\ t[n] = y
      /\ \A i \in 1 .. Len(s) : t[i] = s[i]
  OBVIOUS
<1>2. IsFiniteSet(S) /\ Cardinality(S) \in Nat /\ n \notin S
  <2>1. IsFiniteSet(S)
    BY TimesFacts
  <2>2. n \notin S
    BY <1>1
  <2> HIDE DEF S, n
  <2> QED BY <2>1, <2>2, FS_CardinalityType
<1>3. Times(x, t) = Cardinality(U) /\ Times(x, s) = Cardinality(S)
  BY DEF Times
<1>4. CASE y = x
  <2>1. U = S \cup {n}
    BY <1>1, <1>4
  <2> HIDE DEF S, U, n
  <2>2. Cardinality(S \cup {n}) = Cardinality(S) + 1
    BY <1>2, FS_AddElement
  <2> QED BY <1>3, <1>4, <2>1, <2>2 DEF One
<1>5. CASE y # x
  <2>1. U = S
    BY <1>1, <1>5
  <2> HIDE DEF S, U, n
  <2> QED BY <1>2, <1>3, <1>5, <2>1 DEF One
<1> QED BY <1>4, <1>5

\* One less at the front.
LEMMA TimesTail ==
    ASSUME NEW T, NEW s \in Seq(T), s # <<>>, NEW x
    PROVE  Times(x, s) = Times(x, Tail(s)) + One(Head(s) = x)
<1> DEFINE t == Tail(s)
           S == {i \in DOMAIN s : s[i] = x}
           R == S \ {1}
           U == {i \in DOMAIN t : t[i] = x}
           f == [i \in U |-> i + 1]
<1>1. /\ DOMAIN s = 1 .. Len(s) /\ Len(s) \in Nat \ {0}
      /\ DOMAIN t = 1 .. Len(s) - 1
      /\ \A i \in 1 .. Len(s) - 1 : t[i] = s[i + 1]
      /\ Head(s) = s[1] /\ t \in Seq(T)
  OBVIOUS
<1>2. IsFiniteSet(S) /\ IsFiniteSet(U)
  BY <1>1, TimesFacts
<1>3. Times(x, t) = Cardinality(U) /\ Times(x, s) = Cardinality(S)
  BY DEF Times
<1>4. f \in Bijection(U, R)
  <2>1. f \in [U -> R]
    BY <1>1
  <2>2. \A i, j \in U : f[i] = f[j] => i = j
    BY <1>1
  <2>3. ASSUME NEW k \in R PROVE \E i \in U : f[i] = k
    <3>1. k - 1 \in U /\ (k - 1) + 1 = k
      BY <1>1
    <3> QED BY <3>1
  <2>4. DOMAIN f = U
    OBVIOUS
  <2> HIDE DEF f, R, U
  <2> QED
    BY <2>1, <2>2, <2>3, <2>4 DEF Bijection, Injection, Surjection, IsInjective
<1>5. Cardinality(R) = Cardinality(U)
  <2>1. ExistsBijection(U, R)
    BY <1>4 DEF ExistsBijection
  <2> HIDE DEF U, R
  <2> QED BY <1>2, <2>1, FS_Bijection
<1>6. Cardinality(R) = IF 1 \in S THEN Cardinality(S) - 1 ELSE Cardinality(S)
  <2> HIDE DEF S
  <2> QED BY <1>2, FS_RemoveElement
<1>7. 1 \in S <=> Head(s) = x
  BY <1>1
<1>8. Cardinality(S) \in Nat
  <2> HIDE DEF S
  <2> QED BY <1>2, FS_CardinalityType
<1> HIDE DEF S, U, R
<1>9. Times(x, s) = Times(x, t) + One(Head(s) = x)
  <2> HIDE DEF t
  <2> QED BY <1>3, <1>5, <1>6, <1>7, <1>8 DEF One
<1> QED BY <1>9

\* A packet is sent.
LEMMA Sends ==
    ASSUME wire \in Seq(Packets), NEW c \in Channels, NEW what \in Kinds,
           Send(c, what)
    PROVE  /\ wire' \in Seq(Packets) /\ wire' # <<>>
           /\ \A d \in Channels, x \in Kinds :
                 OnWire(d, x)' = OnWire(d, x) + One(d = c /\ x = what)
           /\ \A d \in Channels : d # c /\ Silent(d) => Silent(d)'
           /\ \A d \in Channels :
                 CloseIsLast(d) /\ (d # c \/ OnWire(c, "close") = 0)
                     => CloseIsLast(d)'
<1> DEFINE p == Packet(c, what)
           n == Len(wire) + 1
<1>1. wire' = Append(wire, p) /\ p \in Packets
  BY DEF Send, Packet, Packets
<1>2. /\ wire' \in Seq(Packets) /\ wire' # <<>>
      /\ DOMAIN wire = 1 .. Len(wire) /\ Len(wire) \in Nat
      /\ DOMAIN wire' = 1 .. n /\ wire'[n] = p
      /\ \A i \in 1 .. Len(wire) : wire'[i] = wire[i]
  <2> HIDE DEF p
  <2> QED BY <1>1
<1>3. ASSUME NEW d \in Channels, NEW x \in Kinds
      PROVE  OnWire(d, x)' = OnWire(d, x) + One(d = c /\ x = what)
  <2>1. p = Packet(d, x) <=> d = c /\ x = what
    BY DEF Packet
  <2>2. OnWire(d, x)' = Times(Packet(d, x), wire')
    BY DEF OnWire, Packet
  <2> HIDE DEF p
  <2>3. Times(Packet(d, x), wire')
           = Times(Packet(d, x), wire) + One(p = Packet(d, x))
    BY <1>1, TimesAppend
  <2>4. One(p = Packet(d, x)) = One(d = c /\ x = what)
    BY <2>1 DEF One
  <2> QED BY <2>2, <2>3, <2>4 DEF OnWire
<1>4. ASSUME NEW d \in Channels, d # c, Silent(d) PROVE Silent(d)'
  <2>1. p.on = c
    BY DEF Packet
  <2> HIDE DEF p
  <2> QED BY <1>2, <1>4, <2>1 DEF Silent
<1>5. ASSUME NEW d \in Channels, CloseIsLast(d),
             d # c \/ OnWire(c, "close") = 0
      PROVE  CloseIsLast(d)'
  <2>1. ASSUME NEW i \in 1 .. n, NEW j \in 1 .. n,
               wire'[i] = Packet(d, "close"), wire'[j].on = d
        PROVE  j <= i
    <3>1. CASE i = n
      BY <1>2, <3>1
    <3>2. CASE i # n
      <4>1. i \in DOMAIN wire /\ wire[i] = Packet(d, "close")
        BY <1>2, <2>1, <3>2
      <4>2. OnWire(d, "close") > 0
        BY <4>1, TimesFacts DEF OnWire
      <4>3. d # c
        BY <1>5, <4>2
      <4>4. j # n
        <5>1. p.on = c
          BY DEF Packet
        <5> HIDE DEF p
        <5> QED BY <1>2, <2>1, <4>3, <5>1
      <4>5. j \in DOMAIN wire /\ wire[j].on = d
        BY <1>2, <2>1, <4>4
      <4> QED BY <1>5, <4>1, <4>5 DEF CloseIsLast
    <3> QED BY <3>1, <3>2
  <2>2. CloseIsLast(d)' <=>
           \A i, j \in DOMAIN wire' :
              wire'[i] = Packet(d, "close") /\ wire'[j].on = d => j <= i
    BY DEF CloseIsLast, Packet
  <2> QED BY <1>2, <2>1, <2>2
<1> QED BY <1>2, <1>3, <1>4, <1>5

\* The library reads a packet.
LEMMA Reads ==
    ASSUME wire \in Seq(Packets), wire # <<>>, wire' = Tail(wire)
    PROVE  /\ wire' \in Seq(Packets) /\ Head(wire) \in Packets
           /\ \A d \in Channels, x \in Kinds :
                 OnWire(d, x) = OnWire(d, x)' + One(Head(wire) = Packet(d, x))
           /\ \A d \in Channels : Silent(d) => Head(wire).on # d
           /\ \A d \in Channels : Silent(d) => Silent(d)'
           /\ \A d \in Channels : CloseIsLast(d) => CloseIsLast(d)'
           /\ \A d \in Channels :
                 CloseIsLast(d) /\ Head(wire) = Packet(d, "close")
                     => Silent(d)'
<1>1. /\ wire' \in Seq(Packets) /\ Head(wire) \in Packets
      /\ DOMAIN wire = 1 .. Len(wire) /\ Len(wire) \in Nat \ {0}
      /\ DOMAIN wire' = 1 .. Len(wire) - 1 /\ Head(wire) = wire[1]
      /\ \A i \in 1 .. Len(wire) - 1 : wire'[i] = wire[i + 1]
  OBVIOUS
<1>2. ASSUME NEW d \in Channels, NEW x \in Kinds
      PROVE  OnWire(d, x) = OnWire(d, x)' + One(Head(wire) = Packet(d, x))
  <2>1. OnWire(d, x)' = Times(Packet(d, x), Tail(wire))
    BY DEF OnWire, Packet
  <2> QED BY <2>1, TimesTail DEF OnWire
<1>3. ASSUME NEW d \in Channels, Silent(d)
      PROVE  Head(wire).on # d /\ Silent(d)'
  BY <1>1, <1>3 DEF Silent
<1>4. ASSUME NEW d \in Channels, CloseIsLast(d) PROVE CloseIsLast(d)'
  <2>1. ASSUME NEW i \in DOMAIN wire', NEW j \in DOMAIN wire',
               wire'[i] = Packet(d, "close"), wire'[j].on = d
        PROVE  j <= i
    <3>1. i + 1 \in DOMAIN wire /\ j + 1 \in DOMAIN wire
      BY <1>1
    <3>2. wire[i + 1] = Packet(d, "close") /\ wire[j + 1].on = d
      BY <1>1, <2>1
    <3>3. j + 1 <= i + 1
      BY <1>4, <3>1, <3>2 DEF CloseIsLast
    <3> QED BY <1>1, <3>3
  <2>2. CloseIsLast(d)' <=>
           \A i, j \in DOMAIN wire' :
              wire'[i] = Packet(d, "close") /\ wire'[j].on = d => j <= i
    BY DEF CloseIsLast, Packet
  <2> QED BY <2>1, <2>2
<1>5. ASSUME NEW d \in Channels, CloseIsLast(d),
             Head(wire) = Packet(d, "close")
      PROVE  Silent(d)'
  <2>1. ASSUME NEW i \in DOMAIN wire' PROVE wire'[i].on # d
    <3>1. 1 \in DOMAIN wire /\ i + 1 \in DOMAIN wire /\ ~(i + 1 <= 1)
      BY <1>1
    <3>2. wire[i + 1].on # d
      BY <1>1, <1>5, <3>1 DEF CloseIsLast
    <3> QED BY <1>1, <3>2
  <2> QED BY <2>1 DEF Silent
<1> QED BY <1>1, <1>2, <1>3, <1>4, <1>5

\* What is known of the channel c.
ChannelInv(c) == SftpInv(c) /\ CloseInv(c) /\ BegunInv(c)

\* A step that is not of the channel d, nor of a packet on it.
LEMMA OtherChannel ==
    ASSUME NEW d \in Channels, ChannelInv(d),
           session'[d] = session[d], client'[d] = client[d],
           \A x \in Kinds : OnWire(d, x)' = OnWire(d, x),
           Silent(d) => Silent(d)', CloseIsLast(d) => CloseIsLast(d)'
    PROVE  ChannelInv(d)'
<1>1. /\ OnWire(d, "sftp")' = OnWire(d, "sftp")
      /\ OnWire(d, "close")' = OnWire(d, "close")
      /\ OnWire(d, "data")' = OnWire(d, "data")
  BY DEF Kinds
<1>2. SftpInv(d)'
  BY <1>1 DEF ChannelInv, SftpInv, Taken, One, Times
<1>3. CloseInv(d)'
  BY <1>1 DEF ChannelInv, CloseInv
<1>4. BegunInv(d)'
  BY <1>1 DEF ChannelInv, BegunInv, Waiting
<1> QED BY <1>2, <1>3, <1>4 DEF ChannelInv

\* What is on the wire of the channel d is not touched.
LEMMA SameWire ==
    ASSUME NEW d \in Channels, wire' = wire
    PROVE  /\ \A x \in Kinds : OnWire(d, x)' = OnWire(d, x)
           /\ Silent(d)' <=> Silent(d)
           /\ CloseIsLast(d)' <=> CloseIsLast(d)
BY DEF OnWire, Packet, Times, Silent, CloseIsLast

\* The numbers that SftpInv adds.
LEMMA SftpNumbers ==
    ASSUME NEW c \in Channels, wire \in Seq(Packets),
           session \in [Channels -> SessionType]
    PROVE  /\ \A x \in Kinds : OnWire(c, x) \in Nat
           /\ Times("sftp", session[c].queue) \in Nat
<1>1. session[c].queue \in Seq({"sftp", "other"})
  BY DEF SessionType
<1>2. Times("sftp", session[c].queue) \in Nat
  BY <1>1, TimesFacts
<1> QED BY <1>2, TimesFacts DEF OnWire

\* A step of the client that sends a packet.
LEMMA ClientSends ==
    ASSUME ConnectionInv, NEW c \in Channels, NEW what \in Kinds,
           Send(c, what), session' = session, client[c].at # "closed",
           \A d \in Channels \ {c} : client'[d] = client[d],
           client[c].asked \in Nat,
           client'[c].asked = client[c].asked + One(what = "sftp"),
           client'[c].at = "closed" <=> what = "close",
           \/ client'[c].at = client[c].at
           \/ client'[c].at = "closed"
           \/ what = "data" /\ client[c].at # "new"
    PROVE  ConnectionInv'
<1>1. /\ wire \in Seq(Packets) /\ session \in [Channels -> SessionType]
      /\ \A d \in Channels : ChannelInv(d)
  BY DEF ConnectionInv, ChannelInv
<1>2. /\ wire' \in Seq(Packets)
      /\ \A d \in Channels, x \in Kinds :
            OnWire(d, x)' = OnWire(d, x) + One(d = c /\ x = what)
      /\ \A d \in Channels : d # c /\ Silent(d) => Silent(d)'
      /\ \A d \in Channels :
            CloseIsLast(d) /\ (d # c \/ OnWire(c, "close") = 0)
                => CloseIsLast(d)'
  BY <1>1, Sends
<1>3. ASSUME NEW d \in Channels, d # c PROVE ChannelInv(d)'
  <2>1. ASSUME NEW x \in Kinds PROVE OnWire(d, x)' = OnWire(d, x)
    BY <1>1, <1>2, <1>3, SftpNumbers DEF One
  <2> QED BY <1>1, <1>2, <1>3, <2>1, OtherChannel
<1>4. /\ OnWire(c, "sftp")' = OnWire(c, "sftp") + One(what = "sftp")
      /\ OnWire(c, "close")' = OnWire(c, "close") + One(what = "close")
      /\ OnWire(c, "data")' = OnWire(c, "data") + One(what = "data")
  <2>1. \A x \in Kinds : OnWire(c, x)' = OnWire(c, x) + One(x = what)
    BY <1>2 DEF One
  <2> QED BY <2>1 DEF Kinds, One
<1>5. /\ OnWire(c, "sftp") \in Nat /\ OnWire(c, "close") \in Nat
      /\ OnWire(c, "data") \in Nat /\ Times("sftp", session[c].queue) \in Nat
  BY <1>1, SftpNumbers DEF Kinds
<1>6. SftpInv(c)'
  <2>1. Taken(session[c]) \in Nat /\ Taken(session'[c]) = Taken(session[c])
    <3>1. session[c].accepted \in {0, 1}
      BY <1>1 DEF SessionType
    <3> QED BY <3>1 DEF Taken, One
  <2>2. OnWire(c, "sftp") + Times("sftp", session[c].queue)
           + Taken(session[c]) <= client[c].asked
    BY <1>1 DEF ChannelInv, SftpInv
  <2>3. SftpInv(c)' <=>
           OnWire(c, "sftp")' + Times("sftp", session[c].queue)
              + Taken(session[c]) <= client'[c].asked
    BY DEF SftpInv, Taken, One, Times
  <2>4. One(what = "sftp") \in Nat
    BY DEF One
  <2> QED BY <1>4, <1>5, <2>1, <2>2, <2>3, <2>4
<1>7. OnWire(c, "close") = 0 /\ ~session[c].eof
  BY <1>1, <1>5 DEF ChannelInv, CloseInv
<1>8. CloseInv(c)'
  <2>1. OnWire(c, "close")' > 0 <=> what = "close"
    BY <1>4, <1>7 DEF One
  <2> QED BY <1>1, <1>2, <1>7, <2>1 DEF ChannelInv, CloseInv
<1>9. BegunInv(c)'
  <2>1. what = "data" => OnWire(c, "data")' > 0
    BY <1>4, <1>5 DEF One
  <2>2. OnWire(c, "data") > 0 => OnWire(c, "data")' > 0
    BY <1>4, <1>5 DEF One
  <2> QED BY <1>1, <2>1, <2>2 DEF ChannelInv, BegunInv, Waiting
<1>10. \A d \in Channels : ChannelInv(d)'
  BY <1>3, <1>6, <1>8, <1>9 DEF ChannelInv
<1> QED BY <1>1, <1>2, <1>10 DEF ConnectionInv, ChannelInv

\* A client is set.
LEMMA ClientIsSet ==
    ASSUME ServeInv, NEW c \in Channels, NEW cl, SetClient(c, cl)
    PROVE  /\ client'[c] = cl
           /\ \A d \in Channels \ {c} : client'[d] = client[d]
BY DEF ServeInv, SetClient

\* The steps of the client.
LEMMA ClientConnection ==
    ASSUME ServeInv, ConnectionInv, NEW c \in Channels, ClientStep(c)
    PROVE  ConnectionInv'
<1>1. client \in [Channels -> ClientType] /\ client[c] \in ClientType
  BY DEF ServeInv
<1>2. client[c].asked \in Nat
  BY <1>1 DEF ClientType
<1>3. ASSUME NEW what \in {"sftp", "other"}, Ask(c, what)
      PROVE  ConnectionInv'
  <2>1. /\ Send(c, what) /\ session' = session /\ client[c].at # "closed"
        /\ \A d \in Channels \ {c} : client'[d] = client[d]
        /\ client'[c].at = client[c].at /\ what \in Kinds /\ what # "close"
    BY <1>1, <1>3 DEF Ask, SetClient, Kinds, ClientType
  <2>2. client'[c].asked = client[c].asked + One(what = "sftp")
    BY <1>1, <1>2, <1>3 DEF Ask, SetClient, ClientType, One
  <2> QED BY <1>2, <2>1, <2>2, ClientSends
<1>4. ASSUME Requests(c) PROVE ConnectionInv'
  <2>1. /\ Send(c, "data") /\ session' = session
        /\ client[c].at \in {"dir", "chosen", "found", "file"}
        /\ client'[c].at \in Waiting
        /\ \A d \in Channels \ {c} : client'[d] = client[d]
        /\ client'[c].asked = client[c].asked
    <3> DEFINE Set1(at) == [client[c] EXCEPT !.at = at]
               Set2(at, n) == [client[c] EXCEPT !.at = at, !.len = n]
    <3>1. \/ \E at \in {"list", "stat", "open"} : SetClient(c, Set1(at))
          \/ \E n : SetClient(c, Set2("read", n))
      BY <1>4 DEF Requests
    <3>2. /\ \A at : Set1(at).at = at /\ Set1(at).asked = client[c].asked
          /\ \A at, n : /\ Set2(at, n).at = at
                         /\ Set2(at, n).asked = client[c].asked
      BY <1>1 DEF ClientType
    <3> HIDE DEF Set1, Set2
    <3>3. \E u : /\ SetClient(c, u) /\ u.asked = client[c].asked
                 /\ u.at \in Waiting
      BY <3>1, <3>2 DEF Waiting
    <3>4. PICK u : /\ client'[c] = u /\ u.asked = client[c].asked
                   /\ u.at \in Waiting
                   /\ \A d \in Channels \ {c} : client'[d] = client[d]
      BY <3>3, ClientIsSet
    <3> QED BY <1>4, <3>4 DEF Requests
  <2>2. client'[c].asked = client[c].asked + One("data" = "sftp")
    BY <1>2, <2>1 DEF One
  <2>3. "data" \in Kinds
    BY DEF Kinds
  <2>4. client[c].at \notin {"new", "closed"} /\ client'[c].at # "closed"
    BY <2>1 DEF Waiting
  <2> QED BY <1>2, <2>1, <2>2, <2>3, <2>4, ClientSends
<1>5. ASSUME Closes(c) PROVE ConnectionInv'
  <2>1. /\ Send(c, "close") /\ session' = session
        /\ client[c].at # "closed" /\ client'[c].at = "closed"
        /\ \A d \in Channels \ {c} : client'[d] = client[d]
        /\ client'[c].asked = client[c].asked
    BY <1>1, <1>5 DEF Closes, SetClient, ClientType
  <2>2. client'[c].asked = client[c].asked + One("close" = "sftp")
    BY <1>2, <2>1 DEF One
  <2>3. "close" \in Kinds
    BY DEF Kinds
  <2> QED BY <1>2, <2>1, <2>2, <2>3, ClientSends
<1>6. ASSUME Enters(c) PROVE ConnectionInv'
  <2>1. /\ wire' = wire /\ session' = session
        /\ client[c].at = "seen" /\ client'[c].at = "dir"
        /\ \A d \in Channels \ {c} : client'[d] = client[d]
        /\ client'[c].asked = client[c].asked
    BY <1>1, <1>6 DEF Enters, SetClient, ClientType
  <2>2. /\ wire \in Seq(Packets) /\ session \in [Channels -> SessionType]
        /\ \A d \in Channels : ChannelInv(d)
    BY DEF ConnectionInv, ChannelInv
  <2>3. ASSUME NEW d \in Channels
        PROVE  /\ OnWire(d, "sftp")' = OnWire(d, "sftp")
               /\ OnWire(d, "close")' = OnWire(d, "close")
               /\ OnWire(d, "data")' = OnWire(d, "data")
               /\ Silent(d)' <=> Silent(d)
               /\ CloseIsLast(d)' <=> CloseIsLast(d)
    BY <2>1, SameWire DEF Kinds
  <2>4. ASSUME NEW d \in Channels, d # c PROVE ChannelInv(d)'
    <3>1. \A x \in Kinds : OnWire(d, x)' = OnWire(d, x)
      BY <2>1, SameWire
    <3> QED BY <2>1, <2>2, <2>3, <2>4, <3>1, OtherChannel
  <2>5. SftpInv(c)'
    BY <2>1, <2>2, <2>3 DEF ChannelInv, SftpInv, Taken, One, Times
  <2>6. CloseInv(c)'
    BY <2>1, <2>2, <2>3 DEF ChannelInv, CloseInv
  <2>7. BegunInv(c)'
    BY <2>1, <2>2, <2>3 DEF ChannelInv, BegunInv, Waiting
  <2>8. \A d \in Channels : ChannelInv(d)'
    BY <2>4, <2>5, <2>6, <2>7 DEF ChannelInv
  <2> QED BY <2>1, <2>2, <2>8 DEF ConnectionInv, ChannelInv
<1> QED BY <1>3, <1>4, <1>5, <1>6 DEF ClientStep

\* The library reads a packet, and what for.
LEMMA DeliverPacket ==
    ASSUME ConnectionInv, Deliver, NEW c \in Channels, NEW what \in Kinds,
           Head(wire) = Packet(c, what)
    PROVE  ConnectionInv'
<1> DEFINE s == session[c]
           t == session'[c]
<1>1. /\ wire \in Seq(Packets) /\ session \in [Channels -> SessionType]
      /\ \A d \in Channels : ChannelInv(d)
  BY DEF ConnectionInv, ChannelInv
<1>2. /\ wire # <<>> /\ wire' = Tail(wire) /\ client' = client
      /\ session' = [session EXCEPT ![c] =
            CASE what = "close" -> [s EXCEPT !.eof = TRUE]
              [] what = "data" -> [s EXCEPT !.inbox = @ + 1]
              [] OTHER -> [s EXCEPT !.queue = Append(@, what)]]
  <2>1. Head(wire).on = c /\ Head(wire).what = what
    BY DEF Packet
  <2> QED BY ONLY <2>1, Deliver DEF Deliver, Set
<1>3. /\ wire' \in Seq(Packets) /\ Head(wire) \in Packets
      /\ \A d \in Channels, x \in Kinds :
            OnWire(d, x) = OnWire(d, x)' + One(Head(wire) = Packet(d, x))
      /\ \A d \in Channels : Silent(d) => Head(wire).on # d
      /\ \A d \in Channels : Silent(d) => Silent(d)'
      /\ \A d \in Channels : CloseIsLast(d) => CloseIsLast(d)'
      /\ \A d \in Channels :
            CloseIsLast(d) /\ Head(wire) = Packet(d, "close") => Silent(d)'
  BY <1>1, <1>2, Reads
<1>4. /\ Head(wire).on = c
      /\ \A d \in Channels, x \in Kinds :
            Head(wire) = Packet(d, x) <=> d = c /\ x = what
  BY DEF Packet
<1>5. \A d \in Channels, x \in Kinds :
         OnWire(d, x) \in Nat /\ OnWire(d, x)' \in Nat
  <2>1. ASSUME NEW d \in Channels, NEW x \in Kinds
        PROVE  OnWire(d, x)' = Times(Packet(d, x), wire')
    BY DEF OnWire, Packet
  <2>2. ASSUME NEW d \in Channels, NEW x \in Kinds
        PROVE  Times(Packet(d, x), wire') \in Nat
    BY <1>3, TimesFacts
  <2> QED BY <1>1, <2>1, <2>2, SftpNumbers
<1>6. /\ s \in SessionType /\ ~s.eof
      /\ \A d \in Channels : d # c => session'[d] = session[d]
  BY <1>1, <1>2, <1>3, <1>4 DEF ChannelInv, CloseInv
<1>7. /\ t.answerer = s.answerer /\ t.accepted = s.accepted
      /\ t.handler = s.handler /\ t \in SessionType
      /\ t.eof <=> what = "close"
      /\ t.inbox = s.inbox + One(what = "data")
      /\ t.queue = IF what \in {"sftp", "other"}
                   THEN Append(s.queue, what) ELSE s.queue
  <2>1. CASE what = "close"
    <3>1. t = [s EXCEPT !.eof = TRUE]
      BY <1>1, <1>2, <1>4, <2>1
    <3> HIDE DEF s, t
    <3>2. t \in SessionType /\ t.inbox = s.inbox /\ s.inbox \in Nat
      BY <1>6, <3>1 DEF SessionType
    <3>3. t.inbox = s.inbox + One(what = "data")
      BY <2>1, <3>2 DEF One
    <3> QED BY <1>6, <2>1, <3>1, <3>2, <3>3 DEF SessionType
  <2>2. CASE what = "data"
    <3>1. t = [s EXCEPT !.inbox = @ + 1]
      BY <1>1, <1>2, <1>4, <2>2
    <3> HIDE DEF s, t
    <3> QED BY <1>6, <2>2, <3>1 DEF SessionType, One
  <2>3. CASE what \in {"sftp", "other"}
    <3>1. t = [s EXCEPT !.queue = Append(@, what)]
      BY <1>1, <1>2, <1>4, <2>3
    <3> HIDE DEF s, t
    <3>2. Append(s.queue, what) \in Seq({"sftp", "other"})
      BY <1>6, <2>3 DEF SessionType
    <3>3. t \in SessionType /\ t.inbox = s.inbox /\ s.inbox \in Nat
      BY <1>6, <3>1, <3>2 DEF SessionType
    <3>4. t.inbox = s.inbox + One(what = "data")
      BY <2>3, <3>3 DEF One
    <3> QED BY <1>6, <2>3, <3>1, <3>3, <3>4 DEF SessionType
  <2> QED BY <1>4, <2>1, <2>2, <2>3 DEF Kinds
<1>8. ASSUME NEW d \in Channels, d # c PROVE ChannelInv(d)'
  <2>1. ASSUME NEW x \in Kinds PROVE OnWire(d, x)' = OnWire(d, x)
    BY <1>3, <1>4, <1>5, <1>8 DEF One
  <2> QED BY <1>1, <1>2, <1>3, <1>6, <1>8, <2>1, OtherChannel
<1>9. \A x \in Kinds : /\ OnWire(c, x) = OnWire(c, x)' + One(x = what)
                       /\ OnWire(c, x)' \in Nat
  BY <1>3, <1>4, <1>5 DEF One
<1>10. SftpInv(c)'
  <2>1. Times("sftp", t.queue)
           = Times("sftp", s.queue) + One(what = "sftp")
    <3>1. CASE what \in {"sftp", "other"}
      BY <1>6, <1>7, <3>1, TimesAppend DEF SessionType
    <3>2. CASE what \notin {"sftp", "other"}
      BY <1>1, <1>4, <1>7, <3>2, SftpNumbers DEF One
    <3> QED BY <3>1, <3>2
  <2>2. OnWire(c, "sftp") = OnWire(c, "sftp")' + One("sftp" = what)
        /\ OnWire(c, "sftp")' \in Nat
    BY <1>9 DEF Kinds
  <2>3. Times("sftp", s.queue) \in Nat /\ One(what = "sftp") \in Nat
        /\ One("sftp" = what) = One(what = "sftp")
    BY <1>1, <1>4, SftpNumbers DEF One
  <2>4. Taken(t) = Taken(s) /\ Taken(s) \in Nat
    <3>1. s.accepted \in {0, 1}
      BY <1>6 DEF SessionType
    <3> HIDE DEF s, t
    <3> QED BY <1>7, <3>1 DEF Taken, One
  <2>5. OnWire(c, "sftp") + Times("sftp", s.queue) + Taken(s)
           <= client[c].asked
    BY <1>1, <1>4 DEF ChannelInv, SftpInv
  <2>6. SftpInv(c)' <=>
           OnWire(c, "sftp")' + Times("sftp", t.queue) + Taken(t)
              <= client[c].asked
    BY <1>2 DEF SftpInv, Taken, One, Times
  <2> HIDE DEF s, t
  <2> QED BY <2>1, <2>2, <2>3, <2>4, <2>5, <2>6
<1>11. CloseInv(c)'
  <2>1. what = "close" => client[c].at = "closed" /\ Silent(c)'
    <3>1. what = "close" => OnWire(c, "close") > 0
      BY <1>9 DEF Kinds, One
    <3> QED BY <1>1, <1>3, <1>4, <3>1 DEF ChannelInv, CloseInv
  <2>2. what # "close" => OnWire(c, "close")' = OnWire(c, "close")
    BY <1>9 DEF Kinds, One
  <2>3. CloseIsLast(c)' /\ (client[c].at = "closed" <=> OnWire(c, "close") > 0)
        /\ s.answerer # "gone" /\ s.handler # "over"
    BY <1>1, <1>3, <1>4, <1>6 DEF ChannelInv, CloseInv
  <2>4. CloseInv(c)' <=>
           /\ client[c].at = "closed" <=> (t.eof \/ OnWire(c, "close")' > 0)
           /\ t.eof => Silent(c)'
           /\ CloseIsLast(c)'
           /\ t.answerer = "gone" => t.eof /\ t.queue = <<>>
           /\ t.handler = "over" => t.eof
    BY <1>2 DEF CloseInv
  <2> HIDE DEF s, t
  <2> QED BY <1>7, <2>1, <2>2, <2>3, <2>4
<1>12. BegunInv(c)'
  <2>1. /\ OnWire(c, "data") = OnWire(c, "data")' + One("data" = what)
        /\ OnWire(c, "data")' \in Nat
    BY <1>9 DEF Kinds
  <2>2. s.inbox > 0 \/ OnWire(c, "data") > 0
           => t.inbox > 0 \/ OnWire(c, "data")' > 0
    <3>1. s.inbox \in Nat
      BY <1>6 DEF SessionType
    <3> HIDE DEF s, t
    <3> QED BY <1>7, <2>1, <3>1 DEF One
  <2>3. BegunInv(c)' <=>
           /\ client[c].at \notin {"new", "closed"} =>
                 t.handler = "serve" \/ t.accepted = 1 \/ t.answerer = "send"
           /\ client[c].at \in Waiting =>
                 t.inbox > 0 \/ OnWire(c, "data")' > 0
    BY <1>2 DEF BegunInv, Waiting
  <2>4. BegunInv(c)
    BY <1>1, <1>4 DEF ChannelInv
  <2> QED BY <1>7, <2>2, <2>3, <2>4 DEF BegunInv
<1>13. session' \in [Channels -> SessionType]
  <2>1. DOMAIN session' = Channels
    BY <1>1, <1>2
  <2>2. \A d \in Channels : session'[d] \in SessionType
    BY <1>1, <1>6, <1>7
  <2>3. session' = [d \in Channels |-> session'[d]]
    BY <1>1, <1>2
  <2> HIDE DEF s, t
  <2> QED BY <2>2, <2>3
<1>14. \A d \in Channels : ChannelInv(d)'
  BY <1>8, <1>10, <1>11, <1>12 DEF ChannelInv
<1> QED BY <1>3, <1>13, <1>14 DEF ConnectionInv, ChannelInv

LEMMA DeliverConnection ==
    ASSUME ConnectionInv, Deliver
    PROVE  ConnectionInv'
<1>1. wire # <<>> /\ wire \in Seq(Packets)
  BY DEF Deliver, ConnectionInv
<1>2. Head(wire) \in Packets
  BY <1>1
<1>3. PICK c \in Channels, what \in Kinds : Head(wire) = Packet(c, what)
  BY <1>2 DEF Packets, Packet
<1> QED BY <1>3, DeliverPacket

\* What a step of the goroutines of the channel c keeps.
Local(c) ==
    LET s == session[c]
        t == session'[c]
        a == client[c].at
        b == client'[c].at
    IN /\ t \in SessionType
       /\ client'[c].asked = client[c].asked
       /\ Times("sftp", t.queue) + Taken(t) <= Times("sftp", s.queue) + Taken(s)
       /\ b = "closed" <=> a = "closed"
       /\ t.eof = s.eof
       /\ t.answerer = "gone" => t.eof /\ t.queue = <<>>
       /\ t.handler = "over" => t.eof
       /\ b \notin {"new", "closed"} =>
             t.handler = "serve" \/ t.accepted = 1 \/ t.answerer = "send"
       /\ b \in Waiting => a \in Waiting /\ t.inbox = s.inbox

LEMMA LocalStep ==
    ASSUME ConnectionInv, NEW c \in Channels, wire' = wire, Local(c),
           DOMAIN session' = Channels,
           session' = [d \in Channels |-> session'[d]],
           \A d \in Channels \ {c} : session'[d] = session[d],
           \A d \in Channels \ {c} : client'[d] = client[d],
           client[c].asked \in Nat
    PROVE  ConnectionInv'
<1> DEFINE s == session[c]
           t == session'[c]
           a == client[c].at
           b == client'[c].at
<1>1. /\ wire \in Seq(Packets) /\ session \in [Channels -> SessionType]
      /\ \A d \in Channels : ChannelInv(d)
  BY DEF ConnectionInv, ChannelInv
<1>2. /\ t \in SessionType /\ s \in SessionType
      /\ client'[c].asked = client[c].asked
      /\ Times("sftp", t.queue) + Taken(t) <= Times("sftp", s.queue) + Taken(s)
      /\ b = "closed" <=> a = "closed"
      /\ t.eof = s.eof
      /\ t.answerer = "gone" => t.eof /\ t.queue = <<>>
      /\ t.handler = "over" => t.eof
      /\ b \notin {"new", "closed"} =>
            t.handler = "serve" \/ t.accepted = 1 \/ t.answerer = "send"
      /\ b \in Waiting => a \in Waiting /\ t.inbox = s.inbox
  BY <1>1 DEF Local
<1>3. ASSUME NEW d \in Channels
      PROVE  /\ \A x \in Kinds : OnWire(d, x)' = OnWire(d, x)
             /\ Silent(d)' <=> Silent(d)
             /\ CloseIsLast(d)' <=> CloseIsLast(d)
  BY SameWire
<1>4. ASSUME NEW d \in Channels, d # c PROVE ChannelInv(d)'
  BY <1>1, <1>3, <1>4, OtherChannel
<1>5. /\ OnWire(c, "sftp")' = OnWire(c, "sftp")
      /\ OnWire(c, "close")' = OnWire(c, "close")
      /\ OnWire(c, "data")' = OnWire(c, "data")
      /\ OnWire(c, "sftp") \in Nat
  BY <1>1, <1>3, SftpNumbers DEF Kinds
<1>6. SftpInv(c)'
  <2>1. OnWire(c, "sftp") + Times("sftp", s.queue) + Taken(s)
           <= client[c].asked
    BY <1>1 DEF ChannelInv, SftpInv
  <2>2. SftpInv(c)' <=>
           OnWire(c, "sftp")' + Times("sftp", t.queue) + Taken(t)
              <= client'[c].asked
    BY DEF SftpInv, Taken, One, Times
  <2>3. s.queue \in Seq({"sftp", "other"}) /\ t.queue \in Seq({"sftp", "other"})
        /\ s.accepted \in Nat /\ t.accepted \in Nat
    BY <1>2 DEF SessionType
  <2>4. Times("sftp", s.queue) \in Nat /\ Times("sftp", t.queue) \in Nat
    BY <2>3, TimesFacts
  <2> HIDE DEF s, t
  <2>5. Taken(s) \in Nat /\ Taken(t) \in Nat
    BY <2>3 DEF Taken, One
  <2> QED BY <1>2, <1>5, <2>1, <2>2, <2>4, <2>5
<1>7. CloseInv(c)'
  <2>1. CloseInv(c)' <=>
           /\ b = "closed" <=> (t.eof \/ OnWire(c, "close")' > 0)
           /\ t.eof => Silent(c)'
           /\ CloseIsLast(c)'
           /\ t.answerer = "gone" => t.eof /\ t.queue = <<>>
           /\ t.handler = "over" => t.eof
    BY DEF CloseInv
  <2>2. /\ a = "closed" <=> (s.eof \/ OnWire(c, "close") > 0)
        /\ s.eof => Silent(c)
        /\ CloseIsLast(c)
    BY <1>1 DEF ChannelInv, CloseInv
  <2> HIDE DEF a, b, s, t
  <2> QED BY <1>2, <1>3, <1>5, <2>1, <2>2
<1>8. BegunInv(c)'
  <2>1. BegunInv(c)' <=>
           /\ b \notin {"new", "closed"} =>
                 t.handler = "serve" \/ t.accepted = 1 \/ t.answerer = "send"
           /\ b \in Waiting => t.inbox > 0 \/ OnWire(c, "data")' > 0
    BY DEF BegunInv, Waiting
  <2>2. a \in Waiting => s.inbox > 0 \/ OnWire(c, "data") > 0
    BY <1>1 DEF ChannelInv, BegunInv
  <2> HIDE DEF a, b, s, t
  <2> QED BY <1>2, <1>5, <2>1, <2>2
<1>9. \A d \in Channels : ChannelInv(d)'
  BY <1>4, <1>6, <1>7, <1>8 DEF ChannelInv
<1>10. \A d \in Channels : session'[d] \in SessionType
  BY <1>1, <1>2
<1>11. session' \in [Channels -> SessionType]
  <2> HIDE DEF s, t
  <2> QED BY <1>10
<1> QED BY <1>1, <1>9, <1>11 DEF ConnectionInv, ChannelInv

\* The steps of the goroutines of the channel c.
LEMMA SessionConnection ==
    ASSUME ServeInv, ConnectionInv, NEW c \in Channels, SessionStep(c)
    PROVE  ConnectionInv'
<1> DEFINE s == session[c]
           t == session'[c]
           a == client[c].at
           b == client'[c].at
<1>1. /\ client \in [Channels -> ClientType] /\ client[c] \in ClientType
      /\ client[c].asked \in Nat
  BY DEF ServeInv, ClientType
<1>2. /\ wire \in Seq(Packets) /\ session \in [Channels -> SessionType]
      /\ s \in SessionType /\ SftpInv(c) /\ CloseInv(c) /\ BegunInv(c)
  BY DEF ConnectionInv
<1>3. /\ s.queue \in Seq({"sftp", "other"}) /\ s.accepted \in {0, 1}
      /\ s.inbox \in Nat
  BY <1>2 DEF SessionType
<1>4. Times("sftp", s.queue) \in Nat /\ Taken(s) \in Nat
  <2>1. Times("sftp", s.queue) \in Nat
    BY <1>3, TimesFacts
  <2> HIDE DEF s
  <2> QED BY <1>3, <2>1 DEF Taken, One
<1>5. wire' = wire /\ \E u : session' = [session EXCEPT ![c] = u]
  BY DEF SessionStep, Answer, Accept, AnswererEnds, Begin, ServeRequest,
         ServeEnds, Set
<1>6. /\ DOMAIN session' = Channels
      /\ session' = [d \in Channels |-> session'[d]]
      /\ \A d \in Channels \ {c} : session'[d] = session[d]
  BY <1>2, <1>5
<1>7. /\ a = "closed" <=> (s.eof \/ OnWire(c, "close") > 0)
      /\ s.eof \in BOOLEAN
      /\ s.answerer = "gone" => s.eof /\ s.queue = <<>>
      /\ s.handler = "over" => s.eof
      /\ a \notin {"new", "closed"} =>
            s.handler = "serve" \/ s.accepted = 1 \/ s.answerer = "send"
  BY <1>2 DEF CloseInv, BegunInv, SessionType
<1>8. ASSUME Answer(c)
      PROVE  Local(c) /\ \A d \in Channels \ {c} : client'[d] = client[d]
  <2>1. /\ s.answerer = "recv" /\ s.queue # <<>>
        /\ \/ /\ Head(s.queue) = "sftp"
              /\ t = [s EXCEPT !.queue = Tail(@), !.answerer = "send"]
           \/ /\ Head(s.queue) # "sftp"
              /\ t = [s EXCEPT !.queue = Tail(@)]
    BY <1>2, <1>8 DEF Answer, Set
  <2>2. /\ \A d \in Channels \ {c} : client'[d] = client[d]
        /\ client'[c].asked = client[c].asked
        /\ \/ b = a
           \/ a = "new" /\ b = "dir" /\ Head(s.queue) = "sftp"
    <3>1. \/ client' = client
          \/ /\ a = "new" /\ Head(s.queue) = "sftp"
             /\ client' = [client EXCEPT ![c] = [client[c] EXCEPT !.at = "dir"]]
      BY <1>8 DEF Answer, SetClient
    <3> QED BY <1>1, <3>1 DEF ClientType
  <2> HIDE DEF a, b, s, t
  <2>3. Tail(s.queue) \in Seq({"sftp", "other"})
    BY <1>3, <2>1
  <2>4. /\ t \in SessionType /\ t.queue = Tail(s.queue) /\ t.eof = s.eof
        /\ t.accepted = s.accepted /\ t.handler = s.handler
        /\ t.inbox = s.inbox
        /\ t.answerer = IF Head(s.queue) = "sftp" THEN "send" ELSE "recv"
    BY <1>2, <2>1, <2>3 DEF SessionType
  <2>5. Taken(t) = Taken(s) + One(Head(s.queue) = "sftp")
    BY <1>3, <2>1, <2>4 DEF Taken, One
  <2>6. Times("sftp", t.queue) + Taken(t) = Times("sftp", s.queue) + Taken(s)
    <3>1. Times("sftp", s.queue)
             = Times("sftp", Tail(s.queue)) + One(Head(s.queue) = "sftp")
      BY <1>3, <2>1, TimesTail
    <3>2. Times("sftp", Tail(s.queue)) \in Nat
      BY <2>3, TimesFacts
    <3>3. One(Head(s.queue) = "sftp") \in Nat
      BY DEF One
    <3> QED BY <1>4, <2>4, <2>5, <3>1, <3>2, <3>3
  <2>7. Times("sftp", t.queue) + Taken(t) <= Times("sftp", s.queue) + Taken(s)
    <3>1. Times("sftp", s.queue) + Taken(s) \in Nat
      BY <1>4
    <3> QED BY <2>6, <3>1
  <2>8. /\ b = "closed" <=> a = "closed"
        /\ t.answerer # "gone"
        /\ t.handler = "over" => t.eof
        /\ b \notin {"new", "closed"} =>
              t.handler = "serve" \/ t.accepted = 1 \/ t.answerer = "send"
        /\ b \in Waiting => a \in Waiting
    BY <1>7, <2>1, <2>2, <2>4 DEF Waiting
  <2> QED BY <2>2, <2>4, <2>7, <2>8 DEF Local, a, b, s, t
<1>9. ASSUME \/ Accept(c) \/ AnswererEnds(c) \/ Begin(c) \/ ServeEnds(c)
      PROVE  Local(c) /\ client' = client
  <2>1. client' = client
    BY <1>9 DEF Accept, AnswererEnds, Begin, ServeEnds
  <2>2. a = b /\ client'[c].asked = client[c].asked
    BY <2>1
  <2>3. \/ /\ s.answerer = "send" /\ s.accepted = 0
           /\ t = [s EXCEPT !.answerer = "recv", !.accepted = 1]
        \/ /\ s.answerer = "recv" /\ s.queue = <<>> /\ s.eof
           /\ t = [s EXCEPT !.answerer = "gone"]
        \/ /\ s.handler = "wait" /\ s.accepted = 1
           /\ t = [s EXCEPT !.accepted = 0, !.handler = "serve"]
        \/ /\ s.handler = "wait" /\ s.accepted # 1 /\ s.answerer = "gone"
           /\ t = [s EXCEPT !.handler = "over"]
        \/ /\ s.handler = "serve" /\ s.eof
           /\ t = [s EXCEPT !.handler = "over"]
    BY <1>2, <1>9
       DEF Accept, AnswererEnds, Begin, ServeEnds, Set, Room, AcceptedClosed
  <2> HIDE DEF a, b, s, t
  <2>4. /\ t \in SessionType /\ t.queue = s.queue /\ t.eof = s.eof
        /\ t.inbox = s.inbox
    BY <1>2, <2>3 DEF SessionType
  <2>5. Taken(t) <= Taken(s)
    <3>1. \/ /\ s.answerer = "send" /\ s.accepted = 0
             /\ t.answerer = "recv" /\ t.accepted = 1 /\ t.handler = s.handler
          \/ /\ s.answerer = "recv" /\ t.answerer = "gone"
             /\ t.accepted = s.accepted /\ t.handler = s.handler
          \/ /\ s.handler = "wait" /\ s.accepted = 1
             /\ t.accepted = 0 /\ t.handler = "serve"
             /\ t.answerer = s.answerer
          \/ /\ t.accepted = s.accepted /\ t.answerer = s.answerer
             /\ \/ s.handler = "wait" /\ s.answerer = "gone"
                \/ s.handler = "serve" /\ t.handler = "over"
      BY <1>2, <2>3 DEF SessionType
    <3> QED BY <1>3, <3>1 DEF Taken, One
  <2>6. Times("sftp", t.queue) + Taken(t) <= Times("sftp", s.queue) + Taken(s)
    <3>1. Taken(t) \in Nat
      <4>1. t.accepted \in {0, 1}
        BY <2>4 DEF SessionType
      <4> QED BY <4>1 DEF Taken, One
    <3> QED BY <1>4, <2>4, <2>5, <3>1
  <2>7. /\ t.answerer = "gone" => t.eof /\ t.queue = <<>>
        /\ t.handler = "over" => t.eof
    BY <1>2, <1>7, <2>3 DEF SessionType
  <2>8. b \notin {"new", "closed"} =>
           t.handler = "serve" \/ t.accepted = 1 \/ t.answerer = "send"
    BY <1>2, <1>7, <2>2, <2>3 DEF SessionType
  <2> QED BY <2>1, <2>2, <2>4, <2>6, <2>7, <2>8 DEF Local, a, b, s, t
<1>10. ASSUME ServeRequest(c)
       PROVE  Local(c) /\ \A d \in Channels \ {c} : client'[d] = client[d]
  <2>1. /\ s.handler = "serve" /\ s.inbox > 0
        /\ t = [s EXCEPT !.inbox = @ - 1]
    BY <1>2, <1>10 DEF ServeRequest, Set
  <2>2. /\ \A d \in Channels \ {c} : client'[d] = client[d]
        /\ client'[c].asked = client[c].asked
        /\ \/ a = "closed" /\ b = "closed"
           \/ a # "closed" /\ b \notin Waiting \cup {"new", "closed"}
    <3>1. CASE a = "closed"
      BY <1>10, <3>1 DEF ServeRequest
    <3>2. CASE a # "closed"
      <4>1. ServeList(c) \/ ServeStat(c) \/ ServeOpen(c) \/ ServeRead(c)
        BY <1>10, <3>2 DEF ServeRequest
      <4>2. ASSUME ServeList(c)
            PROVE  /\ \A d \in Channels \ {c} : client'[d] = client[d]
                   /\ client'[c].asked = client[c].asked
                   /\ b \in {"done", "chosen"}
        <5> DEFINE Set1(at) == [client[c] EXCEPT !.at = at]
                   Set2(at, e) == [client[c] EXCEPT !.at = at, !.entry = e]
        <5>1. \/ SetClient(c, Set1("done"))
              \/ \E e : SetClient(c, Set2("chosen", e))
          BY <4>2 DEF ServeList
        <5>2. /\ \A at : Set1(at).at = at /\ Set1(at).asked = client[c].asked
              /\ \A at, e : /\ Set2(at, e).at = at
                             /\ Set2(at, e).asked = client[c].asked
          BY <1>1 DEF ClientType
        <5> HIDE DEF Set1, Set2
        <5> QED BY <5>1, <5>2, ClientIsSet
      <4>3. ASSUME ServeStat(c)
            PROVE  /\ \A d \in Channels \ {c} : client'[d] = client[d]
                   /\ client'[c].asked = client[c].asked
                   /\ b \in {"seen", "found"}
        BY <1>1, <4>3 DEF ServeStat, SetClient, ClientType
      <4>4. ASSUME ServeOpen(c)
            PROVE  /\ \A d \in Channels \ {c} : client'[d] = client[d]
                   /\ client'[c].asked = client[c].asked
                   /\ b \in {"failed", "file"}
        BY <1>1, <4>4 DEF ServeOpen, SetClient, ClientType
      <4>5. ASSUME ServeRead(c)
            PROVE  /\ \A d \in Channels \ {c} : client'[d] = client[d]
                   /\ client'[c].asked = client[c].asked
                   /\ b \in {"done", "file"}
        BY <1>1, <4>5 DEF ServeRead, SetClient, ClientType
      <4> HIDE DEF a, b
      <4> QED BY <3>2, <4>1, <4>2, <4>3, <4>4, <4>5 DEF Waiting
    <3> QED BY <3>1, <3>2
  <2> HIDE DEF a, b, s, t
  <2>3. s.inbox - 1 \in Nat
    BY <1>3, <2>1
  <2>4. /\ t \in SessionType /\ t.queue = s.queue /\ t.eof = s.eof
        /\ t.accepted = s.accepted /\ t.handler = s.handler
        /\ t.answerer = s.answerer
    BY <1>2, <2>1, <2>3 DEF SessionType
  <2>5. Taken(t) = Taken(s)
    BY <2>4 DEF Taken
  <2>6. Times("sftp", t.queue) + Taken(t) <= Times("sftp", s.queue) + Taken(s)
    <3>1. Times("sftp", s.queue) + Taken(s) \in Nat
      BY <1>4
    <3> QED BY <2>4, <2>5, <3>1
  <2>7. b \notin Waiting
    BY <2>2 DEF Waiting
  <2> QED BY <1>7, <2>1, <2>2, <2>4, <2>6, <2>7 DEF Local, a, b, s, t
<1>11. Local(c) /\ \A d \in Channels \ {c} : client'[d] = client[d]
  BY <1>8, <1>9, <1>10 DEF SessionStep
<1> QED BY <1>1, <1>5, <1>6, <1>11, LocalStep

\* The beginning, and every step.
LEMMA ConnectionInit == Init => ConnectionInv
<1> SUFFICES ASSUME Init PROVE ConnectionInv
  OBVIOUS
<1>1. wire = <<>> /\ wire \in Seq(Packets) /\ DOMAIN wire = {}
  BY DEF Init
<1>2. /\ \A c \in Channels : session[c] = NewSession /\ client[c] = NewClient
      /\ session \in [Channels -> SessionType]
  BY DEF Init, NewSession, SessionType
<1>3. \A x : Times(x, <<>>) = 0
  BY TimesEmpty
<1>4. ASSUME NEW c \in Channels
      PROVE  SftpInv(c) /\ CloseInv(c) /\ BegunInv(c)
  <2>1. \A x : OnWire(c, x) = 0
    BY <1>1, <1>3 DEF OnWire
  <2>2. SftpInv(c)
    BY <1>2, <1>3, <2>1 DEF SftpInv, NewSession, NewClient, Taken, One
  <2>3. Silent(c) /\ CloseIsLast(c)
    BY <1>1 DEF Silent, CloseIsLast
  <2>4. CloseInv(c)
    BY <1>2, <2>1, <2>3 DEF CloseInv, NewSession, NewClient
  <2>5. BegunInv(c)
    BY <1>2 DEF BegunInv, NewClient, Waiting
  <2> QED BY <2>2, <2>4, <2>5
<1> QED BY <1>1, <1>2, <1>4 DEF ConnectionInv

LEMMA ConnectionStep ==
    ASSUME ServeInv, ConnectionInv, [Next]_vars
    PROVE  ConnectionInv'
<1>1. CASE \E c \in Channels : ClientStep(c) \/ SessionStep(c)
  BY <1>1, ClientConnection, SessionConnection
<1>2. CASE Deliver
  BY <1>2, DeliverConnection
<1>3. ASSUME wire' = wire, session' = session, client' = client
      PROVE  ConnectionInv'
  <2>1. ASSUME NEW c \in Channels PROVE ChannelInv(c)'
    <3>1. ChannelInv(c)
      BY DEF ConnectionInv, ChannelInv
    <3> QED BY <1>3, <3>1, SameWire, OtherChannel
  <2> QED BY <1>3, <2>1 DEF ConnectionInv, ChannelInv
<1>4. CASE (\E info \in Infos : Drops(info)) \/ UNCHANGED vars
  BY <1>3, <1>4 DEF Drops, vars
<1> QED BY <1>1, <1>2, <1>4 DEF Next

\* Before a channel whose queue is full the library waits for somebody.
LEMMA LibraryGoesOn ==
    ASSUME ConnectionInv, NEW c \in Channels, NEW what \in Kinds,
           wire # <<>>, Head(wire) = Packet(c, what), ~Overasked(c),
           client[c].asked \in Nat
    PROVE  CanDeliver \/ SessionCanStep(c)
<1> DEFINE s == session[c]
<1> SUFFICES ASSUME ~CanDeliver, ~SessionCanStep(c) PROVE FALSE
  OBVIOUS
<1>1. /\ wire \in Seq(Packets) /\ session \in [Channels -> SessionType]
      /\ s \in SessionType /\ SftpInv(c) /\ CloseInv(c)
  BY DEF ConnectionInv
<1>2. what \in {"sftp", "other"} /\ ~(Len(s.queue) < QueueCap)
  BY DEF CanDeliver, Packet
<1>3. s.queue # <<>>
  <2>1. Len(<<>>) = 0 /\ QueueCap \in Nat \ {0}
    BY ServeAssumption
  <2> QED BY <1>2, <2>1
<1>4. s.answerer # "recv" /\ s.answerer # "gone"
  BY <1>1, <1>3 DEF SessionCanStep, CloseInv
<1>5. s.answerer = "send" /\ s.accepted = 1 /\ s.handler # "wait"
  BY <1>1, <1>4 DEF SessionCanStep, SessionType, Room
<1>6. Taken(s) = 3
  <2> HIDE DEF s
  <2> QED BY <1>5 DEF Taken, One
<1>7. /\ OnWire(c, "sftp") + Times("sftp", s.queue) + Taken(s)
            <= client[c].asked
      /\ OnWire(c, "sftp") \in Nat /\ Times("sftp", s.queue) \in Nat
  BY <1>1, SftpNumbers DEF SftpInv, Kinds
<1>8. client[c].asked <= 2
  BY DEF Overasked
<1> HIDE DEF s
<1> QED BY <1>6, <1>7, <1>8

\* Whoever waits for an answer has somebody at work.
LEMMA WaitingGoesOn ==
    ASSUME ServeInv, ConnectionInv, NEW c \in Channels,
           client[c].at \in Waiting, wire = <<>>
    PROVE  SessionCanStep(c)
<1> DEFINE s == session[c]
           cl == client[c]
<1>1. /\ s \in SessionType /\ CloseInv(c) /\ BegunInv(c)
  BY DEF ConnectionInv
<1>2. OnWire(c, "data") = 0
  BY TimesEmpty DEF OnWire
<1>3. s.inbox > 0
  BY <1>1, <1>2 DEF BegunInv
<1>4. s.handler = "serve" \/ s.accepted = 1 \/ s.answerer = "send"
  BY <1>1 DEF BegunInv, Waiting
<1>5. cl.at = "read" => cl.open # {}
  BY DEF ServeInv, StageInv
<1>6. s.handler # "over"
  BY <1>1 DEF CloseInv, Waiting
<1> QED
  BY <1>1, <1>3, <1>4, <1>5, <1>6
     DEF SessionCanStep, SessionType, Waiting, Room

\* The goroutines of a channel that was closed go on to their end.
LEMMA ClosedGoesOn ==
    ASSUME ServeInv, ConnectionInv, NEW c \in Channels,
           client[c].at = "closed", ~Overasked(c), wire = <<>>
    PROVE  \/ SessionCanStep(c)
           \/ session[c].answerer = "gone" /\ session[c].handler = "over"
<1> DEFINE s == session[c]
<1> SUFFICES ASSUME ~SessionCanStep(c)
             PROVE  s.answerer = "gone" /\ s.handler = "over"
  OBVIOUS
<1>1. /\ wire \in Seq(Packets) /\ session \in [Channels -> SessionType]
      /\ s \in SessionType /\ SftpInv(c) /\ CloseInv(c)
  BY DEF ConnectionInv
<1>2. s.eof
  <2>1. OnWire(c, "close") = 0
    BY TimesEmpty DEF OnWire
  <2> QED BY <1>1, <2>1 DEF CloseInv
<1>3. s.answerer # "recv" /\ s.handler # "wait"
  BY <1>1, <1>2 DEF SessionCanStep, SessionType, Room, AcceptedClosed
<1>4. s.handler # "serve"
  <2>1. s.inbox \in Nat
    BY <1>1 DEF SessionType
  <2>2. s.inbox = 0 \/ s.inbox > 0
    BY <2>1
  <2> QED BY <1>2, <2>2 DEF SessionCanStep
<1>5. s.handler = "over"
  BY <1>1, <1>3, <1>4 DEF SessionType
<1>6. ASSUME s.answerer = "send" PROVE FALSE
  <2>1. s.accepted = 1
    BY <1>1, <1>6 DEF SessionCanStep, SessionType, Room
  <2>2. Taken(s) = 3
    <3> HIDE DEF s
    <3> QED BY <1>5, <1>6, <2>1 DEF Taken, One
  <2>3. /\ OnWire(c, "sftp") + Times("sftp", s.queue) + Taken(s)
              <= client[c].asked
        /\ OnWire(c, "sftp") \in Nat /\ Times("sftp", s.queue) \in Nat
    BY <1>1, SftpNumbers DEF SftpInv, Kinds
  <2>4. client[c].asked \in Nat /\ client[c].asked <= 2
    <3>1. client[c] \in ClientType
      BY DEF ServeInv
    <3>2. client[c].asked \in Nat
      BY <3>1 DEF ClientType
    <3> QED BY <3>2 DEF Overasked
  <2> HIDE DEF s
  <2> QED BY <2>2, <2>3, <2>4
<1> QED BY <1>1, <1>3, <1>5, <1>6 DEF SessionType

LEMMA ConnectionGoesOn ==
    ASSUME ServeInv, ConnectionInv
    PROVE  ServeNeverStuck
<1>1. ASSUME wire # <<>>, ~Overasked(Head(wire).on)
      PROVE  CanDeliver \/ SessionCanStep(Head(wire).on)
  <2>1. Head(wire) \in Packets
    BY <1>1 DEF ConnectionInv
  <2>2. PICK c \in Channels, what \in Kinds : Head(wire) = Packet(c, what)
    BY <2>1 DEF Packets, Packet
  <2>3. Head(wire).on = c
    BY <2>2 DEF Packet
  <2>4. client[c].asked \in Nat
    <3>1. client[c] \in ClientType
      BY DEF ServeInv
    <3> QED BY <3>1 DEF ClientType
  <2>5. ~Overasked(c)
    BY <1>1, <2>3
  <2>6. CanDeliver \/ SessionCanStep(c)
    BY <1>1, <2>2, <2>4, <2>5, LibraryGoesOn
  <2> QED BY <2>3, <2>6
<1>2. ASSUME NEW c \in Channels, client[c].at \in Waiting
      PROVE  SessionCanStep(c) \/ wire # <<>>
  BY <1>2, WaitingGoesOn
<1>3. ASSUME NEW c \in Channels, client[c].at = "closed", ~Overasked(c)
      PROVE  \/ SessionCanStep(c) \/ wire # <<>>
             \/ session[c].answerer = "gone" /\ session[c].handler = "over"
  BY <1>3, ClosedGoesOn
<1> QED BY <1>1, <1>2, <1>3 DEF ServeNeverStuck

\* serve.go:145-225: what is known of the packets of a connection, of the
\* requests for sftp and of the ends of its goroutines, of any number of
\* channels and with any queue.
THEOREM ServeConnection == Spec => []ConnectionInv
<1>1. ServeInv /\ ConnectionInv /\ [Next]_vars => ConnectionInv'
  BY ConnectionStep
<1> QED BY <1>1, ConnectionInit, ServeInvariant, PTL DEF Spec

\* serve.go:184-212: while a channel is not asked for sftp a third time, no
\* queue stops the connection for good, no request for a file is forgotten,
\* and both goroutines of a closed channel get to their end.
THEOREM ServeGoesOn == Spec => []ServeNeverStuck
<1>1. ServeInv /\ ConnectionInv => ServeNeverStuck
  BY ConnectionGoesOn
<1> QED BY <1>1, ServeConnection, ServeInvariant, PTL
=============================================================================
