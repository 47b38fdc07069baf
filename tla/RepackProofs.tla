---------------------------- MODULE RepackProofs ----------------------------
(* Theorems about Repack, for every value of its constants. *)
EXTENDS Repack, LruFacts, FiniteSetTheorems

-----------------------------------------------------------------------------
(* Layouts *)

\* A quotient is rounded down.
LEMMA Quotient ==
    ASSUME NEW a \in Nat, NEW n \in Nat \ {0}
    PROVE  a \div n \in Nat /\ (a \div n) * n <= a /\ a < (a \div n) * n + n
OBVIOUS

\* Products grow with their factor, and only with it.
LEMMA Product ==
    ASSUME NEW a \in Int, NEW b \in Int, NEW n \in Nat \ {0}
    PROVE  /\ a <= b => a * n <= b * n
           /\ a * n < b * n => a < b
OBVIOUS

\* A part of a sequence, element by element.
LEMMA PartOf ==
    ASSUME NEW K, NEW s \in Seq(K), NEW a \in Nat, NEW b \in 0 .. Len(s),
           a <= b
    PROVE  LET t == SubSeq(s, a + 1, b)
           IN /\ t \in Seq(K) /\ Len(t) = b - a
              /\ \A j \in 1 .. b - a : t[j] = s[a + j]
OBVIOUS

\* Two sequences with the same elements are the same.
LEMMA SameElements ==
    ASSUME NEW K, NEW s \in Seq(K), NEW t \in Seq(K), Len(s) = Len(t),
           \A i \in 1 .. Len(s) : s[i] = t[i]
    PROVE  s = t
OBVIOUS

\* The pieces of a layout are the content cut every n bytes, the last one
\* where the content ends; none of them is empty.
LEMMA LayoutFacts ==
    ASSUME NEW n \in Nat \ {0}
    PROVE  LET L == Layout(n)
               N == Len(Content)
           IN /\ L \in Seq(Seq(Nat)) /\ Len(L) \in Nat
              /\ N <= Len(L) * n /\ Len(L) * n < N + n
              /\ \A i \in 1 .. Len(L) :
                    /\ L[i] \in Seq(Nat) /\ Len(L[i]) > 0
                    /\ Len(L[i]) = LeastOf(i * n, N) - (i - 1) * n
                    /\ \A j \in 1 .. Len(L[i]) :
                          L[i][j] = Content[(i - 1) * n + j]
<1> DEFINE L == Layout(n)
           N == Len(Content)
           C == (N + n - 1) \div n
<1>1. N \in Nat /\ Content \in Seq(Nat)
  BY RepackAssumption
<1>2. C \in Nat /\ N <= C * n /\ C * n < N + n
  <2>1. N + n - 1 \in Nat
    BY <1>1
  <2>2. /\ C \in Nat /\ C * n <= N + n - 1 /\ N + n - 1 < C * n + n
    BY <2>1, Quotient
  <2> HIDE DEF C
  <2>3. C * n \in Nat
    BY <2>2
  <2> QED BY <1>1, <2>2, <2>3
<1>3. L = [i \in 1 .. C |-> SubSeq(Content, (i - 1) * n + 1,
                                   LeastOf(i * n, N))]
  BY DEF Layout
<1> HIDE DEF L, C, N
<1>4. ASSUME NEW i \in 1 .. C
      PROVE  /\ L[i] \in Seq(Nat) /\ Len(L[i]) > 0
             /\ Len(L[i]) = LeastOf(i * n, N) - (i - 1) * n
             /\ \A j \in 1 .. Len(L[i]) : L[i][j] = Content[(i - 1) * n + j]
  <2> DEFINE a == (i - 1) * n
             b == LeastOf(i * n, N)
  <2>1. a \in Nat /\ i * n = a + n /\ i * n \in Nat
    BY <1>2
  <2>2. i * n <= C * n
    BY <1>2, Product
  <2>3. C * n \in Nat
    BY <1>2
  <2>4. a < b /\ b \in 0 .. N
    <3> HIDE DEF a
    <3> QED BY <1>1, <1>2, <2>1, <2>2, <2>3 DEF LeastOf
  <2>5. L[i] = SubSeq(Content, a + 1, b)
    BY <1>3
  <2> HIDE DEF a, b
  <2>6. a <= b
    BY <1>1, <2>1, <2>4
  <2>7. /\ SubSeq(Content, a + 1, b) \in Seq(Nat)
        /\ Len(SubSeq(Content, a + 1, b)) = b - a
        /\ \A j \in 1 .. b - a : SubSeq(Content, a + 1, b)[j] = Content[a + j]
    BY <1>1, <2>1, <2>4, <2>6, PartOf DEF N
  <2>8. /\ L[i] \in Seq(Nat) /\ Len(L[i]) = b - a /\ b - a > 0
        /\ \A j \in 1 .. b - a : L[i][j] = Content[a + j]
    BY <1>1, <2>1, <2>4, <2>5, <2>7
  <2> QED BY <2>8 DEF a, b
<1>5. L \in Seq(Seq(Nat)) /\ Len(L) = C
  <2>1. L \in [1 .. C -> Seq(Nat)]
    BY <1>3, <1>4
  <2> QED BY <1>2, <2>1
<1> QED BY <1>2, <1>4, <1>5 DEF L, N

\* The source is such a layout, and its hashes are finitely many.
LEMMA SourceFacts ==
    /\ Len(Content) \in Nat /\ Content \in Seq(Nat)
    /\ Source \in Seq(Seq(Nat)) /\ Len(Source) \in Nat
    /\ Len(Content) <= Len(Source) * OldLen
    /\ Len(Source) * OldLen < Len(Content) + OldLen
    /\ SourceHashes = {Source[i] : i \in 1 .. Len(Source)}
    /\ SourceHashes \subseteq Seq(Nat)
    /\ IsFiniteSet(SourceHashes)
<1>1. /\ Source \in Seq(Seq(Nat)) /\ Len(Source) \in Nat
      /\ Len(Content) <= Len(Source) * OldLen
      /\ Len(Source) * OldLen < Len(Content) + OldLen
  BY RepackAssumption, LayoutFacts DEF Source
<1>2. SourceHashes = {Source[i] : i \in 1 .. Len(Source)}
  <2>1. DOMAIN Source = 1 .. Len(Source)
    BY <1>1
  <2> QED BY <2>1 DEF SourceHashes, Elements
<1> HIDE DEF Source
<1>3. SourceHashes \subseteq Seq(Nat)
  BY <1>1, <1>2
<1>4. IsFiniteSet(SourceHashes)
  <2>1. IsFiniteSet(1 .. Len(Source))
    BY <1>1, FS_Interval
  <2>2. Source \in [1 .. Len(Source) -> Seq(Nat)]
    BY <1>1
  <2>3. Source \in Surjection(1 .. Len(Source), SourceHashes)
    BY <1>2, <2>2 DEF Surjection
  <2> QED BY <2>1, <2>3, FS_Surjection
<1> QED BY <1>1, <1>2, <1>3, <1>4, RepackAssumption

\* A piece of the source: where it is in the content.
LEMMA PieceFacts ==
    ASSUME NEW i \in 1 .. Len(Source)
    PROVE  /\ Source[i] \in SourceHashes /\ Source[i] \in Seq(Nat)
           /\ Source[i] # <<>> /\ Len(Source[i]) > 0 /\ Len(Source[i]) \in Nat
           /\ (i - 1) * OldLen + Len(Source[i])
                = LeastOf(i * OldLen, Len(Content))
           /\ (i - 1) * OldLen \in Nat /\ i * OldLen = (i - 1) * OldLen + OldLen
           /\ (i - 1) * OldLen + Len(Source[i]) <= Len(Content)
           /\ \A j \in 1 .. Len(Source[i]) :
                Source[i][j] = Content[(i - 1) * OldLen + j]
<1>1. /\ Source[i] \in Seq(Nat) /\ Len(Source[i]) > 0
      /\ Len(Source[i]) = LeastOf(i * OldLen, Len(Content)) - (i - 1) * OldLen
      /\ \A j \in 1 .. Len(Source[i]) :
            Source[i][j] = Content[(i - 1) * OldLen + j]
  BY RepackAssumption, LayoutFacts DEF Source
<1>2. (i - 1) * OldLen \in Nat /\ i * OldLen = (i - 1) * OldLen + OldLen
  BY RepackAssumption, SourceFacts
<1>3. Source[i] \in SourceHashes /\ Len(Content) \in Nat
  BY SourceFacts
<1> HIDE DEF Source
<1>4. Len(Source[i]) \in Nat /\ Source[i] # <<>>
  BY <1>1
<1>5. LeastOf(i * OldLen, Len(Content)) \in Nat
      /\ LeastOf(i * OldLen, Len(Content)) <= Len(Content)
  BY <1>2, <1>3, RepackAssumption DEF LeastOf
<1> DEFINE a == (i - 1) * OldLen
           l == Len(Source[i])
           e == LeastOf(i * OldLen, Len(Content))
<1>6. a \in Nat /\ l \in Nat /\ e \in Nat /\ l = e - a /\ e <= Len(Content)
  BY <1>1, <1>2, <1>4, <1>5
<1> HIDE DEF a, l, e
<1>7. a + l = e /\ a + l <= Len(Content)
  BY <1>3, <1>6
<1> QED BY <1>1, <1>2, <1>3, <1>4, <1>5, <1>7 DEF a, l, e

-----------------------------------------------------------------------------
(* The cache *)

\* A hit reorders the list.
LEMMA CacheGetStep ==
    ASSUME CacheInv, NEW h \in Elements(ll), CacheGet(h)
    PROVE  CacheInv' /\ Elements(ll') = Elements(ll)
<1>1. ll \in Seq(SourceHashes) /\ NoRepeats(ll)
  BY DEF CacheInv
<1>2. /\ MoveToFront(ll, h) \in Seq(SourceHashes)
      /\ NoRepeats(MoveToFront(ll, h))
      /\ Elements(MoveToFront(ll, h)) = Elements(ll)
  BY <1>1, MoveToFrontFacts
<1> QED BY <1>2 DEF CacheGet, CacheInv

\* The bytes of a piece are put under its hash; with room for every piece
\* none is pushed out.
LEMMA CachePutStep ==
    ASSUME CacheInv, flags.cap \in Int, NEW h \in SourceHashes,
           CachePut(h, h)
    PROVE  /\ CacheInv'
           /\ Cardinality(SourceHashes) <= flags.cap =>
                Elements(ll') = Elements(ll) \cup {h}
<1>1. ll \in Seq(SourceHashes) /\ NoRepeats(ll)
  BY DEF CacheInv
<1> DEFINE t == PutFront(ll, h, flags.cap)
<1>2. /\ t \in Seq(SourceHashes) /\ NoRepeats(t)
      /\ Elements(t) \subseteq Elements(ll) \cup {h}
      /\ h \in Elements(ll) \/ Len(ll) + 1 <= flags.cap
            => Elements(t) = Elements(ll) \cup {h}
  BY <1>1, PutFrontFacts
<1>3. Cardinality(SourceHashes) <= flags.cap /\ h \notin Elements(ll)
        => Len(ll) + 1 <= flags.cap
  BY <1>1, SourceFacts, RoomForOneMore
<1> HIDE DEF t
<1>4. ll' = t /\ m' = [k \in Elements(ll') |-> IF k = h THEN h ELSE m[k]]
  BY DEF CachePut, t
<1>5. \A k \in Elements(t) : m'[k] = k
  BY <1>2, <1>4 DEF CacheInv
<1> QED BY <1>2, <1>3, <1>4, <1>5 DEF CacheInv

-----------------------------------------------------------------------------
(* The bucket *)

\* Uploads that land leave the CAS right and take nothing away.
LEMMA WrittenStep ==
    ASSUME CasInv, UploadsInv, NEW K \in SUBSET DOMAIN uploads,
           \A k \in DOMAIN uploads : uploads[k].key = uploads[k].chunk,
           cas' = Written(K, Chunks)
    PROVE  /\ CasInv' /\ DOMAIN cas \subseteq DOMAIN cas'
           /\ DOMAIN cas' = DOMAIN cas \cup {uploads[k].key : k \in K}
<1>1. DOMAIN cas' = DOMAIN cas \cup {uploads[k].key : k \in K}
  BY DEF Written
<1>2. ASSUME NEW key \in DOMAIN cas' PROVE cas'[key] = key
  <2>1. CASE \E k \in K : uploads[k].key = key
    <3> DEFINE k == CHOOSE k \in K : uploads[k].key = key
    <3>1. k \in K /\ uploads[k].key = key
      BY <2>1
    <3>2. cas'[key] = Chunks[k]
      BY <1>1, <2>1 DEF Written
    <3> QED BY <3>1, <3>2 DEF Chunks
  <2>2. CASE ~\E k \in K : uploads[k].key = key
    BY <1>1, <2>2 DEF Written, CasInv, KeysAddressBytes
  <2> QED BY <2>1, <2>2
<1> QED BY <1>1, <1>2 DEF CasInv, KeysAddressBytes

\* What is published stays readable while the CAS grows.
LEMMA PublishedStep ==
    ASSUME PublishedInv, DOMAIN cas \subseteq DOMAIN cas',
           published' = published
    PROVE  PublishedInv'
BY DEF PublishedInv

\* The memory of a process that has not begun, or is gone.
LEMMA FreshStep ==
    ASSUME NEW at \in {"read", "done", "dead"}, NEW n \in NewLens, Fresh(at, n)
    PROVE  /\ main' \in Mains /\ main'.at = at /\ NewLen' = n
           /\ StreamInv' /\ ChunksInv' /\ UploadsInv' /\ CacheInv'
           /\ uploads' \in Seq(Uploads) /\ spawned' \subseteq 1 .. Len(Source)
           /\ flight' \in [SourceHashes -> Calls \cup {NoCall}]
<1>1. n \in Nat \ {0} /\ OldLen \in Nat \ {0}
  BY RepackAssumption
<1>2. Len(Layout(n)) \in Nat
  BY <1>1, LayoutFacts
<1> DEFINE b == [i \in 1 .. n |-> 0]
<1>3. b \in Seq(Nat) /\ Len(b) = n
  <2>1. b \in [1 .. n -> Nat]
    OBVIOUS
  <2> QED BY <1>1, <2>1
<1> HIDE DEF b
<1>4. main' = [at |-> at, cur |-> 1, pos |-> 0, piece |-> <<>>, buf |-> b,
               n |-> 0, newPieces |-> <<>>, bytesRead |-> 0]
  BY DEF Fresh, b
<1>5. main' \in Mains /\ main'.at = at
  BY <1>3, <1>4 DEF Mains
<1>6. Len(main'.buf) = n
  BY <1>3, <1>4
<1>7. StreamInv'
  <2>1. 0 = LeastOf((1 - 1) * OldLen, Len(Content))
    BY <1>1, SourceFacts DEF LeastOf
  <2>2. 1 \in 1 .. Len(Source) + 1
    BY SourceFacts
  <2>3. /\ main'.cur = 1 /\ main'.piece = <<>> /\ main'.n = 0
        /\ main'.bytesRead = 0 /\ main'.at = at
    BY <1>4
  <2> QED BY <1>1, <1>6, <2>1, <2>2, <2>3 DEF StreamInv, NewLen
<1>8. ChunksInv'
  BY <1>1, <1>2, <1>4, <1>6 DEF ChunksInv, NewLen, Fresh
<1>9. CacheInv'
  BY DEF Fresh, CacheInv, NoRepeats, Elements
<1>10. /\ uploads' = <<>> /\ spawned' = {}
       /\ flight' = [h \in SourceHashes |-> NoCall]
  BY DEF Fresh
<1>11. UploadsInv' /\ uploads' \in Seq(Uploads)
  BY <1>10 DEF UploadsInv
<1> QED BY <1>5, <1>6, <1>7, <1>8, <1>9, <1>10, <1>11 DEF NewLen

-----------------------------------------------------------------------------
(* The beginning and the end of a process *)

\* A process that is not at rest has a stream and chunks.
LEMMA Running ==
    ASSUME RepackInv, main.at # "none"
    PROVE  /\ main \in Mains /\ StreamInv /\ ChunksInv
           /\ NewLen \in Nat \ {0} /\ NewLen \in NewLens
           /\ Len(Layout(NewLen)) \in Nat
           /\ \A k \in DOMAIN uploads :
                /\ uploads[k].key = uploads[k].chunk
                /\ uploads[k].key \in Elements(Layout(NewLen))
<1>1. main \in Mains /\ StreamInv /\ ChunksInv
  BY DEF RepackInv, TypeOK
<1>2. NewLen \in NewLens /\ NewLen \in Nat \ {0}
  BY <1>1, RepackAssumption DEF StreamInv
<1> DEFINE L == Layout(NewLen)
<1>3. L \in Seq(Seq(Nat)) /\ Len(L) \in Nat
  BY <1>2, LayoutFacts
<1> HIDE DEF L
<1>4. ASSUME NEW k \in DOMAIN uploads
      PROVE  uploads[k].key = uploads[k].chunk /\ uploads[k].key \in Elements(L)
  <2>1. /\ uploads[k].key = main.newPieces[k]
        /\ uploads[k].chunk = main.newPieces[k]
        /\ Len(uploads) = Len(main.newPieces) /\ Len(main.newPieces) <= Len(L)
        /\ \A i \in DOMAIN main.newPieces : main.newPieces[i] = L[i]
    BY <1>1 DEF ChunksInv, L
  <2>2. uploads \in Seq(Uploads) /\ main.newPieces \in Seq(Seq(Nat))
    BY <1>1 DEF RepackInv, TypeOK, Mains
  <2>3. k \in DOMAIN main.newPieces /\ k \in DOMAIN L
    BY <2>1, <2>2, <1>3
  <2> QED BY <2>1, <2>3 DEF Elements
<1> QED BY <1>1, <1>2, <1>3, <1>4 DEF L

LEMMA StartStep ==
    ASSUME RepackInv, NEW n \in NewLens, Start(n)
    PROVE  RepackInv'
<1>1. Fresh("read", n) /\ faults' = 0 /\ UNCHANGED <<cas, published, flags>>
  BY DEF Start, bucketVars
<1>2. /\ main' \in Mains /\ main'.at = "read" /\ NewLen' = n
      /\ StreamInv' /\ ChunksInv' /\ UploadsInv' /\ CacheInv'
      /\ uploads' \in Seq(Uploads) /\ spawned' \subseteq 1 .. Len(Source)
      /\ flight' \in [SourceHashes -> Calls \cup {NoCall}]
  BY <1>1, FreshStep
<1>3. TypeOK'
  BY <1>1, <1>2, RepackAssumption DEF RepackInv, TypeOK
<1>4. CasInv' /\ PublishedInv'
  BY <1>1 DEF RepackInv, CasInv, KeysAddressBytes, PublishedInv
<1>5. CauseInv'
  BY <1>2 DEF CauseInv
<1> QED BY <1>2, <1>3, <1>4, <1>5 DEF RepackInv

\* What is left when a process ends: what it stored, and nothing else.
LEMMA EndsStep ==
    ASSUME RepackInv, ~Resting, NEW at \in {"done", "dead"}, ProcessEnds(at),
           flags' = flags, faults' \in 0 .. MaxFaults
    PROVE  /\ TypeOK' /\ CasInv' /\ CacheInv' /\ UploadsInv'
           /\ StreamInv' /\ ChunksInv' /\ main'.at = at
           /\ DOMAIN cas \subseteq DOMAIN cas' /\ NewLen' = NewLen
           /\ Drained => DOMAIN cas' = DOMAIN cas
<1>1. main.at # "none"
  BY DEF Resting
<1>2. /\ NewLen \in NewLens
      /\ \A k \in DOMAIN uploads : uploads[k].key = uploads[k].chunk
  BY <1>1, Running
<1>3. PICK K \in SUBSET {k \in DOMAIN uploads : uploads[k].at = "put"} :
        cas' = Written(K, Chunks)
  BY DEF ProcessEnds
<1>4. CasInv /\ UploadsInv /\ K \in SUBSET DOMAIN uploads
  BY <1>3 DEF RepackInv
<1>5. /\ CasInv' /\ DOMAIN cas \subseteq DOMAIN cas'
      /\ DOMAIN cas' = DOMAIN cas \cup {uploads[k].key : k \in K}
  BY <1>2, <1>3, <1>4, WrittenStep
<1>6. /\ main' \in Mains /\ main'.at = at /\ NewLen' = NewLen
      /\ StreamInv' /\ ChunksInv' /\ UploadsInv' /\ CacheInv'
      /\ uploads' \in Seq(Uploads) /\ spawned' \subseteq 1 .. Len(Source)
      /\ flight' \in [SourceHashes -> Calls \cup {NoCall}]
  <2>1. Fresh(at, NewLen)
    BY DEF ProcessEnds
  <2> HIDE DEF NewLen
  <2>2. ASSUME NEW n \in NewLens, n = NewLen
        PROVE  /\ main' \in Mains /\ main'.at = at /\ NewLen' = n
               /\ StreamInv' /\ ChunksInv' /\ UploadsInv' /\ CacheInv'
               /\ uploads' \in Seq(Uploads)
               /\ spawned' \subseteq 1 .. Len(Source)
               /\ flight' \in [SourceHashes -> Calls \cup {NoCall}]
    <3>1. Fresh(at, n)
      BY <2>1, <2>2
    <3> QED BY <3>1, FreshStep
  <2> QED BY <1>2, <2>2
<1>7. TypeOK'
  BY <1>6 DEF RepackInv, TypeOK
<1>8. Drained => K = {}
  BY <1>3 DEF Drained
<1> QED BY <1>5, <1>6, <1>7, <1>8

\* Killed, a request that throws, or a piece that is not in the cache: the
\* last only if something pushed it out.
LEMMA DeathStep ==
    ASSUME RepackInv, Missing \/ Dies
    PROVE  RepackInv'
<1>1. /\ ~Resting /\ ProcessEnds("dead") /\ flags' = flags
      /\ published' = published
  BY DEF Missing, Dies, Resting
<1>2. faults' \in 0 .. MaxFaults
  BY RepackAssumption DEF Missing, Dies, Fault, RepackInv, TypeOK
<1>3. /\ TypeOK' /\ CasInv' /\ CacheInv' /\ UploadsInv'
      /\ StreamInv' /\ ChunksInv' /\ main'.at = "dead"
      /\ DOMAIN cas \subseteq DOMAIN cas'
  BY <1>1, <1>2, EndsStep
<1>4. PublishedInv'
  BY <1>1, <1>3, PublishedStep DEF RepackInv
<1>5. CauseInv'
  <2>1. CASE Missing
    BY <1>1, <2>1 DEF Missing, RepackInv, CauseInv
  <2>2. CASE Dies
    BY <2>2, RepackAssumption DEF Dies, Fault, RepackInv, TypeOK, CauseInv
  <2> QED BY <2>1, <2>2
<1> QED BY <1>3, <1>4, <1>5 DEF RepackInv

\* The chunks of a stream that has ended are the layout, and all of them are
\* in the CAS when their uploads are done.
LEMMA DrainedFacts ==
    ASSUME RepackInv, Drained
    PROVE  /\ main.newPieces = Layout(NewLen)
           /\ main.bytesRead = Len(Content)
           /\ Elements(Layout(NewLen)) = {uploads[k].key : k \in DOMAIN uploads}
           /\ Elements(Layout(NewLen)) \subseteq DOMAIN cas
<1>1. /\ main \in Mains /\ ChunksInv /\ NewLen \in Nat \ {0}
      /\ main.at = "drain" /\ uploads \in Seq(Uploads) /\ UploadsInv
  BY Running DEF Drained, RepackInv, TypeOK
<1> DEFINE L == Layout(NewLen)
<1>2. L \in Seq(Seq(Nat)) /\ main.newPieces \in Seq(Seq(Nat))
  BY <1>1, LayoutFacts DEF Mains
<1>3. /\ Len(main.newPieces) = Len(L) /\ Len(uploads) = Len(L)
      /\ \A i \in DOMAIN main.newPieces : main.newPieces[i] = L[i]
      /\ \A k \in DOMAIN uploads : uploads[k].key = main.newPieces[k]
      /\ main.bytesRead = Len(Content)
  BY <1>1 DEF ChunksInv
<1> HIDE DEF L
<1>4. main.newPieces = L
  <2>1. DOMAIN main.newPieces = 1 .. Len(main.newPieces)
    BY <1>2
  <2>2. \A i \in 1 .. Len(main.newPieces) : main.newPieces[i] = L[i]
    BY <1>3, <2>1
  <2> QED BY <1>2, <1>3, <2>2, SameElements
<1>5. DOMAIN uploads = DOMAIN L /\ \A k \in DOMAIN L : uploads[k].key = L[k]
  BY <1>1, <1>2, <1>3, <1>4
<1>6. Elements(L) = {uploads[k].key : k \in DOMAIN uploads}
  BY <1>5 DEF Elements
<1>7. \A k \in DOMAIN uploads : uploads[k].key \in DOMAIN cas
  BY <1>1 DEF Drained, UploadsInv
<1> QED BY <1>3, <1>4, <1>6, <1>7 DEF L

LEMMA PublishStep ==
    ASSUME RepackInv, Publish
    PROVE  RepackInv'
<1>1. ~Resting /\ Drained /\ flags' = flags /\ faults' = faults
  BY DEF Publish, Drained, Resting
<1>2. /\ main.newPieces = Layout(NewLen)
      /\ Elements(Layout(NewLen)) \subseteq DOMAIN cas
  BY <1>1, DrainedFacts
<1>3. /\ ProcessEnds("done")
      /\ published' \subseteq published \cup {[len |-> NewLen,
                                               pieces |-> Layout(NewLen)]}
  BY <1>1, <1>2, DrainedFacts DEF Publish
<1>4. faults' \in 0 .. MaxFaults /\ NewLen \in NewLens
  BY <1>1, Running DEF RepackInv, TypeOK, Resting
<1>5. /\ TypeOK' /\ CasInv' /\ CacheInv' /\ UploadsInv'
      /\ StreamInv' /\ ChunksInv' /\ main'.at = "done"
      /\ DOMAIN cas \subseteq DOMAIN cas'
  BY <1>1, <1>3, <1>4, EndsStep
<1>6. PublishedInv'
  <2> SUFFICES ASSUME NEW t \in published'
               PROVE  /\ t.len \in NewLens /\ t.pieces = Layout(t.len)
                      /\ Elements(Layout(t.len)) \subseteq DOMAIN cas'
    BY DEF PublishedInv
  <2>1. CASE t \in published
    BY <1>5, <2>1 DEF RepackInv, PublishedInv
  <2>2. CASE t = [len |-> NewLen, pieces |-> Layout(NewLen)]
    BY <1>2, <1>4, <1>5, <2>2
  <2> QED BY <1>3, <2>1, <2>2
<1>7. CauseInv'
  BY <1>5 DEF CauseInv
<1> QED BY <1>5, <1>6, <1>7 DEF RepackInv

-----------------------------------------------------------------------------
(* The main goroutine *)

\* A step of main that leaves the bucket alone.
LEMMA MainStep ==
    ASSUME RepackInv, UNCHANGED <<bucketVars, flags, faults>>,
           main' \in Mains, main'.at \notin {"dead", "reread"},
           StreamInv', ChunksInv', CacheInv', UploadsInv',
           uploads' \in Seq(Uploads), spawned' \subseteq 1 .. Len(Source),
           flight' \in [SourceHashes -> Calls \cup {NoCall}]
    PROVE  RepackInv'
<1>1. /\ cas' = cas /\ published' = published /\ flags' = flags
      /\ faults' = faults
  BY DEF bucketVars
<1>2. TypeOK'
  BY <1>1 DEF RepackInv, TypeOK
<1>3. CasInv' /\ PublishedInv'
  BY <1>1 DEF RepackInv, CasInv, KeysAddressBytes, PublishedInv
<1>4. CauseInv'
  BY DEF CauseInv
<1>5. main'.at # "none"
  BY DEF Mains
<1> QED BY <1>2, <1>3, <1>4, <1>5 DEF RepackInv

\* main moves on and the stream stays where it is.
LEMMA AtStep ==
    ASSUME main \in Mains, StreamInv, ChunksInv, main.at # "drain",
           NEW x \in {"read", "get", "do", "wait", "reread"},
           main' = [main EXCEPT !.at = x], uploads' = uploads,
           x # "read" => main.piece = <<>> /\ main.cur <= Len(Source)
    PROVE  /\ main' \in Mains /\ main'.at = x /\ StreamInv' /\ ChunksInv'
           /\ Wanted' = Wanted
<1>1. main' \in Mains /\ main'.at = x
  BY DEF Mains
<1>2. /\ main'.cur = main.cur /\ main'.pos = main.pos /\ main'.n = main.n
      /\ main'.piece = main.piece /\ main'.buf = main.buf
      /\ main'.newPieces = main.newPieces /\ main'.bytesRead = main.bytesRead
  BY DEF Mains
<1>3. NewLen' = NewLen /\ Wanted' = Wanted
  BY <1>2 DEF NewLen, Wanted
<1>4. StreamInv'
  BY <1>1, <1>2, <1>3 DEF StreamInv
<1>5. ChunksInv'
  BY <1>1, <1>2, <1>3 DEF ChunksInv, AtEnd
<1> QED BY <1>1, <1>3, <1>4, <1>5

\* Whoever makes a call, at most one is under way for a hash.
LEMMA CalledStep ==
    ASSUME flight \in [SourceHashes -> Calls \cup {NoCall}],
           NEW h \in SourceHashes, NEW who \in {"main", "prefetch"}
    PROVE  Called(h, who) \in [SourceHashes -> Calls \cup {NoCall}]
BY DEF Called, Calls

LEMMA FetchStep ==
    ASSUME RepackInv, Fetch
    PROVE  RepackInv'
<1>1. /\ main.at = "read" /\ main.piece = <<>> /\ main.cur <= Len(Source)
      /\ main' = [main EXCEPT !.at = "get"]
      /\ UNCHANGED <<bucketVars, flags, faults>>
      /\ uploads' = uploads /\ flight' = flight /\ ll' = ll /\ m' = m
      /\ cas' = cas
  BY DEF Fetch, cacheVars, bucketVars
<1>2. main \in Mains /\ StreamInv /\ ChunksInv
  BY <1>1, Running
<1>3. main' \in Mains /\ main'.at = "get" /\ StreamInv' /\ ChunksInv'
  BY <1>1, <1>2, AtStep
<1>4. CacheInv' /\ UploadsInv'
  BY <1>1 DEF RepackInv, CacheInv, UploadsInv
<1>5. spawned' \subseteq 1 .. Len(Source)
  <2>1. main.cur \in Nat \ {0}
    BY <1>2, SourceFacts DEF StreamInv
  <2>2. flags.distance \in Nat
    BY RepackAssumption DEF RepackInv, TypeOK
  <2> QED BY <2>1, <2>2, SourceFacts DEF Fetch, RepackInv, TypeOK
<1> QED BY <1>1, <1>3, <1>4, <1>5, MainStep DEF RepackInv, TypeOK

LEMMA DoStep ==
    ASSUME RepackInv, Do
    PROVE  RepackInv'
<1>1. /\ main.at = "do" /\ flight' = Called(Wanted, "main")
      /\ main' = [main EXCEPT !.at = "wait"]
      /\ UNCHANGED <<bucketVars, flags, faults>>
      /\ uploads' = uploads /\ spawned' = spawned /\ ll' = ll /\ m' = m
      /\ cas' = cas
  BY DEF Do, cacheVars, bucketVars
<1>2. main \in Mains /\ StreamInv /\ ChunksInv
  BY <1>1, Running
<1>3. /\ main.piece = <<>> /\ main.cur \in 1 .. Len(Source)
  BY <1>1, <1>2, SourceFacts DEF StreamInv
<1>4. main' \in Mains /\ main'.at = "wait" /\ StreamInv' /\ ChunksInv'
  BY <1>1, <1>2, <1>3, AtStep
<1>5. CacheInv' /\ UploadsInv'
  BY <1>1 DEF RepackInv, CacheInv, UploadsInv
<1>6. flight' \in [SourceHashes -> Calls \cup {NoCall}]
  BY <1>1, <1>3, PieceFacts, CalledStep DEF Wanted, RepackInv, TypeOK
<1> QED BY <1>1, <1>4, <1>5, <1>6, MainStep DEF RepackInv, TypeOK

\* A hit puts the stream at the start of the piece that it wanted.
LEMMA GetStep ==
    ASSUME RepackInv, Get
    PROVE  RepackInv'
<1>1. /\ main.at \in {"get", "reread"}
      /\ UNCHANGED <<bucketVars, flags, faults>>
      /\ uploads' = uploads /\ flight' = flight /\ spawned' = spawned
      /\ cas' = cas
  BY DEF Get, bucketVars
<1>2. main \in Mains /\ StreamInv /\ ChunksInv /\ UploadsInv'
  BY <1>1, Running DEF RepackInv, UploadsInv
<1>3. main.piece = <<>> /\ main.cur \in 1 .. Len(Source)
  BY <1>1, <1>2, SourceFacts DEF StreamInv
<1>4. CASE /\ Wanted \in Elements(ll) /\ CacheGet(Wanted)
           /\ main' = [main EXCEPT !.at = "read", !.piece = m[Wanted],
                                   !.pos = 0]
  <2>1. m[Wanted] = Wanted /\ CacheInv'
    BY <1>4, CacheGetStep DEF RepackInv, CacheInv
  <2>2. /\ Wanted \in Seq(Nat) /\ Wanted # <<>> /\ Len(Wanted) > 0
        /\ (main.cur - 1) * OldLen + Len(Wanted) <= Len(Content)
        /\ (main.cur - 1) * OldLen \in Nat /\ Len(Wanted) \in Nat
    BY <1>3, PieceFacts DEF Wanted
  <2>3. main' \in Mains /\ main'.at = "read"
    BY <1>2, <1>4, <2>1, <2>2 DEF Mains
  <2>4. /\ main'.cur = main.cur /\ main'.pos = 0 /\ main'.n = main.n
        /\ main'.piece = Wanted /\ main'.buf = main.buf
        /\ main'.newPieces = main.newPieces
        /\ main'.bytesRead = main.bytesRead
    BY <1>2, <1>4, <2>1 DEF Mains
  <2>5. NewLen' = NewLen /\ Wanted' = Wanted
    BY <2>4 DEF NewLen, Wanted
  <2>6. main.bytesRead + main.n = (main.cur - 1) * OldLen + 0
    <3> DEFINE a == (main.cur - 1) * OldLen
    <3>1. main.bytesRead + main.n = LeastOf(a, Len(Content))
      BY <1>2, <1>3 DEF StreamInv
    <3>2. /\ a \in Nat /\ Len(Wanted) \in Nat /\ Len(Wanted) > 0
          /\ a + Len(Wanted) <= Len(Content) /\ Len(Content) \in Nat
      BY <2>2, SourceFacts
    <3> HIDE DEF a
    <3>3. LeastOf(a, Len(Content)) = a + 0
      BY <3>2 DEF LeastOf
    <3> QED BY <3>1, <3>3 DEF a
  <2>7. StreamInv'
    <3>1. main.n <= NewLen /\ NewLen \in NewLens
      BY <1>2 DEF StreamInv
    <3>2. \A i \in 1 .. main.n : main.buf[i] = Content[main.bytesRead + i]
      BY <1>2 DEF StreamInv
    <3>3. /\ main.cur \in 1 .. Len(Source) + 1 /\ main.cur <= Len(Source)
      BY <1>3, SourceFacts
    <3> HIDE DEF Wanted
    <3> QED BY <2>2, <2>3, <2>4, <2>5, <2>6, <3>1, <3>2, <3>3 DEF StreamInv
  <2>8. ChunksInv'
    BY <1>1, <1>2, <2>3, <2>4, <2>5 DEF ChunksInv
  <2> QED BY <1>1, <1>2, <2>1, <2>3, <2>7, <2>8, MainStep
          DEF RepackInv, TypeOK
<1>5. CASE main' = [main EXCEPT !.at = "do"] /\ UNCHANGED cacheVars
  <2>1. main' \in Mains /\ main'.at = "do" /\ StreamInv' /\ ChunksInv'
    BY <1>1, <1>2, <1>3, <1>5, AtStep
  <2>2. CacheInv'
    BY <1>5 DEF RepackInv, CacheInv, cacheVars
  <2> QED BY <1>1, <1>2, <2>1, <2>2, MainStep DEF RepackInv, TypeOK
<1> QED BY <1>4, <1>5 DEF Get

\* Bytes of the piece go behind those that the buffer holds.
LEMMA FilledFacts ==
    ASSUME NEW B, main.buf \in Seq(B), main.piece \in Seq(B),
           main.n \in Nat, NEW from \in Nat, NEW c \in Nat,
           main.n + c <= Len(main.buf), from + c <= Len(main.piece)
    PROVE  LET b == Filled(from, c)
           IN /\ b \in Seq(B) /\ Len(b) = Len(main.buf)
              /\ \A i \in 1 .. main.n : b[i] = main.buf[i]
              /\ \A i \in main.n + 1 .. main.n + c :
                    b[i] = main.piece[from + i - main.n]
<1> DEFINE b == Filled(from, c)
<1>1. /\ DOMAIN main.buf = 1 .. Len(main.buf) /\ Len(main.buf) \in Nat
      /\ \A i \in 1 .. Len(main.buf) : main.buf[i] \in B
      /\ \A i \in 1 .. Len(main.piece) : main.piece[i] \in B
      /\ Len(main.piece) \in Nat
  OBVIOUS
<1>2. \A i \in main.n + 1 .. main.n + c :
        from + i - main.n \in 1 .. Len(main.piece)
  BY <1>1
<1>3. b = [i \in 1 .. Len(main.buf) |->
              IF i \in main.n + 1 .. main.n + c
              THEN main.piece[from + i - main.n] ELSE main.buf[i]]
  BY <1>1 DEF Filled
<1> HIDE DEF b
<1>4. b \in [1 .. Len(main.buf) -> B]
  BY <1>1, <1>2, <1>3
<1>5. b \in Seq(B) /\ Len(b) = Len(main.buf)
  <2> DEFINE k == Len(main.buf)
  <2>1. k \in Nat /\ b \in [1 .. k -> B]
    BY <1>1, <1>4
  <2> HIDE DEF k
  <2>2. b \in Seq(B) /\ Len(b) = k
    BY <2>1
  <2> QED BY <2>2 DEF k
<1>6. /\ \A i \in 1 .. main.n : b[i] = main.buf[i]
      /\ \A i \in main.n + 1 .. main.n + c :
            b[i] = main.piece[from + i - main.n]
  BY <1>1, <1>3
<1> QED BY <1>5, <1>6 DEF b

\* As many bytes as fit and as there are.
LEMMA CopyCount ==
    ASSUME NEW room \in Nat \ {0}, NEW left \in Nat \ {0}
    PROVE  LET c == LeastOf(room, left)
           IN c \in Nat \ {0} /\ c <= room /\ c <= left
BY DEF LeastOf

\* The stream after a step of main that reads on.
LEMMA StreamReads ==
    ASSUME NewLen' \in NewLens, main'.n <= NewLen', main'.at = "read",
           main'.cur \in 1 .. Len(Source) + 1,
           main'.piece = <<>> =>
              main'.bytesRead + main'.n
                = LeastOf((main'.cur - 1) * OldLen, Len(Content)),
           main'.piece # <<>> =>
              /\ main'.cur <= Len(Source) /\ main'.piece = Wanted'
              /\ main'.pos < Len(Wanted')
              /\ main'.bytesRead + main'.n
                   = (main'.cur - 1) * OldLen + main'.pos,
           \A i \in 1 .. main'.n :
              main'.buf[i] = Content[main'.bytesRead + i]
    PROVE  StreamInv'
BY DEF StreamInv

\* The stream stays at the bytes that follow those it handed out, across the
\* end of a piece too.
LEMMA CopyStep ==
    ASSUME RepackInv, Copy
    PROVE  RepackInv'
<1> DEFINE c == LeastOf(NewLen - main.n, Len(main.piece) - main.pos)
           over == main.pos + c >= Len(main.piece)
           b == Filled(main.pos, c)
           start == (main.cur - 1) * OldLen
<1>1. /\ main.at = "read" /\ main.n < NewLen /\ main.piece # <<>>
      /\ main' = [main EXCEPT !.buf = b, !.n = @ + c, !.pos = @ + c,
                              !.cur = IF over THEN @ + 1 ELSE @,
                              !.piece = IF over THEN <<>> ELSE @]
      /\ UNCHANGED <<bucketVars, flags, faults>>
      /\ uploads' = uploads /\ flight' = flight /\ spawned' = spawned
      /\ ll' = ll /\ m' = m /\ cas' = cas
  BY DEF Copy, cacheVars, bucketVars
<1>2. /\ main \in Mains /\ StreamInv /\ ChunksInv
      /\ NewLen \in Nat \ {0} /\ NewLen \in NewLens
  BY <1>1, Running
<1>3. CacheInv' /\ UploadsInv'
  BY <1>1 DEF RepackInv, CacheInv, UploadsInv
<1>4. /\ main.n \in Nat /\ main.pos \in Nat /\ main.cur \in Nat
      /\ main.buf \in Seq(Nat) /\ main.piece \in Seq(Nat)
      /\ main.bytesRead \in Nat
  BY <1>2 DEF Mains
<1>5. /\ main.cur \in 1 .. Len(Source) /\ main.piece = Source[main.cur]
      /\ main.pos < Len(main.piece)
      /\ main.bytesRead + main.n = start + main.pos
      /\ \A i \in 1 .. main.n : main.buf[i] = Content[main.bytesRead + i]
  <2>1. /\ main.cur \in 1 .. Len(Source) + 1 /\ main.cur <= Len(Source)
        /\ main.piece = Wanted /\ main.pos < Len(Wanted)
        /\ main.bytesRead + main.n = start + main.pos
        /\ \A i \in 1 .. main.n : main.buf[i] = Content[main.bytesRead + i]
    BY <1>1, <1>2 DEF StreamInv
  <2>2. main.cur \in 1 .. Len(Source)
    BY <2>1, SourceFacts
  <2> QED BY <2>1, <2>2 DEF Wanted
<1>6. /\ Len(main.piece) \in Nat /\ start \in Nat
      /\ start + Len(main.piece) = LeastOf(main.cur * OldLen, Len(Content))
      /\ \A j \in 1 .. Len(main.piece) : main.piece[j] = Content[start + j]
  <2> DEFINE i == main.cur
  <2>1. i \in 1 .. Len(Source) /\ main.piece = Source[i]
    BY <1>5
  <2> HIDE DEF i
  <2>2. /\ Len(Source[i]) \in Nat /\ (i - 1) * OldLen \in Nat
        /\ (i - 1) * OldLen + Len(Source[i])
              = LeastOf(i * OldLen, Len(Content))
        /\ \A j \in 1 .. Len(Source[i]) :
              Source[i][j] = Content[(i - 1) * OldLen + j]
    BY <2>1, PieceFacts
  <2> QED BY <2>1, <2>2 DEF i
<1> HIDE DEF start
<1>7. /\ c \in Nat \ {0} /\ main.n + c <= NewLen
      /\ main.pos + c <= Len(main.piece)
  <2>1. NewLen - main.n \in Nat \ {0}
    BY <1>1, <1>2, <1>4
  <2>2. Len(main.piece) - main.pos \in Nat \ {0}
    <3> DEFINE l == Len(main.piece)
               p == main.pos
    <3>1. l \in Nat /\ p \in Nat /\ p < l
      BY <1>4, <1>5, <1>6
    <3> HIDE DEF l, p
    <3>2. l - p \in Nat \ {0}
      BY <3>1
    <3> QED BY <3>2 DEF l, p
  <2>3. /\ c \in Nat \ {0} /\ c <= NewLen - main.n
        /\ c <= Len(main.piece) - main.pos
    BY <2>1, <2>2, CopyCount
  <2> HIDE DEF c
  <2>4. NewLen \in Nat /\ main.n \in Nat
    BY <1>2, <1>4
  <2>5. Len(main.piece) \in Nat /\ main.pos \in Nat
    BY <1>4, <1>6
  <2> QED BY <2>3, <2>4, <2>5
<1> HIDE DEF c
<1>8. /\ b \in Seq(Nat) /\ Len(b) = NewLen
      /\ \A i \in 1 .. main.n : b[i] = main.buf[i]
      /\ \A i \in main.n + 1 .. main.n + c :
            b[i] = main.piece[main.pos + i - main.n]
  BY <1>4, <1>7, FilledFacts DEF NewLen
<1> HIDE DEF b
<1>9. /\ Len(main.piece) \in Nat /\ start \in Nat /\ c \in Nat \ {0}
      /\ main.n \in Nat /\ main.pos \in Nat /\ main.bytesRead \in Nat
      /\ main.pos + c <= Len(main.piece)
      /\ main.bytesRead + main.n = start + main.pos
  BY <1>4, <1>5, <1>6, <1>7
<1>10. ASSUME NEW d \in Int
      PROVE  main.bytesRead + (main.n + d) = start + (main.pos + d)
  <2> DEFINE r == main.bytesRead
             n == main.n
             p == main.pos
  <2>1. /\ r \in Int /\ n \in Int /\ start \in Int /\ p \in Int
        /\ r + n = start + p
    BY <1>9
  <2> HIDE DEF r, n, p
  <2>2. r + (n + d) = start + (p + d)
    BY <2>1
  <2> QED BY <2>2 DEF r, n, p
<1>11. /\ main' \in Mains /\ main'.at = "read"
      /\ main'.cur = (IF over THEN main.cur + 1 ELSE main.cur)
      /\ main'.pos = main.pos + c /\ main'.n = main.n + c
      /\ main'.piece = (IF over THEN <<>> ELSE main.piece)
      /\ main'.buf = b /\ main'.newPieces = main.newPieces
      /\ main'.bytesRead = main.bytesRead
  <2>1. main.n + c \in Nat /\ main.pos + c \in Nat
    BY <1>9
  <2> HIDE DEF over
  <2>2. /\ (IF over THEN main.cur + 1 ELSE main.cur) \in Nat
        /\ (IF over THEN <<>> ELSE main.piece) \in Seq(Nat)
    BY <1>4
  <2> QED BY <1>1, <1>2, <1>8, <2>1, <2>2 DEF Mains
<1>12. NewLen' = NewLen
  BY <1>8, <1>11 DEF NewLen
<1>13. \A i \in 1 .. main'.n : main'.buf[i] = Content[main'.bytesRead + i]
  <2> SUFFICES ASSUME NEW i \in 1 .. main.n + c
               PROVE  b[i] = Content[main.bytesRead + i]
    BY <1>11
  <2>1. CASE i <= main.n
    <3>1. i \in 1 .. main.n /\ i \in 1 .. main.n + c
      BY <1>4, <2>1
    <3>2. main.buf[i] = Content[main.bytesRead + i]
      BY <1>5, <3>1
    <3>3. b[i] = main.buf[i]
      BY <1>8, <3>1
    <3> QED BY <3>2, <3>3
  <2>2. CASE i > main.n
    <3> DEFINE j == main.pos + i - main.n
    <3>1. i \in main.n + 1 .. main.n + c
      BY <1>9, <2>2
    <3>2. j \in 1 .. Len(main.piece) /\ start + j = main.bytesRead + i
      <4> DEFINE d == i - main.n
      <4>1. d \in 1 .. c /\ i = main.n + d
        BY <1>9, <3>1
      <4>2. j = main.pos + d
        BY <1>9, <3>1
      <4> HIDE DEF d
      <4>3. main.pos + d \in 1 .. Len(main.piece) /\ d \in Int
        <5> DEFINE l == Len(main.piece)
                   p == main.pos
        <5>1. l \in Nat /\ p \in Nat /\ c \in Nat /\ p + c <= l
          BY <1>9
        <5> HIDE DEF l, p
        <5>2. p + d \in 1 .. l /\ d \in Int
          BY <4>1, <5>1
        <5> QED BY <5>2 DEF l, p
      <4>4. main.bytesRead + (main.n + d) = start + (main.pos + d)
        BY <1>10, <4>3
      <4> HIDE DEF j
      <4>5. j \in 1 .. Len(main.piece)
        BY <4>2, <4>3
      <4>6. start + j = main.bytesRead + i
        BY <4>1, <4>2, <4>4
      <4> QED BY <4>5, <4>6
    <3>3. b[i] = main.piece[j] /\ main.piece[j] = Content[start + j]
      BY <1>6, <1>8, <3>1, <3>2
    <3> QED BY <3>2, <3>3
  <2> QED BY <1>4, <1>7, <2>1, <2>2
<1>14. StreamInv'
  <2>1. main'.n <= NewLen' /\ NewLen' \in NewLens
    BY <1>2, <1>7, <1>11, <1>12
  <2>2. CASE over
    <3>1. main.pos + c = Len(main.piece)
      BY <1>9, <2>2
    <3>2. main.bytesRead + (main.n + c)
            = LeastOf(main.cur * OldLen, Len(Content))
      <4>1. main.bytesRead + (main.n + c) = start + Len(main.piece)
        <5>1. c \in Int
          BY <1>9
        <5>2. main.bytesRead + (main.n + c) = start + (main.pos + c)
          BY <1>10, <5>1
        <5> QED BY <3>1, <5>2
      <4>2. start + Len(main.piece) = LeastOf(main.cur * OldLen, Len(Content))
        BY <1>6
      <4> QED BY <4>1, <4>2
    <3>3. /\ main'.piece = <<>> /\ main'.cur = main.cur + 1
          /\ main'.cur - 1 = main.cur /\ main'.cur \in 1 .. Len(Source) + 1
      <4>1. main'.piece = <<>> /\ main'.cur = main.cur + 1
        BY <1>11, <2>2
      <4> DEFINE k == main.cur
      <4>2. k \in 1 .. Len(Source) /\ Len(Source) \in Nat
        BY <1>5, SourceFacts
      <4> HIDE DEF k
      <4>3. \A z : z = k + 1 => z - 1 = k /\ z \in 1 .. Len(Source) + 1
        BY <4>2
      <4>4. main'.cur = k + 1
        BY <4>1 DEF k
      <4>5. main'.cur - 1 = k /\ main'.cur \in 1 .. Len(Source) + 1
        BY <4>3, <4>4
      <4>6. main'.cur - 1 = main.cur
        BY <4>5 DEF k
      <4> QED BY <4>1, <4>5, <4>6
    <3>4. main'.bytesRead + main'.n
            = LeastOf((main'.cur - 1) * OldLen, Len(Content))
      BY <1>11, <3>2, <3>3
    <3>5. main'.piece = <<>> /\ main'.cur \in 1 .. Len(Source) + 1
      BY <3>3
    <3>6. main'.at = "read"
      BY <1>11
    <3> QED BY <1>13, <2>1, <3>4, <3>5, <3>6, StreamReads
  <2>3. CASE ~over
    <3>1. /\ main'.piece = Wanted' /\ main'.piece # <<>>
          /\ main'.cur = main.cur /\ main'.pos < Len(Wanted')
      <4>1. /\ main'.piece = main.piece /\ main'.cur = main.cur
            /\ main'.pos = main.pos + c
        BY <1>11, <2>3
      <4>2. Wanted' = main.piece
        BY <1>5, <4>1 DEF Wanted
      <4>3. main.pos + c < Len(main.piece)
        BY <1>9, <2>3
      <4> QED BY <1>1, <4>1, <4>2, <4>3
    <3>2. main'.bytesRead + main'.n = (main'.cur - 1) * OldLen + main'.pos
      <4>1. main.bytesRead + (main.n + c) = start + (main.pos + c)
        BY <1>9, <1>10
      <4> QED BY <1>11, <3>1, <4>1 DEF start
    <3>3. main'.cur \in 1 .. Len(Source) + 1 /\ main'.cur <= Len(Source)
      BY <1>5, <3>1, SourceFacts
    <3>4. main'.at = "read"
      BY <1>11
    <3> QED BY <1>13, <2>1, <3>1, <3>2, <3>3, <3>4, StreamReads
  <2> QED BY <2>2, <2>3
<1>15. ChunksInv'
  BY <1>1, <1>2, <1>11, <1>12 DEF ChunksInv
<1> QED BY <1>1, <1>3, <1>11, <1>14, <1>15, MainStep DEF RepackInv, TypeOK

\* The bytes handed out are never more than there are.
LEMMA StreamBound ==
    ASSUME main \in Mains, StreamInv
    PROVE  /\ main.bytesRead \in Nat /\ main.n \in Nat
           /\ main.bytesRead + main.n <= Len(Content)
           /\ AtEnd => main.bytesRead + main.n = Len(Content)
<1>1. main.bytesRead \in Nat /\ main.n \in Nat /\ main.cur \in Nat
      /\ main.pos \in Nat
  BY DEF Mains
<1>2. CASE main.piece = <<>>
  <2>1. main.bytesRead + main.n = LeastOf((main.cur - 1) * OldLen, Len(Content))
    BY <1>2 DEF StreamInv
  <2>2. AtEnd => main.cur - 1 = Len(Source)
    BY SourceFacts, <1>1 DEF StreamInv, AtEnd
  <2>3. main.cur - 1 \in Nat /\ (main.cur - 1) * OldLen \in Nat
    <3> DEFINE c == main.cur - 1
    <3>1. c \in Nat /\ OldLen \in Nat
      BY <1>1, RepackAssumption, SourceFacts DEF StreamInv
    <3> HIDE DEF c
    <3>2. c * OldLen \in Nat
      BY <3>1
    <3> QED BY <3>1, <3>2 DEF c
  <2>4. LeastOf((main.cur - 1) * OldLen, Len(Content)) <= Len(Content)
    BY <2>3, SourceFacts DEF LeastOf
  <2>5. AtEnd => LeastOf((main.cur - 1) * OldLen, Len(Content)) = Len(Content)
    BY <2>2, <2>3, SourceFacts DEF LeastOf
  <2> QED BY <1>1, <2>1, <2>4, <2>5
<1>3. CASE main.piece # <<>>
  <2> DEFINE start == (main.cur - 1) * OldLen
             last == Len(Source[main.cur])
  <2>1. /\ main.cur \in 1 .. Len(Source) /\ main.pos < last
        /\ main.bytesRead + main.n = start + main.pos
    BY <1>1, <1>3, SourceFacts DEF StreamInv, Wanted
  <2>2. start \in Nat /\ last \in Nat /\ start + last <= Len(Content)
    BY <2>1, PieceFacts
  <2>3. ~AtEnd
    BY <1>3 DEF AtEnd
  <2> HIDE DEF start, last
  <2> DEFINE p == main.pos
  <2>4. p \in Nat /\ p < last /\ main.bytesRead + main.n = start + p
    BY <1>1, <2>1
  <2> HIDE DEF p
  <2>5. start + p <= Len(Content)
    BY <2>2, <2>4, SourceFacts
  <2> QED BY <1>1, <2>3, <2>4, <2>5
<1> QED BY <1>2, <1>3

\* Of a content of N bytes cut every L, C pieces in all: the one behind the
\* first q, which n more bytes are there of.
LEMMA NextPiece ==
    ASSUME NEW N \in Nat, NEW L \in Nat \ {0}, NEW C \in Nat, NEW q \in Nat,
           NEW n \in Nat, N <= C * L, C * L < N + L, q * L + n <= N, n <= L
    PROVE  /\ (q + 1) * L = q * L + L /\ (q + 1 - 1) * L = q * L
           /\ n > 0 => q + 1 <= C
           /\ n > 0 /\ q * L + n = N => C = q + 1
           /\ q <= C /\ n = 0 /\ q * L = N => C = q
<1>1. q * L \in Nat /\ C * L \in Nat
  OBVIOUS
<1>2. (q + 1) * L = q * L + L /\ (q + 1 - 1) * L = q * L
  OBVIOUS
<1>3. n > 0 => q + 1 <= C
  <2>1. n > 0 => q * L < C * L
    BY <1>1
  <2> QED BY <2>1, Product
<1>4. n > 0 /\ q * L + n = N => C = q + 1
  <2>1. (q + 2) * L = q * L + L + L
    OBVIOUS
  <2>2. q * L + n = N => C * L < (q + 2) * L
    BY <1>1, <2>1
  <2>3. q * L + n = N => C < q + 2
    BY <2>2, Product
  <2> QED BY <1>3, <2>3
<1>5. q <= C /\ n = 0 /\ q * L = N => C = q
  <2>1. q * L = N => C * L < (q + 1) * L
    BY <1>1, <1>2
  <2>2. q * L = N => C < q + 1
    BY <2>1, Product
  <2> QED BY <2>2
<1> QED BY <1>2, <1>3, <1>4, <1>5

\* A full buffer, or the short one at the end, is the next piece of the new
\* layout.
LEMMA CutStep ==
    ASSUME RepackInv, Cut
    PROVE  RepackInv'
<1> DEFINE chunk == SubSeq(main.buf, 1, main.n)
           q == Len(main.newPieces)
           n == main.n
           L == Layout(NewLen)
           N == Len(Content)
           C == Len(L)
           upload == [key |-> chunk, chunk |-> chunk, at |-> "go"]
<1>1. /\ main.at = "read" /\ main.n > 0 /\ (main.n = NewLen \/ AtEnd)
      /\ uploads' = Append(uploads, upload)
      /\ main' = [main EXCEPT !.newPieces = Append(@, chunk),
                              !.bytesRead = @ + main.n, !.n = 0,
                              !.at = IF main.n < NewLen THEN "drain" ELSE @]
      /\ UNCHANGED <<bucketVars, flags, faults>>
      /\ flight' = flight /\ spawned' = spawned
      /\ ll' = ll /\ m' = m /\ cas' = cas
  BY DEF Cut, cacheVars, bucketVars
<1>2. /\ main \in Mains /\ StreamInv /\ ChunksInv
      /\ NewLen \in Nat \ {0} /\ NewLen \in NewLens
  BY <1>1, Running
<1>3. /\ main.n \in Nat /\ main.buf \in Seq(Nat) /\ main.bytesRead \in Nat
      /\ main.newPieces \in Seq(Seq(Nat)) /\ main.n <= NewLen
      /\ uploads \in Seq(Uploads)
  BY <1>2 DEF Mains, StreamInv, RepackInv, TypeOK
<1>4. /\ main.bytesRead = q * NewLen /\ q <= C /\ Len(uploads) = q
      /\ \A i \in DOMAIN main.newPieces : main.newPieces[i] = L[i]
      /\ \A k \in DOMAIN uploads : /\ uploads[k].key = main.newPieces[k]
                                   /\ uploads[k].chunk = main.newPieces[k]
  BY <1>1, <1>2 DEF ChunksInv
<1>5. /\ C \in Nat /\ N <= C * NewLen /\ C * NewLen < N + NewLen
      /\ \A i \in 1 .. C :
            /\ L[i] \in Seq(Nat)
            /\ Len(L[i]) = LeastOf(i * NewLen, N) - (i - 1) * NewLen
            /\ \A j \in 1 .. Len(L[i]) : L[i][j] = Content[(i - 1) * NewLen + j]
  BY <1>2, LayoutFacts
<1>6. q \in Nat /\ N \in Nat /\ n \in Nat
  BY <1>3, SourceFacts
<1>7. q * NewLen + n <= N /\ (n = NewLen \/ q * NewLen + n = N)
  BY <1>1, <1>2, <1>4, StreamBound
<1>8. n <= NewLen /\ n > 0
  BY <1>1, <1>3
<1>9. \A i \in 1 .. n : main.buf[i] = Content[main.bytesRead + i]
  BY <1>2 DEF StreamInv
<1>10. /\ chunk \in Seq(Nat) /\ Len(chunk) = n
       /\ \A j \in 1 .. n : chunk[j] = main.buf[j]
  BY <1>3 DEF NewLen
<1> HIDE DEF q, n, L, N, C, chunk
<1>11. /\ q + 1 \in 1 .. C /\ (q + 1) * NewLen = q * NewLen + NewLen
       /\ (q + 1 - 1) * NewLen = q * NewLen
       /\ LeastOf((q + 1) * NewLen, N) - q * NewLen = n
       /\ q * NewLen + n = N => C = q + 1
  <2>1. /\ (q + 1) * NewLen = q * NewLen + NewLen
        /\ (q + 1 - 1) * NewLen = q * NewLen
        /\ n > 0 => q + 1 <= C
        /\ n = NewLen \/ q * NewLen + n = N
              => LeastOf((q + 1) * NewLen, N) - q * NewLen = n
        /\ n > 0 /\ q * NewLen + n = N => C = q + 1
    <3> DEFINE P == NewLen
    <3>1. /\ P \in Nat \ {0} /\ C \in Nat /\ q \in Nat /\ n \in Nat /\ N \in Nat
          /\ N <= C * P /\ C * P < N + P /\ q * P + n <= N /\ n <= P
      BY <1>2, <1>5, <1>6, <1>7, <1>8, Zenon
    <3> HIDE DEF P
    <3>2. (q + 1) * P = q * P + P
      BY <3>1
    <3>3. (q + 1 - 1) * P = q * P
      BY <3>1
    <3>4. n > 0 => q + 1 <= C
      BY <3>1, NextPiece
    <3>5. n = P \/ q * P + n = N => LeastOf((q + 1) * P, N) - q * P = n
      <4> DEFINE a == q * P
      <4>1. /\ a \in Nat /\ n \in Nat /\ N \in Nat /\ P \in Nat
            /\ a + n <= N /\ n <= P
        BY <3>1
      <4> HIDE DEF a
      <4>2. n = P \/ a + n = N => LeastOf(a + P, N) - a = n
        BY <4>1 DEF LeastOf
      <4> QED BY <3>2, <4>2 DEF a
    <3>6. n > 0 /\ q * P + n = N => C = q + 1
      BY <3>1, NextPiece
    <3> QED BY <3>2, <3>3, <3>4, <3>5, <3>6, Zenon DEF P
  <2>2. q + 1 \in 1 .. C
    BY <1>5, <1>6, <1>8, <2>1
  <2> QED BY <1>7, <1>8, <2>1, <2>2
<1>12. chunk = L[q + 1]
  <2>1. /\ L[q + 1] \in Seq(Nat) /\ Len(L[q + 1]) = n
        /\ \A j \in 1 .. n : L[q + 1][j] = Content[q * NewLen + j]
    <3> DEFINE i == q + 1
    <3>1. /\ L[i] \in Seq(Nat)
          /\ Len(L[i]) = LeastOf(i * NewLen, N) - (i - 1) * NewLen
          /\ \A j \in 1 .. Len(L[i]) :
                L[i][j] = Content[(i - 1) * NewLen + j]
      <4> HIDE DEF i
      <4> QED BY <1>5, <1>11 DEF i
    <3>2. (i - 1) * NewLen = q * NewLen /\ Len(L[i]) = n
      <4>1. i - 1 = q
        BY <1>6
      <4>2. Len(L[i]) = LeastOf(i * NewLen, N) - q * NewLen
        BY <3>1, <4>1
      <4>3. LeastOf(i * NewLen, N) - q * NewLen = n
        BY <1>7, <1>11, Zenon
      <4> QED BY <4>1, <4>2, <4>3, Zenon
    <3> HIDE DEF i
    <3> QED BY <3>1, <3>2 DEF i
  <2>2. \A j \in 1 .. n : chunk[j] = L[q + 1][j]
    BY <1>4, <1>9, <1>10, <2>1
  <2> QED BY <1>10, <2>1, <2>2, SameElements
<1>13. /\ main' \in Mains /\ main'.n = 0 /\ main'.cur = main.cur
       /\ main'.pos = main.pos /\ main'.piece = main.piece
       /\ main'.buf = main.buf /\ main'.bytesRead = main.bytesRead + main.n
       /\ main'.newPieces = Append(main.newPieces, chunk)
       /\ main'.at = (IF main.n < NewLen THEN "drain" ELSE "read")
  <2>1. /\ main.bytesRead + main.n \in Nat
        /\ Append(main.newPieces, chunk) \in Seq(Seq(Nat))
    BY <1>3, <1>10
  <2> QED BY <1>1, <1>2, <2>1 DEF Mains
<1>14. NewLen' = NewLen /\ Wanted' = Wanted
  BY <1>13 DEF NewLen, Wanted
<1>15. StreamInv'
  <2>1. main'.bytesRead + main'.n = main.bytesRead + main.n
    BY <1>3, <1>13
  <2>2. main'.n <= NewLen' /\ NewLen' \in NewLens
    BY <1>2, <1>13, <1>14
  <2>3. /\ main.cur \in 1 .. Len(Source) + 1
        /\ main.piece = <<>> =>
              main.bytesRead + main.n
                = LeastOf((main.cur - 1) * OldLen, Len(Content))
        /\ main.piece # <<>> =>
              /\ main.cur <= Len(Source) /\ main.piece = Wanted
              /\ main.pos < Len(Wanted)
              /\ main.bytesRead + main.n = (main.cur - 1) * OldLen + main.pos
    BY <1>2 DEF StreamInv
  <2>4. \A i \in 1 .. main'.n : main'.buf[i] = Content[main'.bytesRead + i]
    BY <1>13
  <2>5. main'.at \notin {"get", "do", "wait", "reread"}
    BY <1>13
  <2> QED BY <1>13, <1>14, <2>1, <2>2, <2>3, <2>4, <2>5 DEF StreamInv
<1>16. /\ Len(main'.newPieces) = q + 1 /\ main'.newPieces \in Seq(Seq(Nat))
       /\ \A i \in DOMAIN main'.newPieces : main'.newPieces[i] = L[i]
       /\ Len(uploads') = q + 1 /\ uploads' \in Seq(Uploads)
       /\ \A k \in DOMAIN uploads' :
             /\ uploads'[k].key = main'.newPieces[k]
             /\ uploads'[k].chunk = main'.newPieces[k]
       /\ \A k \in DOMAIN uploads : uploads'[k] = uploads[k]
       /\ uploads'[q + 1].at = "go"
  <2>1. upload \in Uploads
    BY <1>10 DEF Uploads
  <2>2. /\ DOMAIN main.newPieces = 1 .. q /\ Len(main.newPieces) = q
    BY <1>3 DEF q
  <2>3. DOMAIN uploads = 1 .. q
    BY <1>3, <1>4
  <2>4. /\ main'.newPieces \in Seq(Seq(Nat)) /\ Len(main'.newPieces) = q + 1
        /\ DOMAIN main'.newPieces = 1 .. q + 1
        /\ \A i \in 1 .. q : main'.newPieces[i] = main.newPieces[i]
        /\ main'.newPieces[q + 1] = chunk
    <3> DEFINE longer == Append(main.newPieces, chunk)
    <3>1. /\ longer \in Seq(Seq(Nat)) /\ Len(longer) = q + 1
          /\ \A i \in 1 .. q : longer[i] = main.newPieces[i]
          /\ longer[q + 1] = chunk
      BY <1>3, <1>6, <1>10, <2>2
    <3>2. main'.newPieces = longer
      BY <1>13
    <3> HIDE DEF longer
    <3>3. DOMAIN longer = 1 .. q + 1
      BY <3>1
    <3> QED BY <3>1, <3>2, <3>3
  <2> HIDE DEF upload
  <2>5. /\ uploads' \in Seq(Uploads) /\ Len(uploads') = q + 1
        /\ DOMAIN uploads' = 1 .. q + 1
        /\ \A k \in 1 .. q : uploads'[k] = uploads[k]
        /\ uploads'[q + 1] = upload
    BY <1>1, <1>3, <1>4, <1>6, <2>1
  <2>6. \A i \in 1 .. q + 1 : i \in 1 .. q \/ i = q + 1
    BY <1>6
  <2>7. \A i \in DOMAIN main'.newPieces : main'.newPieces[i] = L[i]
    BY <1>4, <1>12, <2>2, <2>4, <2>6
  <2>8. \A k \in DOMAIN uploads' :
             /\ uploads'[k].key = main'.newPieces[k]
             /\ uploads'[k].chunk = main'.newPieces[k]
    <3> SUFFICES ASSUME NEW k \in 1 .. q + 1
                 PROVE  /\ uploads'[k].key = main'.newPieces[k]
                        /\ uploads'[k].chunk = main'.newPieces[k]
      BY <2>5
    <3>1. CASE k \in 1 .. q
      BY <1>4, <2>3, <2>4, <2>5, <3>1
    <3>2. CASE k = q + 1
      BY <2>4, <2>5, <3>2 DEF upload
    <3> QED BY <2>6, <3>1, <3>2
  <2> QED BY <2>3, <2>4, <2>5, <2>7, <2>8 DEF upload
<1>17. ChunksInv'
  <2>1. /\ Layout(NewLen)' = L /\ Len(L) = C
    BY <1>14 DEF L, C, Layout
  <2>2. Len(main'.newPieces) <= C
    BY <1>5, <1>11, <1>16
  <2>3. CASE n < NewLen
    <3>1. main'.at = "drain" /\ AtEnd' /\ AtEnd
      BY <1>1, <1>2, <1>3, <1>13, <2>3 DEF AtEnd, n
    <3>2. main'.bytesRead = N /\ C = q + 1
      BY <1>1, <1>2, <1>4, <1>7, <1>11, <1>13, <2>3, <3>1, StreamBound DEF N, n
    <3> QED BY <1>16, <2>1, <2>2, <3>1, <3>2 DEF ChunksInv, N
  <2>4. CASE ~(n < NewLen)
    <3>1. main'.at = "read" /\ n = NewLen
      BY <1>2, <1>6, <1>8, <1>13, <2>4 DEF n
    <3>2. main'.bytesRead = (q + 1) * NewLen
      BY <1>4, <1>11, <1>13, <3>1 DEF n
    <3> QED BY <1>14, <1>16, <2>1, <2>2, <3>1, <3>2 DEF ChunksInv
  <2> QED BY <2>3, <2>4
<1>18. UploadsInv'
  BY <1>1, <1>3, <1>4, <1>6, <1>16 DEF RepackInv, UploadsInv
<1>19. CacheInv'
  BY <1>1 DEF RepackInv, CacheInv
<1> QED BY <1>1, <1>13, <1>15, <1>16, <1>17, <1>18, <1>19, MainStep
        DEF RepackInv, TypeOK

LEMMA EndOfStreamStep ==
    ASSUME RepackInv, EndOfStream
    PROVE  RepackInv'
<1>1. /\ main.at = "read" /\ main.n = 0 /\ AtEnd
      /\ main' = [main EXCEPT !.at = "drain"]
      /\ UNCHANGED <<bucketVars, flags, faults>>
      /\ uploads' = uploads /\ flight' = flight /\ spawned' = spawned
      /\ ll' = ll /\ m' = m /\ cas' = cas
  BY DEF EndOfStream, cacheVars, bucketVars
<1>2. /\ main \in Mains /\ StreamInv /\ ChunksInv /\ NewLen \in Nat \ {0}
      /\ main.newPieces \in Seq(Seq(Nat))
  BY <1>1, Running DEF Mains
<1> DEFINE q == Len(main.newPieces)
           C == Len(Layout(NewLen))
           N == Len(Content)
<1>3. q = C /\ main.bytesRead = N
  <2>1. /\ main.bytesRead = q * NewLen /\ q <= C
    BY <1>1, <1>2 DEF ChunksInv
  <2>2. /\ C \in Nat /\ N <= C * NewLen /\ C * NewLen < N + NewLen
    BY <1>2, LayoutFacts
  <2>3. main.bytesRead = N
    BY <1>1, <1>2, StreamBound
  <2>4. q \in Nat /\ N \in Nat
    BY <1>2, SourceFacts
  <2> HIDE DEF q, N, C
  <2> DEFINE P == NewLen
  <2>5. /\ P \in Nat \ {0} /\ C \in Nat /\ q \in Nat /\ N \in Nat
        /\ N <= C * P /\ C * P < N + P /\ q * P = N /\ q <= C
    BY <1>2, <2>1, <2>2, <2>3, <2>4, Zenon
  <2> HIDE DEF P
  <2>6. q * P + 0 <= N /\ 0 <= P
    BY <2>5
  <2>7. C = q
    BY <2>5, <2>6, NextPiece
  <2> QED BY <2>3, <2>7
<1>4. /\ main' \in Mains /\ main'.at = "drain"
      /\ main'.cur = main.cur /\ main'.pos = main.pos /\ main'.n = main.n
      /\ main'.piece = main.piece /\ main'.buf = main.buf
      /\ main'.newPieces = main.newPieces /\ main'.bytesRead = main.bytesRead
  BY <1>1, <1>2 DEF Mains
<1>5. NewLen' = NewLen /\ Wanted' = Wanted /\ AtEnd'
  BY <1>1, <1>4 DEF NewLen, Wanted, AtEnd
<1>6. StreamInv'
  BY <1>2, <1>4, <1>5 DEF StreamInv
<1>7. ChunksInv'
  <2>1. Layout(NewLen)' = Layout(NewLen)
    BY <1>5 DEF Layout
  <2> QED BY <1>1, <1>2, <1>3, <1>4, <1>5, <2>1 DEF ChunksInv
<1>8. UploadsInv' /\ CacheInv'
  BY <1>1 DEF RepackInv, CacheInv, UploadsInv
<1> QED BY <1>1, <1>4, <1>6, <1>7, <1>8, MainStep DEF RepackInv, TypeOK

-----------------------------------------------------------------------------
(* The calls and the prefetchers *)

\* A step beside main, that leaves the bucket and the uploads alone: the cache
\* may be reordered.
LEMMA BesideStep ==
    ASSUME RepackInv, ~Resting, UNCHANGED <<bucketVars, flags, main, uploads>>,
           faults' = faults, CacheInv', Elements(ll') = Elements(ll),
           spawned' \subseteq 1 .. Len(Source),
           flight' \in [SourceHashes -> Calls \cup {NoCall}]
    PROVE  RepackInv'
<1>1. /\ cas' = cas /\ published' = published /\ flags' = flags
      /\ main' = main /\ uploads' = uploads
  BY DEF bucketVars
<1>2. NewLen' = NewLen /\ Wanted' = Wanted /\ AtEnd' = AtEnd
  BY <1>1 DEF NewLen, Wanted, AtEnd
<1>3. main.at # "none" /\ StreamInv /\ ChunksInv
  BY Running DEF Resting
<1>4. StreamInv'
  BY <1>1, <1>2, <1>3 DEF StreamInv
<1>5. ChunksInv'
  BY <1>1, <1>2, <1>3 DEF ChunksInv
<1>6. TypeOK'
  BY <1>1 DEF RepackInv, TypeOK
<1>7. CasInv' /\ PublishedInv' /\ UploadsInv'
  BY <1>1 DEF RepackInv, CasInv, KeysAddressBytes, PublishedInv, UploadsInv
<1>8. CauseInv'
  BY <1>1, <1>2 DEF RepackInv, CauseInv
<1> QED BY <1>1, <1>3, <1>4, <1>5, <1>6, <1>7, <1>8 DEF RepackInv

LEMMA PrefetchStep ==
    ASSUME RepackInv, NEW i \in 1 .. Len(Source), Prefetch(i)
    PROVE  RepackInv'
<1>1. /\ ~Resting /\ UNCHANGED <<bucketVars, flags, main, uploads>>
      /\ faults' = faults /\ ll' = ll /\ m' = m
      /\ spawned' = spawned \ {i} /\ flight' = Called(Source[i], "prefetch")
  BY DEF Prefetch, cacheVars
<1>2. CacheInv' /\ Elements(ll') = Elements(ll)
  BY <1>1 DEF RepackInv, CacheInv
<1>3. flight' \in [SourceHashes -> Calls \cup {NoCall}]
  BY <1>1, PieceFacts, CalledStep DEF RepackInv, TypeOK
<1>4. spawned' \subseteq 1 .. Len(Source)
  BY <1>1 DEF RepackInv, TypeOK
<1> QED BY <1>1, <1>2, <1>3, <1>4, BesideStep

\* What waits is woken: main reads the cache again, and only for the hash that
\* it wanted.
LEMMA CallEndsStep ==
    ASSUME RepackInv, ~Resting, NEW h \in SourceHashes, CallEnds(h),
           uploads' = uploads
    PROVE  /\ main' \in Mains /\ StreamInv' /\ ChunksInv'
           /\ main'.at \notin {"none", "dead"} /\ Wanted' = Wanted
           /\ main'.at = "reread" => main.at = "reread" \/ Wanted = h
           /\ flight' \in [SourceHashes -> Calls \cup {NoCall}]
<1>1. main.at \notin {"none", "dead"}
  BY DEF Resting
<1>2. main \in Mains /\ StreamInv /\ ChunksInv
  BY <1>1, Running
<1>3. flight' \in [SourceHashes -> Calls \cup {NoCall}]
  BY DEF CallEnds, RepackInv, TypeOK
<1>4. CASE main.at = "wait" /\ Wanted = h
  <2>1. main' = [main EXCEPT !.at = "reread"]
    BY <1>4 DEF CallEnds
  <2>2. main.piece = <<>> /\ main.cur <= Len(Source)
    BY <1>2, <1>4 DEF StreamInv
  <2>3. /\ main' \in Mains /\ main'.at = "reread" /\ StreamInv' /\ ChunksInv'
        /\ Wanted' = Wanted
    BY <1>2, <1>4, <2>1, <2>2, AtStep
  <2> QED BY <1>3, <1>4, <2>3
<1>5. CASE ~(main.at = "wait" /\ Wanted = h)
  <2>1. main' = main
    BY <1>5 DEF CallEnds
  <2>2. NewLen' = NewLen /\ Wanted' = Wanted /\ AtEnd' = AtEnd
    BY <2>1 DEF NewLen, Wanted, AtEnd
  <2>3. StreamInv'
    BY <1>2, <2>1, <2>2 DEF StreamInv
  <2>4. ChunksInv'
    BY <1>2, <2>1, <2>2 DEF ChunksInv
  <2> QED BY <1>1, <1>2, <1>3, <2>1, <2>2, <2>3, <2>4
<1> QED BY <1>4, <1>5

\* A call that ends after it found or stored its bytes, or with a fault.
LEMMA CallDone ==
    ASSUME RepackInv, ~Resting, NEW h \in SourceHashes, CallEnds(h),
           UNCHANGED <<bucketVars, flags, uploads, spawned>>, CacheInv',
           faults' \in 0 .. MaxFaults,
           \/ faults' # 0
           \/ /\ faults' = faults
              /\ Cardinality(SourceHashes) <= flags.cap =>
                    Elements(ll') = Elements(ll) \cup {h}
    PROVE  RepackInv'
<1>1. /\ cas' = cas /\ published' = published /\ flags' = flags
      /\ uploads' = uploads /\ spawned' = spawned
  BY DEF bucketVars
<1>2. /\ main' \in Mains /\ StreamInv' /\ ChunksInv'
      /\ main'.at \notin {"none", "dead"} /\ Wanted' = Wanted
      /\ main'.at = "reread" => main.at = "reread" \/ Wanted = h
      /\ flight' \in [SourceHashes -> Calls \cup {NoCall}]
  BY <1>1, CallEndsStep
<1>3. TypeOK'
  BY <1>1, <1>2 DEF RepackInv, TypeOK
<1>4. CasInv' /\ PublishedInv' /\ UploadsInv'
  BY <1>1 DEF RepackInv, CasInv, KeysAddressBytes, PublishedInv, UploadsInv
<1>5. CauseInv'
  <2> SUFFICES ASSUME faults' = 0, Cardinality(SourceHashes) <= flags.cap,
                      main'.at = "reread"
               PROVE  Wanted' \in Elements(ll')
    BY <1>1, <1>2 DEF CauseInv
  <2>1. Elements(ll') = Elements(ll) \cup {h} /\ faults = 0
    OBVIOUS
  <2>2. main.at = "reread" => Wanted \in Elements(ll)
    BY <2>1 DEF RepackInv, CauseInv
  <2> QED BY <1>2, <2>1, <2>2
<1> QED BY <1>2, <1>3, <1>4, <1>5 DEF RepackInv

LEMMA CheckStep ==
    ASSUME RepackInv, NEW h \in SourceHashes, Check(h)
    PROVE  RepackInv'
<1>1. /\ ~Resting /\ UNCHANGED <<bucketVars, flags, uploads, spawned>>
      /\ faults' = faults /\ flight[h].at = "check"
  BY DEF Check, InCall
<1>2. CASE h \in Elements(ll)
  <2>1. CallEnds(h) /\ CacheGet(h)
    BY <1>2 DEF Check
  <2>2. CacheInv' /\ Elements(ll') = Elements(ll)
    BY <1>2, <2>1, CacheGetStep DEF RepackInv
  <2>3. Elements(ll') = Elements(ll) \cup {h}
    BY <1>2, <2>2
  <2> QED BY <1>1, <2>1, <2>2, <2>3, CallDone DEF RepackInv, TypeOK
<1>3. CASE h \notin Elements(ll)
  <2>1. /\ flight' = [flight EXCEPT ![h].at = "token"]
        /\ main' = main /\ ll' = ll /\ m' = m
    BY <1>3 DEF Check, cacheVars
  <2>2. CacheInv' /\ Elements(ll') = Elements(ll)
    BY <2>1 DEF RepackInv, CacheInv
  <2>3. flight' \in [SourceHashes -> Calls \cup {NoCall}]
    BY <1>1, <2>1 DEF RepackInv, TypeOK, Calls, NoCall
  <2> QED BY <1>1, <2>1, <2>2, <2>3, BesideStep DEF RepackInv, TypeOK
<1> QED BY <1>2, <1>3

LEMMA CatTokenStep ==
    ASSUME RepackInv, NEW h \in SourceHashes, CatToken(h)
    PROVE  RepackInv'
<1>1. /\ ~Resting /\ UNCHANGED <<bucketVars, flags, main, uploads, spawned>>
      /\ faults' = faults /\ flight[h].at = "token" /\ ll' = ll /\ m' = m
      /\ flight' = [flight EXCEPT ![h].at = "cat"]
  BY DEF CatToken, InCall, cacheVars
<1>2. CacheInv' /\ Elements(ll') = Elements(ll)
  BY <1>1 DEF RepackInv, CacheInv
<1>3. flight' \in [SourceHashes -> Calls \cup {NoCall}]
  BY <1>1 DEF RepackInv, TypeOK, Calls, NoCall
<1> QED BY <1>1, <1>2, <1>3, BesideStep DEF RepackInv, TypeOK

LEMMA CatStep ==
    ASSUME RepackInv, NEW h \in SourceHashes, Cat(h)
    PROVE  RepackInv'
<1>1. /\ ~Resting /\ UNCHANGED <<bucketVars, flags, uploads, spawned>>
      /\ faults' = faults /\ CallEnds(h) /\ h \in DOMAIN cas
      /\ CachePut(h, cas[h])
  BY DEF Cat, InCall
<1>2. cas[h] = h
  BY <1>1 DEF RepackInv, CasInv, KeysAddressBytes
<1>3. flags.cap \in Int
  BY RepackAssumption DEF RepackInv, TypeOK
<1>4. /\ CacheInv'
      /\ Cardinality(SourceHashes) <= flags.cap =>
            Elements(ll') = Elements(ll) \cup {h}
  BY <1>1, <1>2, <1>3, CachePutStep DEF RepackInv
<1> QED BY <1>1, <1>4, CallDone DEF RepackInv, TypeOK

LEMMA CatFailsStep ==
    ASSUME RepackInv, NEW h \in SourceHashes, CatFails(h)
    PROVE  RepackInv'
<1>1. /\ ~Resting /\ UNCHANGED <<bucketVars, flags, uploads, spawned>>
      /\ Fault /\ CallEnds(h) /\ ll' = ll /\ m' = m
  BY DEF CatFails, InCall, cacheVars
<1>2. faults' \in 0 .. MaxFaults /\ faults' # 0
  BY <1>1, RepackAssumption DEF Fault, RepackInv, TypeOK
<1>3. CacheInv'
  BY <1>1 DEF RepackInv, CacheInv
<1> QED BY <1>1, <1>2, <1>3, CallDone

-----------------------------------------------------------------------------
(* The uploads *)

\* An upload goes on, and is done only when its chunk is in the CAS.
LEMMA UploadStep ==
    ASSUME RepackInv, NEW k \in DOMAIN uploads,
           NEW from, NEW to \in {"stat", "put", "done"}, UploadAt(k, from, to),
           CasInv', DOMAIN cas \subseteq DOMAIN cas',
           to = "done" => uploads[k].key \in DOMAIN cas',
           faults' \in faults .. MaxFaults
    PROVE  RepackInv'
<1>1. /\ ~Resting /\ uploads' = [uploads EXCEPT ![k].at = to]
      /\ published' = published /\ flags' = flags /\ main' = main
      /\ spawned' = spawned /\ flight' = flight /\ ll' = ll /\ m' = m
  BY DEF UploadAt, cacheVars
<1>2. NewLen' = NewLen /\ Wanted' = Wanted /\ AtEnd' = AtEnd
  BY <1>1 DEF NewLen, Wanted, AtEnd
<1>3. /\ main.at # "none" /\ StreamInv /\ ChunksInv
      /\ uploads \in Seq(Uploads) /\ faults \in Nat
  BY <1>1, Running DEF Resting, RepackInv, TypeOK
<1>4. /\ uploads' \in Seq(Uploads) /\ Len(uploads') = Len(uploads)
      /\ DOMAIN uploads' = DOMAIN uploads
      /\ \A j \in DOMAIN uploads :
            /\ uploads'[j].key = uploads[j].key
            /\ uploads'[j].chunk = uploads[j].chunk
            /\ uploads'[j].at = IF j = k THEN to ELSE uploads[j].at
  <2>1. \A j \in DOMAIN uploads : uploads[j] \in Uploads
    BY <1>3
  <2>2. [uploads[k] EXCEPT !.at = to] \in Uploads
    BY <2>1 DEF Uploads
  <2>3. uploads' \in Seq(Uploads) /\ Len(uploads') = Len(uploads)
        /\ DOMAIN uploads' = DOMAIN uploads
    BY <1>1, <1>3, <2>2
  <2>4. ASSUME NEW j \in DOMAIN uploads
        PROVE  /\ uploads'[j].key = uploads[j].key
               /\ uploads'[j].chunk = uploads[j].chunk
               /\ uploads'[j].at = IF j = k THEN to ELSE uploads[j].at
    <3>1. uploads'[j] = IF j = k THEN [uploads[k] EXCEPT !.at = to]
                                 ELSE uploads[j]
      BY <1>1, <1>3
    <3>2. uploads[j] \in Uploads
      BY <2>1
    <3> QED BY <3>1, <3>2 DEF Uploads
  <2> QED BY <2>3, <2>4
<1>5. StreamInv'
  BY <1>1, <1>2, <1>3 DEF StreamInv
<1>6. ChunksInv'
  BY <1>1, <1>2, <1>3, <1>4 DEF ChunksInv
<1>7. TypeOK'
  BY <1>1, <1>3, <1>4 DEF RepackInv, TypeOK
<1>8. UploadsInv'
  BY <1>4 DEF RepackInv, UploadsInv
<1>9. PublishedInv' /\ CacheInv'
  BY <1>1 DEF RepackInv, PublishedInv, CacheInv
<1>10. CauseInv'
  BY <1>1, <1>2, <1>3 DEF RepackInv, CauseInv
<1> QED BY <1>1, <1>3, <1>5, <1>6, <1>7, <1>8, <1>9, <1>10 DEF RepackInv

LEMMA UploadTokenStep ==
    ASSUME RepackInv, NEW k \in DOMAIN uploads, UploadToken(k)
    PROVE  RepackInv'
<1>1. UploadAt(k, "go", "stat") /\ cas' = cas /\ faults' = faults
  BY DEF UploadToken
<1>2. CasInv' /\ faults' \in faults .. MaxFaults
  BY <1>1 DEF RepackInv, TypeOK, CasInv, KeysAddressBytes
<1> QED BY <1>1, <1>2, UploadStep

LEMMA StatStep ==
    ASSUME RepackInv, NEW k \in DOMAIN uploads, Stat(k)
    PROVE  RepackInv'
<1>1. cas' = cas
  BY DEF Stat
<1>2. CasInv' /\ faults' \in faults .. MaxFaults
  BY <1>1, RepackAssumption
     DEF Stat, Fault, RepackInv, TypeOK, CasInv, KeysAddressBytes
<1>3. \/ uploads[k].key \in DOMAIN cas /\ UploadAt(k, "stat", "done")
      \/ UploadAt(k, "stat", "put")
  BY DEF Stat
<1> QED BY <1>1, <1>2, <1>3, UploadStep

LEMMA PutStep ==
    ASSUME RepackInv, NEW k \in DOMAIN uploads, Put(k)
    PROVE  RepackInv'
<1>1. UploadAt(k, "put", "done") /\ cas' = Written({k}, Chunks)
      /\ faults' = faults
  BY DEF Put
<1>2. main.at # "none"
  BY <1>1 DEF UploadAt, Resting
<1>3. /\ \A j \in DOMAIN uploads : uploads[j].key = uploads[j].chunk
      /\ CasInv /\ UploadsInv /\ {k} \in SUBSET DOMAIN uploads
  BY <1>2, Running DEF RepackInv
<1>4. /\ CasInv' /\ DOMAIN cas \subseteq DOMAIN cas'
      /\ DOMAIN cas' = DOMAIN cas \cup {uploads[j].key : j \in {k}}
  BY <1>1, <1>3, WrittenStep
<1>5. faults' \in faults .. MaxFaults
  BY <1>1 DEF RepackInv, TypeOK
<1> QED BY <1>1, <1>4, <1>5, UploadStep

-----------------------------------------------------------------------------
(* The invariant, and what follows from it *)

LEMMA RepackInit == Init => RepackInv
<1> SUFFICES ASSUME Init PROVE RepackInv
  OBVIOUS
<1> USE DEF Init
<1>1. TypeOK
  BY RepackAssumption DEF TypeOK
<1>2. CasInv /\ CacheInv /\ UploadsInv /\ PublishedInv /\ CauseInv
  BY DEF CasInv, KeysAddressBytes, CacheInv, NoRepeats, Elements, UploadsInv,
         PublishedInv, CauseInv
<1> QED BY <1>1, <1>2 DEF RepackInv

LEMMA RepackNext == RepackInv /\ [Next]_vars => RepackInv'
<1> SUFFICES ASSUME RepackInv, [Next]_vars PROVE RepackInv'
  OBVIOUS
<1>1. ASSUME NEW n \in NewLens, Start(n) PROVE RepackInv'
  BY <1>1, StartStep
<1>2. CASE Fetch
  BY <1>2, FetchStep
<1>3. CASE Get
  BY <1>3, GetStep
<1>4. CASE Missing \/ Dies
  BY <1>4, DeathStep
<1>5. CASE Do
  BY <1>5, DoStep
<1>6. CASE Copy
  BY <1>6, CopyStep
<1>7. CASE Cut
  BY <1>7, CutStep
<1>8. CASE EndOfStream
  BY <1>8, EndOfStreamStep
<1>9. ASSUME NEW i \in 1 .. Len(Source), Prefetch(i) PROVE RepackInv'
  BY <1>9, PrefetchStep
<1>10. ASSUME NEW h \in SourceHashes,
              Check(h) \/ CatToken(h) \/ Cat(h) \/ CatFails(h)
       PROVE  RepackInv'
  BY <1>10, CheckStep, CatTokenStep, CatStep, CatFailsStep
<1>11. ASSUME NEW k \in DOMAIN uploads, UploadToken(k) \/ Stat(k) \/ Put(k)
       PROVE  RepackInv'
  BY <1>11, UploadTokenStep, StatStep, PutStep
<1>12. CASE Publish
  BY <1>12, PublishStep
<1>13. CASE UNCHANGED vars
  <2>1. /\ cas' = cas /\ published' = published /\ flags' = flags
        /\ main' = main /\ uploads' = uploads /\ spawned' = spawned
        /\ flight' = flight /\ ll' = ll /\ m' = m /\ faults' = faults
    BY <1>13 DEF vars
  <2> QED BY <2>1 DEF RepackInv, TypeOK, CasInv, KeysAddressBytes, CacheInv,
             UploadsInv, PublishedInv, CauseInv, StreamInv, ChunksInv, NewLen,
             Wanted, AtEnd
<1> QED BY <1>1, <1>2, <1>3, <1>4, <1>5, <1>6, <1>7, <1>8, <1>9, <1>10, <1>11,
           <1>12, <1>13 DEF Next, Progress

\* However main, its prefetchers, the calls and the uploads interleave, and
\* wherever a process dies.
THEOREM RepackInvariant == Spec => []RepackInv
<1>1. Init => RepackInv
  BY RepackInit
<1>2. RepackInv /\ [Next]_vars => RepackInv'
  BY RepackNext
<1> QED BY <1>1, <1>2, PTL DEF Spec

\* What is stored under a key is what the key is the hash of.
THEOREM RepackKeysAddressBytes == Spec => []KeysAddressBytes
<1>1. RepackInv => KeysAddressBytes
  BY DEF RepackInv, CasInv
<1> QED BY <1>1, RepackInvariant, PTL

\* Each new .torrent is the bytes of the source in its layout, for every
\* content and all piece lengths.
THEOREM RepackSameBytes == Spec => []SameBytes
<1>1. RepackInv => SameBytes
  <2> SUFFICES ASSUME RepackInv PROVE SameBytes
    OBVIOUS
  <2>1. \A t \in published : t.pieces = Layout(t.len)
    BY DEF RepackInv, PublishedInv
  <2>2. main.at # "none" => StreamInv /\ ChunksInv
    BY DEF RepackInv
  <2> QED BY <2>1, <2>2 DEF SameBytes, StreamInv, ChunksInv
<1> QED BY <1>1, RepackInvariant, PTL

\* Without a fault, a repack whose cache has room for all pieces does not die.
THEOREM RepackDiesForACause == Spec => []DiesForACause
<1>1. RepackInv => DiesForACause
  <2> SUFFICES ASSUME RepackInv, main.at = "dead", ~(faults > 0)
               PROVE  flags.cap < Cardinality(SourceHashes)
    BY DEF DiesForACause
  <2>1. faults = 0
    BY DEF RepackInv, TypeOK
  <2>2. ~(Cardinality(SourceHashes) <= flags.cap)
    BY <2>1 DEF RepackInv, CauseInv
  <2>3. flags.cap \in Int /\ Cardinality(SourceHashes) \in Nat
    BY RepackAssumption, SourceFacts, FS_CardinalityType
       DEF RepackInv, TypeOK
  <2> QED BY <2>2, <2>3
<1> QED BY <1>1, RepackInvariant, PTL

-----------------------------------------------------------------------------
(* To the readers of the bucket *)

\* The CAS only grows.  A .torrent is added by Publish alone, which stores no
\* piece and finds all of them there.
LEMMA BucketStep ==
    ASSUME RepackInv, [Next]_vars
    PROVE  /\ DOMAIN cas \subseteq DOMAIN cas'
           /\ \/ published' = published
              \/ /\ published' = published \cup {[len |-> NewLen,
                                                  pieces |-> Layout(NewLen)]}
                 /\ DOMAIN cas' = DOMAIN cas
                 /\ Elements(Layout(NewLen)) \subseteq DOMAIN cas
<1>1. CASE Missing \/ Dies
  <2>1. /\ ~Resting /\ ProcessEnds("dead") /\ flags' = flags
        /\ published' = published
    BY <1>1 DEF Missing, Dies, Resting
  <2>2. faults' \in 0 .. MaxFaults
    BY <1>1, RepackAssumption DEF Missing, Dies, Fault, RepackInv, TypeOK
  <2> QED BY <2>1, <2>2, EndsStep
<1>2. CASE Publish
  <2>1. ~Resting /\ Drained /\ flags' = flags /\ faults' \in 0 .. MaxFaults
    BY <1>2 DEF Publish, Drained, Resting, RepackInv, TypeOK
  <2>2. /\ main.newPieces = Layout(NewLen) /\ main.bytesRead = Len(Content)
        /\ Elements(Layout(NewLen)) \subseteq DOMAIN cas
    BY <2>1, DrainedFacts
  <2>3. /\ ProcessEnds("done")
        /\ published' = published \/
           published' = published \cup {[len |-> NewLen,
                                         pieces |-> main.newPieces]}
    BY <1>2, <2>2 DEF Publish
  <2>4. DOMAIN cas' = DOMAIN cas
    BY <2>1, <2>3, EndsStep
  <2> QED BY <2>2, <2>3, <2>4
<1>3. ASSUME NEW k \in DOMAIN uploads, Put(k)
      PROVE  published' = published /\ DOMAIN cas \subseteq DOMAIN cas'
  BY <1>3 DEF Put, UploadAt, Written
<1>4. CASE published' = published /\ cas' = cas
  BY <1>4
<1>5. \/ Missing \/ Dies \/ Publish
      \/ \E k \in DOMAIN uploads : Put(k)
      \/ published' = published /\ cas' = cas
  BY DEF Next, Progress, Start, Fetch, Get, Do, Copy, Cut, EndOfStream,
         Prefetch, Check, CatToken, Cat, CatFails, UploadToken, Stat,
         UploadAt, bucketVars, vars
<1> QED BY <1>1, <1>2, <1>3, <1>4, <1>5

\* Each layout is ingested as fetch ingests a torrent: its pieces appear and
\* stay, and the .torrent is there once they all are.
THEOREM RepackImplementsIngest == Spec => ImplementsIngest
<1>1. Init => \A n \in NewLens : Ingests(n)!Init
  BY DEF Init, Ingests!Init
<1>2. ASSUME RepackInv, [Next]_vars, NEW n \in NewLens
      PROVE  [Ingests(n)!Next]_(Ingests(n)!ingestVars)
  <2> DEFINE H == Elements(Layout(n))
             new == [len |-> NewLen, pieces |-> Layout(NewLen)]
  <2>1. DOMAIN cas \subseteq DOMAIN cas'
    BY <1>2, BucketStep
  <2>2. CASE published' = published
    <3>1. H \cap DOMAIN cas' = (H \cap DOMAIN cas) \cup (H \cap DOMAIN cas')
      BY <2>1
    <3>2. Ingests(n)!Store(H \cap DOMAIN cas')
      BY <2>2, <3>1 DEF Ingests!Store
    <3>3. H \cap DOMAIN cas' \in SUBSET H
      OBVIOUS
    <3> QED BY <3>2, <3>3 DEF Ingests!Next
  <2>3. CASE /\ published' = published \cup {new}
             /\ DOMAIN cas' = DOMAIN cas
             /\ Elements(Layout(NewLen)) \subseteq DOMAIN cas
    <3>1. CASE n = NewLen
      <4>1. H \cap DOMAIN cas = H /\ H \cap DOMAIN cas' = H \cap DOMAIN cas
        BY <2>3, <3>1
      <4>2. \E t \in published' : t.len = n
        <5>1. new \in published' /\ new.len = n
          BY <2>3, <3>1
        <5> QED BY <5>1
      <4> QED BY <4>1, <4>2 DEF Ingests!Next, Ingests!Commit
    <3>2. CASE n # NewLen
      <4>1. (\E t \in published' : t.len = n)
              <=> (\E t \in published : t.len = n)
        BY <2>3, <3>2
      <4> QED BY <2>3, <4>1 DEF Ingests!ingestVars
    <3> QED BY <3>1, <3>2
  <2> QED BY <1>2, <2>2, <2>3, BucketStep
<1>3. RepackInv /\ [Next]_vars
        => [\A n \in NewLens : [Ingests(n)!Next]_(Ingests(n)!ingestVars)]_vars
  BY <1>2
<1> QED BY <1>1, <1>3, RepackInvariant, PTL DEF Spec, ImplementsIngest

-----------------------------------------------------------------------------
(* The repack job of Bucket *)

\* The source pieces that main has had in memory, and the new ones that are
\* known to be stored.
Read == {Source[i] : i \in 1 .. main.cur - 1}
          \cup IF main.piece = <<>> THEN {} ELSE {Wanted}
Have == {uploads[k].key : k \in {k \in DOMAIN uploads : uploads[k].at = "done"}}
Lens == {t.len : t \in published}

\* What Bucket sees of a job that runs, and of none.
LEMMA JobStateIs ==
    /\ JobState = IF Resting THEN [at |-> "idle"]
                  ELSE [at |-> "repack", source |-> OldLen, torrent |-> NewLen,
                        read |-> Read, have |-> Have, beside |-> FALSE]
    /\ JobState' = IF Resting' THEN [at |-> "idle"]
                   ELSE [at |-> "repack", source |-> OldLen,
                         torrent |-> NewLen', read |-> Read',
                         have |-> Have', beside |-> FALSE]
BY DEF JobState, Read, Have

\* Nothing that Bucket sees.
LEMMA JobStutters ==
    ASSUME Resting' <=> Resting, NewLen' = NewLen, Read' = Read, Have' = Have,
           DOMAIN cas' = DOMAIN cas, published' = published
    PROVE  UNCHANGED Shared!vars
<1>1. JobState' = JobState
  BY JobStateIs
<1>2. Lens' = Lens
  BY DEF Lens
<1> QED BY <1>1, <1>2 DEF Shared!vars, Lens

LEMMA JobStarts ==
    ASSUME Resting, ~Resting', NEW n \in NewLens, NewLen' = n, Read' = {},
           Have' = {}, DOMAIN cas' = DOMAIN cas, published' = published
    PROVE  Shared!Next
<1> DEFINE job == [j \in {"repack"} |-> JobState]
           new == [at |-> "repack", source |-> OldLen, torrent |-> n,
                   read |-> {}, have |-> {}, beside |-> FALSE]
<1>1. JobState = [at |-> "idle"] /\ JobState' = new
  BY JobStateIs
<1>2. job' = [job EXCEPT !["repack"] = new]
  BY <1>1
<1>3. Lens' = Lens
  BY DEF Lens
<1>4. Shared!RepackStart("repack", OldLen, n)
  BY <1>1, <1>2, <1>3 DEF Shared!RepackStart, Shared!Active, Shared!IdleJob,
     Shared!Sweeping, Lens
<1> QED BY <1>4 DEF Shared!Next, Shared!JobStep, Shared!RepackStep

LEMMA JobReads ==
    ASSUME ~Resting, ~Resting', NewLen' = NewLen, NEW h \in SourceHashes,
           h \in DOMAIN cas, Read' = Read \cup {h}, Have' = Have,
           DOMAIN cas' = DOMAIN cas, published' = published
    PROVE  [Shared!Next]_(Shared!vars)
<1>1. CASE h \in Read
  <2>1. Read' = Read
    BY <1>1
  <2> QED BY <2>1, JobStutters
<1>2. CASE h \notin Read
  <2> DEFINE job == [j \in {"repack"} |-> JobState]
  <2>1. /\ JobState = [at |-> "repack", source |-> OldLen, torrent |-> NewLen,
                       read |-> Read, have |-> Have, beside |-> FALSE]
        /\ JobState' = [at |-> "repack", source |-> OldLen,
                        torrent |-> NewLen, read |-> Read \cup {h},
                        have |-> Have, beside |-> FALSE]
    BY JobStateIs
  <2>2. job' = [job EXCEPT !["repack"].read = @ \cup {h}]
    BY <2>1
  <2>3. Lens' = Lens
    BY DEF Lens
  <2>4. h \in Elements(Layout(OldLen))
    BY DEF SourceHashes, Source
  <2>5. Shared!RepackRead("repack", h)
    BY <1>2, <2>1, <2>2, <2>3, <2>4 DEF Shared!RepackRead, Lens
  <2>6. h \in UNION {Elements(Layout(n)) : n \in NewLens \cup {OldLen}}
    BY <2>4
  <2> QED BY <2>5, <2>6 DEF Shared!Next, Shared!JobStep, Shared!RepackStep
<1> QED BY <1>1, <1>2

LEMMA JobPuts ==
    ASSUME ~Resting, ~Resting', NewLen' = NewLen, NewLen \in NewLens,
           NEW h \in Elements(Layout(NewLen)), Read' = Read, Read # {},
           Have' = Have \cup {h}, Have \subseteq DOMAIN cas,
           DOMAIN cas' = DOMAIN cas \cup {h}, published' = published
    PROVE  [Shared!Next]_(Shared!vars)
<1>1. CASE h \in Have
  <2>1. Have' = Have /\ DOMAIN cas' = DOMAIN cas
    BY <1>1
  <2> QED BY <2>1, JobStutters
<1>2. CASE h \notin Have
  <2> DEFINE job == [j \in {"repack"} |-> JobState]
  <2>1. /\ JobState = [at |-> "repack", source |-> OldLen, torrent |-> NewLen,
                       read |-> Read, have |-> Have, beside |-> FALSE]
        /\ JobState' = [at |-> "repack", source |-> OldLen,
                        torrent |-> NewLen, read |-> Read,
                        have |-> Have \cup {h}, beside |-> FALSE]
    BY JobStateIs
  <2>2. job' = [job EXCEPT !["repack"].have = @ \cup {h}]
    BY <2>1
  <2>3. Lens' = Lens
    BY DEF Lens
  <2>4. Shared!PutPiece("repack", h)
    BY <1>2, <2>1, <2>2, <2>3 DEF Shared!PutPiece, Shared!Uploadable, Lens
  <2>5. h \in UNION {Elements(Layout(n)) : n \in NewLens \cup {OldLen}}
    OBVIOUS
  <2> QED BY <2>4, <2>5 DEF Shared!Next, Shared!JobStep
<1> QED BY <1>1, <1>2

\* Of what may land, Bucket counts what the job does not have yet.
LEMMA JobEnds ==
    ASSUME ~Resting, Resting', NewLen \in NewLens,
           NEW H \in SUBSET Elements(Layout(NewLen)), H # {} => Read # {},
           Have \subseteq DOMAIN cas,
           DOMAIN cas' = DOMAIN cas \cup H, published' = published
    PROVE  Shared!Next
<1> DEFINE job == [j \in {"repack"} |-> JobState]
           G == H \ Have
<1>1. /\ JobState = [at |-> "repack", source |-> OldLen, torrent |-> NewLen,
                     read |-> Read, have |-> Have, beside |-> FALSE]
      /\ JobState' = [at |-> "idle"]
  BY JobStateIs
<1>2. job' = [job EXCEPT !["repack"] = [at |-> "idle"]]
  BY <1>1
<1>3. Lens' = Lens
  BY DEF Lens
<1>4. DOMAIN cas' = DOMAIN cas \cup G
  OBVIOUS
<1>5. G \in SUBSET Shared!Uploadable("repack")
  BY <1>1 DEF Shared!Uploadable
<1>6. Shared!Active("repack")
  BY <1>1 DEF Shared!Active, Shared!IdleJob
<1>7. Shared!JobDies("repack")
  BY <1>2, <1>3, <1>4, <1>5, <1>6 DEF Shared!JobDies, Shared!IdleJob, Lens
<1> QED BY <1>7 DEF Shared!Next, Shared!JobStep

LEMMA JobCommits ==
    ASSUME ~Resting, Resting', NewLen \in NewLens, Read = SourceHashes,
           Elements(Layout(NewLen)) \subseteq Have, DOMAIN cas' = DOMAIN cas,
           IF NewLen = OldLen THEN published' = published
           ELSE Lens' = Lens \cup {NewLen}
    PROVE  Shared!Next
<1> DEFINE job == [j \in {"repack"} |-> JobState]
<1>1. /\ JobState = [at |-> "repack", source |-> OldLen, torrent |-> NewLen,
                     read |-> Read, have |-> Have, beside |-> FALSE]
      /\ JobState' = [at |-> "idle"]
  BY JobStateIs
<1>2. job' = [job EXCEPT !["repack"] = [at |-> "idle"]]
  BY <1>1
<1>3. Shared!HasAll("repack")
  BY <1>1 DEF Shared!HasAll
<1>4. Read = Elements(Layout(OldLen))
  BY DEF SourceHashes, Source
<1>5. NewLen = OldLen => Lens' = Lens
  BY DEF Lens
<1>6. NewLen # OldLen => Shared!Marks("repack")
  BY <1>1 DEF Shared!Marks, Lens
<1>7. Shared!RepackCommit("repack")
  BY <1>1, <1>2, <1>3, <1>4, <1>5, <1>6
     DEF Shared!RepackCommit, Shared!IdleJob, Lens
<1> QED BY <1>7 DEF Shared!Next, Shared!JobStep, Shared!RepackStep

\* What is known to be stored is; and chunks are cut from bytes read.
LEMMA HaveFacts ==
    ASSUME RepackInv, ~Resting
    PROVE  /\ Have \subseteq DOMAIN cas /\ NewLen \in NewLens
           /\ \A k \in DOMAIN uploads :
                 Read # {} /\ uploads[k].key \in Elements(Layout(NewLen))
<1>1. main.at # "none"
  BY DEF Resting
<1>2. /\ main \in Mains /\ StreamInv /\ ChunksInv /\ NewLen \in Nat \ {0}
      /\ NewLen \in NewLens
      /\ \A k \in DOMAIN uploads : uploads[k].key \in Elements(Layout(NewLen))
  BY <1>1, Running
<1>3. Have \subseteq DOMAIN cas
  BY DEF RepackInv, UploadsInv, Have
<1>4. ASSUME NEW k \in DOMAIN uploads PROVE Read # {}
  <2> DEFINE q == Len(main.newPieces)
             C == Len(Layout(NewLen))
             P == NewLen
  <2>1. q \in Nat /\ q > 0
    BY <1>2, <1>4 DEF ChunksInv, Mains, RepackInv, TypeOK
  <2>2. main.bytesRead > 0
    <3>1. CASE main.at = "drain"
      <4>1. /\ main.bytesRead = Len(Content) /\ Len(Content) \in Nat /\ q <= C
        BY <1>2, <3>1, SourceFacts DEF ChunksInv
      <4>2. C \in Nat /\ C * NewLen < Len(Content) + NewLen
        BY <1>2, LayoutFacts
      <4>3. P \in Nat \ {0} /\ C * P < Len(Content) + P
        BY <1>2, <4>2, Zenon
      <4> HIDE DEF q, C, P
      <4>4. 1 * P <= C * P /\ 1 * P = P
        BY <2>1, <4>1, <4>2, <4>3, Product
      <4> QED BY <4>1, <4>2, <4>3, <4>4
    <3>2. CASE main.at # "drain"
      <4>1. main.bytesRead = q * P /\ P \in Nat \ {0}
        BY <1>2, <3>2 DEF ChunksInv
      <4> HIDE DEF q, P
      <4> QED BY <2>1, <4>1
    <3> QED BY <3>1, <3>2
  <2>3. CASE main.piece # <<>>
    BY <2>3 DEF Read
  <2>4. CASE main.piece = <<>>
    <3>1. main.bytesRead + main.n
            = LeastOf((main.cur - 1) * OldLen, Len(Content))
      BY <1>2, <2>4 DEF StreamInv
    <3>2. main.cur # 1
      <4> SUFFICES ASSUME main.cur = 1 PROVE FALSE
        OBVIOUS
      <4>1. LeastOf((main.cur - 1) * OldLen, Len(Content)) = 0
        BY SourceFacts, RepackAssumption DEF LeastOf
      <4>2. main.bytesRead \in Nat /\ main.n \in Nat
        BY <1>2 DEF Mains
      <4> QED BY <2>2, <3>1, <4>1, <4>2
    <3>3. 1 \in 1 .. main.cur - 1
      BY <1>2, <3>2, SourceFacts DEF StreamInv
    <3> QED BY <3>3 DEF Read
  <2> QED BY <2>3, <2>4
<1> QED BY <1>2, <1>3, <1>4

\* A process ends: what of its uploads lands.
LEMMA EndsLand ==
    ASSUME RepackInv, ~Resting, NEW at, ProcessEnds(at)
    PROVE  \E K \in SUBSET DOMAIN uploads :
              DOMAIN cas' = DOMAIN cas \cup {uploads[k].key : k \in K}
<1>1. PICK K \in SUBSET {k \in DOMAIN uploads : uploads[k].at = "put"} :
        cas' = Written(K, Chunks)
  BY DEF ProcessEnds
<1>2. DOMAIN cas' = DOMAIN cas \cup {uploads[k].key : k \in K}
  BY <1>1 DEF Written
<1> QED BY <1>2

\* The steps of main: only a hit reads a piece, and its bytes are handed out
\* before the next one.
LEMMA MainJob ==
    ASSUME RepackInv, Fetch \/ Get \/ Do \/ Copy \/ Cut \/ EndOfStream
    PROVE  [Shared!Next]_(Shared!vars)
<1>1. main.at \notin {"none", "done", "dead"} /\ ~Resting
  BY DEF Fetch, Get, Do, Copy, Cut, EndOfStream, Resting
<1>2. main \in Mains /\ StreamInv
  BY <1>1, Running
<1>3. cas' = cas /\ published' = published
  BY DEF Fetch, Get, Do, Copy, Cut, EndOfStream, bucketVars
<1>4. CASE \E x \in {"get", "do", "wait", "drain"} :
              main' = [main EXCEPT !.at = x] /\ uploads' = uploads
  <2>1. /\ main'.at \in {"get", "do", "wait", "drain"}
        /\ main'.cur = main.cur /\ main'.piece = main.piece
        /\ main'.buf = main.buf
    BY <1>2, <1>4 DEF Mains
  <2>2. ~Resting' /\ NewLen' = NewLen /\ Read' = Read /\ Have' = Have
    BY <1>4, <2>1 DEF Resting, NewLen, Read, Have, Wanted
  <2> QED BY <1>1, <1>3, <2>2, JobStutters
<1>5. CASE /\ Wanted \in Elements(ll) /\ uploads' = uploads
           /\ main.at \in {"get", "reread"}
           /\ main' = [main EXCEPT !.at = "read", !.piece = m[Wanted],
                                   !.pos = 0]
  <2>1. main.piece = <<>> /\ main.cur \in 1 .. Len(Source)
    BY <1>2, <1>5, SourceFacts DEF StreamInv
  <2>2. m[Wanted] = Wanted /\ Wanted \in SourceHashes /\ Wanted # <<>>
    BY <1>5, <2>1, PieceFacts DEF RepackInv, CacheInv, Wanted
  <2>3. /\ main'.at = "read" /\ main'.cur = main.cur /\ main'.piece = Wanted
        /\ main'.buf = main.buf
    BY <1>2, <1>5, <2>2 DEF Mains
  <2>4. /\ ~Resting' /\ NewLen' = NewLen /\ Have' = Have
        /\ Read' = Read \cup {Wanted}
    BY <1>5, <2>1, <2>2, <2>3 DEF Resting, NewLen, Read, Have, Wanted
  <2>5. Wanted \in DOMAIN cas
    BY <2>2 DEF RepackInv, CasInv
  <2> HIDE DEF Wanted
  <2> QED BY <1>1, <1>3, <2>2, <2>4, <2>5, JobReads
<1>6. CASE Copy
  <2> DEFINE c == LeastOf(NewLen - main.n, Len(main.piece) - main.pos)
             over == main.pos + c >= Len(main.piece)
  <2>1. /\ main.piece # <<>> /\ main.at = "read" /\ uploads' = uploads
        /\ main' = [main EXCEPT !.buf = Filled(main.pos, c),
                                !.n = @ + c, !.pos = @ + c,
                                !.cur = IF over THEN @ + 1 ELSE @,
                                !.piece = IF over THEN <<>> ELSE @]
    BY <1>6 DEF Copy
  <2> HIDE DEF c, over
  <2>2. /\ main'.at = "read" /\ main'.buf = Filled(main.pos, c)
        /\ main'.cur = (IF over THEN main.cur + 1 ELSE main.cur)
        /\ main'.piece = (IF over THEN <<>> ELSE main.piece)
    BY <1>2, <2>1 DEF Mains
  <2>3. NewLen' = NewLen
    <3>1. RepackInv'
      BY <1>6, CopyStep
    <3>2. DOMAIN main'.buf = DOMAIN main.buf
      BY <2>2 DEF Filled
    <3>3. main.buf \in Seq(Nat) /\ main'.buf \in Seq(Nat)
      <4>1. main' \in Mains
        <5>1. TypeOK'
          BY <3>1 DEF RepackInv
        <5>2. main' \in Mains \cup {[at |-> "none"]}
          BY <5>1 DEF TypeOK
        <5> QED BY <2>2, <5>2
      <4>2. main.buf \in Seq(Nat)
        BY <1>2 DEF Mains
      <4>3. main'.buf \in Seq(Nat)
        BY <2>2, <4>1 DEF Mains
      <4> QED BY <4>2, <4>3
    <3>4. DOMAIN main.buf = 1 .. Len(main.buf) /\ Len(main.buf) \in Nat
      BY <3>3
    <3>5. DOMAIN main'.buf = 1 .. Len(main'.buf) /\ Len(main'.buf) \in Nat
      BY <3>3
    <3>6. Len(main'.buf) = Len(main.buf)
      BY <3>2, <3>4, <3>5
    <3> QED BY <3>6 DEF NewLen
  <2>4. Read' = Read
    <3>1. CASE over
      <4>1. main'.cur - 1 = main.cur /\ main.cur \in 1 .. Len(Source)
        BY <1>2, <2>1, <2>2, <3>1, SourceFacts DEF StreamInv
      <4>2. 1 .. main.cur = (1 .. main.cur - 1) \cup {main.cur}
        BY <4>1, SourceFacts
      <4>3. Read' = {Source[i] : i \in 1 .. main.cur}
        BY <2>2, <3>1, <4>1 DEF Read
      <4> QED BY <2>1, <4>2, <4>3 DEF Read, Wanted
    <3>2. CASE ~over
      BY <2>2, <3>2 DEF Read, Wanted
    <3> QED BY <3>1, <3>2
  <2>5. ~Resting' /\ Have' = Have
    BY <2>1, <2>2 DEF Resting, Have
  <2> QED BY <1>1, <1>3, <2>3, <2>4, <2>5, JobStutters
<1>7. CASE Cut
  <2> DEFINE chunk == SubSeq(main.buf, 1, main.n)
             upload == [key |-> chunk, chunk |-> chunk, at |-> "go"]
  <2>1. /\ main.at = "read" /\ uploads' = Append(uploads, upload)
        /\ main' = [main EXCEPT !.newPieces = Append(@, chunk),
                                !.bytesRead = @ + main.n, !.n = 0,
                                !.at = IF main.n < NewLen THEN "drain" ELSE @]
    BY <1>7 DEF Cut
  <2> HIDE DEF upload
  <2>2. /\ main'.at \in {"read", "drain"} /\ main'.cur = main.cur
        /\ main'.piece = main.piece /\ main'.buf = main.buf
    BY <1>2, <2>1 DEF Mains
  <2>3. uploads \in Seq(Uploads) /\ upload.at = "go"
    BY DEF RepackInv, TypeOK, upload
  <2>4. /\ DOMAIN uploads' = DOMAIN uploads \cup {Len(uploads) + 1}
        /\ \A k \in DOMAIN uploads : uploads'[k] = uploads[k]
        /\ uploads'[Len(uploads) + 1] = upload
    BY <2>1, <2>3
  <2>5. Have' = Have
    BY <2>3, <2>4 DEF Have
  <2>6. ~Resting' /\ NewLen' = NewLen /\ Read' = Read
    BY <2>2 DEF Resting, NewLen, Read, Wanted
  <2> QED BY <1>1, <1>3, <2>5, <2>6, JobStutters
<1>8. \/ Copy \/ Cut
      \/ \E x \in {"get", "do", "wait", "drain"} :
            main' = [main EXCEPT !.at = x] /\ uploads' = uploads
      \/ /\ Wanted \in Elements(ll) /\ uploads' = uploads
         /\ main.at \in {"get", "reread"}
         /\ main' = [main EXCEPT !.at = "read", !.piece = m[Wanted], !.pos = 0]
  BY DEF Fetch, Get, Do, EndOfStream
<1> QED BY <1>4, <1>5, <1>6, <1>7, <1>8

\* Calls and prefetchers change nothing that Bucket sees.
LEMMA CallsJob ==
    ASSUME RepackInv,
           \/ \E i \in 1 .. Len(Source) : Prefetch(i)
           \/ \E h \in SourceHashes :
                 Check(h) \/ CatToken(h) \/ Cat(h) \/ CatFails(h)
    PROVE  [Shared!Next]_(Shared!vars)
<1>1. ~Resting
  BY DEF Prefetch, Check, CatToken, Cat, CatFails, InCall
<1>2. cas' = cas /\ published' = published /\ uploads' = uploads
  BY DEF Prefetch, Check, CatToken, Cat, CatFails, bucketVars
<1>3. main \in Mains
  BY <1>1, Running DEF Resting
<1>4. main' = main \/ main' = [main EXCEPT !.at = "reread"]
  BY DEF Prefetch, Check, CatToken, Cat, CatFails, CallEnds
<1>5. /\ main'.cur = main.cur /\ main'.piece = main.piece
      /\ main'.buf = main.buf
      /\ main'.at = main.at \/ main'.at = "reread"
  BY <1>3, <1>4 DEF Mains
<1>6. ~Resting' /\ NewLen' = NewLen /\ Read' = Read /\ Have' = Have
  BY <1>1, <1>2, <1>5 DEF Resting, NewLen, Read, Have, Wanted
<1> QED BY <1>1, <1>2, <1>6, JobStutters

\* An upload that is done adds its chunk to what the job has.
LEMMA UploadsJob ==
    ASSUME RepackInv, NEW k \in DOMAIN uploads,
           UploadToken(k) \/ Stat(k) \/ Put(k)
    PROVE  [Shared!Next]_(Shared!vars)
<1>1. PICK to \in {"stat", "put", "done"} :
        /\ ~Resting /\ uploads' = [uploads EXCEPT ![k].at = to]
        /\ uploads[k].at # "done"
        /\ published' = published /\ main' = main
        /\ \/ to # "done" /\ cas' = cas
           \/ to = "done" /\ cas' = cas /\ uploads[k].key \in DOMAIN cas
           \/ to = "done" /\ cas' = Written({k}, Chunks)
  BY DEF UploadToken, Stat, Put, UploadAt
<1>2. /\ Have \subseteq DOMAIN cas /\ NewLen \in NewLens /\ Read # {}
      /\ uploads[k].key \in Elements(Layout(NewLen))
  BY <1>1, HaveFacts
<1>3. ~Resting' /\ NewLen' = NewLen /\ Read' = Read
  BY <1>1 DEF Resting, NewLen, Read, Wanted
<1>4. uploads \in Seq(Uploads)
  BY DEF RepackInv, TypeOK
<1>5. /\ DOMAIN uploads' = DOMAIN uploads
      /\ \A j \in DOMAIN uploads :
            /\ uploads'[j].key = uploads[j].key
            /\ uploads'[j].at = IF j = k THEN to ELSE uploads[j].at
  BY <1>1, <1>4 DEF Uploads
<1>6. CASE to # "done"
  <2>1. Have' = Have
    BY <1>1, <1>5, <1>6 DEF Have
  <2> QED BY <1>1, <1>3, <1>6, <2>1, JobStutters
<1>7. CASE to = "done"
  <2> DEFINE h == uploads[k].key
  <2>1. Have' = Have \cup {h}
    BY <1>1, <1>5, <1>7 DEF Have
  <2>2. DOMAIN cas' = DOMAIN cas \cup {h}
    BY <1>1, <1>7 DEF Written
  <2> HIDE DEF h
  <2>3. h \in Elements(Layout(NewLen))
    BY <1>2 DEF h
  <2> QED BY <1>1, <1>2, <1>3, <2>1, <2>2, <2>3, JobPuts
<1> QED BY <1>6, <1>7

\* The memory of a process at rest, or of one that begins.
LEMMA FreshJob ==
    ASSUME NEW at, NEW n \in Nat, Fresh(at, n)
    PROVE  main'.at = at /\ NewLen' = n /\ Read' = {} /\ Have' = {}
<1> DEFINE b == [i \in 1 .. n |-> 0]
<1>1. Len(b) = n
  <2>1. b \in [1 .. n -> {0}]
    OBVIOUS
  <2> QED BY <2>1
<1> HIDE DEF b
<1>2. main' = [at |-> at, cur |-> 1, pos |-> 0, piece |-> <<>>, buf |-> b,
               n |-> 0, newPieces |-> <<>>, bytesRead |-> 0]
      /\ uploads' = <<>>
  BY DEF Fresh, b
<1>3. main'.at = at /\ main'.cur = 1 /\ main'.piece = <<>> /\ main'.buf = b
  BY <1>2
<1>4. Read' = {}
  BY <1>3 DEF Read
<1> QED BY <1>1, <1>2, <1>3, <1>4 DEF NewLen, Have

LEMMA StartJob ==
    ASSUME RepackInv, NEW n \in NewLens, Start(n)
    PROVE  [Shared!Next]_(Shared!vars)
<1>1. /\ Resting /\ Fresh("read", n) /\ cas' = cas /\ published' = published
  BY DEF Start, bucketVars
<1>2. n \in Nat
  BY RepackAssumption
<1>3. main'.at = "read" /\ NewLen' = n /\ Read' = {} /\ Have' = {}
  BY <1>1, <1>2, FreshJob
<1>4. ~Resting'
  BY <1>3 DEF Resting
<1> QED BY <1>1, <1>3, <1>4, JobStarts

LEMMA DeathJob ==
    ASSUME RepackInv, Missing \/ Dies
    PROVE  [Shared!Next]_(Shared!vars)
<1>1. ~Resting /\ ProcessEnds("dead") /\ published' = published
  BY DEF Missing, Dies, Resting
<1>2. PICK K \in SUBSET DOMAIN uploads :
        DOMAIN cas' = DOMAIN cas \cup {uploads[k].key : k \in K}
  BY <1>1, EndsLand
<1>3. /\ Have \subseteq DOMAIN cas /\ NewLen \in NewLens
      /\ \A k \in DOMAIN uploads :
            Read # {} /\ uploads[k].key \in Elements(Layout(NewLen))
  BY <1>1, HaveFacts
<1> DEFINE H == {uploads[k].key : k \in K}
<1>4. H \in SUBSET Elements(Layout(NewLen)) /\ (H # {} => Read # {})
  BY <1>3
<1>5. Resting'
  <2>1. main'.at = "dead"
    BY <1>1 DEF ProcessEnds, Fresh
  <2> QED BY <2>1 DEF Resting
<1> HIDE DEF H
<1>6. DOMAIN cas' = DOMAIN cas \cup H
  BY <1>2 DEF H
<1> QED BY <1>1, <1>3, <1>4, <1>5, <1>6, JobEnds

\* A repack that publishes has read all of the source, and has all that the
\* new .torrent names.
LEMMA PublishJob ==
    ASSUME RepackInv, Publish
    PROVE  [Shared!Next]_(Shared!vars)
<1>1. /\ ~Resting /\ Drained /\ flags' = flags /\ main.at = "drain"
      /\ faults' \in 0 .. MaxFaults
  BY DEF Publish, Drained, Resting, RepackInv, TypeOK
<1>2. /\ main.newPieces = Layout(NewLen) /\ main.bytesRead = Len(Content)
      /\ Elements(Layout(NewLen)) = {uploads[k].key : k \in DOMAIN uploads}
  BY <1>1, DrainedFacts
<1>3. /\ main \in Mains /\ StreamInv /\ ChunksInv /\ NewLen \in NewLens
  BY <1>1, Running
<1>4. ProcessEnds("done") /\ DOMAIN cas' = DOMAIN cas
  <2>1. ProcessEnds("done")
    BY <1>2 DEF Publish
  <2> QED BY <1>1, <2>1, EndsStep
<1>5. Resting'
  <2>1. main'.at = "done"
    BY <1>4 DEF ProcessEnds, Fresh
  <2> QED BY <2>1 DEF Resting
<1>6. Elements(Layout(NewLen)) \subseteq Have
  BY <1>1, <1>2 DEF Drained, Have
<1>7. Read = SourceHashes
  <2>1. main.piece = <<>> /\ main.cur > Len(Source)
    BY <1>1, <1>3 DEF ChunksInv, AtEnd
  <2>2. main.cur - 1 = Len(Source)
    BY <1>3, <2>1, SourceFacts DEF StreamInv
  <2> QED BY <2>1, <2>2, SourceFacts DEF Read
<1>8. IF NewLen = OldLen THEN published' = published
      ELSE Lens' = Lens \cup {NewLen}
  <2>1. CASE NewLen = OldLen
    <3>1. main.newPieces = Source
      BY <1>2, <2>1 DEF Source
    <3> QED BY <1>2, <2>1, <3>1 DEF Publish
  <2>2. CASE NewLen # OldLen
    <3> DEFINE new == [len |-> NewLen, pieces |-> main.newPieces]
    <3>1. published' = published \cup {new} /\ new.len = NewLen
      BY <1>2, <2>2 DEF Publish
    <3> HIDE DEF new
    <3>2. Lens' = Lens \cup {NewLen}
      BY <3>1 DEF Lens
    <3> QED BY <2>2, <3>2
  <2> QED BY <2>1, <2>2
<1> QED BY <1>1, <1>3, <1>4, <1>5, <1>6, <1>7, <1>8, JobCommits

\* A repack with all its goroutines is a repack job of Bucket: what it commits
\* it has read and stored, and a death leaves behind what one may there.
THEOREM RepackImplementsJob == Spec => ImplementsJob
<1>1. RepackInv /\ [Next]_vars => [Shared!Next]_(Shared!vars)
  <2> SUFFICES ASSUME RepackInv, [Next]_vars
               PROVE  [Shared!Next]_(Shared!vars)
    OBVIOUS
  <2>1. CASE \E n \in NewLens : Start(n)
    BY <2>1, StartJob
  <2>2. CASE Fetch \/ Get \/ Do \/ Copy \/ Cut \/ EndOfStream
    BY <2>2, MainJob
  <2>3. CASE Missing \/ Dies
    BY <2>3, DeathJob
  <2>4. CASE \/ \E i \in 1 .. Len(Source) : Prefetch(i)
             \/ \E h \in SourceHashes :
                   Check(h) \/ CatToken(h) \/ Cat(h) \/ CatFails(h)
    BY <2>4, CallsJob
  <2>5. CASE \E k \in DOMAIN uploads : UploadToken(k) \/ Stat(k) \/ Put(k)
    BY <2>5, UploadsJob
  <2>6. CASE Publish
    BY <2>6, PublishJob
  <2>7. CASE UNCHANGED vars
    <3>1. cas' = cas /\ published' = published /\ main' = main
          /\ uploads' = uploads
      BY <2>7 DEF vars
    <3>2. /\ Resting' <=> Resting
          /\ NewLen' = NewLen /\ Read' = Read /\ Have' = Have
      BY <3>1 DEF Resting, NewLen, Read, Have, Wanted
    <3> QED BY <3>1, <3>2, JobStutters
  <2> QED BY <2>1, <2>2, <2>3, <2>4, <2>5, <2>6, <2>7 DEF Next, Progress
<1> QED BY <1>1, RepackInvariant, PTL DEF Spec, ImplementsJob

-----------------------------------------------------------------------------
(* Why repack ends *)

\* The piece that main reads is one of the source.
LEMMA WantedIsSource ==
    ASSUME RepackInv, main.at \in {"get", "do", "wait", "reread"}
    PROVE  Wanted \in SourceHashes
<1>1. main.cur \in 1 .. Len(Source) + 1 /\ main.cur <= Len(Source)
  BY Running DEF StreamInv
<1>2. main.cur \in 1 .. Len(Source)
  BY <1>1, SourceFacts
<1> QED BY <1>2, SourceFacts DEF Wanted

\* A call that begins, or one that is already there.
LEMMA CallsGoOn ==
    ASSUME flight \in [SourceHashes -> Calls \cup {NoCall}],
           NEW h \in SourceHashes, NEW who \in {"main", "prefetch"},
           flight' = Called(h, who)
    PROVE  /\ flight'[h] # NoCall
           /\ \A i \in SourceHashes : flight[i] # NoCall => flight'[i] # NoCall
BY DEF Called, NoCall

\* A call that ends frees main, if main waits for it.
LEMMA CallEndsAwaited ==
    ASSUME RepackInv, CallAwaited, NEW h \in SourceHashes, CallEnds(h)
    PROVE  CallAwaited'
<1> SUFFICES ASSUME main'.at = "wait" PROVE flight'[Wanted'] # NoCall
  BY DEF CallAwaited
<1>1. main' = main /\ ~(main.at = "wait" /\ Wanted = h)
  <2>1. CASE main.at = "wait" /\ Wanted = h
    <3>1. main' = [main EXCEPT !.at = "reread"] /\ main \in Mains
      BY <2>1, Running DEF CallEnds
    <3> QED BY <3>1 DEF Mains
  <2> QED BY <2>1 DEF CallEnds
<1>2. Wanted' = Wanted /\ Wanted \in SourceHashes /\ flight[Wanted] # NoCall
  BY <1>1, WantedIsSource DEF Wanted, CallAwaited
<1>3. flight' = [flight EXCEPT ![h] = NoCall] /\ Wanted # h
  BY <1>1 DEF CallEnds
<1>4. flight \in [SourceHashes -> Calls \cup {NoCall}]
  BY DEF RepackInv, TypeOK
<1> HIDE DEF Wanted
<1> QED BY <1>2, <1>3, <1>4

\* CallAwaited goes on with every step.
LEMMA AwaitedStep ==
    ASSUME RepackInv, CallAwaited, [Next]_vars
    PROVE  CallAwaited'
<1>1. flight \in [SourceHashes -> Calls \cup {NoCall}]
  BY DEF RepackInv, TypeOK
<1>2. ASSUME main' = main,
             \A h \in SourceHashes : flight[h] # NoCall => flight'[h] # NoCall
      PROVE  CallAwaited'
  <2> SUFFICES ASSUME main.at = "wait" PROVE flight'[Wanted] # NoCall
    BY <1>2 DEF CallAwaited, Wanted
  <2> QED BY <1>2, WantedIsSource DEF CallAwaited
<1>3. ASSUME main'.at # "wait" PROVE CallAwaited'
  BY <1>3 DEF CallAwaited
<1>4. CASE Fetch \/ Get \/ Copy \/ Cut \/ EndOfStream
  <2>1. main \in Mains
    BY <1>4, Running DEF Fetch, Get, Copy, Cut, EndOfStream
  <2>2. main'.at # "wait"
    <3>1. CASE Fetch \/ Get
      BY <2>1, <3>1 DEF Fetch, Get, Mains
    <3>2. CASE Copy
      BY <2>1, <3>2 DEF Copy, Mains
    <3>3. CASE Cut
      BY <2>1, <3>3 DEF Cut, Mains
    <3>4. CASE EndOfStream
      BY <2>1, <3>4 DEF EndOfStream, Mains
    <3> QED BY <1>4, <3>1, <3>2, <3>3, <3>4
  <2> QED BY <1>3, <2>2
<1>5. CASE \/ Missing \/ Publish \/ Dies
           \/ \E n \in NewLens : Start(n)
  BY <1>3, <1>5 DEF Missing, Publish, Dies, Start, ProcessEnds, Fresh
<1>6. CASE Do
  <2>1. main \in Mains /\ main' = [main EXCEPT !.at = "wait"]
        /\ flight' = Called(Wanted, "main") /\ main.at = "do"
    BY <1>6, Running DEF Do
  <2>2. Wanted' = Wanted
    BY <2>1 DEF Wanted, Mains
  <2>3. flight'[Wanted] # NoCall
    BY <1>1, <2>1, WantedIsSource, CallsGoOn
  <2> QED BY <2>2, <2>3 DEF CallAwaited
<1>7. ASSUME NEW i \in 1 .. Len(Source), Prefetch(i) PROVE CallAwaited'
  <2>1. main' = main /\ flight' = Called(Source[i], "prefetch")
        /\ Source[i] \in SourceHashes
    BY <1>7, SourceFacts DEF Prefetch
  <2> QED BY <1>1, <1>2, <2>1, CallsGoOn
<1>8. ASSUME NEW h \in SourceHashes, Check(h) \/ CatToken(h), ~CallEnds(h)
      PROVE  CallAwaited'
  <2>1. PICK at \in {"token", "cat"} :
           main' = main /\ flight' = [flight EXCEPT ![h].at = at]
    BY <1>8 DEF Check, CatToken
  <2>2. \A i \in SourceHashes : flight[i] # NoCall => flight'[i] # NoCall
    BY <1>1, <2>1 DEF NoCall, Calls
  <2> QED BY <1>2, <2>1, <2>2
<1>9. ASSUME NEW h \in SourceHashes, CallEnds(h) PROVE CallAwaited'
  BY <1>9, CallEndsAwaited
<1>10. ASSUME NEW k \in DOMAIN uploads, UploadToken(k) \/ Stat(k) \/ Put(k)
       PROVE  CallAwaited'
  BY <1>2, <1>10 DEF UploadToken, Stat, Put, UploadAt
<1>11. CASE UNCHANGED vars
  BY <1>2, <1>11 DEF vars
<1>12. ASSUME NEW h \in SourceHashes, Cat(h) \/ CatFails(h) PROVE CallEnds(h)
  BY <1>12 DEF Cat, CatFails
<1> QED BY <1>4, <1>5, <1>6, <1>7, <1>8, <1>9, <1>10, <1>11, <1>12
        DEF Next, Progress

\* A main that waits waits for a call that somebody runs (repack.go:324-334).
THEOREM RepackAwaits == Spec => []CallAwaited
<1>1. Init => CallAwaited
  BY DEF Init, CallAwaited
<1>2. RepackInv /\ CallAwaited /\ [Next]_vars => CallAwaited'
  BY AwaitedStep
<1> QED BY <1>1, <1>2, RepackInvariant, PTL DEF Spec

\* When no token is free somebody holds one.
LEMMA TokenHolder ==
    ASSUME ~(Tokens < flags.upSem), flags.upSem > 0, RepackInv
    PROVE  \/ \E h \in SourceHashes : flight[h].at = "cat"
           \/ \E k \in DOMAIN uploads : uploads[k].at \in {"stat", "put"}
<1> DEFINE A == {h \in SourceHashes : flight[h].at = "cat"}
           B == {k \in DOMAIN uploads : uploads[k].at \in {"stat", "put"}}
<1>1. Tokens = Cardinality(A) + Cardinality(B)
  BY DEF Tokens
<1>2. CASE A = {} /\ B = {}
  <2>1. Cardinality(A) = 0 /\ Cardinality(B) = 0
    BY <1>2, FS_EmptySet
  <2> HIDE DEF A, B
  <2>2. Tokens = 0
    BY <1>1, <2>1
  <2> QED BY <2>2
<1> QED BY <1>2

\* RepackNeverStuck holds: of main, the calls, the prefetchers and the uploads
\* somebody can go on, when there is a place in the semaphore at all
\* (repack.go:158-203, 299-351).
THEOREM RepackGoesOn == Spec => []RepackNeverStuck
<1> DEFINE Somebody ==
       \/ MainCanGoOn \/ spawned # {}
       \/ \E h \in SourceHashes : CallCanGoOn(h)
       \/ \E k \in DOMAIN uploads : UploadCanGoOn(k)
<1>1. ASSUME RepackInv, flags.upSem > 0, ~(Tokens < flags.upSem)
      PROVE  Somebody
  <2>1. SourceHashes \subseteq DOMAIN cas
    BY <1>1 DEF RepackInv, CasInv
  <2> QED BY <1>1, <2>1, TokenHolder DEF CallCanGoOn, UploadCanGoOn
<1>2. ASSUME RepackInv, CallAwaited, Tokens < flags.upSem, ~Resting
      PROVE  Somebody
  <2>1. /\ main \in Mains /\ StreamInv
        /\ main.at \in {"read", "get", "do", "wait", "reread", "drain"}
        /\ main.n \in Nat /\ NewLen \in Nat \ {0}
    BY <1>2, Running DEF Resting, Mains
  <2>2. CASE main.at \in {"get", "do", "reread"}
    BY <2>2 DEF MainCanGoOn
  <2>3. CASE main.at = "read"
    <3>1. main.n <= NewLen /\ main.cur \in Nat /\ Len(Source) \in Nat
      BY <2>1, SourceFacts DEF StreamInv, Mains
    <3> QED BY <2>1, <2>3, <3>1 DEF MainCanGoOn, AtEnd
  <2>4. CASE main.at = "wait"
    <3>1. Wanted \in SourceHashes /\ flight[Wanted] # NoCall
      BY <1>2, <2>4, WantedIsSource DEF CallAwaited
    <3>2. flight[Wanted].at \in {"check", "token", "cat"}
      BY <1>2, <3>1 DEF RepackInv, TypeOK, Calls
    <3>3. Wanted \in DOMAIN cas
      BY <1>2, <3>1 DEF RepackInv, CasInv
    <3> HIDE DEF Wanted
    <3>4. CallCanGoOn(Wanted)
      BY <1>2, <3>2, <3>3 DEF CallCanGoOn
    <3> QED BY <3>1, <3>4
  <2>5. CASE main.at = "drain"
    <3>1. CASE Drained
      BY <3>1 DEF MainCanGoOn
    <3>2. CASE ~Drained
      <4>1. PICK k \in DOMAIN uploads : uploads[k].at # "done"
        BY <2>5, <3>2 DEF Drained
      <4>2. uploads[k].at \in {"go", "stat", "put"}
        <5>1. uploads \in Seq(Uploads)
          BY <1>2 DEF RepackInv, TypeOK
        <5>2. uploads[k] \in Uploads
          BY <4>1, <5>1
        <5> QED BY <4>1, <5>2 DEF Uploads
      <4> QED BY <1>2, <4>2 DEF UploadCanGoOn
    <3> QED BY <3>1, <3>2
  <2> QED BY <2>1, <2>2, <2>3, <2>4, <2>5
<1>3. RepackInv /\ CallAwaited => RepackNeverStuck
  BY <1>1, <1>2 DEF RepackNeverStuck
<1> QED BY <1>3, RepackInvariant, RepackAwaits, PTL

-----------------------------------------------------------------------------
(* A run comes nearer to its end *)

\* What is counted is finite.
LEMMA CallsCount ==
    ASSUME NEW ats
    PROVE  /\ IsFiniteSet({h \in SourceHashes : flight[h].at \in ats})
           /\ CallsAt(ats) \in Nat
<1> DEFINE S == {h \in SourceHashes : flight[h].at \in ats}
<1>1. S \in SUBSET SourceHashes /\ IsFiniteSet(SourceHashes)
  BY SourceFacts
<1>2. CallsAt(ats) = Cardinality(S)
  BY DEF CallsAt
<1> HIDE DEF S
<1>3. IsFiniteSet(S) /\ Cardinality(S) \in Nat
  BY <1>1, FS_Subset, FS_CardinalityType
<1> QED BY <1>2, <1>3 DEF S

LEMMA UploadsCount ==
    ASSUME NEW ats, uploads \in Seq(Uploads)
    PROVE  /\ IsFiniteSet({k \in DOMAIN uploads : uploads[k].at \in ats})
           /\ UploadsAt(ats) \in Nat
<1> DEFINE S == {k \in DOMAIN uploads : uploads[k].at \in ats}
<1>1. S \in SUBSET (1 .. Len(uploads)) /\ Len(uploads) \in Nat
  OBVIOUS
<1>2. UploadsAt(ats) = Cardinality(S)
  BY DEF UploadsAt
<1> HIDE DEF S
<1>3. IsFiniteSet(1 .. Len(uploads))
  BY <1>1, FS_Interval
<1>4. IsFiniteSet(S) /\ Cardinality(S) \in Nat
  BY <1>1, <1>3, FS_Subset, FS_CardinalityType
<1> QED BY <1>2, <1>4 DEF S

LEMMA SpawnedCount ==
    ASSUME spawned \subseteq 1 .. Len(Source)
    PROVE  IsFiniteSet(spawned) /\ Cardinality(spawned) \in Nat
<1>1. IsFiniteSet(1 .. Len(Source))
  BY SourceFacts, FS_Interval
<1> QED BY <1>1, FS_Subset, FS_CardinalityType

\* Numbers all of them, and main has a step to take until the run is over.
LEMMA LeftFacts ==
    ASSUME RepackInv, ~Resting
    PROVE  /\ BytesLeft \in Nat /\ StageLeft \in Nat \ {0}
           /\ StreamLeft \in Nat \ {0}
           /\ CallsLeft \in Nat /\ UploadsLeft \in Nat
           /\ IsFiniteSet(spawned) /\ Cardinality(spawned) \in Nat
           /\ RunLeft = StreamLeft + 4 * Cardinality(spawned) + CallsLeft
                          + UploadsLeft
           /\ RunLeft \in Nat \ {0}
<1>1. main \in Mains /\ StreamInv
  BY Running DEF Resting
<1>2. BytesLeft \in Nat
  <2>1. /\ main.bytesRead \in Nat /\ main.n \in Nat
        /\ main.bytesRead + main.n <= Len(Content) /\ Len(Content) \in Nat
    BY <1>1, StreamBound, SourceFacts
  <2> QED BY <2>1 DEF BytesLeft
<1>3. StageLeft \in Nat \ {0}
  BY <1>1 DEF StageLeft, Mains, Resting
<1>4. StreamLeft \in Nat \ {0}
  BY <1>2, <1>3 DEF StreamLeft
<1>5. CallsLeft \in Nat
  <2>1. /\ CallsAt({"check"}) \in Nat /\ CallsAt({"check", "token"}) \in Nat
        /\ CallsAt({"check", "token", "cat"}) \in Nat
    BY CallsCount
  <2> QED BY <2>1 DEF CallsLeft
<1>6. UploadsLeft \in Nat
  <2>1. uploads \in Seq(Uploads)
    BY DEF RepackInv, TypeOK
  <2>2. /\ UploadsAt({"go"}) \in Nat /\ UploadsAt({"go", "stat"}) \in Nat
        /\ UploadsAt({"go", "stat", "put"}) \in Nat
    BY <2>1, UploadsCount
  <2> QED BY <2>2 DEF UploadsLeft
<1>7. IsFiniteSet(spawned) /\ Cardinality(spawned) \in Nat
  BY SpawnedCount DEF RepackInv, TypeOK
<1>8. RunLeft = StreamLeft + 4 * Cardinality(spawned) + CallsLeft
                  + UploadsLeft
  BY DEF RunLeft
<1>9. RunLeft \in Nat \ {0}
  BY <1>4, <1>5, <1>6, <1>7, <1>8
<1> QED BY <1>2, <1>3, <1>4, <1>5, <1>6, <1>7, <1>8, <1>9

\* A call that moves on or ends.
LEMMA CallMoves ==
    ASSUME NEW h \in SourceHashes, NEW call,
           flight \in [SourceHashes -> Calls \cup {NoCall}],
           flight' = [flight EXCEPT ![h] = call],
           \/ flight[h].at = "check" /\ call.at = "token"
           \/ flight[h].at = "token" /\ call.at = "cat"
           \/ flight[h].at \in {"check", "cat"} /\ call.at = "none"
    PROVE  CallsLeft' < CallsLeft
<1> DEFINE In(ats) == {x \in SourceHashes : flight[x].at \in ats}
           S1 == In({"check"})
           S2 == In({"check", "token"})
           S3 == In({"check", "token", "cat"})
<1>1. /\ \A x \in SourceHashes : x # h => flight'[x] = flight[x]
      /\ flight'[h] = call
  OBVIOUS
<1>2. /\ IsFiniteSet(S1) /\ IsFiniteSet(S2) /\ IsFiniteSet(S3)
      /\ S1' \in SUBSET S1 /\ S2' \in SUBSET S2 /\ S3' \in SUBSET S3
      /\ S1' # S1 \/ S2' # S2 \/ S3' # S3
  <2>1. IsFiniteSet(S1) /\ IsFiniteSet(S2) /\ IsFiniteSet(S3)
    BY CallsCount
  <2>2. S1' \in SUBSET S1 /\ S2' \in SUBSET S2 /\ S3' \in SUBSET S3
    BY <1>1
  <2>3. CASE flight[h].at = "check"
    <3>1. h \in S1 /\ h \notin S1'
      BY <1>1, <2>3
    <3> QED BY <2>1, <2>2, <3>1
  <2>4. CASE flight[h].at = "token"
    <3>1. h \in S2 /\ h \notin S2'
      BY <1>1, <2>4
    <3> QED BY <2>1, <2>2, <3>1
  <2>5. CASE flight[h].at = "cat"
    <3>1. h \in S3 /\ h \notin S3'
      BY <1>1, <2>5
    <3> QED BY <2>1, <2>2, <3>1
  <2> QED BY <2>3, <2>4, <2>5
<1>3. /\ CallsLeft = Cardinality(S1) + Cardinality(S2) + Cardinality(S3)
      /\ CallsLeft' = Cardinality(S1') + Cardinality(S2') + Cardinality(S3')
  BY DEF CallsLeft, CallsAt
<1> HIDE DEF S1, S2, S3
<1>4. /\ Cardinality(S1) \in Nat /\ Cardinality(S2) \in Nat
      /\ Cardinality(S3) \in Nat
  BY <1>2, FS_CardinalityType
<1>5. /\ Cardinality(S1') \in Nat /\ Cardinality(S1') <= Cardinality(S1)
      /\ S1' # S1 => Cardinality(S1') # Cardinality(S1)
  BY <1>2, FS_Subset, FS_CardinalityType
<1>6. /\ Cardinality(S2') \in Nat /\ Cardinality(S2') <= Cardinality(S2)
      /\ S2' # S2 => Cardinality(S2') # Cardinality(S2)
  BY <1>2, FS_Subset, FS_CardinalityType
<1>7. /\ Cardinality(S3') \in Nat /\ Cardinality(S3') <= Cardinality(S3)
      /\ S3' # S3 => Cardinality(S3') # Cardinality(S3)
  BY <1>2, FS_Subset, FS_CardinalityType
<1> QED BY <1>2, <1>3, <1>4, <1>5, <1>6, <1>7

\* One more element is at most one more to count.
LEMMA OneMore ==
    ASSUME NEW S, NEW x, NEW T \in SUBSET (S \cup {x}), IsFiniteSet(S)
    PROVE  /\ Cardinality(S) \in Nat /\ Cardinality(T) \in Nat
           /\ Cardinality(T) <= Cardinality(S) + 1
<1>1. Cardinality(S) \in Nat
  BY FS_CardinalityType
<1>2. /\ IsFiniteSet(S \cup {x})
      /\ Cardinality(S \cup {x})
           = IF x \in S THEN Cardinality(S) ELSE Cardinality(S) + 1
  BY FS_AddElement
<1>3. /\ Cardinality(S \cup {x}) \in Nat
      /\ Cardinality(S \cup {x}) <= Cardinality(S) + 1
  BY <1>1, <1>2
<1>4. Cardinality(T) \in Nat /\ Cardinality(T) <= Cardinality(S \cup {x})
  BY <1>2, FS_Subset, FS_CardinalityType
<1> QED BY <1>1, <1>3, <1>4

\* Three sums, each of which grows by one at most.
LEMMA ThreeMore ==
    ASSUME NEW a \in Nat, NEW b \in Nat, NEW d \in Nat,
           NEW x \in Nat, NEW y \in Nat, NEW z \in Nat,
           x <= a + 1, y <= b + 1, z <= d + 1
    PROVE  x + y + z \in Nat /\ x + y + z <= a + b + d + 3
OBVIOUS

\* A call that begins, if none is under way.
LEMMA CallBegins ==
    ASSUME NEW h \in SourceHashes, NEW who,
           flight \in [SourceHashes -> Calls \cup {NoCall}],
           flight' = Called(h, who)
    PROVE  CallsLeft' \in Nat /\ CallsLeft' <= CallsLeft + 3
<1> DEFINE In(ats) == {x \in SourceHashes : flight[x].at \in ats}
<1>1. \A x \in SourceHashes : x # h => flight'[x] = flight[x]
  BY DEF Called
<1>2. ASSUME NEW ats
      PROVE  CallsAt(ats)' \in Nat /\ CallsAt(ats)' <= CallsAt(ats) + 1
             /\ CallsAt(ats) \in Nat
  <2>1. IsFiniteSet(In(ats)) /\ CallsAt(ats) \in Nat
    BY CallsCount
  <2>2. In(ats)' \in SUBSET (In(ats) \cup {h})
    BY <1>1
  <2>3. CallsAt(ats) = Cardinality(In(ats))
        /\ CallsAt(ats)' = Cardinality(In(ats)')
    BY DEF CallsAt
  <2> DEFINE S == In(ats)
             T == In(ats)'
  <2>4. /\ IsFiniteSet(S) /\ T \in SUBSET (S \cup {h})
        /\ CallsAt(ats) = Cardinality(S) /\ CallsAt(ats)' = Cardinality(T)
    BY <2>1, <2>2, <2>3
  <2> HIDE DEF S, T
  <2>5. Cardinality(T) \in Nat /\ Cardinality(T) <= Cardinality(S) + 1
    BY <2>4, OneMore
  <2> QED BY <2>1, <2>4, <2>5
<1>3. /\ CallsLeft = CallsAt({"check"}) + CallsAt({"check", "token"})
                       + CallsAt({"check", "token", "cat"})
      /\ CallsLeft' = CallsAt({"check"})' + CallsAt({"check", "token"})'
                        + CallsAt({"check", "token", "cat"})'
  BY DEF CallsLeft
<1> QED BY <1>2, <1>3, ThreeMore

\* An upload that moves on.
LEMMA UploadMoves ==
    ASSUME NEW k \in DOMAIN uploads, NEW to, uploads \in Seq(Uploads),
           uploads' = [uploads EXCEPT ![k].at = to],
           \/ uploads[k].at = "go" /\ to = "stat"
           \/ uploads[k].at = "stat" /\ to \in {"put", "done"}
           \/ uploads[k].at = "put" /\ to = "done"
    PROVE  UploadsLeft' < UploadsLeft
<1> DEFINE In(ats) == {x \in DOMAIN uploads : uploads[x].at \in ats}
           S1 == In({"go"})
           S2 == In({"go", "stat"})
           S3 == In({"go", "stat", "put"})
<1>1. /\ DOMAIN uploads' = DOMAIN uploads
      /\ \A x \in DOMAIN uploads : x # k => uploads'[x] = uploads[x]
      /\ uploads'[k].at = to
  <2>1. uploads[k] \in Uploads
    OBVIOUS
  <2> QED BY <2>1 DEF Uploads
<1>2. IsFiniteSet(S1) /\ IsFiniteSet(S2) /\ IsFiniteSet(S3)
  BY UploadsCount
<1>3. S1' \in SUBSET S1 /\ S2' \in SUBSET S2 /\ S3' \in SUBSET S3
  BY <1>1
<1>4. S1' # S1 \/ S2' # S2 \/ S3' # S3
  <2>1. CASE uploads[k].at = "go"
    <3>1. k \in S1 /\ k \notin S1'
      BY <1>1, <2>1
    <3> QED BY <3>1
  <2>2. CASE uploads[k].at = "stat"
    <3>1. k \in S2 /\ k \notin S2'
      BY <1>1, <2>2
    <3> QED BY <3>1
  <2>3. CASE uploads[k].at = "put"
    <3>1. k \in S3 /\ k \notin S3'
      BY <1>1, <2>3
    <3> QED BY <3>1
  <2> QED BY <2>1, <2>2, <2>3
<1>5. /\ UploadsLeft = Cardinality(S1) + Cardinality(S2) + Cardinality(S3)
      /\ UploadsLeft' = Cardinality(S1') + Cardinality(S2') + Cardinality(S3')
  BY DEF UploadsLeft, UploadsAt
<1> HIDE DEF S1, S2, S3
<1>6. /\ Cardinality(S1) \in Nat /\ Cardinality(S2) \in Nat
      /\ Cardinality(S3) \in Nat
  BY <1>2, FS_CardinalityType
<1>7. /\ Cardinality(S1') \in Nat /\ Cardinality(S1') <= Cardinality(S1)
      /\ S1' # S1 => Cardinality(S1') # Cardinality(S1)
  BY <1>2, <1>3, FS_Subset, FS_CardinalityType
<1>8. /\ Cardinality(S2') \in Nat /\ Cardinality(S2') <= Cardinality(S2)
      /\ S2' # S2 => Cardinality(S2') # Cardinality(S2)
  BY <1>2, <1>3, FS_Subset, FS_CardinalityType
<1>9. /\ Cardinality(S3') \in Nat /\ Cardinality(S3') <= Cardinality(S3)
      /\ S3' # S3 => Cardinality(S3') # Cardinality(S3)
  BY <1>2, <1>3, FS_Subset, FS_CardinalityType
<1> QED BY <1>4, <1>5, <1>6, <1>7, <1>8, <1>9

\* An upload that begins.
LEMMA UploadBegins ==
    ASSUME NEW u, uploads \in Seq(Uploads), uploads' = Append(uploads, u)
    PROVE  UploadsLeft' \in Nat /\ UploadsLeft' <= UploadsLeft + 3
<1> DEFINE In(ats) == {x \in DOMAIN uploads : uploads[x].at \in ats}
           n == Len(uploads) + 1
<1>1. /\ DOMAIN uploads' = 1 .. n /\ DOMAIN uploads = 1 .. Len(uploads)
      /\ Len(uploads) \in Nat
      /\ \A x \in 1 .. Len(uploads) : uploads'[x] = uploads[x]
  OBVIOUS
<1>2. ASSUME NEW ats
      PROVE  UploadsAt(ats)' \in Nat /\ UploadsAt(ats)' <= UploadsAt(ats) + 1
             /\ UploadsAt(ats) \in Nat
  <2>1. IsFiniteSet(In(ats)) /\ UploadsAt(ats) \in Nat
    BY UploadsCount
  <2>2. In(ats)' \in SUBSET (In(ats) \cup {n})
    BY <1>1
  <2>3. UploadsAt(ats) = Cardinality(In(ats))
        /\ UploadsAt(ats)' = Cardinality(In(ats)')
    BY DEF UploadsAt
  <2> DEFINE S == In(ats)
             T == In(ats)'
  <2>4. /\ IsFiniteSet(S) /\ T \in SUBSET (S \cup {n})
        /\ UploadsAt(ats) = Cardinality(S) /\ UploadsAt(ats)' = Cardinality(T)
    BY <2>1, <2>2, <2>3
  <2> HIDE DEF S, T, n
  <2>5. Cardinality(T) \in Nat /\ Cardinality(T) <= Cardinality(S) + 1
    BY <2>4, OneMore
  <2> QED BY <2>1, <2>4, <2>5
<1>3. /\ UploadsLeft = UploadsAt({"go"}) + UploadsAt({"go", "stat"})
                         + UploadsAt({"go", "stat", "put"})
      /\ UploadsLeft' = UploadsAt({"go"})' + UploadsAt({"go", "stat"})'
                          + UploadsAt({"go", "stat", "put"})'
  BY DEF UploadsLeft
<1> QED BY <1>2, <1>3, ThreeMore

\* What a step leaves alone counts the same after it.
LEMMA CallsSame == flight' = flight => CallsLeft' = CallsLeft
BY DEF CallsLeft, CallsAt

LEMMA UploadsSame == uploads' = uploads => UploadsLeft' = UploadsLeft
BY DEF UploadsLeft, UploadsAt

LEMMA StreamSame == main' = main => StreamLeft' = StreamLeft
BY DEF StreamLeft, BytesLeft, StageLeft

\* LeftFacts after a step.
LEMMA LeftNext ==
    RepackInv' /\ ~Resting' =>
        /\ BytesLeft' \in Nat /\ StageLeft' \in Nat \ {0}
        /\ StreamLeft' \in Nat \ {0}
        /\ CallsLeft' \in Nat /\ UploadsLeft' \in Nat
        /\ IsFiniteSet(spawned') /\ Cardinality(spawned') \in Nat
        /\ RunLeft' = StreamLeft' + 4 * Cardinality(spawned') + CallsLeft'
                        + UploadsLeft'
<1> DEFINE Facts ==
       /\ BytesLeft \in Nat /\ StageLeft \in Nat \ {0}
       /\ StreamLeft \in Nat \ {0}
       /\ CallsLeft \in Nat /\ UploadsLeft \in Nat
       /\ IsFiniteSet(spawned) /\ Cardinality(spawned) \in Nat
       /\ RunLeft = StreamLeft + 4 * Cardinality(spawned) + CallsLeft
                      + UploadsLeft
<1>1. RepackInv /\ ~Resting => Facts
  BY LeftFacts
<1>2. RepackInv' /\ ~Resting' => Facts'
  <2> HIDE DEF Facts
  <2> QED BY <1>1, PTL
<1> QED BY <1>2

\* A run that is over has nothing left.
LEMMA RunOver == ASSUME RepackInv, ~Resting, Resting' PROVE RunLeft' < RunLeft
<1>1. RunLeft \in Nat \ {0}
  BY LeftFacts
<1>2. RunLeft' = 0
  BY DEF RunLeft
<1> QED BY <1>1, <1>2

\* A step that leaves the stream where it is.
LEMMA StreamFalls ==
    ASSUME RepackInv, ~Resting, RepackInv', ~Resting', NEW k \in Nat,
           main'.bytesRead = main.bytesRead, main'.n = main.n,
           StageLeft' + k <= StageLeft
    PROVE  StreamLeft' + k <= StreamLeft
<1>1. BytesLeft' = BytesLeft
  BY DEF BytesLeft
<1>2. /\ BytesLeft \in Nat /\ StageLeft \in Nat /\ StageLeft' \in Nat
  BY LeftFacts, LeftNext
<1> DEFINE e == IF main.n > 0 THEN 4 ELSE 0
<1>3. StreamLeft = 17 * BytesLeft + StageLeft + e
      /\ StreamLeft' = 17 * BytesLeft + StageLeft' + e /\ e \in Nat
  BY <1>1 DEF StreamLeft
<1> HIDE DEF e
<1>4. ASSUME NEW b \in Nat, NEW x \in Nat, NEW y \in Nat, NEW z \in Nat,
             y + k <= x
      PROVE  17 * b + y + z + k <= 17 * b + x + z
  BY <1>4
<1> QED BY <1>2, <1>3, <1>4

\* The four parts of what is left, before and after a step.
LEMMA RunFalls ==
    ASSUME RepackInv, ~Resting, RepackInv', ~Resting',
           NEW s \in Nat, NEW p \in Nat, NEW c \in Nat, NEW u \in Nat,
           NEW a \in Nat,
           StreamLeft' + s <= StreamLeft + a,
           Cardinality(spawned') + p <= Cardinality(spawned) + 1,
           CallsLeft' + c <= CallsLeft + 3,
           UploadsLeft' + u <= UploadsLeft + 3,
           10 + a < s + 4 * p + c + u
    PROVE  RunLeft' < RunLeft
<1>1. /\ StreamLeft \in Nat /\ CallsLeft \in Nat /\ UploadsLeft \in Nat
      /\ Cardinality(spawned) \in Nat
      /\ RunLeft = StreamLeft + 4 * Cardinality(spawned) + CallsLeft
                     + UploadsLeft
  BY LeftFacts
<1>2. /\ StreamLeft' \in Nat /\ CallsLeft' \in Nat /\ UploadsLeft' \in Nat
      /\ Cardinality(spawned') \in Nat
      /\ RunLeft' = StreamLeft' + 4 * Cardinality(spawned') + CallsLeft'
                      + UploadsLeft'
  BY LeftNext
<1>3. ASSUME NEW s1 \in Nat, NEW p1 \in Nat, NEW c1 \in Nat, NEW u1 \in Nat,
             NEW s2 \in Nat, NEW p2 \in Nat, NEW c2 \in Nat, NEW u2 \in Nat,
             s2 + s <= s1 + a, p2 + p <= p1 + 1, c2 + c <= c1 + 3,
             u2 + u <= u1 + 3
      PROVE  s2 + 4 * p2 + c2 + u2 < s1 + 4 * p1 + c1 + u1
  BY <1>3
<1> QED BY <1>1, <1>2, <1>3

\* main between two of its steps.
LEMMA MovesTo ==
    ASSUME RepackInv, ~Resting, NEW x, main' = [main EXCEPT !.at = x]
    PROVE  /\ main'.at = x /\ main'.piece = main.piece /\ main'.n = main.n
           /\ main'.bytesRead = main.bytesRead
<1>1. main \in Mains
  BY Running DEF Resting
<1> QED BY <1>1 DEF Mains

LEMMA FetchShrinks ==
    ASSUME RepackInv, ~Resting, RepackInv', ~Resting', Fetch
    PROVE  RunLeft' < RunLeft
<1> DEFINE ahead == main.cur + flags.distance
<1>1. /\ main.at = "read" /\ main.piece = <<>>
      /\ main' = [main EXCEPT !.at = "get"]
      /\ flight' = flight /\ uploads' = uploads
      /\ spawned' \in SUBSET (spawned \cup {ahead})
  BY DEF Fetch
<1> HIDE DEF ahead
<1>2. StreamLeft' + 5 <= StreamLeft + 0
  <2>1. /\ main'.at = "get" /\ main'.n = main.n
        /\ main'.bytesRead = main.bytesRead
    BY <1>1, MovesTo
  <2>2. StageLeft = 13
    BY <1>1 DEF StageLeft
  <2>3. StageLeft' = 8
    BY <2>1 DEF StageLeft
  <2>4. StreamLeft' + 5 <= StreamLeft
    BY <2>1, <2>2, <2>3, StreamFalls
  <2>5. StreamLeft \in Nat
    BY LeftFacts
  <2> QED BY <2>4, <2>5
<1>3. Cardinality(spawned') + 0 <= Cardinality(spawned) + 1
  <2>1. IsFiniteSet(spawned)
    BY LeftFacts
  <2>2. /\ Cardinality(spawned) \in Nat /\ Cardinality(spawned') \in Nat
        /\ Cardinality(spawned') <= Cardinality(spawned) + 1
    BY <1>1, <2>1, OneMore
  <2> QED BY <2>2
<1>4. CallsLeft' + 3 <= CallsLeft + 3 /\ UploadsLeft' + 3 <= UploadsLeft + 3
  BY <1>1, CallsSame, UploadsSame, LeftFacts
<1> QED BY <1>2, <1>3, <1>4, RunFalls

\* The parts that a step leaves alone.
LEMMA PartsSame ==
    ASSUME RepackInv, ~Resting, RepackInv', ~Resting'
    PROVE  /\ main' = main => StreamLeft' + 0 <= StreamLeft + 0
           /\ spawned' = spawned =>
                Cardinality(spawned') + 1 <= Cardinality(spawned) + 1
           /\ flight' = flight => CallsLeft' + 3 <= CallsLeft + 3
           /\ uploads' = uploads => UploadsLeft' + 3 <= UploadsLeft + 3
<1>1. /\ StreamLeft \in Nat /\ CallsLeft \in Nat /\ UploadsLeft \in Nat
      /\ Cardinality(spawned) \in Nat
  BY LeftFacts
<1>2. main' = main => StreamLeft' + 0 <= StreamLeft + 0
  BY <1>1, StreamSame
<1>3. spawned' = spawned =>
        Cardinality(spawned') + 1 <= Cardinality(spawned) + 1
  BY <1>1
<1>4. flight' = flight => CallsLeft' + 3 <= CallsLeft + 3
  BY <1>1, CallsSame
<1>5. uploads' = uploads => UploadsLeft' + 3 <= UploadsLeft + 3
  BY <1>1, UploadsSame
<1> QED BY <1>2, <1>3, <1>4, <1>5

\* A step of main alone that brings the stream on.
LEMMA MainShrinks ==
    ASSUME RepackInv, ~Resting, RepackInv', ~Resting',
           StreamLeft' + 1 <= StreamLeft,
           spawned' = spawned, flight' = flight, uploads' = uploads
    PROVE  RunLeft' < RunLeft
<1>1. StreamLeft' + 1 <= StreamLeft + 0
  BY LeftFacts
<1> QED BY <1>1, PartsSame, RunFalls

LEMMA GetShrinks ==
    ASSUME RepackInv, ~Resting, RepackInv', ~Resting', Get
    PROVE  RunLeft' < RunLeft
<1>1. /\ main.at \in {"get", "reread"} /\ main \in Mains
      /\ spawned' = spawned /\ flight' = flight /\ uploads' = uploads
  BY Running DEF Get
<1>2. StageLeft >= 2 /\ (main.at = "get" => StageLeft = 8)
  BY <1>1 DEF StageLeft
<1>3. CASE /\ Wanted \in Elements(ll)
           /\ main' = [main EXCEPT !.at = "read", !.piece = m[Wanted],
                                   !.pos = 0]
  <2>1. /\ main'.at = "read" /\ main'.piece = m[Wanted]
        /\ main'.n = main.n /\ main'.bytesRead = main.bytesRead
    BY <1>1, <1>3 DEF Mains
  <2>2. m[Wanted] = Wanted
    BY <1>3 DEF RepackInv, CacheInv
  <2>3. Wanted # <<>>
    <3>1. main.cur \in 1 .. Len(Source) + 1 /\ main.cur <= Len(Source)
      BY <1>1, Running DEF StreamInv
    <3>2. main.cur \in 1 .. Len(Source)
      BY <3>1, SourceFacts
    <3> QED BY <3>2, PieceFacts DEF Wanted
  <2>4. StageLeft' = 1
    BY <2>1, <2>2, <2>3 DEF StageLeft
  <2>5. StageLeft' + 1 <= StageLeft
    BY <1>2, <2>4, LeftFacts
  <2>6. StreamLeft' + 1 <= StreamLeft
    BY <2>1, <2>5, StreamFalls
  <2> QED BY <1>1, <2>6, MainShrinks
<1>4. CASE main.at = "get" /\ main' = [main EXCEPT !.at = "do"]
  <2>1. /\ main'.at = "do" /\ main'.n = main.n
        /\ main'.bytesRead = main.bytesRead
    BY <1>4, MovesTo
  <2>2. StageLeft' = 7
    BY <2>1 DEF StageLeft
  <2>3. StageLeft' + 1 <= StageLeft
    BY <1>2, <1>4, <2>2
  <2>4. StreamLeft' + 1 <= StreamLeft
    BY <2>1, <2>3, StreamFalls
  <2> QED BY <1>1, <2>4, MainShrinks
<1> QED BY <1>3, <1>4 DEF Get

LEMMA DoShrinks ==
    ASSUME RepackInv, ~Resting, RepackInv', ~Resting', Do
    PROVE  RunLeft' < RunLeft
<1>1. /\ main.at = "do" /\ main' = [main EXCEPT !.at = "wait"]
      /\ flight' = Called(Wanted, "main")
      /\ uploads' = uploads /\ spawned' = spawned
      /\ flight \in [SourceHashes -> Calls \cup {NoCall}]
  BY DEF Do, RepackInv, TypeOK
<1>2. StreamLeft' + 4 <= StreamLeft + 0
  <2>1. /\ main'.at = "wait" /\ main'.n = main.n
        /\ main'.bytesRead = main.bytesRead
    BY <1>1, MovesTo
  <2>2. StageLeft = 7
    BY <1>1 DEF StageLeft
  <2>3. StageLeft' = 3
    BY <2>1 DEF StageLeft
  <2>4. StreamLeft' + 4 <= StreamLeft
    BY <2>1, <2>2, <2>3, StreamFalls
  <2>5. StreamLeft \in Nat
    BY LeftFacts
  <2> QED BY <2>4, <2>5
<1>3. CallsLeft' + 0 <= CallsLeft + 3
  <2>1. Wanted \in SourceHashes
    BY <1>1, WantedIsSource
  <2>2. CallsLeft' \in Nat /\ CallsLeft' <= CallsLeft + 3
    BY <1>1, <2>1, CallBegins
  <2> QED BY <2>2
<1>4. /\ Cardinality(spawned') + 1 <= Cardinality(spawned) + 1
      /\ UploadsLeft' + 3 <= UploadsLeft + 3
  BY <1>1, PartsSame
<1> QED BY <1>2, <1>3, <1>4, RunFalls

LEMMA EndOfStreamShrinks ==
    ASSUME RepackInv, ~Resting, RepackInv', ~Resting', EndOfStream
    PROVE  RunLeft' < RunLeft
<1>1. /\ main.at = "read" /\ main.piece = <<>>
      /\ main' = [main EXCEPT !.at = "drain"]
      /\ flight' = flight /\ uploads' = uploads /\ spawned' = spawned
  BY DEF EndOfStream, AtEnd
<1>2. /\ main'.at = "drain" /\ main'.n = main.n
      /\ main'.bytesRead = main.bytesRead
  BY <1>1, MovesTo
<1>3. StageLeft = 13
  BY <1>1 DEF StageLeft
<1>4. StageLeft' = 1
  BY <1>2 DEF StageLeft
<1>5. StageLeft' + 1 <= StageLeft
  BY <1>3, <1>4
<1>6. StreamLeft' + 1 <= StreamLeft
  BY <1>2, <1>5, StreamFalls
<1> QED BY <1>1, <1>6, MainShrinks

\* c bytes further, c bytes less are left.
LEMMA BytesOn ==
    ASSUME NEW N \in Nat, NEW r \in Nat, NEW n \in Nat, NEW c \in Nat
    PROVE  N - (r + n) = (N - (r + n + c)) + c
OBVIOUS

\* A byte is worth more than all that is to do before the next one.
LEMMA CopyShrinks ==
    ASSUME RepackInv, ~Resting, RepackInv', ~Resting', Copy
    PROVE  RunLeft' < RunLeft
<1> DEFINE c == LeastOf(NewLen - main.n, Len(main.piece) - main.pos)
           over == main.pos + c >= Len(main.piece)
           b == Filled(main.pos, c)
<1>1. /\ main.at = "read" /\ main.n < NewLen /\ main.piece # <<>>
      /\ main' = [main EXCEPT !.buf = b, !.n = @ + c, !.pos = @ + c,
                              !.cur = IF over THEN @ + 1 ELSE @,
                              !.piece = IF over THEN <<>> ELSE @]
      /\ uploads' = uploads /\ flight' = flight /\ spawned' = spawned
  BY DEF Copy
<1>2. /\ main \in Mains /\ StreamInv /\ NewLen \in Nat
  BY <1>1, Running
<1>3. c \in Nat \ {0}
  <2>1. /\ main.n \in Nat /\ main.pos \in Nat
        /\ main.piece = Wanted /\ main.pos < Len(Wanted)
        /\ main.cur \in 1 .. Len(Source)
    BY <1>1, <1>2, SourceFacts DEF StreamInv, Mains
  <2>2. Len(Wanted) \in Nat
    BY <2>1, PieceFacts DEF Wanted
  <2>3. /\ NewLen - main.n \in Nat \ {0}
        /\ Len(main.piece) - main.pos \in Nat \ {0}
    BY <1>1, <1>2, <2>1, <2>2
  <2> QED BY <2>3, CopyCount
<1> HIDE DEF c, over, b
<1>4. /\ main'.at = "read" /\ main'.n = main.n + c
      /\ main'.bytesRead = main.bytesRead
      /\ main.n \in Nat /\ main.bytesRead \in Nat
  BY <1>1, <1>2 DEF Mains
<1>5. StageLeft = 1 /\ StageLeft' <= 13 /\ StageLeft' \in Nat
  <2>1. StageLeft = 1
    BY <1>1 DEF StageLeft
  <2>2. StageLeft' \in {1, 13}
    BY <1>4 DEF StageLeft
  <2> QED BY <2>1, <2>2
<1>6. BytesLeft = BytesLeft' + c /\ BytesLeft \in Nat /\ BytesLeft' \in Nat
  <2>1. BytesLeft \in Nat /\ BytesLeft' \in Nat /\ Len(Content) \in Nat
    BY LeftFacts, LeftNext, SourceFacts
  <2>2. /\ BytesLeft = Len(Content) - (main.bytesRead + main.n)
        /\ BytesLeft' = Len(Content) - (main.bytesRead + main.n + c)
    BY <1>3, <1>4 DEF BytesLeft
  <2>3. Len(Content) - (main.bytesRead + main.n)
          = (Len(Content) - (main.bytesRead + main.n + c)) + c
    BY <1>3, <1>4, <2>1, BytesOn
  <2> QED BY <2>1, <2>2, <2>3
<1>7. StreamLeft' + 1 <= StreamLeft
  <2> DEFINE e == IF main.n > 0 THEN 4 ELSE 0
             f == IF main'.n > 0 THEN 4 ELSE 0
  <2>1. e \in Nat /\ f \in Nat /\ f <= 4
    OBVIOUS
  <2>2. /\ StreamLeft = 17 * BytesLeft + StageLeft + e
        /\ StreamLeft' = 17 * BytesLeft' + StageLeft' + f
    BY DEF StreamLeft
  <2> HIDE DEF e, f
  <2>3. ASSUME NEW x \in Nat, NEW y \in Nat, x = y + c, NEW s \in Nat,
               s <= 13
        PROVE  17 * y + s + f + 1 <= 17 * x + 1 + e
    BY <1>3, <2>1, <2>3
  <2> QED BY <1>5, <1>6, <2>2, <2>3
<1> QED BY <1>1, <1>7, MainShrinks

\* What was kept for a buffer that is not empty pays for its upload.
LEMMA CutShrinks ==
    ASSUME RepackInv, ~Resting, RepackInv', ~Resting', Cut
    PROVE  RunLeft' < RunLeft
<1> DEFINE chunk == SubSeq(main.buf, 1, main.n)
           upload == [key |-> chunk, chunk |-> chunk, at |-> "go"]
           over == main.n < NewLen
<1>1. /\ main.at = "read" /\ main.n > 0
      /\ uploads' = Append(uploads, upload)
      /\ main' = [main EXCEPT !.newPieces = Append(@, chunk),
                              !.bytesRead = @ + main.n, !.n = 0,
                              !.at = IF over THEN "drain" ELSE @]
      /\ flight' = flight /\ spawned' = spawned
  BY DEF Cut
<1>2. main \in Mains /\ uploads \in Seq(Uploads)
  BY <1>1, Running DEF RepackInv, TypeOK
<1> HIDE DEF chunk, upload, over
<1>3. /\ main'.at \in {"read", "drain"} /\ main'.n = 0
      /\ main'.piece = main.piece
      /\ main'.bytesRead = main.bytesRead + main.n
      /\ main.n \in Nat /\ main.bytesRead \in Nat
  BY <1>1, <1>2 DEF Mains
<1>4. BytesLeft' = BytesLeft
  BY <1>3 DEF BytesLeft
<1>5. StageLeft' <= StageLeft
  <2>1. StageLeft = IF main.piece = <<>> THEN 13 ELSE 1
    BY <1>1 DEF StageLeft
  <2>2. StageLeft' = IF main'.at = "drain" THEN 1
                     ELSE IF main.piece = <<>> THEN 13 ELSE 1
    BY <1>3 DEF StageLeft
  <2> QED BY <2>1, <2>2
<1>6. StreamLeft' + 4 <= StreamLeft + 0
  <2>1. /\ StreamLeft = 17 * BytesLeft + StageLeft + 4
        /\ StreamLeft' = 17 * BytesLeft + StageLeft' + 0
    BY <1>1, <1>3, <1>4 DEF StreamLeft
  <2>2. BytesLeft \in Nat /\ StageLeft \in Nat /\ StageLeft' \in Nat
    BY LeftFacts, LeftNext
  <2>3. ASSUME NEW x \in Nat, NEW s \in Nat, NEW t \in Nat, t <= s
        PROVE  17 * x + t + 0 + 4 <= 17 * x + s + 4 + 0
    BY <2>3
  <2> QED BY <1>5, <2>1, <2>2, <2>3
<1>7. UploadsLeft' + 0 <= UploadsLeft + 3
  <2>1. UploadsLeft' \in Nat /\ UploadsLeft' <= UploadsLeft + 3
    BY <1>1, <1>2, UploadBegins
  <2> QED BY <2>1
<1>8. /\ Cardinality(spawned') + 1 <= Cardinality(spawned) + 1
      /\ CallsLeft' + 3 <= CallsLeft + 3
  BY <1>1, PartsSame
<1> QED BY <1>6, <1>7, <1>8, RunFalls

LEMMA PrefetchShrinks ==
    ASSUME RepackInv, ~Resting, RepackInv', ~Resting',
           NEW i \in 1 .. Len(Source), Prefetch(i)
    PROVE  RunLeft' < RunLeft
<1>1. /\ i \in spawned /\ spawned' = spawned \ {i}
      /\ flight' = Called(Source[i], "prefetch")
      /\ main' = main /\ uploads' = uploads
      /\ flight \in [SourceHashes -> Calls \cup {NoCall}]
  BY DEF Prefetch, RepackInv, TypeOK
<1>2. Cardinality(spawned') + 2 <= Cardinality(spawned) + 1
  <2>1. IsFiniteSet(spawned) /\ Cardinality(spawned) \in Nat
    BY LeftFacts
  <2>2. Cardinality(spawned') = Cardinality(spawned) - 1
    BY <1>1, <2>1, FS_RemoveElement
  <2> QED BY <2>1, <2>2
<1>3. CallsLeft' + 0 <= CallsLeft + 3
  <2>1. Source[i] \in SourceHashes
    BY PieceFacts
  <2>2. CallsLeft' \in Nat /\ CallsLeft' <= CallsLeft + 3
    BY <1>1, <2>1, CallBegins
  <2> QED BY <2>2
<1>4. /\ StreamLeft' + 0 <= StreamLeft + 0
      /\ UploadsLeft' + 3 <= UploadsLeft + 3
  BY <1>1, PartsSame
<1> QED BY <1>2, <1>3, <1>4, RunFalls

\* A call that moves on or ends, main going on with it or not.
LEMMA CallShrinks ==
    ASSUME RepackInv, ~Resting, RepackInv', ~Resting',
           CallsLeft' < CallsLeft,
           \/ main' = main
           \/ main.at = "wait" /\ main' = [main EXCEPT !.at = "reread"],
           uploads' = uploads, spawned' = spawned
    PROVE  RunLeft' < RunLeft
<1>1. CallsLeft' + 4 <= CallsLeft + 3
  BY LeftFacts, LeftNext
<1>2. StreamLeft' + 0 <= StreamLeft + 0
  <2>1. CASE main' = main
    BY <2>1, PartsSame
  <2>2. CASE main.at = "wait" /\ main' = [main EXCEPT !.at = "reread"]
    <3>1. /\ main'.at = "reread" /\ main'.n = main.n
          /\ main'.bytesRead = main.bytesRead
      BY <2>2, MovesTo
    <3>2. StageLeft = 3
      BY <2>2 DEF StageLeft
    <3>3. StageLeft' = 2
      BY <3>1 DEF StageLeft
    <3>4. StageLeft' + 0 <= StageLeft
      BY <3>2, <3>3
    <3>5. StreamLeft' + 0 <= StreamLeft /\ StreamLeft \in Nat
      BY <3>1, <3>4, StreamFalls, LeftFacts
    <3> QED BY <3>5
  <2> QED BY <2>1, <2>2
<1>3. /\ Cardinality(spawned') + 1 <= Cardinality(spawned) + 1
      /\ UploadsLeft' + 3 <= UploadsLeft + 3
  BY PartsSame
<1> QED BY <1>1, <1>2, <1>3, RunFalls

LEMMA CallsShrink ==
    ASSUME RepackInv, ~Resting, RepackInv', ~Resting',
           NEW h \in SourceHashes,
           Check(h) \/ CatToken(h) \/ Cat(h) \/ CatFails(h)
    PROVE  RunLeft' < RunLeft
<1>1. /\ flight \in [SourceHashes -> Calls \cup {NoCall}]
      /\ uploads' = uploads /\ spawned' = spawned
  BY DEF RepackInv, TypeOK, Check, CatToken, Cat, CatFails
<1>2. CASE flight[h].at \in {"check", "cat"} /\ CallEnds(h)
  <2>1. /\ flight' = [flight EXCEPT ![h] = NoCall]
        /\ \/ main' = main
           \/ main.at = "wait" /\ main' = [main EXCEPT !.at = "reread"]
    BY <1>2 DEF CallEnds
  <2>2. NoCall.at = "none"
    BY DEF NoCall
  <2>3. CallsLeft' < CallsLeft
    BY <1>1, <1>2, <2>1, <2>2, CallMoves
  <2> QED BY <1>1, <2>1, <2>3, CallShrinks
<1>3. ASSUME NEW at, flight' = [flight EXCEPT ![h].at = at], main' = main,
             \/ flight[h].at = "check" /\ at = "token"
             \/ flight[h].at = "token" /\ at = "cat"
      PROVE  RunLeft' < RunLeft
  <2> DEFINE call == [flight[h] EXCEPT !.at = at]
  <2>1. flight' = [flight EXCEPT ![h] = call]
    BY <1>3
  <2>2. call.at = at
    <3>1. flight[h] \in Calls
      BY <1>1, <1>3 DEF NoCall
    <3> QED BY <3>1 DEF Calls
  <2> HIDE DEF call
  <2>3. CallsLeft' < CallsLeft
    BY <1>1, <1>3, <2>1, <2>2, CallMoves
  <2> QED BY <1>1, <1>3, <2>3, CallShrinks
<1> QED BY <1>2, <1>3 DEF Check, CatToken, Cat, CatFails, InCall

LEMMA UploadsShrink ==
    ASSUME RepackInv, ~Resting, RepackInv', ~Resting',
           NEW k \in DOMAIN uploads, UploadToken(k) \/ Stat(k) \/ Put(k)
    PROVE  RunLeft' < RunLeft
<1>1. PICK to :
        /\ uploads' = [uploads EXCEPT ![k].at = to]
        /\ main' = main /\ spawned' = spawned /\ flight' = flight
        /\ \/ uploads[k].at = "go" /\ to = "stat"
           \/ uploads[k].at = "stat" /\ to \in {"put", "done"}
           \/ uploads[k].at = "put" /\ to = "done"
  BY DEF UploadToken, Stat, Put, UploadAt
<1>2. uploads \in Seq(Uploads)
  BY DEF RepackInv, TypeOK
<1>3. UploadsLeft' < UploadsLeft
  BY <1>1, <1>2, UploadMoves
<1>4. UploadsLeft' + 4 <= UploadsLeft + 3
  BY <1>3, LeftFacts, LeftNext
<1>5. /\ Cardinality(spawned') + 1 <= Cardinality(spawned) + 1
      /\ CallsLeft' + 3 <= CallsLeft + 3
      /\ StreamLeft' + 0 <= StreamLeft + 0
  BY <1>1, PartsSame
<1> QED BY <1>4, <1>5, RunFalls

\* RunShrinks holds, and what it counts down is a number: however large the
\* torrent and whatever the flags, a run makes finitely many steps, deaths
\* and failing prefetches among them (repack.go:99-351).
THEOREM RepackShrinks == Spec => [](RunLeft \in Nat) /\ RunShrinks
<1>1. RepackInv => RunLeft \in Nat
  <2>1. Resting => RunLeft = 0
    BY DEF RunLeft
  <2> QED BY <2>1, LeftFacts
<1>2. RepackInv /\ RepackInv' /\ [Next]_vars
        => [(\E n \in NewLens : Start(n)) \/ RunLeft' < RunLeft]_vars
  <2> SUFFICES ASSUME RepackInv, RepackInv', Next,
                      ~ \E n \in NewLens : Start(n)
               PROVE  RunLeft' < RunLeft
    OBVIOUS
  <2>1. ~Resting
    <3>1. Next => Progress \/ (\E h \in SourceHashes : CatFails(h)) \/ Dies
                    \/ \E n \in NewLens : Start(n)
      BY DEF Next
    <3>2. /\ \A i \in 1 .. Len(Source) : Prefetch(i) => ~Resting
          /\ \A h \in SourceHashes :
                Check(h) \/ CatToken(h) \/ Cat(h) \/ CatFails(h) => ~Resting
      BY DEF Prefetch, Check, CatToken, Cat, CatFails, InCall
    <3>3. \A k \in DOMAIN uploads :
             UploadToken(k) \/ Stat(k) \/ Put(k) => ~Resting
      BY DEF UploadToken, Stat, Put, UploadAt
    <3>4. Fetch \/ Get \/ Missing \/ Do \/ Copy \/ Cut \/ EndOfStream
            => ~Resting
      BY DEF Fetch, Get, Missing, Do, Copy, Cut, EndOfStream, Resting
    <3>5. Publish \/ Dies => ~Resting
      BY DEF Publish, Drained, Dies, Resting
    <3> QED BY <3>1, <3>2, <3>3, <3>4, <3>5 DEF Progress
  <2>2. CASE Resting'
    BY <2>1, <2>2, RunOver
  <2>3. CASE ~Resting'
    <3>1. ~Missing /\ ~Publish /\ ~Dies
      BY <2>3 DEF Missing, Publish, Dies, ProcessEnds, Fresh, Resting
    <3>2. CASE Fetch \/ Get \/ Do \/ Copy \/ Cut \/ EndOfStream
      BY <2>1, <2>3, <3>2, FetchShrinks, GetShrinks, DoShrinks, CopyShrinks,
         CutShrinks, EndOfStreamShrinks
    <3>3. ASSUME NEW i \in 1 .. Len(Source), Prefetch(i)
          PROVE  RunLeft' < RunLeft
      BY <2>1, <2>3, <3>3, PrefetchShrinks
    <3>4. ASSUME NEW h \in SourceHashes,
                 Check(h) \/ CatToken(h) \/ Cat(h) \/ CatFails(h)
          PROVE  RunLeft' < RunLeft
      BY <2>1, <2>3, <3>4, CallsShrink
    <3>5. ASSUME NEW k \in DOMAIN uploads,
                 UploadToken(k) \/ Stat(k) \/ Put(k)
          PROVE  RunLeft' < RunLeft
      BY <2>1, <2>3, <3>5, UploadsShrink
    <3> QED BY <3>1, <3>2, <3>3, <3>4, <3>5 DEF Next, Progress
  <2> QED BY <2>2, <2>3
<1> QED BY <1>1, <1>2, RepackInvariant, PTL DEF Spec, RunShrinks
=============================================================================
