------------------------- MODULE PieceReaderProofs -------------------------
(***************************************************************************)
(* The readers of `samogon serve`, proved for every number of sessions,    *)
(* readers and prefetches and every cache size: ReaderInv and KeptInv are  *)
(* inductive.                                                              *)
(***************************************************************************)
EXTENDS PieceReader, LruFacts, FiniteSetTheorems

\* A goroutine that goes to another place keeps its session and its hash.
LEMMA GoesFacts ==
    ASSUME TypeOK, NEW x \in Goroutines, NEW at \in At, Goes(x, at)
    PROVE  /\ go' \in [Goroutines -> [at : At, session : Sessions \cup {None},
                                      hash : Hashes \cup {None}]]
           /\ \A y \in Goroutines \ {x} : go'[y] = go[y]
           /\ go'[x].at = at
           /\ go'[x].session = go[x].session /\ go'[x].hash = go[x].hash
BY DEF TypeOK, Goes

\* The list of the cache changes by MoveToFront and PutFront alone.
LEMMA CacheStep ==
    ASSUME ReaderInv, NEW x \in Goroutines, go[x].at # "idle"
    PROVE  /\ Touch(x) /\ Cached(x) =>
                ll' \in Seq(Hashes) /\ NoRepeats(ll')
                /\ Elements(ll') = Elements(ll)
           /\ LET l == PutFront(ll, go[x].hash, cap)
              IN l \in Seq(Hashes) /\ NoRepeats(l)
<1>1. ll \in Seq(Hashes) /\ NoRepeats(ll) /\ go[x].hash \in Hashes
  BY DEF ReaderInv, FlightInv, TypeOK, GoInv, Key
<1>2. Touch(x) /\ Cached(x) =>
        ll' \in Seq(Hashes) /\ NoRepeats(ll') /\ Elements(ll') = Elements(ll)
  BY <1>1, MoveToFrontFacts DEF Touch, Cached
<1>3. cap \in Int
  BY PieceReaderAssumption DEF ReaderInv, FlightInv, TypeOK
<1>4. LET l == PutFront(ll, go[x].hash, cap)
      IN l \in Seq(Hashes) /\ NoRepeats(l)
  <2> DEFINE h == go[x].hash
  <2>1. h \in Hashes
    BY <1>1
  <2> HIDE DEF h
  <2>2. LET l == PutFront(ll, h, cap)
        IN l \in Seq(Hashes) /\ NoRepeats(l)
    BY <1>1, <1>3, <2>1, PutFrontFacts
  <2> QED BY <2>2 DEF h
<1> QED BY <1>2, <1>4

\* A reader that has a piece goes to the next one of its request or returns.
LEMMA HasPieceFacts ==
    ASSUME ReaderInv, NEW r \in Readers, go[r].at # "idle", HasPiece(r)
    PROVE  /\ go' \in [Goroutines -> [at : At, session : Sessions \cup {None},
                                      hash : Hashes \cup {None}]]
           /\ read' \in [Readers -> [next : Nat, last : Nat, eof : BOOLEAN]]
           /\ \A y \in Goroutines \ {r} : go'[y] = go[y]
           /\ \A y \in Readers \ {r} : read'[y] = read[y]
           /\ ~read[r].eof => ~read'[r].eof
           /\ go'[r].at \in {"idle", "piece"}
           /\ go'[r].at = "piece" =>
                /\ Key(r)' \in Sessions \X Hashes
                /\ read'[r].next \in PieceNos /\ read'[r].last \in PieceNos
                /\ read'[r].next <= read'[r].last
                /\ go'[r].hash = HashOf[read'[r].next]
<1> DEFINE n == read[r].next + 1
<1>1. /\ TypeOK /\ r \in Goroutines
      /\ go[r].session \in Sessions
      /\ read[r].next \in PieceNos /\ read[r].last \in PieceNos
      /\ read[r].next <= read[r].last
  BY DEF ReaderInv, FlightInv, GoInv, Key, Goroutines
<1>2. /\ PieceNos = 1 .. Len(HashOf) /\ Len(HashOf) \in Nat
      /\ \A i \in PieceNos : HashOf[i] \in Hashes
  BY PieceReaderAssumption DEF PieceNos
<1>3. CASE n > read[r].last
  <2>1. /\ go' = [go EXCEPT ![r] = Rest]
        /\ read' = [read EXCEPT ![r] = Answered(FALSE)]
    BY <1>3 DEF HasPiece
  <2> QED BY <1>1, <2>1 DEF TypeOK, Rest, Answered, At
<1>4. CASE ~(n > read[r].last)
  <2>1. /\ go' = [go EXCEPT ![r].at = "piece", ![r].hash = HashOf[n]]
        /\ read' = [read EXCEPT ![r].next = n]
    BY <1>4 DEF HasPiece
  <2>2. n \in PieceNos /\ n \in Nat /\ n <= read[r].last /\ HashOf[n] \in Hashes
    BY <1>1, <1>2, <1>4
  <2> HIDE DEF n
  <2>3. /\ go' \in [Goroutines -> [at : At, session : Sessions \cup {None},
                                   hash : Hashes \cup {None}]]
        /\ \A y \in Goroutines \ {r} : go'[y] = go[y]
        /\ go'[r].at = "piece" /\ go'[r].hash = HashOf[n]
        /\ go'[r].session = go[r].session
    BY <1>1, <2>1, <2>2 DEF TypeOK, At
  <2>4. /\ read' \in [Readers -> [next : Nat, last : Nat, eof : BOOLEAN]]
        /\ \A y \in Readers \ {r} : read'[y] = read[y]
        /\ read'[r].next = n /\ read'[r].last = read[r].last
        /\ read'[r].eof = read[r].eof
    BY <1>1, <2>1, <2>2 DEF TypeOK
  <2> QED BY <1>1, <2>2, <2>3, <2>4 DEF Key
<1> QED BY <1>3, <1>4

\* The part of FlightInv about the singleflight groups.
Grouped ==
    /\ \A x \in Goroutines : Leads(x) => flight[Key(x)] = x
    /\ \A k \in Sessions \X Hashes :
          flight[k] # None => Leads(flight[k]) /\ Key(flight[k]) = k
    /\ \A x \in Goroutines : go[x].at = "wait" => flight[Key(x)] # None

\* A step that leaves the groups alone keeps it, if the leaders go on leading
\* and whoever begins to wait waits for a call.
LEMMA GroupsKept ==
    ASSUME ReaderInv, UNCHANGED flight,
           \A y \in Goroutines :
              \/ go'[y] = go[y]
              \/ Leads(y) /\ Leads(y)' /\ Key(y)' = Key(y)
              \/ /\ ~Leads(y) /\ ~Leads(y)'
                 /\ go'[y].at = "wait" => flight[Key(y)'] # None
    PROVE  Grouped'
<1>1. Grouped /\ flight \in [Sessions \X Hashes -> Goroutines \cup {None}]
  BY DEF ReaderInv, FlightInv, TypeOK, Grouped
<1>2. \A y \in Goroutines : go'[y] = go[y] =>
         /\ Leads(y)' <=> Leads(y)
         /\ Key(y)' = Key(y)
  BY DEF Leads, Key
<1>3. ASSUME NEW y \in Goroutines, Leads(y)' PROVE flight'[Key(y)'] = y
  BY <1>1, <1>2, <1>3 DEF Grouped
<1>4. ASSUME NEW k \in Sessions \X Hashes, flight'[k] # None
      PROVE  Leads(flight[k])' /\ Key(flight[k])' = k
  <2>1. flight[k] \in Goroutines /\ Leads(flight[k]) /\ Key(flight[k]) = k
    BY <1>1, <1>4 DEF Grouped
  <2>2. ASSUME NEW y \in Goroutines, y = flight[k]
        PROVE  Leads(y)' /\ Key(y)' = k
    BY <1>2, <2>1, <2>2
  <2> QED BY <2>1, <2>2 DEF Leads, Key
<1>5. ASSUME NEW y \in Goroutines, go'[y].at = "wait"
      PROVE  flight'[Key(y)'] # None
  <2>1. ~Leads(y)'
    BY <1>5 DEF Leads
  <2> QED BY <1>1, <1>2, <1>5, <2>1 DEF Grouped
<1> QED BY <1>3, <1>4, <1>5 DEF Grouped

\* A reader begins a request.
LEMMA ReadAtStep ==
    ASSUME ReaderInv, NEW r \in Readers, NEW s \in Sessions,
           NEW i \in PieceNos, NEW j \in PieceNos, i <= j, ReadAt(r, s, i, j)
    PROVE  ReaderInv'
<1>1. /\ r \in Goroutines /\ r \notin Prefetchers
      /\ HashOf[i] \in Hashes
      /\ PieceNos \subseteq Nat
  BY PieceReaderAssumption DEF PieceNos, Goroutines
<1>2. /\ UNCHANGED <<ll, flight, alive, faults, cap>>
      /\ TypeOK /\ GoInv /\ NoRepeats(ll) /\ go[r].at = "idle"
      /\ go' = [go EXCEPT ![r] = [at |-> "piece", session |-> s,
                                  hash |-> HashOf[i]]]
      /\ read' = [read EXCEPT ![r] = [next |-> i, last |-> j, eof |-> FALSE]]
  BY DEF ReadAt, Is, ReaderInv, FlightInv
<1>3. /\ \A y \in Goroutines \ {r} : go'[y] = go[y]
      /\ \A y \in Readers \ {r} : read'[y] = read[y]
      /\ go'[r] = [at |-> "piece", session |-> s, hash |-> HashOf[i]]
      /\ read'[r] = [next |-> i, last |-> j, eof |-> FALSE]
  BY <1>1, <1>2 DEF TypeOK
<1>4. TypeOK'
  BY <1>1, <1>2 DEF TypeOK, At
<1>5. Grouped'
  BY <1>1, <1>2, <1>3, GroupsKept DEF Leads
<1>6. GoInv'
  <2>1. /\ \A y \in Goroutines :
             go'[y].at # "idle" => Key(y)' \in Sessions \X Hashes
        /\ \A p \in Prefetchers : go'[p].at \notin {"piece", "get", "back"}
    <3>1. Key(r)' \in Sessions \X Hashes /\ go'[r].at = "piece"
      BY <1>1, <1>3 DEF Key
    <3>2. \A y \in Goroutines \ {r} : go'[y].at = go[y].at /\ Key(y)' = Key(y)
      BY <1>3 DEF Key
    <3>3. \A p \in Prefetchers : p \in Goroutines \ {r}
      BY <1>1 DEF Goroutines
    <3> QED BY <1>2, <3>1, <3>2, <3>3 DEF GoInv
  <2>2. ASSUME NEW y \in Readers, go'[y].at # "idle"
        PROVE  /\ read'[y].next \in PieceNos /\ read'[y].last \in PieceNos
               /\ read'[y].next <= read'[y].last
               /\ go'[y].hash = HashOf[read'[y].next]
    <3>1. CASE y = r
      BY <1>3, <3>1
    <3>2. CASE y # r
      <4>1. go'[y] = go[y] /\ read'[y] = read[y]
        BY <1>3, <3>2 DEF Goroutines
      <4> QED BY <1>2, <2>2, <4>1 DEF GoInv
    <3> QED BY <3>1, <3>2
  <2> QED BY <2>1, <2>2 DEF GoInv
<1> QED BY <1>2, <1>4, <1>5, <1>6 DEF ReaderInv, FlightInv, Grouped

\* getPiece, perhaps with a new prefetch.
LEMMA StartPrefetchStep ==
    ASSUME ReaderInv, NEW r \in Readers, StartPrefetch(r)
    PROVE  ReaderInv'
<1> DEFINE n == read[r].next + Distance
<1>1. /\ UNCHANGED <<ll, flight, read, alive, faults, cap>>
      /\ TypeOK /\ GoInv /\ NoRepeats(ll) /\ r \in Goroutines
      /\ go[r].at = "piece" /\ Key(r) \in Sessions \X Hashes
  BY DEF StartPrefetch, Is, ReaderInv, FlightInv, GoInv, Goroutines
<1>2. CASE Goes(r, "get")
  <2>1. /\ \A y \in Goroutines \ {r} : go'[y] = go[y]
        /\ go'[r].at = "get"
        /\ go'[r].session = go[r].session /\ go'[r].hash = go[r].hash
        /\ TypeOK'
    BY <1>1, <1>2, GoesFacts DEF TypeOK, At
  <2>2. Grouped'
    BY <1>1, <2>1, GroupsKept DEF Leads
  <2>3. GoInv'
    BY <1>1, <2>1 DEF GoInv, Key, Goroutines
  <2> QED BY <1>1, <2>1, <2>2, <2>3 DEF ReaderInv, FlightInv, Grouped
<1>3. CASE ~Goes(r, "get")
  <2>1. PICK p \in Prefetchers :
          /\ go[p].at = "idle" /\ n \in PieceNos
          /\ go' = [go EXCEPT ![r].at = "get",
                              ![p] = [at |-> "do", hash |-> HashOf[n],
                                      session |-> go[r].session]]
    BY <1>3 DEF StartPrefetch
  <2>2. p \in Goroutines /\ p \notin Readers /\ p # r /\ HashOf[n] \in Hashes
    BY <2>1, PieceReaderAssumption DEF Goroutines, PieceNos
  <2> HIDE DEF n
  <2>3. /\ \A y \in Goroutines \ {r, p} : go'[y] = go[y]
        /\ go'[r].at = "get"
        /\ go'[r].session = go[r].session /\ go'[r].hash = go[r].hash
        /\ go'[p] = [at |-> "do", hash |-> HashOf[n], session |-> go[r].session]
        /\ TypeOK'
    BY <1>1, <2>1, <2>2 DEF TypeOK, At, Key
  <2>4. Grouped'
    <3>1. ~Leads(r) /\ ~Leads(r)' /\ go'[r].at # "wait"
      BY <1>1, <2>3 DEF Leads
    <3>2. ~Leads(p) /\ ~Leads(p)' /\ go'[p].at # "wait"
      BY <2>1, <2>3 DEF Leads
    <3> QED BY <1>1, <2>3, <3>1, <3>2, GroupsKept
  <2>5. GoInv'
    BY <1>1, <2>2, <2>3 DEF GoInv, Key, Goroutines
  <2> QED BY <1>1, <2>3, <2>4, <2>5 DEF ReaderInv, FlightInv, Grouped
<1> QED BY <1>2, <1>3

\* A step of one goroutine x that changes nothing but its place, and perhaps
\* the list of the cache.
LEMMA PlaceStep ==
    ASSUME ReaderInv, NEW x \in Goroutines, NEW at \in At, Goes(x, at),
           go[x].at # "idle", UNCHANGED <<flight, read, cap>>,
           alive' \in BOOLEAN, faults' \in 0 .. MaxFaults,
           ll' \in Seq(Hashes), NoRepeats(ll'),
           x \in Prefetchers => at \notin {"piece", "get", "back"},
           \/ Leads(x) /\ at \in {"check", "cat", "land"}
           \/ ~Leads(x) /\ at \in {"get", "do"}
           \/ ~Leads(x) /\ at = "wait" /\ flight[Key(x)] # None
    PROVE  ReaderInv'
<1>1. /\ TypeOK /\ GoInv
      /\ TypeOK'
      /\ \A y \in Goroutines \ {x} : go'[y] = go[y]
      /\ go'[x].at = at
      /\ go'[x].session = go[x].session /\ go'[x].hash = go[x].hash
  BY GoesFacts DEF ReaderInv, FlightInv, TypeOK
<1>2. Key(x)' = Key(x)
  BY <1>1 DEF Key
<1>3. Grouped'
  <2>1. CASE Leads(x) /\ at \in {"check", "cat", "land"}
    <3>1. Leads(x)'
      BY <1>1, <2>1 DEF Leads
    <3> QED BY <1>1, <1>2, <2>1, <3>1, GroupsKept
  <2>2. CASE ~Leads(x) /\ at \in {"get", "do"}
    <3>1. ~Leads(x)' /\ go'[x].at # "wait"
      BY <1>1, <2>2 DEF Leads
    <3> QED BY <1>1, <2>2, <3>1, GroupsKept
  <2>3. CASE ~Leads(x) /\ at = "wait" /\ flight[Key(x)] # None
    <3>1. ~Leads(x)' /\ flight[Key(x)'] # None
      BY <1>1, <1>2, <2>3 DEF Leads
    <3> QED BY <1>1, <2>3, <3>1, GroupsKept
  <2> QED BY <2>1, <2>2, <2>3
<1>4. GoInv'
  BY <1>1, <1>2 DEF GoInv, Key, Goroutines
<1> QED BY <1>1, <1>3, <1>4 DEF ReaderInv, FlightInv, Grouped

\* The looks into the cache of getPiece and of the function under group.Do,
\* the request, and joining a call.
LEMMA PlaceSteps ==
    ASSUME ReaderInv, NEW x \in Goroutines,
           \/ x \in Readers /\ GetMisses(x)
           \/ Join(x) \/ CheckHits(x) \/ CheckMisses(x) \/ Cat(x) \/ CatFails(x)
    PROVE  ReaderInv'
<1>1. /\ TypeOK /\ ll \in Seq(Hashes) /\ NoRepeats(ll)
      /\ alive \in BOOLEAN /\ faults \in 0 .. MaxFaults /\ MaxFaults \in Nat
  BY PieceReaderAssumption DEF ReaderInv, FlightInv, TypeOK
<1>2. x \in Readers => x \notin Prefetchers
  BY PieceReaderAssumption
<1>3. CASE x \in Readers /\ GetMisses(x)
  BY <1>1, <1>2, <1>3, PlaceStep DEF GetMisses, Is, Leads, At
<1>4. CASE Join(x)
  BY <1>1, <1>4, PlaceStep DEF Join, Is, Leads, At
<1>5. CASE CheckHits(x)
  <2>1. ll' \in Seq(Hashes) /\ NoRepeats(ll')
    BY <1>5, CacheStep DEF CheckHits, Is
  <2> QED BY <1>1, <1>5, <2>1, PlaceStep DEF CheckHits, Is, Leads, At
<1>6. CASE CheckMisses(x)
  BY <1>1, <1>6, PlaceStep DEF CheckMisses, Is, Leads, At
<1>7. CASE Cat(x)
  <2>1. ll' \in Seq(Hashes) /\ NoRepeats(ll')
    BY <1>7, CacheStep DEF Cat, Is
  <2> QED BY <1>1, <1>7, <2>1, PlaceStep DEF Cat, Is, Leads, At
<1>8. CASE CatFails(x)
  <2>1. UNCHANGED <<ll, flight, read, cap>> /\ go[x].at = "cat"
    BY <1>8 DEF CatFails, Is
  <2>2. faults' \in 0 .. MaxFaults
    BY <1>1, <1>8 DEF CatFails
  <2>3. alive' \in BOOLEAN
    BY <1>1, <1>8 DEF CatFails
  <2>4. CASE x \in Prefetchers
    BY <1>1, <1>8, <2>1, <2>4, <2>2, <2>3, PlaceStep DEF CatFails, Leads, At
  <2>5. CASE x \notin Prefetchers
    <3>1. UNCHANGED go
      BY <1>8, <2>5 DEF CatFails
    <3>2. TypeOK'
      BY <1>1, <2>1, <2>2, <2>3, <3>1 DEF TypeOK
    <3> QED
      BY <2>1, <3>1, <3>2 DEF ReaderInv, FlightInv, GoInv, Leads, Key
  <2> QED BY <2>4, <2>5
<1> QED BY <1>3, <1>4, <1>5, <1>6, <1>7, <1>8

\* A step of one reader, which rests afterwards or is at its next piece.
LEMMA OneGoes ==
    ASSUME GoInv, NEW r \in Readers, r \in Goroutines,
           \A y \in Goroutines \ {r} :
              go'[y] = go[y] /\ go'[y].at = go[y].at /\ Key(y)' = Key(y),
           \A y \in Readers \ {r} : read'[y] = read[y],
           \A p \in Prefetchers : p \in Goroutines \ {r},
           \A y \in Readers : y \in Goroutines,
           go'[r].at \in {"idle", "piece"},
           go'[r].at = "piece" =>
              /\ Key(r)' \in Sessions \X Hashes
              /\ read'[r].next \in PieceNos /\ read'[r].last \in PieceNos
              /\ read'[r].next <= read'[r].last
              /\ go'[r].hash = HashOf[read'[r].next]
    PROVE  GoInv'
<1>1. \A x \in Goroutines : go'[x].at # "idle" => Key(x)' \in Sessions \X Hashes
  BY DEF GoInv
<1>2. \A p \in Prefetchers : go'[p].at \notin {"piece", "get", "back"}
  BY DEF GoInv
<1>3. ASSUME NEW y \in Readers, go'[y].at # "idle"
      PROVE  /\ read'[y].next \in PieceNos /\ read'[y].last \in PieceNos
             /\ read'[y].next <= read'[y].last
             /\ go'[y].hash = HashOf[read'[y].next]
  <2>1. CASE y = r
    BY <1>3, <2>1
  <2>2. CASE y # r
    <3>1. go'[y] = go[y] /\ read'[y] = read[y] /\ go[y].at # "idle"
      BY <1>3, <2>2
    <3>2. /\ read[y].next \in PieceNos /\ read[y].last \in PieceNos
          /\ read[y].next <= read[y].last
          /\ go[y].hash = HashOf[read[y].next]
      BY <3>1 DEF GoInv
    <3> QED BY <3>1, <3>2
  <2> QED BY <2>1, <2>2
<1> QED BY <1>1, <1>2, <1>3 DEF GoInv

\* The reader finds its piece in the cache and goes on.
LEMMA HitStep ==
    ASSUME ReaderInv, NEW r \in Readers, GetHits(r) \/ ReadBackHits(r)
    PROVE  ReaderInv'
<1>1. /\ TypeOK /\ GoInv /\ r \in Goroutines /\ r \notin Prefetchers
      /\ go[r].at \in {"get", "back"} /\ Touch(r) /\ Cached(r) /\ HasPiece(r)
      /\ UNCHANGED <<flight, alive, faults, cap>>
  BY PieceReaderAssumption
     DEF GetHits, ReadBackHits, Is, ReaderInv, FlightInv, Goroutines
<1>2. ll' \in Seq(Hashes) /\ NoRepeats(ll')
  BY <1>1, CacheStep
<1>3. /\ go' \in [Goroutines -> [at : At, session : Sessions \cup {None},
                                 hash : Hashes \cup {None}]]
      /\ read' \in [Readers -> [next : Nat, last : Nat, eof : BOOLEAN]]
      /\ \A y \in Goroutines \ {r} : go'[y] = go[y]
      /\ \A y \in Readers \ {r} : read'[y] = read[y]
      /\ go'[r].at \in {"idle", "piece"}
      /\ go'[r].at = "piece" =>
           /\ Key(r)' \in Sessions \X Hashes
           /\ read'[r].next \in PieceNos /\ read'[r].last \in PieceNos
           /\ read'[r].next <= read'[r].last
           /\ go'[r].hash = HashOf[read'[r].next]
  BY <1>1, HasPieceFacts
<1>4. TypeOK'
  BY <1>1, <1>2, <1>3 DEF TypeOK
<1>5. Grouped'
  <2>1. ~Leads(r) /\ ~Leads(r)' /\ go'[r].at # "wait"
    BY <1>1, <1>3 DEF Leads
  <2> QED BY <1>1, <1>3, <2>1, GroupsKept
<1>6. GoInv'
  <2>1. \A y \in Goroutines \ {r} : go'[y].at = go[y].at /\ Key(y)' = Key(y)
    BY <1>3 DEF Key
  <2>2. /\ \A p \in Prefetchers : p \in Goroutines \ {r}
        /\ \A y \in Readers : y \in Goroutines
    BY <1>1 DEF Goroutines
  <2> QED BY <1>1, <1>3, <2>1, <2>2, OneGoes
<1> QED BY <1>2, <1>4, <1>5, <1>6 DEF ReaderInv, FlightInv, Grouped

\* The reader finds nothing and breaks off.
LEMMA ReadBackMissesStep ==
    ASSUME ReaderInv, NEW r \in Readers, ReadBackMisses(r)
    PROVE  ReaderInv'
<1>1. /\ TypeOK /\ GoInv /\ NoRepeats(ll) /\ r \in Goroutines
      /\ r \notin Prefetchers /\ go[r].at = "back"
      /\ go' = [go EXCEPT ![r] = Rest]
      /\ read' = [read EXCEPT ![r] = Answered(TRUE)]
      /\ UNCHANGED <<ll, flight, alive, faults, cap>>
  BY PieceReaderAssumption
     DEF ReadBackMisses, Is, ReaderInv, FlightInv, Goroutines
<1>2. /\ TypeOK'
      /\ \A y \in Goroutines \ {r} : go'[y] = go[y]
      /\ \A y \in Readers \ {r} : read'[y] = read[y]
      /\ go'[r] = Rest
  BY <1>1 DEF TypeOK, Rest, Answered, At
<1>3. Grouped'
  <2>1. ~Leads(r) /\ ~Leads(r)' /\ go'[r].at # "wait"
    BY <1>1, <1>2 DEF Leads, Rest
  <2> QED BY <1>1, <1>2, <2>1, GroupsKept
<1>4. GoInv'
  <2>1. \A y \in Goroutines \ {r} : go'[y].at = go[y].at /\ Key(y)' = Key(y)
    BY <1>2 DEF Key
  <2>2. /\ \A p \in Prefetchers : p \in Goroutines \ {r}
        /\ \A y \in Readers : y \in Goroutines
        /\ go'[r].at = "idle"
    BY <1>1, <1>2 DEF Goroutines, Rest
  <2> QED BY <1>1, <1>2, <2>1, <2>2, OneGoes
<1> QED BY <1>1, <1>2, <1>3, <1>4 DEF ReaderInv, FlightInv, Grouped

\* A goroutine finds no call for its hash and becomes the leader of one.
LEMMA LeadStep ==
    ASSUME ReaderInv, NEW x \in Goroutines, Lead(x)
    PROVE  ReaderInv'
<1>1. /\ TypeOK /\ GoInv /\ Grouped /\ NoRepeats(ll)
      /\ go[x].at = "do" /\ flight[Key(x)] = None /\ Goes(x, "check")
      /\ flight' = [flight EXCEPT ![Key(x)] = x]
      /\ UNCHANGED <<ll, read, alive, faults, cap>>
      /\ Key(x) \in Sessions \X Hashes
  BY DEF Lead, Is, ReaderInv, FlightInv, GoInv, Grouped
<1>2. /\ go' \in [Goroutines -> [at : At, session : Sessions \cup {None},
                                 hash : Hashes \cup {None}]]
      /\ \A y \in Goroutines \ {x} : go'[y] = go[y]
      /\ go'[x].at = "check"
      /\ go'[x].session = go[x].session /\ go'[x].hash = go[x].hash
  BY <1>1, GoesFacts DEF At
<1>3. \A y \in Goroutines : Key(y)' = Key(y)
  BY <1>2 DEF Key
<1>4. \A y \in Goroutines \ {x} : Leads(y)' <=> Leads(y)
  BY <1>2 DEF Leads
<1>5. Leads(x)' /\ ~Leads(x)
  BY <1>1, <1>2 DEF Leads
<1>6. /\ flight'[Key(x)] = x /\ x # None
      /\ \A k \in (Sessions \X Hashes) \ {Key(x)} : flight'[k] = flight[k]
      /\ flight \in [Sessions \X Hashes -> Goroutines \cup {None}]
      /\ flight' \in [Sessions \X Hashes -> Goroutines \cup {None}]
  BY <1>1, PieceReaderAssumption DEF TypeOK
<1>7. Grouped'
  <2>1. \A y \in Goroutines \ {x} :
           Leads(y) => Key(y) \in (Sessions \X Hashes) \ {Key(x)}
    <3>1. \A y \in Goroutines : Leads(y) => go[y].at # "idle" /\ y # None
      BY PieceReaderAssumption DEF Leads
    <3> QED BY <1>1, <3>1 DEF GoInv, Grouped
  <2>2. \A y \in Goroutines : Leads(y)' => flight'[Key(y)'] = y
    BY <1>1, <1>3, <1>4, <1>6, <2>1 DEF Grouped
  <2>3. ASSUME NEW k \in Sessions \X Hashes, flight'[k] # None
        PROVE  Leads(flight[k])' /\ Key(flight[k])' = k
    <3>1. CASE k = Key(x)
      <4>1. flight'[k] = x
        BY <1>6, <3>1
      <4>2. ASSUME NEW y, y = x PROVE Leads(y)' /\ Key(y)' = k
        BY <1>3, <1>5, <3>1, <4>2
      <4> QED BY <4>1, <4>2 DEF Leads, Key
    <3>2. CASE k # Key(x)
      <4>1. flight'[k] = flight[k] /\ flight[k] \in Goroutines \ {x}
            /\ Leads(flight[k]) /\ Key(flight[k]) = k
        BY <1>1, <1>5, <1>6, <2>3, <3>2 DEF Grouped
      <4>2. ASSUME NEW y \in Goroutines \ {x}, y = flight[k]
            PROVE  Leads(y)' /\ Key(y)' = k
        BY <1>3, <1>4, <4>1, <4>2
      <4> QED BY <4>1, <4>2 DEF Leads, Key
    <3> QED BY <3>1, <3>2
  <2>4. ASSUME NEW y \in Goroutines, go'[y].at = "wait"
        PROVE  flight'[Key(y)'] # None
    <3>1. go[y].at = "wait" /\ Key(y) \in Sessions \X Hashes
      BY <1>1, <1>2, <2>4 DEF GoInv
    <3> QED BY <1>1, <1>3, <1>6, <3>1 DEF Grouped
  <2> QED BY <2>2, <2>3, <2>4 DEF Grouped
<1>8. GoInv'
  BY <1>1, <1>2, <1>3 DEF GoInv, Goroutines
<1>9. TypeOK'
  BY <1>1, <1>2, <1>6 DEF TypeOK
<1> QED BY <1>1, <1>7, <1>8, <1>9 DEF ReaderInv, FlightInv, Grouped

\* The leader and those it wakes: each is back in its reader or at rest.
Woken(x, y) == y = x \/ (go[y].at = "wait" /\ Key(y) = Key(x))

\* Where a call that ends leaves each goroutine.
LEMMA LandFacts ==
    ASSUME ReaderInv, NEW x \in Goroutines, Land(x)
    PROVE  /\ \A y \in Goroutines : ~Woken(x, y) => go'[y] = go[y]
           /\ \A y \in Goroutines : Woken(x, y) =>
                IF y \in Readers THEN go'[y].at = "back" /\ Key(y)' = Key(y)
                                      /\ go'[y].hash = go[y].hash
                ELSE go'[y] = Rest
           /\ go' \in [Goroutines -> [at : At, session : Sessions \cup {None},
                                      hash : Hashes \cup {None}]]
<1>1. /\ go' = [y \in Goroutines |->
                  IF Woken(x, y)
                  THEN IF y \in Readers
                       THEN [at |-> "back", session |-> go[y].session,
                             hash |-> go[y].hash]
                       ELSE Rest
                  ELSE go[y]]
      /\ TypeOK
  BY DEF Land, Woken, ReaderInv, FlightInv
<1>2. \A y \in Goroutines :
         go'[y] = IF Woken(x, y)
                  THEN IF y \in Readers
                       THEN [at |-> "back", session |-> go[y].session,
                             hash |-> go[y].hash]
                       ELSE Rest
                  ELSE go[y]
  BY <1>1
<1>3. \A y \in Goroutines :
         go'[y] \in [at : At, session : Sessions \cup {None},
                     hash : Hashes \cup {None}]
  BY <1>1, <1>2 DEF TypeOK, Rest, At
<1> QED BY <1>1, <1>2, <1>3 DEF Key

\* The call ends: its key is free, and nobody waits for it any more.
LEMMA LandStep ==
    ASSUME ReaderInv, NEW x \in Goroutines, Land(x)
    PROVE  ReaderInv'
<1>1. /\ TypeOK /\ GoInv /\ Grouped /\ NoRepeats(ll)
      /\ go[x].at = "land" /\ flight' = [flight EXCEPT ![Key(x)] = None]
      /\ UNCHANGED <<ll, read, alive, faults, cap>>
      /\ Key(x) \in Sessions \X Hashes
  BY DEF Land, Is, ReaderInv, FlightInv, GoInv, Grouped
<1>2. /\ \A y \in Goroutines : ~Woken(x, y) => go'[y] = go[y]
      /\ \A y \in Goroutines : Woken(x, y) =>
           IF y \in Readers THEN go'[y].at = "back" /\ Key(y)' = Key(y)
                                 /\ go'[y].hash = go[y].hash
           ELSE go'[y] = Rest
      /\ go' \in [Goroutines -> [at : At, session : Sessions \cup {None},
                                 hash : Hashes \cup {None}]]
  BY LandFacts
<1>3. \A y \in Goroutines : ~Woken(x, y) =>
         go'[y].at = go[y].at /\ Key(y)' = Key(y) /\ (Leads(y)' <=> Leads(y))
  BY <1>2 DEF Key, Leads
<1>4. \A y \in Goroutines : Woken(x, y) =>
         go'[y].at \in {"idle", "back"} /\ ~Leads(y)'
  BY <1>2 DEF Rest, Leads
<1>5. /\ flight'[Key(x)] = None
      /\ \A k \in (Sessions \X Hashes) \ {Key(x)} : flight'[k] = flight[k]
      /\ flight' \in [Sessions \X Hashes -> Goroutines \cup {None}]
      /\ flight \in [Sessions \X Hashes -> Goroutines \cup {None}]
  BY <1>1 DEF TypeOK
<1>6. Leads(x) /\ flight[Key(x)] = x /\ Woken(x, x)
  BY <1>1 DEF Leads, Grouped, Woken
<1>7. \A y \in Goroutines :
         (Leads(y) \/ go[y].at = "wait") /\ ~Woken(x, y) =>
             Key(y) \in (Sessions \X Hashes) \ {Key(x)}
  <2>1. \A y \in Goroutines : Leads(y) \/ go[y].at = "wait"
                                => Key(y) \in Sessions \X Hashes
    BY <1>1 DEF GoInv, Leads
  <2>2. ASSUME NEW y \in Goroutines, Leads(y), y # x PROVE Key(y) # Key(x)
    BY <1>1, <1>6, <2>2 DEF Grouped
  <2> QED BY <2>1, <2>2 DEF Woken
<1>8. Grouped'
  <2>1. \A y \in Goroutines : Leads(y)' => flight'[Key(y)'] = y
    BY <1>1, <1>3, <1>4, <1>5, <1>7 DEF Grouped
  <2>2. ASSUME NEW k \in Sessions \X Hashes, flight'[k] # None
        PROVE  Leads(flight[k])' /\ Key(flight[k])' = k
    <3>1. /\ k # Key(x) /\ flight'[k] = flight[k] /\ flight[k] \in Goroutines
          /\ Leads(flight[k]) /\ Key(flight[k]) = k
      BY <1>1, <1>5, <2>2 DEF Grouped
    <3>2. ~Woken(x, flight[k])
      BY <3>1 DEF Woken, Leads
    <3>3. ASSUME NEW y \in Goroutines, y = flight[k]
          PROVE  Leads(y)' /\ Key(y)' = k
      BY <1>3, <3>1, <3>2, <3>3
    <3> QED BY <3>1, <3>3 DEF Leads, Key
  <2>3. ASSUME NEW y \in Goroutines, go'[y].at = "wait"
        PROVE  flight'[Key(y)'] # None
    <3>1. ~Woken(x, y) /\ go[y].at = "wait" /\ Key(y)' = Key(y)
      BY <1>3, <1>4, <2>3
    <3> QED BY <1>1, <1>5, <1>7, <3>1 DEF Grouped
  <2> QED BY <2>1, <2>2, <2>3 DEF Grouped
<1>9. GoInv'
  <2>1. \A y \in Goroutines :
           Woken(x, y) => go[y].at # "idle" /\ Key(y) \in Sessions \X Hashes
    BY <1>1 DEF Woken, GoInv
  <2>2. ASSUME NEW y \in Goroutines, go'[y].at # "idle"
        PROVE  /\ Key(y)' = Key(y) /\ go[y].at # "idle"
               /\ go'[y].hash = go[y].hash
    <3>1. CASE Woken(x, y)
      <4>1. y \in Readers
        BY <1>2, <2>2, <3>1 DEF Rest
      <4> QED BY <1>2, <2>1, <3>1, <4>1
    <3>2. CASE ~Woken(x, y)
      BY <1>2, <1>3, <2>2, <3>2
    <3> QED BY <3>1, <3>2
  <2>3. \A y \in Goroutines :
           go'[y].at # "idle" => Key(y)' \in Sessions \X Hashes
    BY <1>1, <2>2 DEF GoInv
  <2>4. ASSUME NEW p \in Prefetchers
        PROVE  go'[p].at \notin {"piece", "get", "back"}
    <3>1. p \in Goroutines /\ p \notin Readers
      BY PieceReaderAssumption DEF Goroutines
    <3>2. CASE Woken(x, p)
      BY <1>2, <3>1, <3>2 DEF Rest
    <3>3. CASE ~Woken(x, p)
      BY <1>1, <1>2, <3>1, <3>3 DEF GoInv
    <3> QED BY <3>2, <3>3
  <2>5. ASSUME NEW r \in Readers, go'[r].at # "idle"
        PROVE  /\ read'[r].next \in PieceNos /\ read'[r].last \in PieceNos
               /\ read'[r].next <= read'[r].last
               /\ go'[r].hash = HashOf[read'[r].next]
    <3>1. r \in Goroutines
      BY DEF Goroutines
    <3> QED BY <1>1, <2>2, <2>5, <3>1 DEF GoInv
  <2> QED BY <2>3, <2>4, <2>5 DEF GoInv
<1>10. TypeOK'
  BY <1>1, <1>2, <1>5 DEF TypeOK
<1> QED BY <1>1, <1>8, <1>9, <1>10 DEF ReaderInv, FlightInv, Grouped

-----------------------------------------------------------------------------

\* Every step keeps the invariant of the readers.
LEMMA ReaderStep ==
    ASSUME ReaderInv, [Next]_vars
    PROVE  ReaderInv'
<1>1. ASSUME NEW r \in Readers, NEW s \in Sessions,
             NEW i \in PieceNos, NEW j \in PieceNos,
             i <= j, ReadAt(r, s, i, j)
      PROVE  ReaderInv'
  BY <1>1, ReadAtStep
<1>2. ASSUME NEW r \in Readers, InGetPiece(r) PROVE ReaderInv'
  <2>1. r \in Goroutines
    BY DEF Goroutines
  <2> QED BY <1>2, <2>1, StartPrefetchStep, HitStep, PlaceSteps,
             ReadBackMissesStep DEF InGetPiece
<1>3. ASSUME NEW x \in Goroutines, InFlight(x) \/ CatFails(x) PROVE ReaderInv'
  BY <1>3, LeadStep, PlaceSteps, LandStep DEF InFlight
<1>4. CASE UNCHANGED vars
  BY <1>4 DEF vars, ReaderInv, FlightInv, TypeOK, GoInv, Leads, Key, NoRepeats
<1> QED BY <1>1, <1>2, <1>3, <1>4 DEF Next

\* The daemon starts with an empty cache, no call and everybody at rest.
LEMMA ReaderInit == Init => ReaderInv
<1> SUFFICES ASSUME Init PROVE ReaderInv
  OBVIOUS
<1>1. /\ <<>> \in Seq(Hashes) /\ NoRepeats(<<>>)
      /\ MaxFaults \in Nat
  BY PieceReaderAssumption DEF NoRepeats
<1>2. \A x \in Goroutines : go[x] = Rest
  BY DEF Init
<1>3. TypeOK
  BY <1>1 DEF Init, TypeOK, Rest, Answered, At
<1>4. Grouped
  BY <1>2 DEF Init, Grouped, Leads, Rest
<1>5. GoInv
  BY <1>2 DEF GoInv, Rest, Goroutines
<1> QED BY <1>1, <1>3, <1>4, <1>5 DEF Init, ReaderInv, FlightInv, Grouped

\* ReaderInv is an invariant of the daemon.
THEOREM ReaderInvariant == Spec => []ReaderInv
<1>1. ReaderInv /\ [Next]_vars => ReaderInv'
  BY ReaderStep
<1> QED BY ReaderInit, <1>1, PTL DEF Spec

\* A session has one call per hash, the group knows who leads it, and nobody
\* waits for a call that is over (sftp.go:306-344).
THEOREM OneCallPerHash == Spec => []FlightInv
<1>1. ReaderInv => FlightInv
  BY DEF ReaderInv
<1> QED BY <1>1, ReaderInvariant, PTL

-----------------------------------------------------------------------------
(* A cache with room for every piece, and requests that succeed *)

\* A piece that arrives pushes no other out.
LEMMA NothingEvicted ==
    ASSUME Undisturbed, ReaderInv, NEW x \in Goroutines, Cat(x)
    PROVE  Elements(ll') = Elements(ll) \cup {go[x].hash}
<1>1. /\ ll \in Seq(Hashes) /\ NoRepeats(ll) /\ go[x].hash \in Hashes
      /\ ll' = PutFront(ll, go[x].hash, cap)
  BY DEF Cat, Is, ReaderInv, FlightInv, TypeOK, GoInv, Key
<1>3. cap \in Int
  BY PieceReaderAssumption DEF ReaderInv, FlightInv, TypeOK
<1>2. go[x].hash \in Elements(ll) \/ Len(ll) + 1 <= cap
  BY <1>1, <1>3, PieceReaderAssumption, RoomForOneMore DEF Undisturbed
<1>4. ASSUME NEW h \in Hashes, h = go[x].hash
      PROVE  Elements(PutFront(ll, h, cap)) = Elements(ll) \cup {h}
  <2>1. h \in Elements(ll) \/ Len(ll) + 1 <= cap
    BY <1>2, <1>4
  <2>2. /\ PutFront(ll, h, cap) \in Seq(Hashes)
        /\ h \in Elements(ll) \/ Len(ll) + 1 <= cap
             => Elements(PutFront(ll, h, cap)) = Elements(ll) \cup {h}
    BY <1>1, <1>3, PutFrontFacts
  <2> QED BY <2>1, <2>2
<1> QED BY <1>1, <1>4

\* Who holds the hash of a call that is over finds it in the cache.
Kept(y) == go[y].at \in {"land", "back"} => Cached(y)

\* A goroutine stays so if it does not move and nothing is evicted.
LEMMA StaysKept ==
    ASSUME NEW y \in Goroutines, Kept(y), go'[y] = go[y],
           Elements(ll) \subseteq Elements(ll')
    PROVE  Kept(y)'
BY DEF Kept, Cached

\* The steps of the readers on their own.
LEMMA KeptByReader ==
    ASSUME Undisturbed, KeptInv, NEW r \in Readers,
           \/ InGetPiece(r)
           \/ \E s \in Sessions, i, j \in PieceNos : ReadAt(r, s, i, j)
    PROVE  /\ \A y \in Goroutines : Kept(y)'
           /\ EofMeansEnd'
<1>1. /\ ReaderInv /\ TypeOK /\ r \in Goroutines
      /\ \A y \in Goroutines : Kept(y)
      /\ \A y \in Readers : ~read[y].eof
  BY DEF KeptInv, ReaderInv, FlightInv, Kept, EofMeansEnd, Goroutines
<1>2. ASSUME NEW s \in Sessions, NEW i \in PieceNos,
             NEW j \in PieceNos, ReadAt(r, s, i, j)
      PROVE  /\ \A y \in Goroutines : Kept(y)'
             /\ EofMeansEnd'
  <2>1. /\ go'[r].at = "piece" /\ \A y \in Goroutines \ {r} : go'[y] = go[y]
        /\ ~read'[r].eof /\ \A y \in Readers \ {r} : read'[y] = read[y]
        /\ ll' = ll
    BY <1>1, <1>2 DEF ReadAt, TypeOK
  <2> QED BY <1>1, <2>1, StaysKept DEF Kept, EofMeansEnd
<1>3. CASE StartPrefetch(r)
  <2>1. UNCHANGED <<ll, read>>
    BY <1>3 DEF StartPrefetch
  <2>2. \A y \in Goroutines : go'[y] = go[y] \/ go'[y].at \in {"get", "do"}
    <3>1. CASE Goes(r, "get")
      BY <1>1, <3>1, GoesFacts DEF At
    <3>2. CASE ~Goes(r, "get")
      <4>1. PICK p \in Prefetchers :
              go' = [go EXCEPT ![r].at = "get",
                               ![p] = [at |-> "do", session |-> go[r].session,
                                       hash |-> HashOf[read[r].next
                                                         + Distance]]]
        BY <1>3, <3>2 DEF StartPrefetch
      <4> QED BY <1>1, <4>1 DEF TypeOK
    <3> QED BY <3>1, <3>2
  <2> QED BY <1>1, <2>1, <2>2, StaysKept DEF Kept, EofMeansEnd
<1>4. CASE GetMisses(r)
  <2>1. UNCHANGED <<ll, read>> /\ Goes(r, "do")
    BY <1>4 DEF GetMisses
  <2>2. go'[r].at = "do" /\ \A y \in Goroutines \ {r} : go'[y] = go[y]
    BY <1>1, <2>1, GoesFacts DEF At
  <2> QED BY <1>1, <2>1, <2>2, StaysKept DEF Kept, EofMeansEnd
<1>5. CASE GetHits(r) \/ ReadBackHits(r)
  <2>1. /\ go[r].at # "idle" /\ HasPiece(r) /\ Touch(r) /\ Cached(r)
    BY <1>5 DEF GetHits, ReadBackHits, Is
  <2>2. Elements(ll') = Elements(ll)
    BY <1>1, <2>1, CacheStep
  <2>3. /\ go'[r].at \in {"idle", "piece"}
        /\ \A y \in Goroutines \ {r} : go'[y] = go[y]
        /\ ~read'[r].eof /\ \A y \in Readers \ {r} : read'[y] = read[y]
    BY <1>1, <2>1, HasPieceFacts
  <2> QED BY <1>1, <2>1, <2>2, <2>3, StaysKept DEF Kept, EofMeansEnd
<1>6. ~ReadBackMisses(r)
  BY <1>1 DEF ReadBackMisses, Is, Kept
<1> QED BY <1>2, <1>3, <1>4, <1>5, <1>6 DEF InGetPiece

\* The steps under group.Do.
LEMMA KeptInFlight ==
    ASSUME Undisturbed, KeptInv, NEW x \in Goroutines, InFlight(x)
    PROVE  /\ \A y \in Goroutines : Kept(y)'
           /\ EofMeansEnd'
<1>1. /\ ReaderInv /\ TypeOK
      /\ \A y \in Goroutines : Kept(y)
  BY DEF KeptInv, ReaderInv, FlightInv, Kept
<1>2. EofMeansEnd'
  <2>1. UNCHANGED read
    BY DEF InFlight, Lead, Join, CheckHits, CheckMisses, Cat, Land
  <2> QED BY <1>1, <2>1 DEF KeptInv, EofMeansEnd
<1>3. CASE Lead(x) \/ Join(x) \/ CheckMisses(x)
  <2>1. PICK at \in {"check", "wait", "cat"} : Goes(x, at) /\ ll' = ll
    BY <1>3 DEF Lead, Join, CheckMisses
  <2>2. go'[x].at = at /\ \A y \in Goroutines \ {x} : go'[y] = go[y]
    BY <1>1, <2>1, GoesFacts DEF At
  <2>3. Kept(x)'
    BY <2>2 DEF Kept
  <2> QED BY <1>1, <1>2, <2>1, <2>2, <2>3, StaysKept
<1>4. CASE CheckHits(x) \/ Cat(x)
  <2>1. Goes(x, "land") /\ go[x].at # "idle"
    BY <1>4 DEF CheckHits, Cat, Is
  <2>2. /\ go'[x].hash = go[x].hash
        /\ \A y \in Goroutines \ {x} : go'[y] = go[y]
    BY <1>1, <2>1, GoesFacts DEF At
  <2>3. Elements(ll) \cup {go[x].hash} = Elements(ll')
    <3>1. CASE CheckHits(x)
      BY <1>1, <2>1, <3>1, CacheStep DEF CheckHits, Cached
    <3>2. CASE Cat(x)
      BY <1>1, <3>2, NothingEvicted
    <3> QED BY <1>4, <3>1, <3>2
  <2>4. Kept(x)'
    BY <2>2, <2>3 DEF Kept, Cached
  <2> QED BY <1>1, <1>2, <2>2, <2>3, <2>4, StaysKept
<1>5. CASE Land(x)
  <2>1. ll' = ll /\ go[x].at = "land" /\ Cached(x)
    BY <1>1, <1>5 DEF Land, Is, Kept
  <2>2. /\ \A y \in Goroutines : ~Woken(x, y) => go'[y] = go[y]
        /\ \A y \in Goroutines : Woken(x, y) =>
             go'[y].hash = go[y].hash \/ go'[y] = Rest
    BY <1>1, <1>5, LandFacts
  <2>3. ASSUME NEW y \in Goroutines, Woken(x, y) PROVE Kept(y)'
    <3>1. go[y].hash = go[x].hash
      BY <2>3 DEF Woken, Key
    <3>2. go'[y].hash = go[y].hash \/ go'[y] = Rest
      BY <2>2, <2>3
    <3> QED BY <2>1, <3>1, <3>2 DEF Kept, Cached, Rest
  <2> QED BY <1>1, <1>2, <2>1, <2>2, <2>3, StaysKept
<1> QED BY <1>2, <1>3, <1>4, <1>5 DEF InFlight

\* Every step keeps what the cache has to hold; a request that fails ends it.
LEMMA KeptStep ==
    ASSUME KeptInv, [Next]_vars
    PROVE  KeptInv'
<1> SUFFICES ASSUME Undisturbed'
             PROVE  (\A y \in Goroutines : Kept(y)') /\ EofMeansEnd'
  BY ReaderStep DEF KeptInv, Kept
<1>1. ASSUME NEW r \in Readers, NEW s \in Sessions,
             NEW i \in PieceNos, NEW j \in PieceNos, ReadAt(r, s, i, j)
      PROVE  (\A y \in Goroutines : Kept(y)') /\ EofMeansEnd'
  <2>1. Undisturbed
    BY <1>1 DEF ReadAt, Undisturbed
  <2> QED BY <1>1, <2>1, KeptByReader
<1>2. ASSUME NEW r \in Readers, InGetPiece(r)
      PROVE  (\A y \in Goroutines : Kept(y)') /\ EofMeansEnd'
  <2>1. UNCHANGED <<faults, cap>>
    BY <1>2 DEF InGetPiece, StartPrefetch, GetHits, GetMisses, ReadBackHits,
                ReadBackMisses
  <2> QED BY <1>2, <2>1, KeptByReader DEF Undisturbed
<1>3. ASSUME NEW x \in Goroutines, InFlight(x)
      PROVE  (\A y \in Goroutines : Kept(y)') /\ EofMeansEnd'
  <2>1. UNCHANGED <<faults, cap>>
    BY <1>3 DEF InFlight, Lead, Join, CheckHits, CheckMisses, Cat, Land
  <2> QED BY <1>3, <2>1, KeptInFlight DEF Undisturbed
<1>4. \A x \in Goroutines : ~CatFails(x)
  BY DEF CatFails, Undisturbed, KeptInv, ReaderInv, FlightInv, TypeOK
<1>5. CASE UNCHANGED vars
  BY <1>5 DEF vars, KeptInv, Kept, Cached, EofMeansEnd, Undisturbed
<1> QED BY <1>1, <1>2, <1>3, <1>4, <1>5 DEF Next

\* KeptInv is an invariant, whatever the size of the cache and however many
\* requests fail.
THEOREM KeptInvariant == Spec => []KeptInv
<1>1. Init => KeptInv
  <2> SUFFICES ASSUME Init PROVE KeptInv
    OBVIOUS
  <2>1. \A x \in Goroutines : go[x].at = "idle"
    BY DEF Init, Rest
  <2>2. EofMeansEnd
    BY DEF Init, EofMeansEnd, Answered
  <2> QED BY <2>1, <2>2, ReaderInit DEF KeptInv
<1> QED BY <1>1, KeptStep, PTL DEF Spec

\* ReadAt answers EOF inside a file (sftp.go:286-292) for a failed request or
\* an eviction alone, however readers, sessions and prefetches interleave.
THEOREM EofOnlyForACause == Spec => []EofNeedsCause
<1>1. KeptInv => EofNeedsCause
  BY DEF KeptInv, EofNeedsCause
<1> QED BY <1>1, KeptInvariant, PTL

-----------------------------------------------------------------------------
(* Why reads end *)

\* Of the goroutines at work while the daemon runs each one can go on, or the
\* leader of the call that it joined can (sftp.go:306-344).
THEOREM ReadersGoOn == Spec => []ReadersNeverStuck
<1>1. ASSUME ReaderInv, alive, NEW x \in Goroutines, go[x].at # "idle",
             ~CanStep(x)
      PROVE  LET y == flight[Key(x)]
             IN y \in Goroutines \ {x} /\ CanStep(y) /\ Leads(y)
  <2> DEFINE k == Key(x)
  <2>1. go[x].at = "wait" /\ k \in Sessions \X Hashes
    BY <1>1 DEF CanStep, ReaderInv, GoInv
  <2>2. flight[k] # None
    BY <1>1, <2>1 DEF ReaderInv, FlightInv
  <2>3. flight[k] \in Goroutines /\ Leads(flight[k])
    BY <1>1, <2>1, <2>2 DEF ReaderInv, FlightInv, TypeOK
  <2> HIDE DEF k
  <2>4. CanStep(flight[k]) /\ flight[k] # x
    BY <1>1, <2>1, <2>3 DEF Leads, CanStep
  <2> QED BY <2>3, <2>4 DEF k
<1>2. ReaderInv => ReadersNeverStuck
  BY <1>1 DEF ReadersNeverStuck
<1> QED BY <1>2, ReaderInvariant, PTL

\* What a reader has left is a number.
LEMMA LeftIsNat ==
    ASSUME ReaderInv, NEW r \in Readers, go[r].at # "idle"
    PROVE  /\ read[r].last - read[r].next \in Nat
           /\ read[r].last \in Nat /\ read[r].next \in Nat
           /\ StepsFrom(go[r].at) \in 1 .. 7
<1>1. /\ read[r].next \in PieceNos /\ read[r].last \in PieceNos
      /\ read[r].next <= read[r].last
  BY DEF ReaderInv, GoInv
<1>2. PieceNos \subseteq Nat
  BY PieceReaderAssumption DEF PieceNos
<1>3. go[r].at \in At
  BY DEF ReaderInv, FlightInv, TypeOK, Goroutines
<1>4. StepsFrom(go[r].at) \in 1 .. 7
  BY <1>3 DEF At, StepsFrom
<1> DEFINE n == read[r].next
           l == read[r].last
<1>5. n \in Nat /\ l \in Nat /\ n <= l
  BY <1>1, <1>2
<1> HIDE DEF n, l
<1>6. l - n \in Nat
  BY <1>5
<1> QED BY <1>4, <1>5, <1>6 DEF n, l

\* It is less further on in the same piece.
LEMMA FurtherOn ==
    ASSUME ReaderInv, NEW r \in Readers, go[r].at # "idle",
           read'[r] = read[r], NEW at \in At, go'[r].at = at
    PROVE  /\ StepsFrom(at) <= StepsFrom(go[r].at) => Left(r)' <= Left(r)
           /\ StepsFrom(at) < StepsFrom(go[r].at) => Left(r)' < Left(r)
<1> DEFINE n == read[r].last - read[r].next
           a == StepsFrom(go[r].at)
           b == StepsFrom(at)
<1>1. n \in Nat /\ a \in Nat /\ b \in Nat
  BY LeftIsNat DEF StepsFrom
<1>2. Left(r) = 7 * n + a /\ Left(r)' = 7 * n + b
  BY DEF Left
<1> HIDE DEF n, a, b
<1>3. /\ b <= a => 7 * n + b <= 7 * n + a
      /\ b < a => 7 * n + b < 7 * n + a
  BY <1>1
<1> QED BY <1>2, <1>3 DEF a, b

\* And with the next piece, or the answer.
LEMMA PieceDone ==
    ASSUME ReaderInv, NEW r \in Readers, go[r].at # "idle", HasPiece(r)
    PROVE  Left(r)' < Left(r)
<1>1. /\ go[r].at \in At /\ r \in Goroutines
      /\ go \in [Goroutines -> [at : At, session : Sessions \cup {None},
                                hash : Hashes \cup {None}]]
      /\ read \in [Readers -> [next : Nat, last : Nat, eof : BOOLEAN]]
  BY DEF ReaderInv, FlightInv, TypeOK, Goroutines
<1> DEFINE n == read[r].next
           l == read[r].last
           a == StepsFrom(go[r].at)
<1>2. n \in Nat /\ l \in Nat /\ l - n \in Nat /\ a \in 1 .. 7
  BY LeftIsNat
<1>3. Left(r) = 7 * (l - n) + a
  BY DEF Left
<1>4. CASE n + 1 > l
  <2>1. go'[r].at = "idle" /\ read'[r].next = 0 /\ read'[r].last = 0
    BY <1>1, <1>4 DEF HasPiece, Rest, Answered
  <2>2. Left(r)' = 7 * (0 - 0) + 0
    BY <2>1 DEF Left, StepsFrom
  <2> HIDE DEF n, l, a
  <2>3. 7 * (0 - 0) + 0 < 7 * (l - n) + a
    BY <1>2
  <2> QED BY <1>3, <2>2, <2>3
<1>5. CASE ~(n + 1 > l)
  <2>1. go'[r].at = "piece" /\ read'[r].next = n + 1 /\ read'[r].last = l
    BY <1>1, <1>5 DEF HasPiece
  <2>2. Left(r)' = 7 * (l - (n + 1)) + 7
    BY <2>1 DEF Left, StepsFrom
  <2> HIDE DEF n, l, a
  <2>3. 7 * (l - (n + 1)) + 7 < 7 * (l - n) + a
    BY <1>2
  <2> QED BY <1>3, <2>2, <2>3
<1> QED BY <1>4, <1>5

\* The reader's own steps.
LEMMA ReaderMovesOn ==
    ASSUME ReaderInv, NEW r \in Readers, InGetPiece(r) \/ InFlight(r)
    PROVE  Left(r)' < Left(r)
<1>1. /\ TypeOK /\ r \in Goroutines /\ r \notin Prefetchers
      /\ go[r].at \in At /\ go[r].at # "idle"
  BY PieceReaderAssumption
     DEF ReaderInv, FlightInv, TypeOK, Goroutines, InGetPiece, InFlight,
         StartPrefetch, GetHits, GetMisses, ReadBackHits, ReadBackMisses,
         Lead, Join, CheckHits, CheckMisses, Cat, Land, Is
<1>2. CASE GetHits(r) \/ ReadBackHits(r)
  <2>1. HasPiece(r)
    BY <1>2 DEF GetHits, ReadBackHits
  <2> QED BY <1>1, <2>1, PieceDone
<1>3. CASE ReadBackMisses(r)
  <2>1. go'[r].at = "idle" /\ read'[r].next = 0 /\ read'[r].last = 0
    BY <1>1, <1>3 DEF ReadBackMisses, TypeOK, Rest, Answered
  <2>2. Left(r)' = 7 * (0 - 0) + 0
    BY <2>1 DEF Left, StepsFrom
  <2> DEFINE k == read[r].last - read[r].next
             a == StepsFrom(go[r].at)
  <2>3. k \in Nat /\ a \in 1 .. 7 /\ Left(r) = 7 * k + a
    BY <1>1, LeftIsNat DEF Left
  <2> HIDE DEF k, a
  <2>4. 7 * (0 - 0) + 0 < 7 * k + a
    BY <2>3
  <2> QED BY <2>2, <2>3, <2>4
<1>4. CASE StartPrefetch(r)
  <2>1. go[r].at = "piece" /\ go'[r].at = "get" /\ read' = read
    BY <1>1, <1>4 DEF StartPrefetch, Is, Goes, TypeOK
  <2> QED BY <1>1, <2>1, FurtherOn DEF StepsFrom, At
<1>5. CASE GetMisses(r)
  <2>1. go[r].at = "get" /\ go'[r].at = "do" /\ read' = read
    BY <1>1, <1>5, GoesFacts DEF GetMisses, Is, At
  <2> QED BY <1>1, <2>1, FurtherOn DEF StepsFrom, At
<1>6. CASE Lead(r) \/ Join(r)
  <2>1. /\ go[r].at = "do" /\ go'[r].at \in {"check", "wait"}
        /\ read' = read
    BY <1>1, <1>6, GoesFacts DEF Lead, Join, Is, At
  <2> QED BY <1>1, <2>1, FurtherOn DEF StepsFrom, At
<1>7. CASE CheckHits(r) \/ CheckMisses(r)
  <2>1. /\ go[r].at = "check" /\ go'[r].at \in {"cat", "land"}
        /\ read' = read
    BY <1>1, <1>7, GoesFacts DEF CheckHits, CheckMisses, Is, At
  <2> QED BY <1>1, <2>1, FurtherOn DEF StepsFrom, At
<1>8. CASE Cat(r)
  <2>1. go[r].at = "cat" /\ go'[r].at = "land" /\ read' = read
    BY <1>1, <1>8, GoesFacts DEF Cat, Is, At
  <2> QED BY <1>1, <2>1, FurtherOn DEF StepsFrom, At
<1>9. CASE Land(r)
  <2>1. go[r].at = "land" /\ go'[r].at = "back" /\ read' = read
    BY <1>1, <1>9, LandFacts DEF Land, Is, Woken
  <2> QED BY <1>1, <2>1, FurtherOn DEF StepsFrom, At
<1> QED BY <1>2, <1>3, <1>4, <1>5, <1>6, <1>7, <1>8, <1>9
        DEF InGetPiece, InFlight

\* The steps of the others.
LEMMA OthersAddNothing ==
    ASSUME ReaderInv, NEW r \in Readers, go[r].at # "idle", [Next]_vars,
           ~InGetPiece(r), ~InFlight(r)
    PROVE  Left(r)' <= Left(r)
<1>1. /\ TypeOK /\ r \in Goroutines /\ r \notin Prefetchers /\ go[r].at \in At
  BY PieceReaderAssumption DEF ReaderInv, FlightInv, TypeOK, Goroutines
<1>2. ASSUME read'[r] = read[r], go'[r] = go[r]
      PROVE  Left(r)' <= Left(r)
  <2>1. StepsFrom(go[r].at) <= StepsFrom(go[r].at)
    BY LeftIsNat
  <2> QED BY <1>1, <1>2, <2>1, FurtherOn
<1>3. ASSUME NEW q \in Readers, NEW s \in Sessions, NEW i \in PieceNos,
             NEW j \in PieceNos, ReadAt(q, s, i, j)
      PROVE  read'[r] = read[r] /\ go'[r] = go[r]
  BY <1>1, <1>3 DEF ReadAt, Is, TypeOK
<1>4. ASSUME NEW q \in Readers, InGetPiece(q)
      PROVE  read'[r] = read[r] /\ go'[r] = go[r]
  <2>1. q # r /\ q \in Goroutines
    BY <1>4 DEF Goroutines
  <2>2. CASE StartPrefetch(q)
    BY <1>1, <2>1, <2>2 DEF StartPrefetch, Goes, TypeOK
  <2>3. CASE GetHits(q) \/ ReadBackHits(q)
    <3>1. HasPiece(q) /\ go[q].at # "idle"
      BY <2>3 DEF GetHits, ReadBackHits, Is
    <3> QED BY <1>1, <2>1, <3>1, HasPieceFacts
  <2>4. CASE GetMisses(q)
    BY <1>1, <2>1, <2>4 DEF GetMisses, Goes, TypeOK
  <2>5. CASE ReadBackMisses(q)
    BY <1>1, <2>1, <2>5 DEF ReadBackMisses, TypeOK
  <2> QED BY <1>4, <2>2, <2>3, <2>4, <2>5 DEF InGetPiece
<1>5. ASSUME NEW x \in Goroutines, InFlight(x) \/ CatFails(x), ~Land(x)
      PROVE  read'[r] = read[r] /\ go'[r] = go[r]
  <2>1. read' = read
    BY <1>5 DEF InFlight, Lead, Join, CheckHits, CheckMisses, Cat, CatFails
  <2>2. CASE InFlight(x)
    <3>1. \E at \in At : Goes(x, at)
      BY <1>5, <2>2 DEF InFlight, Lead, Join, CheckHits, CheckMisses, Cat, At
    <3> QED BY <1>1, <2>1, <2>2, <3>1, GoesFacts
  <2>3. CASE CatFails(x)
    BY <1>1, <2>1, <2>3 DEF CatFails, Goes, TypeOK
  <2> QED BY <1>5, <2>2, <2>3
<1>6. ASSUME NEW x \in Goroutines, Land(x) PROVE Left(r)' <= Left(r)
  <2>1. read' = read /\ x # r
    BY <1>6 DEF Land, InFlight
  <2>2. CASE Woken(x, r)
    <3>1. go[r].at = "wait" /\ go'[r].at = "back"
      BY <1>1, <1>6, <2>1, <2>2, LandFacts DEF Woken
    <3> QED BY <1>1, <2>1, <3>1, FurtherOn DEF StepsFrom, At
  <2>3. CASE ~Woken(x, r)
    BY <1>1, <1>2, <1>6, <2>1, <2>3, LandFacts
  <2> QED BY <2>2, <2>3
<1>7. CASE UNCHANGED vars
  BY <1>2, <1>7 DEF vars
<1> QED BY <1>2, <1>3, <1>4, <1>5, <1>6, <1>7 DEF Next

\* A request costs each piece seven steps of its reader at most: every one of
\* them leaves less to do and nobody else adds to it, whichever calls fail
\* (sftp.go:262-344).
THEOREM ReadsShrink == Spec => ReadShrinks
<1>1. ReaderInv => \A r \in Readers : Left(r) \in Int
  <2> SUFFICES ASSUME ReaderInv, NEW r \in Readers PROVE Left(r) \in Int
    OBVIOUS
  <2>1. read[r].last \in Nat /\ read[r].next \in Nat /\ go[r].at \in At
    BY DEF ReaderInv, FlightInv, TypeOK, Goroutines
  <2>2. StepsFrom(go[r].at) \in Nat
    BY <2>1 DEF StepsFrom
  <2> QED BY <2>1, <2>2 DEF Left
<1>2. ReaderInv /\ (\A r \in Readers : Left(r) \in Int)' /\ [Next]_vars =>
         [\A r \in Readers :
             /\ InGetPiece(r) \/ InFlight(r) => Left(r)' < Left(r)
             /\ go[r].at # "idle" => Left(r)' <= Left(r)]_vars
  <2> SUFFICES ASSUME ReaderInv, \A q \in Readers : Left(q)' \in Int,
                      [Next]_vars, NEW r \in Readers
               PROVE  /\ InGetPiece(r) \/ InFlight(r) => Left(r)' < Left(r)
                      /\ go[r].at # "idle" => Left(r)' <= Left(r)
    OBVIOUS
  <2>1. CASE InGetPiece(r) \/ InFlight(r)
    <3>1. Left(r)' < Left(r) /\ Left(r) \in Int /\ Left(r)' \in Int
      BY <1>1, <2>1, ReaderMovesOn
    <3> QED BY <3>1
  <2>2. CASE ~InGetPiece(r) /\ ~InFlight(r)
    BY <2>2, OthersAddNothing
  <2> QED BY <2>1, <2>2
<1> QED BY <1>1, <1>2, ReaderInvariant, PTL DEF Spec, ReadShrinks
=============================================================================
