------------------------------- MODULE Repack -------------------------------
(***************************************************************************)
(* `samogon repack` (repack.go:99-351) from its first read to the new      *)
(* .torrent.  The main goroutine reads the source piece by piece, through  *)
(* the cache (Lru), a singleflight group and prefetchers, and cuts it into *)
(* chunks of the new length; a goroutine per chunk uploads it.  One        *)
(* semaphore caps the requests of all of them.  To readers of the bucket   *)
(* this is one more Ingest.                                                *)
(*                                                                         *)
(* A SHA-1 is injective here: a hash is the bytes that it is the hash of.  *)
(***************************************************************************)
EXTENDS Lru, FiniteSets

CONSTANTS
    Content,       \* the bytes of the source torrent
    OldLen,        \* its piece length
    NewLens,       \* the values of --piece-size
    Caps,          \* of --lru
    Distances,     \* of --prefetch-distance
    UpSems,        \* of --max-inflight
    MaxFaults      \* bound: faults in a run

ASSUME RepackAssumption ==
    /\ Content \in Seq(Nat) /\ OldLen \in Nat \ {0}
    /\ NewLens \subseteq Nat \ {0}
    /\ Caps \subseteq Int /\ Distances \subseteq Nat /\ UpSems \subseteq Nat
    /\ MaxFaults \in Nat

VARIABLES
    cas,           \* from the keys of the CAS to their bytes
    published,     \* .torrents that repack wrote: piece length and hashes
    flags,         \* what the command line says
    main,          \* the main goroutine with its pieceStream
    uploads,       \* the goroutines that upload, in the order of their chunks
    spawned,       \* prefetchers that have not run yet: piece numbers
    flight,        \* per hash: the call of the singleflight group, if any
    ll, m,         \* the cache: its list, and from its keys to their bytes
    faults         \* of this run

bucketVars == <<cas, published>>
cacheVars == <<ll, m>>
vars == <<cas, published, flags, main, uploads, spawned, flight, ll, m, faults>>

LeastOf(a, b) == IF a < b THEN a ELSE b

\* What a layout with pieces of n bytes is.
Layout(n) ==
    [i \in 1 .. (Len(Content) + n - 1) \div n |->
        SubSeq(Content, (i - 1) * n + 1, LeastOf(i * n, Len(Content)))]

Source == Layout(OldLen)
SourceHashes == Elements(Source)

NoCall == [by |-> "none", at |-> "none"]

\* The memory of a process.
Fresh(at, n) ==
    /\ main' = [at |-> at, cur |-> 1, pos |-> 0, piece |-> <<>>,
                buf |-> [i \in 1 .. n |-> 0], n |-> 0,
                newPieces |-> <<>>, bytesRead |-> 0]
    /\ uploads' = <<>> /\ spawned' = {}
    /\ flight' = [h \in SourceHashes |-> NoCall]
    /\ ll' = <<>> /\ m' = <<>>

NewLen == Len(main.buf)
Resting == main.at \in {"none", "done", "dead"}
Fault == faults < MaxFaults /\ faults' = faults + 1

\* Mutant: an upload does not give its token back.
TokensKept ==
    Cardinality({h \in SourceHashes : flight[h].at = "cat"})
    + Cardinality({k \in DOMAIN uploads : uploads[k].at # "go"})

\* The places of the semaphore that are taken.
Tokens ==
    Cardinality({h \in SourceHashes : flight[h].at = "cat"})
    + Cardinality({k \in DOMAIN uploads : uploads[k].at \in {"stat", "put"}})

\* What the goroutines upload.
Chunks == [k \in DOMAIN uploads |-> uploads[k].chunk]

\* The bucket after the uploads K of this data.
Written(K, data) ==
    [key \in DOMAIN cas \cup {uploads[k].key : k \in K} |->
        IF \E k \in K : uploads[k].key = key
        THEN data[CHOOSE k \in K : uploads[k].key = key]
        ELSE cas[key]]

\* The memory goes; the uploads under way may land.
ProcessEnds(at) ==
    /\ \E K \in SUBSET {k \in DOMAIN uploads : uploads[k].at = "put"} :
          cas' = Written(K, Chunks)
    /\ Fresh(at, NewLen)

Start(n) ==
    /\ Resting
    /\ Fresh("read", n)
    /\ faults' = 0
    /\ UNCHANGED <<bucketVars, flags>>

-----------------------------------------------------------------------------
(* The cache *)

CacheGet(h) == ll' = MoveToFront(ll, h) /\ UNCHANGED m

CachePut(h, data) ==
    /\ ll' = PutFront(ll, h, flags.cap)
    /\ m' = [k \in Elements(ll') |-> IF k = h THEN data ELSE m[k]]

-----------------------------------------------------------------------------
(* main: pieceStream.Read, as io.ReadFull calls it *)

Wanted == Source[main.cur]

\* fetch: the prefetcher starts, whenever it runs.
Fetch ==
    /\ main.at = "read" /\ main.n < NewLen
    /\ main.cur <= Len(Source) /\ main.piece = <<>>
    /\ LET ahead == main.cur + flags.distance
       IN spawned' = IF flags.distance > 0 /\ ahead <= Len(Source)
                     THEN spawned \cup {ahead} ELSE spawned
    /\ main' = [main EXCEPT !.at = "get"]
    /\ UNCHANGED <<bucketVars, flags, uploads, flight, cacheVars, faults>>

\* Before Do and again after it.
Get ==
    /\ main.at \in {"get", "reread"}
    /\ \/ /\ Wanted \in Elements(ll)
          /\ main' = [main EXCEPT !.at = "read", !.piece = m[Wanted], !.pos = 0]
          /\ CacheGet(Wanted)
       \/ /\ Wanted \notin Elements(ll) /\ main.at = "get"
          /\ main' = [main EXCEPT !.at = "do"]
          /\ UNCHANGED cacheVars
    /\ UNCHANGED <<bucketVars, flags, uploads, spawned, flight, faults>>

\* "missing from cache after fetch": the end of the process.
Missing ==
    /\ main.at = "reread" /\ Wanted \notin Elements(ll)
    /\ ProcessEnds("dead")
    /\ UNCHANGED <<published, flags, faults>>

\* A call of Do(h): the first caller runs the function, others wait for it.
Called(h, who) ==
    IF flight[h] = NoCall
    THEN [flight EXCEPT ![h] = [by |-> who, at |-> "check"]] ELSE flight

Do ==
    /\ main.at = "do"
    /\ flight' = Called(Wanted, "main")
    /\ main' = [main EXCEPT !.at = "wait"]
    /\ UNCHANGED <<bucketVars, flags, uploads, spawned, cacheVars, faults>>

\* The buffer once c bytes of the piece, from there on, are copied into it.
Filled(from, c) ==
    [i \in DOMAIN main.buf |-> IF i \in main.n + 1 .. main.n + c
                               THEN main.piece[from + i - main.n]
                               ELSE main.buf[i]]

\* Mutant: a piece is always copied from its start.
CopyFromStart ==
    LET c == LeastOf(NewLen - main.n, Len(main.piece))
    IN /\ main.at = "read" /\ main.n < NewLen /\ main.piece # <<>>
       /\ main' = [main EXCEPT !.buf = Filled(0, c), !.n = @ + c,
                               !.cur = @ + 1, !.piece = <<>>]
       /\ UNCHANGED <<bucketVars, flags, uploads, spawned, flight, cacheVars,
                      faults>>

Copy ==
    LET c == LeastOf(NewLen - main.n, Len(main.piece) - main.pos)
        over == main.pos + c >= Len(main.piece)
    IN /\ main.at = "read" /\ main.n < NewLen /\ main.piece # <<>>
       /\ main' = [main EXCEPT !.buf = Filled(main.pos, c),
                               !.n = @ + c, !.pos = @ + c,
                               !.cur = IF over THEN @ + 1 ELSE @,
                               !.piece = IF over THEN <<>> ELSE @]
       /\ UNCHANGED <<bucketVars, flags, uploads, spawned, flight, cacheVars,
                      faults>>

AtEnd == main.cur > Len(Source) /\ main.piece = <<>>

\* ReadFull returns a full buffer, or what is left at the end; the chunk is
\* copied for the goroutine that uploads it.
Cut ==
    LET chunk == SubSeq(main.buf, 1, main.n)
    IN /\ main.at = "read" /\ main.n > 0 /\ (main.n = NewLen \/ AtEnd)
       /\ uploads' = Append(uploads, [key |-> chunk, chunk |-> chunk,
                                      at |-> "go"])
       /\ main' = [main EXCEPT !.newPieces = Append(@, chunk),
                               !.bytesRead = @ + main.n, !.n = 0,
                               !.at = IF main.n < NewLen THEN "drain" ELSE @]
       /\ UNCHANGED <<bucketVars, flags, spawned, flight, cacheVars, faults>>

EndOfStream ==
    /\ main.at = "read" /\ main.n = 0 /\ AtEnd
    /\ main' = [main EXCEPT !.at = "drain"]
    /\ UNCHANGED <<bucketVars, flags, uploads, spawned, flight, cacheVars,
                   faults>>

-----------------------------------------------------------------------------
(* The singleflight calls and the prefetchers *)

\* A prefetcher that finds a call under way only waits for it.
Prefetch(i) ==
    LET h == Source[i]
    IN /\ i \in spawned /\ ~Resting
       /\ spawned' = spawned \ {i}
       /\ flight' = Called(h, "prefetch")
       /\ UNCHANGED <<bucketVars, flags, main, uploads, cacheVars, faults>>

InCall(h, at) == ~Resting /\ flight[h].at = at

\* A call ends for everyone who waits for it.
CallEnds(h) ==
    /\ flight' = [flight EXCEPT ![h] = NoCall]
    /\ main' = IF main.at = "wait" /\ Wanted = h
               THEN [main EXCEPT !.at = "reread"] ELSE main

Check(h) ==
    /\ InCall(h, "check")
    /\ IF h \in Elements(ll)
       THEN CallEnds(h) /\ CacheGet(h)
       ELSE /\ flight' = [flight EXCEPT ![h].at = "token"]
            /\ UNCHANGED <<main, cacheVars>>
    /\ UNCHANGED <<bucketVars, flags, uploads, spawned, faults>>

CatToken(h) ==
    /\ InCall(h, "token") /\ Tokens < flags.upSem
    /\ flight' = [flight EXCEPT ![h].at = "cat"]
    /\ UNCHANGED <<bucketVars, flags, main, uploads, spawned, cacheVars,
                   faults>>

\* Mutant: a prefetcher reads without a place to leave the bytes.
CatForMain(h) ==
    /\ InCall(h, "cat")
    /\ IF flight[h].by = "main" THEN CachePut(h, cas[h])
                                ELSE UNCHANGED cacheVars
    /\ CallEnds(h)
    /\ UNCHANGED <<bucketVars, flags, uploads, spawned, faults>>

Cat(h) ==
    /\ InCall(h, "cat") /\ h \in DOMAIN cas
    /\ CachePut(h, cas[h])
    /\ CallEnds(h)
    /\ UNCHANGED <<bucketVars, flags, uploads, spawned, faults>>

\* Try swallows the exception in a prefetcher, also for a main that waits.
CatFails(h) ==
    /\ InCall(h, "cat") /\ flight[h].by = "prefetch" /\ Fault
    /\ CallEnds(h)
    /\ UNCHANGED <<bucketVars, flags, uploads, spawned, cacheVars>>

-----------------------------------------------------------------------------
(* The uploads *)

UploadAt(k, from, to) ==
    /\ ~Resting /\ uploads[k].at = from
    /\ uploads' = [uploads EXCEPT ![k].at = to]
    /\ UNCHANGED <<published, flags, main, spawned, flight, cacheVars>>

UploadToken(k) ==
    /\ Tokens < flags.upSem
    /\ UploadAt(k, "go", "stat")
    /\ UNCHANGED <<cas, faults>>

\* An error of Stat reads as "not there".
Stat(k) ==
    /\ \/ /\ uploads[k].key \in DOMAIN cas /\ UploadAt(k, "stat", "done")
          /\ UNCHANGED faults
       \/ /\ uploads[k].key \notin DOMAIN cas /\ UploadAt(k, "stat", "put")
          /\ UNCHANGED faults
       \/ /\ uploads[k].key \in DOMAIN cas /\ UploadAt(k, "stat", "put")
          /\ Fault
    /\ UNCHANGED cas

\* Mutant: the chunk is not copied out of the buffer that ReadFull fills next.
PutBuffer(k) ==
    LET now == [j \in DOMAIN uploads |->
                   SubSeq(main.buf, 1, Len(uploads[j].chunk))]
    IN /\ UploadAt(k, "put", "done")
       /\ cas' = Written({k}, now)
       /\ UNCHANGED faults

Put(k) ==
    /\ UploadAt(k, "put", "done")
    /\ cas' = Written({k}, Chunks)
    /\ UNCHANGED faults

-----------------------------------------------------------------------------
(* The end *)

\* Mutant: putWg.Wait() is forgotten.
Undrained == main.at = "drain"

Drained ==
    /\ main.at = "drain"
    /\ \A k \in DOMAIN uploads : uploads[k].at = "done"

\* The byte count is checked, and the .torrent written unless the layout is
\* the one it had.
Publish ==
    /\ Drained
    /\ IF main.bytesRead # Len(Content)
       THEN ProcessEnds("dead") /\ UNCHANGED published
       ELSE /\ ProcessEnds("done")
            /\ published' =
                  IF NewLen = OldLen /\ main.newPieces = Source THEN published
                  ELSE published \cup {[len |-> NewLen,
                                        pieces |-> main.newPieces]}
    /\ UNCHANGED <<flags, faults>>

\* Killed, or a request throws in main, or in an upload, where nothing
\* catches it.
Dies ==
    /\ ~Resting /\ Fault
    /\ ProcessEnds("dead")
    /\ UNCHANGED <<published, flags>>

-----------------------------------------------------------------------------

Progress ==
    \/ Fetch \/ Get \/ Missing \/ Do \/ Copy \/ Cut \/ EndOfStream
    \/ \E i \in 1 .. Len(Source) : Prefetch(i)
    \/ \E h \in SourceHashes : Check(h) \/ CatToken(h) \/ Cat(h)
    \/ \E k \in DOMAIN uploads : UploadToken(k) \/ Stat(k) \/ Put(k)
    \/ Publish

Init ==
    /\ cas = [h \in SourceHashes |-> h] /\ published = {}
    /\ flags \in [cap : Caps, distance : Distances, upSem : UpSems]
    /\ main = [at |-> "none"]
    /\ uploads = <<>> /\ spawned = {}
    /\ flight = [h \in SourceHashes |-> NoCall]
    /\ ll = <<>> /\ m = <<>> /\ faults = 0

Next ==
    \/ \E n \in NewLens : Start(n)
    \/ Progress
    \/ \E h \in SourceHashes : CatFails(h)
    \/ Dies

Spec == Init /\ [][Next]_vars

\* The goroutines of a repack that can run are scheduled, and requests end.
FairSpec == Spec /\ WF_vars(Progress)

-----------------------------------------------------------------------------

\* To the readers of the bucket: a .torrent appears once all it names is there.
Ingests(n) ==
    INSTANCE Ingest WITH Hashes <- Elements(Layout(n)),
                         stored <- Elements(Layout(n)) \cap DOMAIN cas,
                         committed <- \E t \in published : t.len = n

\* repack.go:200-203 "we need every new piece committed to S3 before publishing
\* the metainfo that points at them": however uploads, Stats that err and
\* deaths interleave, each layout is ingested as fetch does it.
ImplementsIngest ==
    /\ \A n \in NewLens : Ingests(n)!Init
    /\ [][\A n \in NewLens : [Ingests(n)!Next]_(Ingests(n)!ingestVars)]_vars

\* What this process is to the others that use the bucket: torrents are named
\* by their piece lengths here.
JobState ==
    IF Resting THEN [at |-> "idle"]
    ELSE [at |-> "repack", source |-> OldLen, torrent |-> NewLen,
          read |-> {Source[i] : i \in 1 .. main.cur - 1}
                     \cup IF main.piece = <<>> THEN {} ELSE {Wanted},
          have |-> {uploads[k].key :
                       k \in {k \in DOMAIN uploads : uploads[k].at = "done"}},
          beside |-> FALSE]

Shared == INSTANCE Bucket WITH
    Torrents <- NewLens \cup {OldLen},
    Hashes <- UNION {Elements(Layout(n)) : n \in NewLens \cup {OldLen}},
    PiecesOf <- [n \in NewLens \cup {OldLen} |-> Elements(Layout(n))],
    RepackOf <- {OldLen} \X NewLens,
    Jobs <- {"repack"},
    pieces <- DOMAIN cas,
    markers <- {OldLen} \cup {t.len : t \in published},
    job <- [j \in {"repack"} |-> JobState],
    gc <- [at |-> "idle"],
    risky <- {}

\* A repack is a repack job of Bucket: it commits when it has read all of the
\* source and has each new piece stored, and a death costs no more there.
ImplementsJob == [][Shared!Next]_(Shared!vars)

\* What is stored under a key is what the key is the hash of, with the next
\* chunk already being read into the same buffer (repack.go:162).
KeysAddressBytes == \A key \in DOMAIN cas : cas[key] = key

\* A new .torrent is the same bytes in another layout, also where a chunk
\* spans several source pieces or is the short last one; and the stream is
\* at each moment the bytes up to where it stands.
SameBytes ==
    /\ \A t \in published : t.pieces = Layout(t.len)
    /\ main.at \notin {"none", "dead"} =>
          /\ \A i \in 1 .. main.n :
                main.buf[i] = Content[main.bytesRead + i]
          /\ \A i \in DOMAIN main.newPieces :
                main.newPieces[i] = Layout(NewLen)[i]

\* repack gives up only for a fault of its run, or when the cache is smaller
\* than the set of its pieces (repack.go:337); a prefetcher that is late,
\* early or beside main is none of that.
DiesForACause ==
    main.at = "dead" =>
        faults > 0 \/ flags.cap < Cardinality(SourceHashes)

\* With a semaphore of one at least repack comes to an end: the callers of a
\* call hold no token while they wait, and a failed request returns its own.
RepackEnds == (~Resting /\ flags.upSem > 0) ~> Resting

-----------------------------------------------------------------------------
(* The inductive invariant behind them *)

Mains ==
    [at : {"read", "get", "do", "wait", "reread", "drain", "done", "dead"},
     cur : Nat, pos : Nat, piece : Seq(Nat), buf : Seq(Nat), n : Nat,
     newPieces : Seq(Seq(Nat)), bytesRead : Nat]

Calls == [by : {"main", "prefetch"}, at : {"check", "token", "cat"}]

Uploads == [key : Seq(Nat), chunk : Seq(Nat),
            at : {"go", "stat", "put", "done"}]

TypeOK ==
    /\ flags \in [cap : Caps, distance : Distances, upSem : UpSems]
    /\ main \in Mains \cup {[at |-> "none"]}
    /\ uploads \in Seq(Uploads)
    /\ spawned \subseteq 1 .. Len(Source)
    /\ flight \in [SourceHashes -> Calls \cup {NoCall}]
    /\ faults \in 0 .. MaxFaults

\* The CAS keeps what is there, and what is there is right.
CasInv == KeysAddressBytes /\ SourceHashes \subseteq DOMAIN cas

CacheInv ==
    /\ ll \in Seq(SourceHashes) /\ NoRepeats(ll)
    /\ DOMAIN m = Elements(ll) /\ \A h \in Elements(ll) : m[h] = h

\* The bytes that the stream has handed out are those up to where it stands.
StreamInv ==
    /\ NewLen \in NewLens /\ main.n <= NewLen
    /\ main.cur \in 1 .. Len(Source) + 1
    /\ IF main.piece = <<>>
       THEN main.bytesRead + main.n
              = LeastOf((main.cur - 1) * OldLen, Len(Content))
       ELSE /\ main.cur <= Len(Source) /\ main.piece = Wanted
            /\ main.pos < Len(Wanted)
            /\ main.bytesRead + main.n = (main.cur - 1) * OldLen + main.pos
    /\ main.at \in {"get", "do", "wait", "reread"} =>
          main.piece = <<>> /\ main.cur <= Len(Source)
    /\ \A i \in 1 .. main.n : main.buf[i] = Content[main.bytesRead + i]

\* The chunks are full ones until the stream ends, and each has its upload.
ChunksInv ==
    /\ IF main.at = "drain"
       THEN /\ AtEnd /\ main.bytesRead = Len(Content)
            /\ Len(main.newPieces) = Len(Layout(NewLen))
       ELSE main.bytesRead = Len(main.newPieces) * NewLen
    /\ Len(main.newPieces) <= Len(Layout(NewLen))
    /\ \A i \in DOMAIN main.newPieces :
          main.newPieces[i] = Layout(NewLen)[i]
    /\ Len(uploads) = Len(main.newPieces)
    /\ \A k \in DOMAIN uploads :
          /\ uploads[k].key = main.newPieces[k]
          /\ uploads[k].chunk = main.newPieces[k]

UploadsInv ==
    \A k \in DOMAIN uploads :
        uploads[k].at = "done" => uploads[k].key \in DOMAIN cas

PublishedInv ==
    \A t \in published :
        /\ t.len \in NewLens /\ t.pieces = Layout(t.len)
        /\ Elements(Layout(t.len)) \subseteq DOMAIN cas

\* With room for every piece and no fault, a piece that was waited for is
\* there, and nothing makes the process give up.
CauseInv ==
    faults = 0 /\ Cardinality(SourceHashes) <= flags.cap =>
        /\ main.at # "dead"
        /\ main.at = "reread" => Wanted \in Elements(ll)

RepackInv ==
    /\ TypeOK /\ CasInv /\ CacheInv /\ UploadsInv /\ PublishedInv /\ CauseInv
    /\ main.at # "none" => StreamInv /\ ChunksInv
    /\ main.at = "none" => uploads = <<>>

-----------------------------------------------------------------------------
(* Why repack ends: it can always go on                                      *)

\* main waits only for a call that somebody runs.
CallAwaited == main.at = "wait" => flight[Wanted] # NoCall

\* The guards of the steps of Progress.
MainCanGoOn ==
    \/ main.at \in {"get", "do", "reread"}          \* Get, Do, Missing
    \/ /\ main.at = "read"
       /\ \/ main.n < NewLen /\ (main.piece # <<>> \/ main.cur <= Len(Source))
          \/ main.n > 0 /\ (main.n = NewLen \/ AtEnd)
          \/ main.n = 0 /\ AtEnd
    \/ Drained                                      \* Publish

CallCanGoOn(h) ==
    \/ flight[h].at = "check"
    \/ flight[h].at = "token" /\ Tokens < flags.upSem
    \/ flight[h].at = "cat" /\ h \in DOMAIN cas

UploadCanGoOn(k) ==
    \/ uploads[k].at = "go" /\ Tokens < flags.upSem
    \/ uploads[k].at \in {"stat", "put"}

\* main, the calls and the uploads never all wait, main for a call or for the
\* uploads, they for a token: who holds a token can go on and give it back.
RepackNeverStuck ==
    ~Resting /\ flags.upSem > 0 =>
        \/ MainCanGoOn \/ spawned # {}
        \/ \E h \in SourceHashes : CallCanGoOn(h)
        \/ \E k \in DOMAIN uploads : UploadCanGoOn(k)

(* And it comes nearer to its end with every step                            *)

CallsAt(ats) == Cardinality({h \in SourceHashes : flight[h].at \in ats})
UploadsAt(ats) == Cardinality({k \in DOMAIN uploads : uploads[k].at \in ats})

\* The steps of a call, and of an upload, that are left.
CallsLeft ==
    CallsAt({"check"}) + CallsAt({"check", "token"})
      + CallsAt({"check", "token", "cat"})
UploadsLeft ==
    UploadsAt({"go"}) + UploadsAt({"go", "stat"})
      + UploadsAt({"go", "stat", "put"})

\* What main has to do before the next byte, the prefetcher and the call that
\* it starts on the way included.
StageLeft ==
    CASE main.at = "read" -> IF main.piece = <<>> THEN 13 ELSE 1
      [] main.at = "get" -> 8
      [] main.at = "do" -> 7
      [] main.at = "wait" -> 3
      [] main.at = "reread" -> 2
      [] main.at = "drain" -> 1

BytesLeft == Len(Content) - (main.bytesRead + main.n)

\* A buffer that is not empty is one upload more.
StreamLeft == 17 * BytesLeft + StageLeft + (IF main.n > 0 THEN 4 ELSE 0)

RunLeft ==
    IF Resting THEN 0
    ELSE StreamLeft + 4 * Cardinality(spawned) + CallsLeft + UploadsLeft

\* Whatever step a run takes, less is left of it afterwards: no hit or miss of
\* the cache, late prefetcher or failing request makes it begin again.
RunShrinks == [][(\E n \in NewLens : Start(n)) \/ RunLeft' < RunLeft]_vars
=============================================================================
