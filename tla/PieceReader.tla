---------------------------- MODULE PieceReader -----------------------------
(***************************************************************************)
(* `samogon serve` reading pieces (sftp.go:241-344): the ReadAt calls that *)
(* the SFTP library makes from several goroutines of a session, the        *)
(* prefetch goroutines they start, the singleflight group of each session  *)
(* and the piece cache that all sessions share.  A piece is read whole     *)
(* from S3, where the request may fail.                                    *)
(*                                                                         *)
(* The data of a piece is known by its hash, so the cache is the list of   *)
(* its keys (module LruCache has the rest), and a request is a range of    *)
(* pieces.  Every step is one critical section of the cache or of the      *)
(* singleflight group, or one S3 request.                                  *)
(***************************************************************************)
EXTENDS Lru, FiniteSets

CONSTANTS
    Hashes,
    HashOf,          \* the pieces of the torrent, a sequence of hashes
    Sessions,
    Readers,         \* bound: ReadAt calls at a time, of all sessions
    Prefetchers,     \* bound: prefetch goroutines that have begun to run
    Caps,            \* the values of --lru
    Distance,        \* --prefetch-distance
    MaxSpan,         \* bound: pieces one ReadAt reaches into
    MaxFaults,       \* bound: failing S3 requests
    None

Goroutines == Readers \cup Prefetchers
PieceNos == DOMAIN HashOf

ASSUME PieceReaderAssumption ==
    /\ HashOf \in Seq(Hashes)
    /\ Readers \cap Prefetchers = {}
    /\ None \notin Goroutines
    /\ IsFiniteSet(Hashes)
    /\ Caps \subseteq Int /\ Distance \in Nat
    /\ MaxSpan \in Nat \ {0} /\ MaxFaults \in Nat

VARIABLES
    ll,          \* the keys in the cache, the last used first
    flight,      \* each session's group: who leads the call for a hash
    go,          \* each goroutine: where it is, its session and its hash
    read,        \* each reader: the piece it is at, its last one, its answer
    alive,       \* the daemon runs
    faults,
    cap          \* the --lru of this run of the daemon

vars == <<ll, flight, go, read, alive, faults, cap>>

At == {"idle", "piece", "get", "do", "wait", "check", "cat", "land", "back"}

TypeOK ==
    /\ ll \in Seq(Hashes)
    /\ flight \in [Sessions \X Hashes -> Goroutines \cup {None}]
    /\ go \in [Goroutines ->
                 [at : At, session : Sessions \cup {None},
                  hash : Hashes \cup {None}]]
    /\ read \in [Readers ->
                   [next : Nat, last : Nat, eof : BOOLEAN]]
    /\ alive \in BOOLEAN
    /\ faults \in 0 .. MaxFaults
    /\ cap \in Caps

Rest == [at |-> "idle", session |-> None, hash |-> None]
Answered(eof) == [next |-> 0, last |-> 0, eof |-> eof]
Key(x) == <<go[x].session, go[x].hash>>
Is(x, at) == alive /\ go[x].at = at
Goes(x, at) == go' = [go EXCEPT ![x].at = at]
Cached(x) == go[x].hash \in Elements(ll)
Touch(x) == ll' = MoveToFront(ll, go[x].hash)

-----------------------------------------------------------------------------
(* ReadAt: the walk over the pieces of a request *)

\* A request of session s that reaches from piece i to piece j, inside the
\* file.
ReadAt(r, s, i, j) ==
    /\ Is(r, "idle")
    /\ go' = [go EXCEPT ![r] = [at |-> "piece", session |-> s,
                                hash |-> HashOf[i]]]
    /\ read' = [read EXCEPT ![r] = [next |-> i, last |-> j, eof |-> FALSE]]
    /\ UNCHANGED <<ll, flight, alive, faults, cap>>

\* The reader has the bytes of a piece: on to the next, or the answer.
HasPiece(r) ==
    LET n == read[r].next + 1
    IN IF n > read[r].last
       THEN /\ go' = [go EXCEPT ![r] = Rest]
            /\ read' = [read EXCEPT ![r] = Answered(FALSE)]
       ELSE /\ go' = [go EXCEPT ![r].at = "piece", ![r].hash = HashOf[n]]
            /\ read' = [read EXCEPT ![r].next = n]

\* getPiece starts the prefetch of a piece further on.  With every one of
\* Prefetchers busy the new goroutine is one that has not been scheduled.
StartPrefetch(r) ==
    LET n == read[r].next + Distance
        idle == {p \in Prefetchers : go[p].at = "idle"}
    IN /\ Is(r, "piece")
       /\ IF Distance > 0 /\ n \in PieceNos /\ idle # {}
          THEN \E p \in idle :
                 go' = [go EXCEPT ![r].at = "get",
                                  ![p] = [at |-> "do", hash |-> HashOf[n],
                                          session |-> go[r].session]]
          ELSE Goes(r, "get")
       /\ UNCHANGED <<ll, flight, read, alive, faults, cap>>

\* The first look into the cache.
GetHits(r) ==
    /\ Is(r, "get") /\ Cached(r)
    /\ Touch(r) /\ HasPiece(r)
    /\ UNCHANGED <<flight, alive, faults, cap>>

GetMisses(r) ==
    /\ Is(r, "get") /\ ~Cached(r)
    /\ Goes(r, "do")
    /\ UNCHANGED <<ll, flight, read, alive, faults, cap>>

\* The look after the flight.  Whatever became of it, what counts is whether
\* the piece is in the cache now: if not, data is nil and the walk breaks off.
ReadBackHits(r) ==
    /\ Is(r, "back") /\ Cached(r)
    /\ Touch(r) /\ HasPiece(r)
    /\ UNCHANGED <<flight, alive, faults, cap>>

ReadBackMisses(r) ==
    /\ Is(r, "back") /\ ~Cached(r)
    /\ go' = [go EXCEPT ![r] = Rest]
    /\ read' = [read EXCEPT ![r] = Answered(TRUE)]
    /\ UNCHANGED <<ll, flight, alive, faults, cap>>

-----------------------------------------------------------------------------
(* group.Do and the function it runs, in readers and prefetchers *)

\* Mutant: every caller runs the function itself.
LeadAlways(x) ==
    /\ Is(x, "do")
    /\ flight' = [flight EXCEPT ![Key(x)] = x]
    /\ Goes(x, "check")
    /\ UNCHANGED <<ll, read, alive, faults, cap>>

Lead(x) ==
    /\ Is(x, "do") /\ flight[Key(x)] = None
    /\ flight' = [flight EXCEPT ![Key(x)] = x]
    /\ Goes(x, "check")
    /\ UNCHANGED <<ll, read, alive, faults, cap>>

Join(x) ==
    /\ Is(x, "do") /\ flight[Key(x)] # None
    /\ Goes(x, "wait")
    /\ UNCHANGED <<ll, flight, read, alive, faults, cap>>

CheckHits(x) ==
    /\ Is(x, "check") /\ Cached(x)
    /\ Touch(x) /\ Goes(x, "land")
    /\ UNCHANGED <<flight, read, alive, faults, cap>>

CheckMisses(x) ==
    /\ Is(x, "check") /\ ~Cached(x)
    /\ Goes(x, "cat")
    /\ UNCHANGED <<ll, flight, read, alive, faults, cap>>

\* Mutant: the object is read but not put into the cache.
CatNotPut(x) ==
    /\ Is(x, "cat")
    /\ Goes(x, "land")
    /\ UNCHANGED <<ll, flight, read, alive, faults, cap>>

\* GetObject answers and the piece is put into the cache.
Cat(x) ==
    /\ Is(x, "cat")
    /\ ll' = PutFront(ll, go[x].hash, cap)
    /\ Goes(x, "land")
    /\ UNCHANGED <<flight, read, alive, faults, cap>>

\* A prefetch swallows the exception inside the function (sftp.go:317).  In
\* a reader it leaves group.Do as a panic of another type, in a goroutine of
\* the SFTP library, which nothing recovers.
CatFails(x) ==
    /\ Is(x, "cat")
    /\ faults < MaxFaults /\ faults' = faults + 1
    /\ IF x \in Prefetchers
       THEN Goes(x, "land") /\ UNCHANGED alive
       ELSE alive' = FALSE /\ UNCHANGED go
    /\ UNCHANGED <<ll, flight, read, cap>>

\* Mutant: the leader goes on and the others are not woken.
LandAlone(x) ==
    /\ Is(x, "land")
    /\ flight' = [flight EXCEPT ![Key(x)] = None]
    /\ go' = [go EXCEPT ![x] = IF x \in Readers THEN [@ EXCEPT !.at = "back"]
                               ELSE Rest]
    /\ UNCHANGED <<ll, read, alive, faults, cap>>

\* The call ends: its key is free again and everyone who joined it goes on.
Land(x) ==
    /\ Is(x, "land")
    /\ flight' = [flight EXCEPT ![Key(x)] = None]
    /\ go' = [y \in Goroutines |->
                IF y = x \/ (go[y].at = "wait" /\ Key(y) = Key(x))
                THEN IF y \in Readers
                     THEN [at |-> "back", session |-> go[y].session,
                           hash |-> go[y].hash]
                     ELSE Rest
                ELSE go[y]]
    /\ UNCHANGED <<ll, read, alive, faults, cap>>

-----------------------------------------------------------------------------

Init ==
    /\ ll = <<>>
    /\ flight = [k \in Sessions \X Hashes |-> None]
    /\ go = [x \in Goroutines |-> Rest]
    /\ read = [r \in Readers |-> Answered(FALSE)]
    /\ alive = TRUE
    /\ faults = 0
    /\ cap \in Caps

InGetPiece(r) ==
    \/ StartPrefetch(r)
    \/ GetHits(r) \/ GetMisses(r)
    \/ ReadBackHits(r) \/ ReadBackMisses(r)

InFlight(x) ==
    Lead(x) \/ Join(x) \/ CheckHits(x) \/ CheckMisses(x) \/ Cat(x) \/ Land(x)

Next ==
    \/ \E r \in Readers :
          \/ \E s \in Sessions, i \in PieceNos, j \in PieceNos :
                i <= j /\ j < i + MaxSpan /\ ReadAt(r, s, i, j)
          \/ InGetPiece(r)
    \/ \E x \in Goroutines : InFlight(x) \/ CatFails(x)

Spec == Init /\ [][Next]_vars

\* Goroutines that can run are scheduled, and an S3 request ends: it has a
\* timeout (storage.go:43-53).
Fairness ==
    /\ \A r \in Readers : WF_vars(InGetPiece(r))
    /\ \A x \in Goroutines : WF_vars(InFlight(x))

FairSpec == Spec /\ Fairness

-----------------------------------------------------------------------------

Leads(x) == go[x].at \in {"check", "cat", "land"}

\* sftp.go:307-310: one GetObject per key.  While the daemon runs a session
\* never has two calls for the same hash, the group knows the goroutine that
\* runs it, and nobody waits for a call that is over.
FlightInv ==
    /\ TypeOK
    /\ \A x \in Goroutines : Leads(x) => flight[Key(x)] = x
    /\ \A k \in Sessions \X Hashes :
          flight[k] # None => Leads(flight[k]) /\ Key(flight[k]) = k
    /\ \A x \in Goroutines : go[x].at = "wait" => flight[Key(x)] # None

\* ReadAt answers EOF only at the end of the file: a client that gets it
\* earlier takes a truncated file for a whole one.  sftp.go:306-311 says of a
\* failed prefetch that the foreground read "re-enters the same singleflight
\* slot and surfaces" the error.
EofMeansEnd == \A r \in Readers : ~read[r].eof

\* The cache has room for every piece and no request has failed.
Undisturbed == faults = 0 /\ Cardinality(Hashes) <= cap

\* sftp.go:286-292 has two causes for an EOF inside the file, a request that
\* failed and an eviction: however readers, sessions and prefetches
\* interleave there is no third.
EofNeedsCause == Undisturbed => EofMeansEnd

\* Every ReadAt returns, whoever leads the call that it joined and however
\* that call ends.
ReadsEnd ==
    \A r \in Readers :
        (go[r].at # "idle") ~> (go[r].at = "idle" \/ ~alive)

-----------------------------------------------------------------------------
(* The inductive invariants behind them *)

\* A goroutine at work knows its session and hash, and a reader is at the
\* piece it waits for, inside its request.
GoInv ==
    /\ \A x \in Goroutines : go[x].at # "idle" => Key(x) \in Sessions \X Hashes
    /\ \A p \in Prefetchers : go[p].at \notin {"piece", "get", "back"}
    /\ \A r \in Readers : go[r].at # "idle" =>
          /\ read[r].next \in PieceNos /\ read[r].last \in PieceNos
          /\ read[r].next <= read[r].last
          /\ go[r].hash = HashOf[read[r].next]

ReaderInv == FlightInv /\ GoInv /\ NoRepeats(ll)

\* Undisturbed nothing is evicted, and the hash of a call that is over is in
\* the cache.
KeptInv ==
    /\ ReaderInv
    /\ Undisturbed =>
          /\ \A x \in Goroutines : go[x].at \in {"land", "back"} => Cached(x)
          /\ EofMeansEnd

-----------------------------------------------------------------------------
(* Why reads end: somebody can always go on, and each reader has ever less   *)
(* left to do                                                                *)

\* The guards of InGetPiece and InFlight: of a goroutine at work only one that
\* joined a call cannot go on by itself.
CanStep(x) == alive /\ go[x].at \notin {"idle", "wait"}

\* A reader that waits waits for another goroutine that does not: the group
\* lets nobody wait for himself, for a waiter or for one that is gone.
ReadersNeverStuck ==
    alive => \A x \in Goroutines : go[x].at # "idle" =>
                \/ CanStep(x)
                \/ LET y == flight[Key(x)]
                   IN y \in Goroutines \ {x} /\ CanStep(y) /\ Leads(y)

\* The steps that a piece costs its reader at most, from each place on.
StepsFrom(at) ==
    CASE at = "piece" -> 7 [] at = "get" -> 6 [] at = "do" -> 5
      [] at = "check" -> 4 [] at = "cat" -> 3 [] at \in {"land", "wait"} -> 2
      [] at = "back" -> 1 [] OTHER -> 0

Left(r) == 7 * (read[r].last - read[r].next) + StepsFrom(go[r].at)

\* A reader never does a step of a request again, whatever becomes of its
\* calls, and no other goroutine gives it more to do (sftp.go:262-344).
ReadShrinks ==
    [][\A r \in Readers :
          /\ InGetPiece(r) \/ InFlight(r) => Left(r)' < Left(r)
          /\ go[r].at # "idle" => Left(r)' <= Left(r)]_vars
=============================================================================
