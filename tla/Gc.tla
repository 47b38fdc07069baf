--------------------------------- MODULE Gc ---------------------------------
(***************************************************************************)
(* `samogon gc` (gc.go:55-177) with the listings it works from             *)
(* (storage.go:171-243), beside the jobs and the operator of module        *)
(* Bucket, which it implements.                                            *)
(*                                                                         *)
(* The main goroutine lists the .torrents, hands them to the pmap workers, *)
(* waits for those, and starts the sweep: ListStream pushes the keys of    *)
(* the CAS into one channel while main passes what is not alive on to the  *)
(* delete workers through another.  A page of a listing holds one key, the *)
(* finest grain there is, and the pages come in any order.                 *)
(***************************************************************************)
EXTENDS Naturals, FiniteSets

CONSTANTS
    Torrents, Hashes, PiecesOf, RepackOf, Jobs,     \* as in Bucket
    UpSems,        \* the values of --max-inflight
    ChanCap,       \* keys that ListStream may be ahead
    MaxFaults      \* bound: requests of gc that fail and leave it running

ASSUME GcAssumption ==
    /\ PiecesOf \in [Torrents -> SUBSET Hashes]
    /\ RepackOf \subseteq Torrents \X Torrents
    /\ UpSems \subseteq Nat /\ ChanCap \in Nat /\ MaxFaults \in Nat

VARIABLES
    pieces, markers, job, risky,                    \* as in Bucket
    g,             \* the gc process
    steady,        \* history: .torrents there all the time since gc began
    garbage,       \* history: dead when the sweep began, not uploaded since
    faults

gcVars == <<g, steady, garbage, faults>>
vars == <<pieces, markers, job, risky, g, steady, garbage, faults>>

GcStates ==
    [at : {"idle", "list", "load", "sweep"},
     upSem : UpSems,
     listing : SUBSET Torrents,   \* keys of the prefix not reached yet
     keys : SUBSET Torrents,      \* listed, and not yet with a worker of pmap
     loading : SUBSET Torrents,   \* with a worker of pmap
     loaded : SUBSET Torrents,
     skipped : SUBSET Torrents,
     alive : SUBSET Hashes,       \* the map that the workers of pmap fill
     open : BOOLEAN,              \* ListStream is running
     scan : SUBSET Hashes,        \* keys of the CAS that it has not reached
     pieceCh : SUBSET Hashes,     \* its channel and the key in its hand
     hand : SUBSET Hashes,        \* the key that main is about to send
     stale : SUBSET Hashes,       \* the channel of the delete workers
     deleting : SUBSET Hashes,    \* with a delete worker
     cut : SUBSET {"list", "sweep"}]   \* listings that ended too early

Idle(n) ==
    [at |-> "idle", upSem |-> n, listing |-> {}, keys |-> {}, loading |-> {},
     loaded |-> {}, skipped |-> {}, alive |-> {}, open |-> FALSE, scan |-> {},
     pieceCh |-> {}, hand |-> {}, stale |-> {}, deleting |-> {}, cut |-> {}]

GcTypeOK ==
    /\ g \in GcStates
    /\ faults \in 0 .. MaxFaults

\* What has left the listing to be deleted.
Doomed == (g.pieceCh \ g.alive) \cup g.hand \cup g.stale \cup g.deleting

\* The gc of Bucket that this one is.
gc ==
    IF g.at = "idle" THEN [at |-> "idle"]
    ELSE [at |-> IF g.at = "sweep" THEN "sweep" ELSE "load",
          loaded |-> g.loaded, stale |-> Doomed]

B == INSTANCE Bucket

Faulty == faults < MaxFaults /\ faults' = faults + 1

-----------------------------------------------------------------------------
(* List and pmap: which pieces are alive *)

Start(n) ==
    /\ g.at = "idle"
    /\ g' = [Idle(n) EXCEPT !.at = "list", !.listing = Torrents]
    /\ steady' = markers
    /\ UNCHANGED <<pieces, markers, job, risky, garbage, faults>>

\* The paged listing reaches each key at a moment of its own.
ListKey(t) ==
    /\ g.at = "list" /\ t \in g.listing
    /\ g' = [g EXCEPT !.listing = @ \ {t}, !.keys = @ \cup ({t} \cap markers)]
    /\ UNCHANGED <<pieces, markers, job, risky, steady, garbage, faults>>

\* A page answers "not found": List returns nil, whatever it had.
ListNotFound ==
    /\ g.at = "list" /\ g.listing # {} /\ Faulty
    /\ g' = [g EXCEPT !.listing = {}, !.keys = {}, !.cut = {"list"}]
    /\ UNCHANGED <<pieces, markers, job, risky, steady, garbage>>

Listed ==
    /\ g.at = "list" /\ g.listing = {}
    /\ g' = [g EXCEPT !.at = "load"]
    /\ UNCHANGED <<pieces, markers, job, risky, steady, garbage, faults>>

\* The channel of pmap has no buffer: a key leaves main for an idle worker.
Send(t) ==
    /\ g.at = "load" /\ t \in g.keys
    /\ Cardinality(g.loading) < g.upSem
    /\ g' = [g EXCEPT !.keys = @ \ {t}, !.loading = @ \cup {t}]
    /\ UNCHANGED <<pieces, markers, job, risky, steady, garbage, faults>>

Load(t) ==
    /\ t \in g.loading \cap markers
    /\ g' = [g EXCEPT !.loading = @ \ {t}, !.loaded = @ \cup {t},
                      !.alive = @ \cup PiecesOf[t]]
    /\ UNCHANGED <<pieces, markers, job, risky, steady, garbage, faults>>

\* "gc: skip": the .torrent is gone, or an exception while reading it.
Skip(t) ==
    /\ t \in g.loading
    /\ IF t \in markers THEN Faulty ELSE UNCHANGED faults
    /\ g' = [g EXCEPT !.loading = @ \ {t}, !.skipped = @ \cup {t}]
    /\ UNCHANGED <<pieces, markers, job, risky, steady, garbage>>

\* Mutant: pmap returns when the last key is sent, not when it is processed.
LoadedUnawaited == g.at = "load" /\ g.keys = {}

\* close(jobs) and wg.Wait().
AllLoaded == g.at = "load" /\ g.keys = {} /\ g.loading = {}

Sweep ==
    /\ AllLoaded
    /\ g' = [g EXCEPT !.at = "sweep", !.open = TRUE, !.scan = Hashes]
    /\ B!SweepBegins
    /\ garbage' = pieces \ g.alive
    /\ UNCHANGED <<pieces, markers, steady, faults>>

-----------------------------------------------------------------------------
(* ListStream, main and the delete workers: the sweep *)

Stream(h) ==
    /\ g.open /\ h \in g.scan
    /\ Cardinality(g.pieceCh) < ChanCap
    /\ g' = [g EXCEPT !.scan = @ \ {h}, !.pieceCh = @ \cup ({h} \cap pieces)]
    /\ UNCHANGED <<pieces, markers, job, risky, steady, garbage, faults>>

StreamEnds ==
    /\ g.open /\ g.scan = {}
    /\ g' = [g EXCEPT !.open = FALSE]
    /\ UNCHANGED <<pieces, markers, job, risky, steady, garbage, faults>>

\* A page answers "not found": the channel is closed as if all were listed.
StreamNotFound ==
    /\ g.open /\ g.scan # {} /\ Faulty
    /\ g' = [g EXCEPT !.open = FALSE, !.scan = {}, !.cut = @ \cup {"sweep"}]
    /\ UNCHANGED <<pieces, markers, job, risky, steady, garbage>>

\* Mutant: alive is not consulted.
TakeAny(h) ==
    /\ h \in g.pieceCh /\ g.hand = {}
    /\ g' = [g EXCEPT !.pieceCh = @ \ {h}, !.hand = {h}]
    /\ UNCHANGED <<pieces, markers, job, risky, steady, garbage, faults>>

\* The next key: kept if it is alive.
Take(h) ==
    /\ h \in g.pieceCh /\ g.hand = {}
    /\ g' = [g EXCEPT !.pieceCh = @ \ {h}, !.hand = {h} \ g.alive]
    /\ UNCHANGED <<pieces, markers, job, risky, steady, garbage, faults>>

\* Mutant: a key is dropped when the workers are behind.
QueueOrDrop(h) ==
    /\ h \in g.hand
    /\ g' = [g EXCEPT !.hand = {},
                      !.stale = IF Cardinality(@) < g.upSem
                                THEN @ \cup {h} ELSE @]
    /\ UNCHANGED <<pieces, markers, job, risky, steady, garbage, faults>>

\* With a buffer of none and no worker this blocks for ever.
Queue(h) ==
    /\ h \in g.hand /\ Cardinality(g.stale) < 2 * g.upSem
    /\ g' = [g EXCEPT !.hand = {}, !.stale = @ \cup {h}]
    /\ UNCHANGED <<pieces, markers, job, risky, steady, garbage, faults>>

Receive(h) ==
    /\ h \in g.stale /\ Cardinality(g.deleting) < g.upSem
    /\ g' = [g EXCEPT !.stale = @ \ {h}, !.deleting = @ \cup {h}]
    /\ UNCHANGED <<pieces, markers, job, risky, steady, garbage, faults>>

\* Mutant: a worker keeps its key.
DeleteAgain(h) ==
    /\ h \in g.deleting
    /\ pieces' = pieces \ {h}
    /\ UNCHANGED <<markers, job, risky, gcVars>>

Delete(h) ==
    /\ h \in g.deleting
    /\ pieces' = pieces \ {h}
    /\ g' = [g EXCEPT !.deleting = @ \ {h}]
    /\ UNCHANGED <<markers, job, risky, steady, garbage, faults>>

\* Both channels are closed and drained, and the workers are back.
Swept == g.at = "sweep" /\ ~g.open /\ g.pieceCh = {} /\ Doomed = {}

Done ==
    /\ Swept
    /\ g' = Idle(g.upSem)
    /\ UNCHANGED <<pieces, markers, job, risky, steady, garbage, faults>>

\* Killed, a listing that fails, or a Delete that throws in a goroutine
\* without Try; deletes under way may still land.
Dies ==
    /\ g.at # "idle"
    /\ \E H \in SUBSET g.deleting : pieces' = pieces \ H
    /\ g' = Idle(g.upSem)
    /\ UNCHANGED <<markers, job, risky, steady, garbage, faults>>

-----------------------------------------------------------------------------

\* The jobs and the operator of Bucket.
Others ==
    /\ UNCHANGED <<g, faults>>
    /\ \/ \E j \in Jobs : B!JobStep(j) /\ UNCHANGED steady
       \/ \E t \in Torrents : B!RemoveTorrent(t) /\ steady' = steady \ {t}
    /\ garbage' = garbage \ (pieces' \ pieces)

Progress ==
    \/ Listed \/ Sweep \/ StreamEnds \/ Done
    \/ \E t \in Torrents : ListKey(t) \/ Send(t) \/ Load(t) \/ Skip(t)
    \/ \E h \in Hashes :
          Stream(h) \/ Take(h) \/ Queue(h) \/ Receive(h) \/ Delete(h)

Init ==
    /\ g \in {Idle(n) : n \in UpSems}
    /\ B!Init
    /\ steady = {} /\ garbage = {} /\ faults = 0

Next ==
    \/ \E n \in UpSems : Start(n)
    \/ ListNotFound \/ StreamNotFound \/ Dies
    \/ Progress
    \/ Others

Spec == Init /\ [][Next]_vars

\* The goroutines of a gc that can run are scheduled and their requests end.
FairSpec == Spec /\ WF_vars(Progress)

-----------------------------------------------------------------------------

\* The sweep judges by every .torrent that was there all the time, but for
\* those that gc said it skipped: the workers of pmap are awaited, and only a
\* listing that ended too early (storage.go:227) can lose others.
SweepSeesSteady ==
    g.at = "sweep" /\ "list" \notin g.cut =>
        \A t \in Torrents : t \in steady \ g.skipped => t \in g.loaded

\* gc.go:17-19: what was dead when the sweep began is deleted or still on its
\* way to a delete worker; channels and workers drop nothing.  At the end
\* (Swept) none of it is left, unless ListStream ended too early.
NothingOverlooked ==
    g.at = "sweep" /\ "sweep" \notin g.cut =>
        \A h \in Hashes :
            h \in garbage \cap pieces => h \in g.scan \cup Doomed

\* To jobs and torrents this gc is the gc of Bucket, with all it promises.
ImplementsBucket == B!Spec

\* gc comes to its end whenever it has a worker; with --max-inflight 0 it
\* may not (gc.go:73, gc.go:131).
GcEnds == (g.at # "idle" /\ g.upSem > 0) ~> (g.at = "idle")

-----------------------------------------------------------------------------
(* The inductive invariant behind them *)

\* A key of the CAS is at one place of the sweep only, and main holds one key.
OnePlace ==
    /\ g.pieceCh \cap g.scan = {}
    /\ g.hand \cap (g.scan \cup g.pieceCh) = {}
    /\ g.stale \cap (g.scan \cup g.pieceCh \cup g.hand) = {}
    /\ g.deleting \cap (g.scan \cup g.pieceCh \cup g.hand \cup g.stale) = {}
    /\ \A h, i \in g.hand : h = i

\* What each phase of a run finds empty.
Phases ==
    /\ g.at # "sweep" =>
          /\ ~g.open /\ g.scan = {}
          /\ g.pieceCh \cup g.hand \cup g.stale \cup g.deleting = {}
    /\ g.loading # {} => g.at = "load"
    /\ g.at # "list" => g.listing = {}
    /\ g.at = "sweep" => g.keys = {}

\* alive is what the .torrents read so far name, nothing of it is on its way
\* to the delete workers, and no .torrent falls out between two stages.
StagesInv ==
    /\ GcTypeOK /\ OnePlace /\ Phases
    /\ g.alive = UNION {PiecesOf[t] : t \in g.loaded}
    /\ Doomed \cap g.alive = {}
    /\ g.at = "sweep" => garbage \cap g.alive = {}
    /\ g.at # "idle" /\ "list" \notin g.cut =>
          \A t \in Torrents : t \in steady =>
              t \in UNION {g.listing, g.keys, g.loading, g.loaded, g.skipped}
    /\ NothingOverlooked

\* With it, what was there all the time is there.
GcInv == StagesInv /\ steady \subseteq markers

-----------------------------------------------------------------------------
(* Why gc ends: it can always go on, and has ever less left to do *)

\* The guards of the steps of Progress.
CanGoOn ==
    \/ g.at = "list"                                       \* ListKey, Listed
    \/ g.keys # {} /\ Cardinality(g.loading) < g.upSem     \* Send
    \/ g.loading # {}                                      \* Load, Skip
    \/ AllLoaded                                           \* Sweep
    \/ g.open /\ (g.scan = {} \/ Cardinality(g.pieceCh) < ChanCap)
    \/ g.pieceCh # {} /\ g.hand = {}                       \* Take
    \/ g.hand # {} /\ Cardinality(g.stale) < 2 * g.upSem   \* Queue
    \/ g.stale # {} /\ Cardinality(g.deleting) < g.upSem   \* Receive
    \/ g.deleting # {}                                     \* Delete
    \/ Swept                                               \* Done

\* Main, ListStream and the workers of gc never all wait for each other, over
\* channels however short, when there is a worker (gc.go:73-170).
GcNeverStuck ==
    g.at # "idle" /\ g.upSem > 0 /\ ChanCap > 0 => CanGoOn

\* What is left of a run: the stages that each .torrent and each key of the
\* CAS has before it, and those of gc.
StagesLeft ==
    CASE g.at = "list" -> 5 * Cardinality(Hashes) + 4
      [] g.at = "load" -> 5 * Cardinality(Hashes) + 3
      [] g.at = "sweep" -> IF g.open THEN 2 ELSE 1
      [] OTHER -> 0

Work ==
    StagesLeft + 3 * Cardinality(g.listing) + 2 * Cardinality(g.keys)
      + Cardinality(g.loading)
      + 5 * Cardinality(g.scan) + 4 * Cardinality(g.pieceCh)
      + 3 * Cardinality(g.hand) + 2 * Cardinality(g.stale)
      + Cardinality(g.deleting)

\* No step of a run is taken twice: each leaves less to do, and what jobs,
\* operator and failing requests do leaves no more (gc.go:55-177).
WorkShrinks ==
    [][/\ Progress => Work' < Work
       /\ g.at # "idle" => Work' <= Work]_vars
=============================================================================
