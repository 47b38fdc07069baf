------------------------------- MODULE Bucket -------------------------------
(***************************************************************************)
(* The shared bucket and the commands that change it: any number of        *)
(* `samogon fetch` and `samogon repack` jobs, `samogon gc`, and the        *)
(* operator who deletes a .torrent by hand.  The processes share nothing   *)
(* but the bucket, and S3 offers neither locks nor conditional writes to   *)
(* them: an action is one request, or one request and the local            *)
(* computation around it.                                                  *)
(*                                                                         *)
(* A job is seen from the bucket: what it uploads and when it commits      *)
(* (modules Fetch and Repack have the rest).  gc is seen the same way: it  *)
(* reads .torrents, then deletes pieces that none of those names, in any   *)
(* order and number; module Gc implements it.                              *)
(*                                                                         *)
(* Nothing in the code keeps gc and jobs apart, and a commit beside a      *)
(* sweep may go wrong (run bucket_gc_overlap).  risky and beside record    *)
(* where that can be, so that everything else can be shown to be safe.     *)
(***************************************************************************)
EXTENDS FiniteSets

CONSTANTS
    Torrents,      \* infohashes
    Hashes,        \* piece hashes
    PiecesOf,      \* PiecesOf[t]: the hashes that t's .torrent names
    RepackOf,      \* pairs <<source, result>>: same bytes, asked piece size
    Jobs           \* fetch and repack processes, over the whole cluster

ASSUME BucketAssumption ==
    /\ PiecesOf \in [Torrents -> SUBSET Hashes]
    /\ RepackOf \subseteq Torrents \X Torrents

VARIABLES
    pieces,        \* objects under <root>/pieces/
    markers,       \* objects under <root>/torrents/
    job,           \* what each job is doing
    gc,            \* the state of the gc process
    risky          \* history: markers that a sweep may have left incomplete

vars == <<pieces, markers, job, gc, risky>>

IdleJob == [at |-> "idle"]
Fetching ==
    [at : {"list", "fetch"}, torrent : Torrents, have : SUBSET Hashes,
     beside : BOOLEAN]             \* history: a sweep has run beside the job
Repacking ==
    [at : {"repack"}, source : Torrents, torrent : Torrents,
     read : SUBSET Hashes, have : SUBSET Hashes, beside : BOOLEAN]

IdleGc == [at |-> "idle"]
RunningGc ==
    [at : {"load", "sweep"},
     loaded : SUBSET Torrents,    \* .torrents read
     stale : SUBSET Hashes]       \* listed, found dead and not deleted yet

TypeOK ==
    /\ pieces \in SUBSET Hashes
    /\ markers \in SUBSET Torrents
    /\ job \in [Jobs -> Fetching \cup Repacking \cup {IdleJob}]
    /\ gc \in RunningGc \cup {IdleGc}
    /\ risky \in SUBSET Torrents

Init ==
    /\ pieces \in SUBSET Hashes /\ markers = {}
    /\ job = [j \in Jobs |-> IdleJob]
    /\ gc = IdleGc
    /\ risky = {}

Active(j) == job[j] # IdleJob
Sweeping == gc.at = "sweep"

-----------------------------------------------------------------------------
(* samogon fetch *)

\* The commit marker is not there, or its HEAD request failed.
FetchStart(j, t) ==
    /\ ~Active(j)
    /\ job' = [job EXCEPT ![j] = [at |-> "list", torrent |-> t, have |-> {},
                                  beside |-> Sweeping]]
    /\ UNCHANGED <<pieces, markers, gc, risky>>

\* The listing of the CAS, empty if it fails.  Completion() believes it for
\* the rest of the run.
FetchList(j) ==
    /\ job[j].at = "list"
    /\ \E known \in {pieces, {}} :
          job' = [job EXCEPT ![j].at = "fetch",
                             ![j].have = known \cap PiecesOf[job[j].torrent]]
    /\ UNCHANGED <<pieces, markers, gc, risky>>

\* What the job may have on the wire: a fetch any piece that it does not
\* believe to be there, a repack the same once it has source bytes to cut.
Uploadable(j) ==
    IF job[j].at = "fetch" \/ (job[j].at = "repack" /\ job[j].read # {})
    THEN PiecesOf[job[j].torrent] \ job[j].have
    ELSE {}

\* MarkComplete of a piece that Completion() did not know, or a new piece cut
\* from source bytes read so far, uploaded unless Stat finds it.  The bucket
\* has it before the job knows, and the job never does if the request fails.
PutPiece(j, h) ==
    /\ h \in Uploadable(j)
    /\ pieces' = pieces \cup {h}
    /\ \/ job' = [job EXCEPT ![j].have = @ \cup {h}]
       \/ UNCHANGED job
    /\ UNCHANGED <<markers, gc, risky>>

\* Mutant: one piece is taken for all.
HasSome(j) == PiecesOf[job[j].torrent] \cap job[j].have # {}

\* The job believes that every piece of the result is in the CAS.
HasAll(j) == PiecesOf[job[j].torrent] \subseteq job[j].have

\* The commit marker is written and the job ends.
Marks(j) ==
    LET t == job[j].torrent
    IN /\ markers' = markers \cup {t}
       /\ risky' = IF job[j].beside THEN risky \cup {t} ELSE risky \ {t}

FetchCommit(j) ==
    /\ job[j].at = "fetch" /\ HasAll(j)
    /\ Marks(j)
    /\ job' = [job EXCEPT ![j] = IdleJob]
    /\ UNCHANGED <<pieces, gc>>

-----------------------------------------------------------------------------
(* samogon repack *)

RepackStart(j, s, t) ==
    /\ ~Active(j)
    /\ <<s, t>> \in RepackOf /\ s \in markers
    /\ job' = [job EXCEPT ![j] = [at |-> "repack", source |-> s, torrent |-> t,
                                  read |-> {}, have |-> {},
                                  beside |-> Sweeping]]
    /\ UNCHANGED <<pieces, markers, gc, risky>>

\* A source piece is read into memory; if it is gone, the process ends.
RepackRead(j, h) ==
    /\ job[j].at = "repack"
    /\ h \in PiecesOf[job[j].source] \ job[j].read
    /\ \/ h \in pieces /\ job' = [job EXCEPT ![j].read = @ \cup {h}]
       \/ h \notin pieces /\ job' = [job EXCEPT ![j] = IdleJob]
    /\ UNCHANGED <<pieces, markers, gc, risky>>

\* putWg.Wait(), the byte count, and the new .torrent, unless the layout is
\* the old one.
RepackCommit(j) ==
    /\ job[j].at = "repack" /\ HasAll(j)
    /\ job[j].read = PiecesOf[job[j].source]
    /\ IF job[j].torrent = job[j].source
       THEN UNCHANGED <<markers, risky>>
       ELSE Marks(j)
    /\ job' = [job EXCEPT ![j] = IdleJob]
    /\ UNCHANGED <<pieces, gc>>

\* A job is killed or throws; uploads under way may still land.
JobDies(j) ==
    /\ Active(j)
    /\ job' = [job EXCEPT ![j] = IdleJob]
    /\ \E H \in SUBSET Uploadable(j) : pieces' = pieces \cup H
    /\ UNCHANGED <<markers, gc, risky>>

\* The operator deletes a .torrent so that gc may reclaim its pieces.
RemoveTorrent(t) ==
    /\ t \in markers
    /\ markers' = markers \ {t}
    /\ risky' = risky \ {t}
    /\ UNCHANGED <<pieces, job, gc>>

-----------------------------------------------------------------------------
(* samogon gc *)

Alive == UNION {PiecesOf[t] : t \in gc.loaded}

GcStart ==
    /\ gc = IdleGc
    /\ gc' = [at |-> "load", loaded |-> {}, stale |-> {}]
    /\ UNCHANGED <<pieces, markers, job, risky>>

\* A .torrent is read; one that was not listed, or not readable, is not.
GcLoad(t) ==
    /\ gc.at = "load" /\ t \in markers
    /\ gc' = [gc EXCEPT !.loaded = @ \cup {t}]
    /\ UNCHANGED <<pieces, markers, job, risky>>

\* What a sweep that begins means to the others: it may harm the markers that
\* gc has not read, and what the running jobs rely on.
SweepBegins ==
    /\ risky' = risky \cup (markers \ gc.loaded)
    /\ job' = [j \in Jobs |-> IF Active(j) THEN [job[j] EXCEPT !.beside = TRUE]
                              ELSE job[j]]

GcSweep ==
    /\ gc.at = "load"
    /\ gc' = [gc EXCEPT !.at = "sweep"]
    /\ SweepBegins
    /\ UNCHANGED <<pieces, markers>>

\* Mutant: alive is not consulted.
GcFindAny(h) ==
    /\ Sweeping /\ h \in pieces
    /\ gc' = [gc EXCEPT !.stale = @ \cup {h}]
    /\ UNCHANGED <<pieces, markers, job, risky>>

GcFind(h) ==
    /\ Sweeping /\ h \in pieces \ Alive
    /\ gc' = [gc EXCEPT !.stale = @ \cup {h}]
    /\ UNCHANGED <<pieces, markers, job, risky>>

GcDelete(h) ==
    /\ Sweeping /\ h \in gc.stale
    /\ pieces' = pieces \ {h}
    /\ gc' = [gc EXCEPT !.stale = @ \ {h}]
    /\ UNCHANGED <<markers, job, risky>>

\* The end of the sweep, a kill, or an exception that nothing catches;
\* deletes under way may still land.
GcEnds ==
    /\ gc # IdleGc
    /\ \E H \in SUBSET gc.stale : pieces' = pieces \ H
    /\ gc' = IdleGc
    /\ UNCHANGED <<markers, job, risky>>

-----------------------------------------------------------------------------
(* The specification *)

FetchStep(j) ==
    (\E t \in Torrents : FetchStart(j, t)) \/ FetchList(j) \/ FetchCommit(j)

RepackStep(j) ==
    \/ \E s, t \in Torrents : RepackStart(j, s, t)
    \/ \E h \in Hashes : RepackRead(j, h)
    \/ RepackCommit(j)

JobStep(j) ==
    \/ FetchStep(j) \/ RepackStep(j)
    \/ \E h \in Hashes : PutPiece(j, h)
    \/ JobDies(j)

GcStep ==
    \/ GcStart \/ GcSweep \/ GcEnds
    \/ \E t \in Torrents : GcLoad(t)
    \/ \E h \in Hashes : GcFind(h) \/ GcDelete(h)

Next ==
    \/ \E j \in Jobs : JobStep(j)
    \/ \E t \in Torrents : RemoveTorrent(t)
    \/ GcStep

Spec == Init /\ [][Next]_vars

-----------------------------------------------------------------------------
(* What the bucket promises *)

\* README.md:98 and fetch.go:365-367: a .torrent under torrents/ is a commit
\* marker, so each piece it names is in the CAS, whatever else is running.
CommittedComplete == \A t \in markers : PiecesOf[t] \subseteq pieces

\* The same of every marker but those that a job wrote after a sweep had run
\* beside it, and those that a sweep began without having read: jobs that
\* share pieces, repacks, deaths, removed .torrents and any number of gc runs
\* cannot break the others.
SafeMarkersComplete ==
    \A t \in markers \ risky : PiecesOf[t] \subseteq pieces

\* A gc that read a .torrent never deletes a piece that it names, even while
\* other jobs upload, commit and die around it (gc.go:98-106, 157-167).
LoadedIsSpared ==
    [][\A t \in Torrents :
          gc # IdleGc /\ t \in gc.loaded =>
              PiecesOf[t] \cap pieces \subseteq pieces']_vars

-----------------------------------------------------------------------------
(* The inductive invariant behind them *)

\* A sweep has read every marker that is not risky and queues nothing that it
\* has read; a job that no sweep ran beside is right about what it has.
BucketInv ==
    /\ SafeMarkersComplete
    /\ gc # IdleGc => gc.stale \cap Alive = {}
    /\ gc.at = "load" => gc.stale = {}
    /\ Sweeping => markers \ risky \subseteq gc.loaded
    /\ \A j \in Jobs : Active(j) /\ ~job[j].beside =>
          ~Sweeping /\ job[j].have \subseteq pieces
=============================================================================
