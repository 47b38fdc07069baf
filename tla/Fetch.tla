------------------------------- MODULE Fetch --------------------------------
(***************************************************************************)
(* One torrent's `samogon fetch` from start to commit (fetch.go:266-372),  *)
(* run again by the gorn queue whenever it exits with an error             *)
(* (bot.go:199-203): Stat of the commit marker, listing of the CAS, the    *)
(* download through PieceStorage, WaitAll, and the upload of the .torrent  *)
(* as the commit marker.  A crash may happen anywhere and loses            *)
(* everything but the bucket.                                              *)
(***************************************************************************)
EXTENDS PieceStorage

VARIABLES
    phase,       \* where the process is
    marker       \* torrents/<infohash> exists: the commit marker

fetchVars == <<phase, marker>>
vars == <<storageVars, fetchVars>>

Phases == {"start", "list", "download", "commit", "done", "dead"}

\* Hashes is exactly what this torrent names.
ASSUME FetchAssumption == \A h \in Hashes : \E p \in Pieces : HashOf[p] = h

FetchTypeOK == TypeOK /\ phase \in Phases /\ marker \in BOOLEAN

\* The process ends: its memory is gone, the bucket stays.
ProcessEnds(p) == phase' = p /\ StorageReset({})

-----------------------------------------------------------------------------
(* The steps of runFetch *)

\* Mutant: the answer of the HEAD request is read the wrong way round.
StatInverted ==
    /\ phase = "start"
    /\ phase' = IF marker THEN "list" ELSE "done"
    /\ UNCHANGED <<storageVars, marker>>

Stat ==
    /\ phase = "start"
    /\ phase' = IF marker THEN "done" ELSE "list"
    /\ UNCHANGED <<storageVars, marker>>

\* Any error of the HEAD request reads as "not there".
StatFails ==
    /\ phase = "start"
    /\ Fault
    /\ phase' = "list"
    /\ UNCHANGED <<buf, complete, bufSem, sem, writer, hasher, dirty, cas,
                   known, marker>>

\* The listing becomes `known`; then the client starts on a fresh storage.
ListPieces ==
    /\ phase = "list"
    /\ phase' = "download"
    /\ StorageReset({h \in Hashes : cas[h] # Absent})
    /\ UNCHANGED <<cas, faults, marker>>

\* A failed listing is logged and the fetch goes on with an empty set.
ListPiecesFails ==
    /\ phase = "list"
    /\ Fault
    /\ phase' = "download"
    /\ StorageReset({})
    /\ UNCHANGED <<cas, marker>>

Download ==
    /\ phase = "download"
    /\ StorageNext
    /\ UNCHANGED fetchVars

WaitAll ==
    /\ phase = "download" /\ AllComplete
    /\ phase' = "commit"
    /\ UNCHANGED <<storageVars, marker>>

Commit ==
    /\ phase = "commit"
    /\ marker' = TRUE
    /\ ProcessEnds("done")
    /\ UNCHANGED <<cas, faults>>

\* PutBytes of the .torrent throws; the object may have landed all the same.
CommitFails ==
    /\ phase = "commit"
    /\ Fault
    /\ marker' \in {marker, TRUE}
    /\ ProcessEnds("dead")
    /\ UNCHANGED cas

\* Killed, out of memory, an exception, or WaitAll returned false.  Uploads
\* under way may or may not reach the bucket.
Crash ==
    /\ phase \notin {"done", "dead"}
    /\ Fault
    /\ \E landed \in SUBSET {p \in Pieces : hasher[p] = "put"} :
          cas' = [h \in Hashes |->
                    IF \E p \in landed : HashOf[p] = h
                    THEN buf[CHOOSE p \in landed : HashOf[p] = h]
                    ELSE cas[h]]
    /\ ProcessEnds("dead")
    /\ UNCHANGED marker

\* gorn --retry-error puts a failed task back on the queue; a finished
\* torrent may be submitted once more.
Restart ==
    /\ phase \in {"dead", "done"}
    /\ phase' = "start"
    /\ UNCHANGED <<storageVars, marker>>

-----------------------------------------------------------------------------
(* The specification *)

Init == StorageInit /\ phase = "start" /\ marker = FALSE

Next ==
    \/ Stat \/ StatFails
    \/ ListPieces \/ ListPiecesFails
    \/ Download
    \/ WaitAll
    \/ Commit \/ CommitFails
    \/ Crash \/ Restart

Spec == Init /\ [][Next]_vars

\* Some peer delivers an intact chunk c of piece p.
Deliver(p, c) ==
    /\ phase = "download"
    /\ \E w \in Peers : WriteAtBuffered(w, p, c, "good")
                          \/ WriteAtUnbuffered(w, p, c, "good")
    /\ UNCHANGED fetchVars

InDownload(step) == phase = "download" /\ step /\ UNCHANGED fetchVars

\* Every goroutine that can run is scheduled, every S3 request ends (it has a
\* timeout), the queue restarts a failed task, and the swarm still has every
\* chunk.  Faults need no fairness: they are bounded by MaxFaults.
Fairness ==
    /\ WF_vars(Stat) /\ WF_vars(ListPieces) /\ WF_vars(WaitAll)
    /\ WF_vars(Commit) /\ WF_vars(Restart)
    /\ \A p \in Pieces, c \in Chunks : WF_vars(Deliver(p, c))
    /\ \A w \in Peers :
          /\ WF_vars(InDownload(AcquireSlot(w)))
          /\ WF_vars(InDownload(WriteAtRecheck(w)))
    /\ \A p \in Pieces : WF_vars(InDownload(Hasher(p)))

FairSpec == Spec /\ Fairness

-----------------------------------------------------------------------------
(* What a fetch promises *)

\* README.md:98 and fetch.go:365-367: the .torrent is uploaded last.  At every
\* moment, through crashes, retries and failing requests, a commit marker
\* means that each piece the torrent names is in the CAS with its own bytes.
MarkerMeansComplete == marker => \A h \in Hashes : cas[h] = Good

\* A crash or a retry never costs what was uploaded: an object once in the
\* CAS is not overwritten with anything else, and the marker stays.
ProgressIsKept ==
    [][ /\ \A h \in Hashes : cas[h] = Good => cas'[h] = Good
        /\ marker => marker' ]_vars

\* The .torrent is eventually published, however the process fails meanwhile.
EventuallyCommitted == <>marker

\* fetch.go:34-36 and 123-126: a WriteAt that finds the buffers used up stalls
\* only until an earlier piece has finished uploading.
StalledWriteResumes ==
    \A w \in Peers : (writer[w].at = "acquire") ~> (writer[w].at # "acquire")

\* With more slots than pieces the slots are all taken only for a moment:
\* then some writer holds a spare one that it is about to return.
FullOnlyForAMoment == ~SlotFree => SpareHolders # {}

\* The inductive invariant: that of the storage holds in every phase, and the
\* process commits only what is complete.
FetchInv ==
    /\ IInv
    /\ phase \in Phases /\ marker \in BOOLEAN
    /\ phase = "commit" => AllComplete
    /\ MarkerMeansComplete

\* The guards of WriteAt, once begun, and of Hasher.
WriterCanStep(w) ==
    writer[w].at = "recheck" \/ (writer[w].at = "acquire" /\ SlotFree)

HasherCanStep(p) ==
    \/ ReadyToHash(p)
    \/ hasher[p] = "upload" /\ sem < UpSem
    \/ hasher[p] \in HasherStates \ {"idle", "upload"}

\* A download that is not complete has a writer or a hasher that can go on, or
\* a peer that is free to deliver a chunk it still wants.
DownloadNeverStuck ==
    phase = "download" =>
        \/ AllComplete
        \/ \E w \in Peers : WriterCanStep(w)
        \/ \E p \in Pieces : HasherCanStep(p)
        \/ /\ \E w \in Peers : writer[w] = NotWriting
           /\ \E p \in Pieces, c \in Chunks : Wanted(p, c)

\* A fetch implements the abstract Ingest.
Stored == {h \in Hashes : cas[h] = Good}

Abstract == INSTANCE Ingest WITH stored <- Stored, committed <- marker

ImplementsIngest == Abstract!Spec

\* What this process is to the others that use the bucket.  It believes in the
\* pieces that it has listed or has seen uploaded.
Believed == {HashOf[p] : p \in {p \in Pieces : complete[p]}}

JobState ==
    CASE phase = "list" ->
            [at |-> "list", torrent |-> "torrent", have |-> {},
             beside |-> FALSE]
      [] phase \in {"download", "commit"} ->
            [at |-> "fetch", torrent |-> "torrent", have |-> Believed,
             beside |-> FALSE]
      [] OTHER -> [at |-> "idle"]

Shared == INSTANCE Bucket WITH
    Torrents <- {"torrent"},
    PiecesOf <- [t \in {"torrent"} |-> Hashes],
    RepackOf <- {},
    Jobs <- {"fetch"},
    pieces <- Stored,
    markers <- IF marker THEN {"torrent"} ELSE {},
    job <- [j \in {"fetch"} |-> JobState],
    gc <- [at |-> "idle"],
    risky <- {}

\* A fetch is a fetch job of Bucket: what it uploads, what it believes to be
\* there and when it commits, so that what Bucket shows beside gc and other
\* jobs is about this code.
ImplementsJob == Shared!Spec
=============================================================================
