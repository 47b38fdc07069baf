------------------------------- MODULE Ingest -------------------------------
(***************************************************************************)
(* What `samogon fetch` promises to everyone who reads the bucket, with    *)
(* nothing said of how: pieces appear in the CAS and stay, and the         *)
(* .torrent is published once every piece it names is there.  Crashes,     *)
(* retries and buffers are invisible at this level.                        *)
(***************************************************************************)
CONSTANT Hashes             \* the piece hashes the torrent names

VARIABLES
    stored,                 \* hashes whose bytes are in the CAS
    committed               \* the .torrent is under <root>/torrents/

ingestVars == <<stored, committed>>

Init == stored \in SUBSET Hashes /\ committed = FALSE

\* Requests may land together when a process dies with several in flight.
Store(H) == stored' = stored \cup H /\ UNCHANGED committed

Commit == stored = Hashes /\ committed' = TRUE /\ UNCHANGED stored

Next == Commit \/ \E H \in SUBSET Hashes : Store(H)

Spec == Init /\ [][Next]_ingestVars

\* The commit marker never points at a piece that is not there.
MarkerMeansStored == committed => stored = Hashes
=============================================================================
