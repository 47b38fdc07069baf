---------------------------- MODULE BucketProofs ----------------------------
(***************************************************************************)
(* Theorems about Bucket, for every value of its constants: any torrents   *)
(* that share any pieces, any number of jobs, repacks and gc runs.         *)
(***************************************************************************)
EXTENDS Bucket, TLAPS

-----------------------------------------------------------------------------
(* Types *)

\* A job that is not idle is a fetch or a repack.
LEMMA JobTypes ==
    ASSUME TypeOK, NEW j \in Jobs
    PROVE  /\ job[j] = IdleJob \/ job[j] \in Fetching \/ job[j] \in Repacking
           /\ job[j].at \in {"list", "fetch"} => job[j] \in Fetching
           /\ job[j].at = "repack" => job[j] \in Repacking
           /\ Active(j) <=> job[j].at # "idle"
BY DEF TypeOK, IdleJob, Fetching, Repacking, Active

\* A gc that is not idle is running.
LEMMA GcTypes ==
    ASSUME TypeOK
    PROVE  /\ gc = IdleGc \/ gc \in RunningGc
           /\ gc.at \in {"load", "sweep"} => gc \in RunningGc
           /\ gc = IdleGc <=> gc.at = "idle"
BY DEF TypeOK, IdleGc, RunningGc

\* An upload comes from a fetch or a repack and is a piece of its result.
LEMMA PutTypes ==
    ASSUME TypeOK, NEW j \in Jobs
    PROVE  /\ Uploadable(j) \subseteq Hashes
           /\ \A h \in Uploadable(j) :
                /\ Active(j)
                /\ [job[j] EXCEPT !.have = @ \cup {h}]
                      \in Fetching \cup Repacking
<1>1. Uploadable(j) # {} => job[j].at \in {"fetch", "repack"}
  BY DEF Uploadable
<1>2. Uploadable(j) \subseteq Hashes
  BY JobTypes, BucketAssumption DEF Uploadable, Fetching, Repacking
<1>3. ASSUME NEW h \in Uploadable(j)
      PROVE  [job[j] EXCEPT !.have = @ \cup {h}] \in Fetching \cup Repacking
  <2>1. CASE job[j] \in Fetching
    BY <1>2, <2>1 DEF Fetching
  <2>2. CASE job[j] \in Repacking
    BY <1>2, <2>2 DEF Repacking
  <2> QED BY <1>1, <2>1, <2>2, JobTypes
<1> QED BY <1>1, <1>2, <1>3, JobTypes

\* Every step of a fetch or repack job keeps the types.
LEMMA JobStepTypes ==
    ASSUME TypeOK, NEW j \in Jobs, JobStep(j)
    PROVE  TypeOK'
<1>1. ASSUME NEW t \in Torrents, FetchStart(j, t) PROVE TypeOK'
  BY <1>1 DEF TypeOK, FetchStart, Fetching, Sweeping
<1>2. CASE FetchList(j)
  <2>1. PICK known \in {pieces, {}} :
          job' = [job EXCEPT ![j].at = "fetch",
                             ![j].have = known \cap PiecesOf[job[j].torrent]]
    BY <1>2 DEF FetchList
  <2>2. job[j] \in Fetching /\ known \in SUBSET Hashes
    BY <1>2, JobTypes DEF FetchList, TypeOK
  <2>3. [job[j] EXCEPT !.at = "fetch",
                       !.have = known \cap PiecesOf[job[j].torrent]]
           \in Fetching
    BY <2>2 DEF Fetching
  <2> QED BY <1>2, <2>1, <2>3 DEF FetchList, TypeOK
<1>3. ASSUME NEW h \in Hashes, PutPiece(j, h) PROVE TypeOK'
  BY <1>3, PutTypes DEF PutPiece, TypeOK
<1>4. CASE FetchCommit(j)
  <2>1. job[j].torrent \in Torrents
    BY <1>4, JobTypes DEF FetchCommit, Fetching
  <2> QED BY <1>4, <2>1 DEF FetchCommit, TypeOK, Marks
<1>5. ASSUME NEW s \in Torrents, NEW t \in Torrents, RepackStart(j, s, t)
      PROVE  TypeOK'
  BY <1>5 DEF TypeOK, RepackStart, Repacking, Sweeping
<1>6. ASSUME NEW h \in Hashes, RepackRead(j, h) PROVE TypeOK'
  <2>1. job[j] \in Repacking
    BY <1>6, JobTypes DEF RepackRead
  <2>2. [job[j] EXCEPT !.read = @ \cup {h}] \in Repacking
    BY <2>1 DEF Repacking
  <2> QED BY <1>6, <2>2 DEF RepackRead, TypeOK
<1>7. CASE RepackCommit(j)
  <2>1. job[j].torrent \in Torrents
    BY <1>7, JobTypes DEF RepackCommit, Repacking
  <2> QED BY <1>7, <2>1 DEF RepackCommit, TypeOK, Marks
<1>8. CASE JobDies(j)
  BY <1>8, PutTypes DEF JobDies, TypeOK
<1> QED BY <1>1, <1>2, <1>3, <1>4, <1>5, <1>6, <1>7, <1>8
        DEF JobStep, FetchStep, RepackStep

\* Every step of gc keeps the types.
LEMMA GcStepTypes ==
    ASSUME TypeOK, GcStep
    PROVE  TypeOK'
<1>1. CASE GcStart \/ GcEnds
  BY <1>1 DEF TypeOK, GcStart, GcEnds, RunningGc
<1>2. ASSUME NEW t \in Torrents, GcLoad(t) PROVE TypeOK'
  BY <1>2, GcTypes DEF TypeOK, GcLoad, RunningGc
<1>3. CASE GcSweep
  <2>1. gc \in RunningGc /\ gc' \in RunningGc
    BY <1>3, GcTypes DEF GcSweep, RunningGc
  <2>2. ASSUME NEW j \in Jobs, Active(j)
        PROVE  [job[j] EXCEPT !.beside = TRUE] \in Fetching \cup Repacking
    <3>1. CASE job[j] \in Fetching
      BY <3>1 DEF Fetching
    <3>2. CASE job[j] \in Repacking
      BY <3>2 DEF Repacking
    <3> QED BY <2>2, <3>1, <3>2, JobTypes DEF Active
  <2>3. job' \in [Jobs -> Fetching \cup Repacking \cup {IdleJob}]
    BY <1>3, <2>2 DEF GcSweep, SweepBegins, TypeOK
  <2> QED BY <1>3, <2>1, <2>3 DEF GcSweep, SweepBegins, TypeOK
<1>4. ASSUME NEW h \in Hashes, GcFind(h) \/ GcDelete(h) PROVE TypeOK'
  <2>1. gc \in RunningGc
    BY <1>4, GcTypes DEF GcFind, GcDelete, Sweeping
  <2>2. /\ [gc EXCEPT !.stale = @ \cup {h}] \in RunningGc
        /\ [gc EXCEPT !.stale = @ \ {h}] \in RunningGc
    BY <2>1 DEF RunningGc
  <2> QED BY <1>4, <2>2 DEF TypeOK, GcFind, GcDelete
<1> QED BY <1>1, <1>2, <1>3, <1>4 DEF GcStep

\* So does every step.
LEMMA NextTypes == TypeOK /\ [Next]_vars => TypeOK'
<1>1. TypeOK /\ Next => TypeOK'
  BY JobStepTypes, GcStepTypes DEF Next, RemoveTorrent, TypeOK
<1>2. TypeOK /\ UNCHANGED vars => TypeOK'
  BY DEF TypeOK, vars
<1> QED BY <1>1, <1>2

\* Every variable of the shared bucket keeps its type.
THEOREM BucketTypeOK == Spec => []TypeOK
<1>1. Init => TypeOK
  BY DEF Init, TypeOK
<1>2. TypeOK /\ [Next]_vars => TypeOK'
  BY NextTypes
<1> QED BY <1>1, <1>2, PTL DEF Spec

-----------------------------------------------------------------------------
(* The invariant *)

\* What a job step does to the shared state.
LEMMA JobFrame ==
    ASSUME TypeOK, NEW j \in Jobs, JobStep(j)
    PROVE  /\ gc' = gc
           /\ pieces \subseteq pieces'
           /\ \A i \in Jobs \ {j} : job'[i] = job[i]
BY DEF TypeOK, JobStep, FetchStep, RepackStep, FetchStart, FetchList, PutPiece,
       FetchCommit, RepackStart, RepackRead, RepackCommit, JobDies

\* While no sweep runs beside it a job is right about what it has.
LEMMA JobKnows ==
    ASSUME TypeOK, BucketInv, NEW j \in Jobs, JobStep(j)
    PROVE  Active(j)' /\ ~job'[j].beside =>
               ~Sweeping /\ job'[j].have \subseteq pieces'
<1>1. ASSUME NEW t \in Torrents, FetchStart(j, t)
      PROVE  job'[j].have = {} /\ job'[j].beside = Sweeping
  BY <1>1 DEF TypeOK, FetchStart
<1>2. ASSUME NEW s \in Torrents, NEW t \in Torrents, RepackStart(j, s, t)
      PROVE  job'[j].have = {} /\ job'[j].beside = Sweeping
  BY <1>2 DEF TypeOK, RepackStart
<1>3. CASE FetchList(j)
  <2>1. job[j] \in Fetching /\ Active(j)
    BY <1>3, JobTypes DEF FetchList
  <2>2. job'[j].have \subseteq pieces /\ job'[j].beside = job[j].beside
    BY <1>3, <2>1 DEF TypeOK, FetchList, Fetching
  <2> QED BY <1>3, <2>1, <2>2 DEF BucketInv, FetchList
<1>4. ASSUME NEW h \in Hashes, PutPiece(j, h)
      PROVE  Active(j)' /\ ~job'[j].beside =>
                 ~Sweeping /\ job'[j].have \subseteq pieces'
  <2>1. Active(j) /\ job[j] \in Fetching \cup Repacking
    BY <1>4, PutTypes, JobTypes DEF PutPiece, Active
  <2>2. /\ job'[j].have \subseteq job[j].have \cup {h}
        /\ job'[j].beside = job[j].beside
    BY <1>4, <2>1 DEF TypeOK, PutPiece, Fetching, Repacking
  <2> QED BY <1>4, <2>1, <2>2 DEF BucketInv, PutPiece
<1>5. ASSUME NEW h \in Hashes, RepackRead(j, h), Active(j)'
      PROVE  ~job'[j].beside => ~Sweeping /\ job'[j].have \subseteq pieces'
  <2>1. job[j] \in Repacking /\ Active(j)
    BY <1>5, JobTypes DEF RepackRead
  <2>2. job'[j].have = job[j].have /\ job'[j].beside = job[j].beside
    BY <1>5, <2>1 DEF TypeOK, RepackRead, Repacking, Active
  <2> QED BY <1>5, <2>1, <2>2 DEF BucketInv, RepackRead
<1>6. FetchCommit(j) \/ RepackCommit(j) \/ JobDies(j) => ~Active(j)'
  BY DEF TypeOK, FetchCommit, RepackCommit, JobDies, Active
<1> QED BY <1>1, <1>2, <1>3, <1>4, <1>5, <1>6 DEF JobStep, FetchStep, RepackStep

\* A job step leaves the markers alone or commits, having all the pieces.
LEMMA JobMarks ==
    ASSUME TypeOK, NEW j \in Jobs, JobStep(j)
    PROVE  \/ UNCHANGED <<markers, risky>>
           \/ Active(j) /\ HasAll(j) /\ Marks(j)
<1>1. ASSUME FetchCommit(j) PROVE Active(j) /\ HasAll(j) /\ Marks(j)
  BY <1>1, JobTypes DEF FetchCommit
<1>2. ASSUME RepackCommit(j)
      PROVE  \/ UNCHANGED <<markers, risky>>
             \/ Active(j) /\ HasAll(j) /\ Marks(j)
  BY <1>2, JobTypes DEF RepackCommit
<1> QED BY <1>1, <1>2
        DEF JobStep, FetchStep, RepackStep, FetchStart, FetchList, PutPiece,
            RepackStart, RepackRead, JobDies

\* A job that commits unharmed makes a complete marker, and no sweep is on;
\* any other commit makes a risky one.
LEMMA JobStepInv ==
    ASSUME TypeOK, BucketInv, NEW j \in Jobs, JobStep(j)
    PROVE  BucketInv'
<1>1. /\ gc' = gc /\ pieces \subseteq pieces'
      /\ \A i \in Jobs \ {j} : job'[i] = job[i]
  BY JobFrame
<1>2. /\ SafeMarkersComplete'
      /\ Sweeping => markers' \ risky' \subseteq gc.loaded
  <2>1. CASE UNCHANGED <<markers, risky>>
    BY <1>1, <2>1 DEF BucketInv, SafeMarkersComplete
  <2>2. CASE Active(j) /\ HasAll(j) /\ Marks(j)
    <3>1. CASE job[j].beside
      BY <1>1, <2>2, <3>1 DEF BucketInv, SafeMarkersComplete, Marks
    <3>2. CASE ~job[j].beside
      <4>1. ~Sweeping /\ PiecesOf[job[j].torrent] \subseteq pieces
        BY <2>2, <3>2 DEF BucketInv, HasAll
      <4> QED BY <1>1, <2>2, <3>2, <4>1
              DEF BucketInv, SafeMarkersComplete, Marks
    <3> QED BY <3>1, <3>2
  <2> QED BY <2>1, <2>2, JobMarks
<1>3. ASSUME NEW i \in Jobs, Active(i)', ~job'[i].beside
      PROVE  ~Sweeping /\ job'[i].have \subseteq pieces'
  <2>1. CASE i = j
    BY <1>3, <2>1, JobKnows
  <2>2. CASE i # j
    BY <1>1, <1>3, <2>2 DEF BucketInv, Active
  <2> QED BY <2>1, <2>2
<1> QED BY <1>1, <1>2, <1>3 DEF BucketInv, Sweeping, Alive

\* gc deletes nothing that a marker it has read names, and marks what it may
\* harm when its sweep begins.
LEMMA GcStepInv ==
    ASSUME TypeOK, BucketInv, GcStep
    PROVE  BucketInv'
<1>1. CASE GcStart
  BY <1>1 DEF BucketInv, SafeMarkersComplete, GcStart, Sweeping, Alive, Active,
              IdleGc
<1>2. ASSUME NEW t \in Torrents, GcLoad(t) PROVE BucketInv'
  <2>1. /\ gc \in RunningGc /\ gc # IdleGc /\ gc.at = "load"
        /\ gc'.at = "load" /\ gc'.stale = gc.stale
        /\ UNCHANGED <<pieces, markers, job, risky>>
    BY <1>2, GcTypes DEF GcLoad, RunningGc, IdleGc
  <2> QED BY <2>1 DEF BucketInv, SafeMarkersComplete, Sweeping, Active
<1>3. CASE GcSweep
  <2>1. /\ gc \in RunningGc /\ gc.at = "load" /\ gc # IdleGc
        /\ gc'.at = "sweep" /\ gc'.loaded = gc.loaded /\ gc'.stale = gc.stale
        /\ UNCHANGED <<pieces, markers>>
        /\ risky' = risky \cup (markers \ gc.loaded)
    BY <1>3, GcTypes DEF GcSweep, SweepBegins, RunningGc, IdleGc
  <2>2. ASSUME NEW j \in Jobs, Active(j)' PROVE job'[j].beside
    <3>1. CASE job[j] \in Fetching
      BY <1>3, <2>2, <3>1
         DEF GcSweep, SweepBegins, Active, Fetching
    <3>2. CASE job[j] \in Repacking
      BY <1>3, <2>2, <3>2
         DEF GcSweep, SweepBegins, Active, Repacking
    <3>3. CASE job[j] = IdleJob
      BY <1>3, <2>2, <3>3 DEF GcSweep, SweepBegins, Active
    <3> QED BY <3>1, <3>2, <3>3, JobTypes
  <2>3. SafeMarkersComplete'
    BY <2>1 DEF BucketInv, SafeMarkersComplete
  <2>4. gc'.stale = {}
    BY <2>1 DEF BucketInv
  <2>5. markers' \ risky' \subseteq gc'.loaded
    BY <2>1
  <2> QED BY <2>1, <2>2, <2>3, <2>4, <2>5 DEF BucketInv
<1>4. ASSUME NEW h \in Hashes, GcFind(h) PROVE BucketInv'
  <2>1. /\ gc \in RunningGc /\ gc # IdleGc /\ gc.at = "sweep"
        /\ gc'.at = "sweep" /\ gc'.stale = gc.stale \cup {h}
        /\ gc'.loaded = gc.loaded /\ h \notin Alive
        /\ UNCHANGED <<pieces, markers, job, risky>>
    BY <1>4, GcTypes DEF GcFind, RunningGc, IdleGc, Sweeping
  <2> QED BY <2>1
          DEF BucketInv, SafeMarkersComplete, Sweeping, Active, Alive
<1>5. ASSUME NEW h \in Hashes, GcDelete(h) PROVE BucketInv'
  <2>1. /\ gc \in RunningGc /\ gc # IdleGc /\ gc.at = "sweep" /\ h \in gc.stale
        /\ gc'.at = "sweep" /\ gc'.stale = gc.stale \ {h}
        /\ gc'.loaded = gc.loaded /\ pieces' = pieces \ {h}
        /\ UNCHANGED <<markers, job, risky>>
    BY <1>5, GcTypes DEF GcDelete, RunningGc, IdleGc, Sweeping
  <2>2. \A t \in markers \ risky : h \notin PiecesOf[t]
    BY <2>1 DEF BucketInv, Sweeping, Alive
  <2>3. SafeMarkersComplete'
    BY <2>1, <2>2 DEF BucketInv, SafeMarkersComplete
  <2>4. gc'.stale \cap Alive' = {}
    BY <2>1 DEF BucketInv, Alive
  <2> QED BY <2>1, <2>3, <2>4 DEF BucketInv, Sweeping, Active
<1>6. CASE GcEnds
  <2>1. PICK H \in SUBSET gc.stale : pieces' = pieces \ H
    BY <1>6 DEF GcEnds
  <2>2. gc # IdleGc /\ gc' = IdleGc /\ UNCHANGED <<markers, job, risky>>
    BY <1>6 DEF GcEnds
  <2>3. CASE gc.at = "load"
    BY <2>1, <2>2, <2>3
       DEF BucketInv, SafeMarkersComplete, Sweeping, Active, IdleGc
  <2>4. CASE Sweeping
    <3>1. \A t \in markers \ risky : H \cap PiecesOf[t] = {}
      BY <2>1, <2>2, <2>4 DEF BucketInv, Alive
    <3>2. SafeMarkersComplete'
      BY <2>1, <2>2, <3>1 DEF BucketInv, SafeMarkersComplete
    <3> QED BY <2>2, <2>4, <3>2 DEF BucketInv, Sweeping, Active, IdleGc
  <2> QED BY <2>2, <2>3, <2>4, GcTypes DEF Sweeping, RunningGc
<1> QED BY <1>1, <1>2, <1>3, <1>4, <1>5, <1>6 DEF GcStep

\* In every reachable state a sweep has read every marker that is not risky,
\* and a job that no sweep ran beside is right about the bucket.
THEOREM BucketInvariant == Spec => []BucketInv
<1>1. Init => BucketInv
  BY DEF Init, BucketInv, SafeMarkersComplete, Sweeping, Active, IdleGc
<1>2. TypeOK /\ BucketInv /\ [Next]_vars => BucketInv'
  <2>1. TypeOK /\ BucketInv /\ UNCHANGED vars => BucketInv'
    BY DEF vars, BucketInv, SafeMarkersComplete, Sweeping, Alive, Active
  <2>2. ASSUME TypeOK, BucketInv, NEW t \in Torrents, RemoveTorrent(t)
        PROVE  BucketInv'
    BY <2>2 DEF RemoveTorrent, BucketInv, SafeMarkersComplete, Sweeping, Alive,
                Active
  <2> QED BY <2>1, <2>2, JobStepInv, GcStepInv DEF Next
<1> QED BY <1>1, <1>2, BucketTypeOK, PTL DEF Spec

\* Every marker is complete unless it was committed beside a sweep or a sweep
\* began without having read it (README.md:97-101).
THEOREM MarkersComplete == Spec => []SafeMarkersComplete
<1>1. BucketInv => SafeMarkersComplete
  BY DEF BucketInv
<1> QED BY <1>1, BucketInvariant, PTL

\* gc deletes no piece of a .torrent that it has read, though jobs upload,
\* commit and die around it and other reads fail (gc.go:98-106, 157-167).
THEOREM LoadedSpared == Spec => LoadedIsSpared
<1> DEFINE Spares == \A t \in Torrents :
                        gc # IdleGc /\ t \in gc.loaded =>
                            PiecesOf[t] \cap pieces \subseteq pieces'
<1>1. ASSUME TypeOK, BucketInv, Next PROVE Spares
  <2>1. ASSUME NEW j \in Jobs, JobStep(j) PROVE Spares
    BY <1>1, <2>1, JobFrame
  <2>2. ASSUME NEW t \in Torrents, RemoveTorrent(t) PROVE Spares
    BY <2>2 DEF RemoveTorrent
  <2>3. CASE GcStep
    <3> DEFINE Deletes(H) == /\ pieces \ H \subseteq pieces'
                             /\ gc # IdleGc => H \subseteq gc.stale
    <3>1. PICK H \in SUBSET Hashes : Deletes(H)
      <4>1. CASE GcEnds
        <5>1. PICK H \in SUBSET gc.stale : pieces' = pieces \ H
          BY <4>1 DEF GcEnds
        <5>2. gc.stale \subseteq Hashes
          BY <1>1, <4>1, GcTypes DEF GcEnds, RunningGc
        <5> QED BY <5>1, <5>2
      <4>2. ASSUME NEW h \in Hashes, GcDelete(h)
            PROVE  \E H \in SUBSET Hashes : Deletes(H)
        <5>1. {h} \subseteq gc.stale /\ pieces' = pieces \ {h}
          BY <4>2 DEF GcDelete
        <5>2. {h} \in SUBSET Hashes
          OBVIOUS
        <5> QED BY <5>1, <5>2
      <4>3. UNCHANGED pieces \/ GcEnds \/ \E h \in Hashes : GcDelete(h)
        BY <2>3 DEF GcStep, GcStart, GcSweep, GcLoad, GcFind
      <4>4. CASE UNCHANGED pieces
        <5>1. {} \in SUBSET Hashes
          OBVIOUS
        <5> QED BY <4>4, <5>1
      <4> QED BY <4>1, <4>2, <4>3, <4>4
    <3>2. gc # IdleGc => gc.stale \cap Alive = {}
      BY <1>1 DEF BucketInv
    <3> QED BY <3>1, <3>2 DEF Alive
  <2> QED BY <1>1, <2>1, <2>2, <2>3 DEF Next
<1>2. TypeOK /\ BucketInv /\ [Next]_vars => [Spares]_vars
  BY <1>1
<1> QED BY <1>2, BucketTypeOK, BucketInvariant, PTL DEF Spec, LoadedIsSpared
=============================================================================
