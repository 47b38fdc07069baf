------------------------------ MODULE GcProofs ------------------------------
(***************************************************************************)
(* gc, proved for every number of torrents, pieces, jobs and workers:      *)
(* GcInv is inductive, and with it every step of gc is a step of the gc of *)
(* Bucket or none at all.                                                  *)
(***************************************************************************)
EXTENDS Gc, FiniteSetTheorems, TLAPS

\* The fields of g that the sweep leaves alone, those that only the sweep
\* uses, and the history.
ReadFields ==
    <<g.at, g.upSem, g.listing, g.keys, g.loading, g.loaded, g.skipped,
      g.alive>>
SweepFields == <<g.open, g.scan, g.pieceCh, g.hand, g.stale, g.deleting>>
Past == <<steady, garbage>>

-----------------------------------------------------------------------------
(* The invariant *)

\* A gc that has no run: nothing is anywhere.
LEMMA IdleInv ==
    ASSUME NEW n \in UpSems, g = Idle(n),
           faults \in 0 .. MaxFaults
    PROVE  StagesInv
<1>1. GcTypeOK
  BY DEF GcTypeOK, GcStates, Idle
<1> QED BY <1>1 DEF StagesInv, OnePlace, Phases, Doomed, NothingOverlooked,
                    Idle

\* The steps before the sweep: they move .torrents from stage to stage.
LEMMA ListingInv ==
    ASSUME GcInv,
           \/ Listed \/ ListNotFound
           \/ \E t \in Torrents : ListKey(t) \/ Send(t) \/ Load(t) \/ Skip(t)
    PROVE  StagesInv'
<1>1. CASE Listed
  <2>1. GcTypeOK'
    BY <1>1, GcAssumption
       DEF Listed, GcInv, StagesInv, GcTypeOK, GcStates
  <2>2. /\ UNCHANGED <<g.listing, g.keys, g.loading, g.loaded, g.skipped>>
        /\ UNCHANGED <<g.alive, g.cut>>
        /\ g.at = "list" /\ g.listing = {} /\ g'.at = "load"
        /\ UNCHANGED <<SweepFields, Past, pieces>>
    BY <1>1 DEF Listed, GcInv, StagesInv, GcTypeOK, GcStates,
              ReadFields, SweepFields, Past
  <2>3. OnePlace' /\ Phases'
    BY <2>2 DEF GcInv, StagesInv, OnePlace, Phases, ReadFields, SweepFields,
                Past
  <2>4. g'.alive = UNION {PiecesOf[u] : u \in g'.loaded}
    BY <2>2 DEF GcInv, StagesInv, ReadFields
  <2>5. Doomed' \cap g'.alive = {}
    BY <2>2 DEF GcInv, StagesInv, Doomed, ReadFields, SweepFields
  <2>6. g'.at # "idle" /\ "list" \notin g'.cut =>
          \A u \in Torrents : u \in steady' =>
              u \in UNION {g'.listing, g'.keys, g'.loading, g'.loaded,
                           g'.skipped}
    BY <2>2 DEF GcInv, StagesInv, ReadFields, Past
  <2>7. NothingOverlooked'
    BY <2>2 DEF GcInv, StagesInv, NothingOverlooked, Doomed, ReadFields,
                SweepFields, Past
  <2>8. g'.at = "sweep" => garbage' \cap g'.alive = {}
    BY <2>2 DEF GcInv, StagesInv, ReadFields, Past
  <2> QED BY <2>1, <2>3, <2>4, <2>5, <2>6, <2>7, <2>8 DEF StagesInv
<1>2. CASE ListNotFound
  <2>1. GcTypeOK'
    <3>1. g' \in GcStates
      BY <1>2 DEF ListNotFound, GcInv, StagesInv, GcTypeOK, GcStates
    <3>2. faults' \in 0 .. MaxFaults
      BY <1>2, GcAssumption DEF ListNotFound, Faulty, GcInv, StagesInv, GcTypeOK
    <3> QED BY <3>1, <3>2 DEF GcTypeOK
  <2>2. /\ UNCHANGED <<g.at, g.loading, g.loaded, g.skipped, g.alive>>
        /\ g'.listing = {} /\ g'.keys = {} /\ g'.cut = {"list"}
        /\ g.at = "list" /\ UNCHANGED <<SweepFields, Past, pieces>>
    BY <1>2 DEF ListNotFound, Faulty, GcInv, StagesInv, GcTypeOK, GcStates,
              ReadFields, SweepFields, Past
  <2> QED BY <2>1, <2>2
          DEF GcInv, StagesInv, OnePlace, Phases, Doomed, NothingOverlooked,
              ReadFields, SweepFields, Past
<1>3. ASSUME NEW t \in Torrents, ListKey(t) PROVE StagesInv'
  <2>1. GcTypeOK'
    BY <1>3, GcAssumption
       DEF ListKey, GcInv, StagesInv, GcTypeOK, GcStates
  <2>2. /\ UNCHANGED <<g.at, g.loading, g.loaded, g.skipped, g.alive>>
        /\ g'.listing = g.listing \ {t} /\ UNCHANGED g.cut
        /\ g'.keys = g.keys \cup ({t} \cap markers)
        /\ g.at = "list" /\ t \in g.listing
        /\ UNCHANGED <<SweepFields, Past, pieces>>
    BY <1>3 DEF ListKey, GcInv, StagesInv, GcTypeOK, GcStates,
              ReadFields, SweepFields, Past
  <2>3. OnePlace' /\ Phases'
    BY <2>2 DEF GcInv, StagesInv, OnePlace, Phases, ReadFields, SweepFields,
                Past
  <2>4. g'.alive = UNION {PiecesOf[u] : u \in g'.loaded}
    BY <2>2 DEF GcInv, StagesInv, ReadFields
  <2>5. Doomed' \cap g'.alive = {}
    BY <2>2 DEF GcInv, StagesInv, Doomed, ReadFields, SweepFields
  <2>6. g'.at # "idle" /\ "list" \notin g'.cut =>
          \A u \in Torrents : u \in steady' =>
              u \in UNION {g'.listing, g'.keys, g'.loading, g'.loaded,
                           g'.skipped}
    BY <2>2 DEF GcInv, StagesInv, ReadFields, Past
  <2>7. NothingOverlooked'
    BY <2>2 DEF GcInv, StagesInv, NothingOverlooked, Doomed, ReadFields,
                SweepFields, Past
  <2>8. g'.at = "sweep" => garbage' \cap g'.alive = {}
    BY <2>2 DEF GcInv, StagesInv, ReadFields, Past
  <2> QED BY <2>1, <2>3, <2>4, <2>5, <2>6, <2>7, <2>8 DEF StagesInv
<1>4. ASSUME NEW t \in Torrents, Send(t) PROVE StagesInv'
  <2>1. GcTypeOK'
    BY <1>4, GcAssumption
       DEF Send, GcInv, StagesInv, GcTypeOK, GcStates
  <2>2. /\ UNCHANGED <<g.at, g.listing, g.loaded, g.skipped, g.alive, g.cut>>
        /\ g'.keys = g.keys \ {t} /\ g'.loading = g.loading \cup {t}
        /\ g.at = "load" /\ t \in g.keys
        /\ UNCHANGED <<SweepFields, Past, pieces>>
    BY <1>4 DEF Send, GcInv, StagesInv, GcTypeOK, GcStates,
              ReadFields, SweepFields, Past
  <2> QED BY <2>1, <2>2
          DEF GcInv, StagesInv, OnePlace, Phases, Doomed, NothingOverlooked,
              ReadFields, SweepFields, Past
<1>5. ASSUME NEW t \in Torrents, Load(t) PROVE StagesInv'
  <2>1. GcTypeOK'
    BY <1>5, GcAssumption
       DEF Load, GcInv, StagesInv, GcTypeOK, GcStates
  <2>2. /\ UNCHANGED <<g.at, g.listing, g.keys, g.skipped, g.cut>>
        /\ g'.loading = g.loading \ {t} /\ g'.loaded = g.loaded \cup {t}
        /\ g'.alive = g.alive \cup PiecesOf[t] /\ t \in g.loading
        /\ UNCHANGED <<SweepFields, Past, pieces>>
    BY <1>5 DEF Load, GcInv, StagesInv, GcTypeOK, GcStates,
              ReadFields, SweepFields, Past
  <2> QED BY <2>1, <2>2
          DEF GcInv, StagesInv, OnePlace, Phases, Doomed, NothingOverlooked,
              ReadFields, SweepFields, Past
<1>6. ASSUME NEW t \in Torrents, Skip(t) PROVE StagesInv'
  <2>1. GcTypeOK'
    <3>1. g' \in GcStates
      BY <1>6 DEF Skip, GcInv, StagesInv, GcTypeOK, GcStates
    <3>2. faults' \in 0 .. MaxFaults
      <4>1. Faulty \/ faults' = faults
        BY <1>6 DEF Skip
      <4> QED BY <4>1, GcAssumption DEF Faulty, GcInv, StagesInv, GcTypeOK
    <3> QED BY <3>1, <3>2 DEF GcTypeOK
  <2>2. /\ UNCHANGED <<g.at, g.listing, g.keys, g.loaded, g.alive, g.cut>>
        /\ g'.loading = g.loading \ {t} /\ g'.skipped = g.skipped \cup {t}
        /\ t \in g.loading /\ UNCHANGED <<SweepFields, Past, pieces>>
    BY <1>6 DEF Skip, Faulty, GcInv, StagesInv, GcTypeOK, GcStates,
              ReadFields, SweepFields, Past
  <2> QED BY <2>1, <2>2
          DEF GcInv, StagesInv, OnePlace, Phases, Doomed, NothingOverlooked,
              ReadFields, SweepFields, Past
<1> QED BY <1>1, <1>2, <1>3, <1>4, <1>5, <1>6

\* The steps of the sweep: they move keys of the CAS from stage to stage.
LEMMA SweepingInv ==
    ASSUME GcInv,
           \/ Sweep \/ StreamEnds \/ StreamNotFound
           \/ \E h \in Hashes :
                 Stream(h) \/ Take(h) \/ Queue(h) \/ Receive(h) \/ Delete(h)
    PROVE  StagesInv'
<1>1. CASE Sweep
  <2>1. GcTypeOK'
    BY <1>1, GcAssumption
       DEF Sweep, AllLoaded, GcInv, StagesInv, GcTypeOK, GcStates
  <2>2. /\ UNCHANGED <<g.listing, g.keys, g.loading, g.loaded, g.skipped>>
        /\ UNCHANGED <<g.alive, g.cut, g.pieceCh, g.hand, g.stale, g.deleting>>
        /\ g.at = "load" /\ g.keys = {} /\ g.loading = {}
        /\ g'.at = "sweep" /\ g'.scan = Hashes
        /\ garbage' = pieces \ g.alive /\ UNCHANGED <<pieces, steady>>
    BY <1>1 DEF Sweep, AllLoaded, GcInv, StagesInv, GcTypeOK, GcStates,
              ReadFields, SweepFields, Past
  <2> QED BY <2>1, <2>2
          DEF GcInv, StagesInv, OnePlace, Phases, Doomed, NothingOverlooked,
              ReadFields, SweepFields, Past
<1>2. CASE StreamEnds
  <2>1. GcTypeOK'
    BY <1>2, GcAssumption
       DEF StreamEnds, GcInv, StagesInv, GcTypeOK, GcStates
  <2>2. /\ UNCHANGED <<ReadFields, Past, pieces, g.cut>>
        /\ UNCHANGED <<g.scan, g.pieceCh, g.hand, g.stale, g.deleting>>
        /\ ~g'.open
    BY <1>2 DEF StreamEnds, GcInv, StagesInv, GcTypeOK, GcStates,
              ReadFields, SweepFields, Past
  <2> QED BY <2>1, <2>2
          DEF GcInv, StagesInv, OnePlace, Phases, Doomed, NothingOverlooked,
              ReadFields, SweepFields, Past
<1>3. CASE StreamNotFound
  <2>1. GcTypeOK'
    <3>1. g' \in GcStates
      BY <1>3 DEF StreamNotFound, GcInv, StagesInv, GcTypeOK, GcStates
    <3>2. faults' \in 0 .. MaxFaults
      BY <1>3, GcAssumption
         DEF StreamNotFound, Faulty, GcInv, StagesInv, GcTypeOK
    <3> QED BY <3>1, <3>2 DEF GcTypeOK
  <2>2. /\ UNCHANGED <<ReadFields, Past, pieces>>
        /\ UNCHANGED <<g.pieceCh, g.hand, g.stale, g.deleting>>
        /\ g'.scan = {} /\ ~g'.open /\ g'.cut = g.cut \cup {"sweep"}
    BY <1>3 DEF StreamNotFound, Faulty, GcInv, StagesInv, GcTypeOK, GcStates,
              ReadFields, SweepFields, Past
  <2> QED BY <2>1, <2>2
          DEF GcInv, StagesInv, OnePlace, Phases, Doomed, NothingOverlooked,
              ReadFields, SweepFields, Past
<1>4. ASSUME NEW h \in Hashes, Stream(h) PROVE StagesInv'
  <2>1. GcTypeOK'
    BY <1>4, GcAssumption
       DEF Stream, GcInv, StagesInv, GcTypeOK, GcStates
  <2>2. /\ UNCHANGED <<ReadFields, Past, pieces, g.cut>>
        /\ UNCHANGED <<g.open, g.hand, g.stale, g.deleting>>
        /\ g.open /\ h \in g.scan /\ g'.scan = g.scan \ {h}
        /\ g'.pieceCh = g.pieceCh \cup ({h} \cap pieces)
    BY <1>4 DEF Stream, GcInv, StagesInv, GcTypeOK, GcStates,
              ReadFields, SweepFields, Past
  <2>3. OnePlace' /\ Phases'
    BY <2>2 DEF GcInv, StagesInv, OnePlace, Phases, ReadFields, SweepFields,
                Past
  <2>4. g'.alive = UNION {PiecesOf[u] : u \in g'.loaded}
    BY <2>2 DEF GcInv, StagesInv, ReadFields
  <2>5. Doomed' \cap g'.alive = {}
    BY <2>2 DEF GcInv, StagesInv, Doomed, ReadFields, SweepFields
  <2>6. g'.at # "idle" /\ "list" \notin g'.cut =>
          \A u \in Torrents : u \in steady' =>
              u \in UNION {g'.listing, g'.keys, g'.loading, g'.loaded,
                           g'.skipped}
    BY <2>2 DEF GcInv, StagesInv, ReadFields, Past
  <2>7. NothingOverlooked'
    BY <2>2 DEF GcInv, StagesInv, NothingOverlooked, Doomed, ReadFields,
                SweepFields, Past
  <2>8. g'.at = "sweep" => garbage' \cap g'.alive = {}
    BY <2>2 DEF GcInv, StagesInv, ReadFields, Past
  <2> QED BY <2>1, <2>3, <2>4, <2>5, <2>6, <2>7, <2>8 DEF StagesInv
<1>5. ASSUME NEW h \in Hashes, Take(h) PROVE StagesInv'
  <2>1. GcTypeOK'
    BY <1>5, GcAssumption
       DEF Take, GcInv, StagesInv, GcTypeOK, GcStates
  <2>2. /\ UNCHANGED <<ReadFields, Past, pieces, g.cut>>
        /\ UNCHANGED <<g.open, g.scan, g.stale, g.deleting>>
        /\ h \in g.pieceCh /\ g.hand = {}
        /\ g'.pieceCh = g.pieceCh \ {h} /\ g'.hand = {h} \ g.alive
    BY <1>5 DEF Take, GcInv, StagesInv, GcTypeOK, GcStates,
              ReadFields, SweepFields, Past
  <2> QED BY <2>1, <2>2
          DEF GcInv, StagesInv, OnePlace, Phases, Doomed, NothingOverlooked,
              ReadFields, SweepFields, Past
<1>6. ASSUME NEW h \in Hashes, Queue(h) PROVE StagesInv'
  <2>1. GcTypeOK'
    BY <1>6, GcAssumption
       DEF Queue, GcInv, StagesInv, GcTypeOK, GcStates
  <2>2. /\ UNCHANGED <<ReadFields, Past, pieces, g.cut>>
        /\ UNCHANGED <<g.open, g.scan, g.pieceCh, g.deleting>>
        /\ h \in g.hand /\ g'.hand = {} /\ g'.stale = g.stale \cup {h}
    BY <1>6 DEF Queue, GcInv, StagesInv, GcTypeOK, GcStates,
              ReadFields, SweepFields, Past
  <2> QED BY <2>1, <2>2
          DEF GcInv, StagesInv, OnePlace, Phases, Doomed, NothingOverlooked,
              ReadFields, SweepFields, Past
<1>7. ASSUME NEW h \in Hashes, Receive(h) PROVE StagesInv'
  <2>1. GcTypeOK'
    BY <1>7, GcAssumption
       DEF Receive, GcInv, StagesInv, GcTypeOK, GcStates
  <2>2. /\ UNCHANGED <<ReadFields, Past, pieces, g.cut>>
        /\ UNCHANGED <<g.open, g.scan, g.pieceCh, g.hand>>
        /\ h \in g.stale /\ g'.stale = g.stale \ {h}
        /\ g'.deleting = g.deleting \cup {h}
    BY <1>7 DEF Receive, GcInv, StagesInv, GcTypeOK, GcStates,
              ReadFields, SweepFields, Past
  <2> QED BY <2>1, <2>2
          DEF GcInv, StagesInv, OnePlace, Phases, Doomed, NothingOverlooked,
              ReadFields, SweepFields, Past
<1>8. ASSUME NEW h \in Hashes, Delete(h) PROVE StagesInv'
  <2>1. GcTypeOK'
    BY <1>8, GcAssumption
       DEF Delete, GcInv, StagesInv, GcTypeOK, GcStates
  <2>2. /\ UNCHANGED <<ReadFields, Past, g.cut>>
        /\ UNCHANGED <<g.open, g.scan, g.pieceCh, g.hand, g.stale>>
        /\ h \in g.deleting /\ g'.deleting = g.deleting \ {h}
        /\ pieces' = pieces \ {h}
    BY <1>8 DEF Delete, GcInv, StagesInv, GcTypeOK, GcStates,
              ReadFields, SweepFields, Past
  <2> QED BY <2>1, <2>2
          DEF GcInv, StagesInv, OnePlace, Phases, Doomed, NothingOverlooked,
              ReadFields, SweepFields, Past
<1> QED BY <1>1, <1>2, <1>3, <1>4, <1>5, <1>6, <1>7, <1>8

\* A run begins or ends, or the others move.
LEMMA EdgesInv ==
    ASSUME GcInv,
           \/ \E n \in UpSems : Start(n)
           \/ Done \/ Dies \/ Others \/ UNCHANGED vars
    PROVE  StagesInv'
<1>1. ASSUME NEW n \in UpSems, Start(n) PROVE StagesInv'
  <2>1. /\ g' = [Idle(n) EXCEPT !.at = "list", !.listing = Torrents]
        /\ faults' \in 0 .. MaxFaults
    BY <1>1 DEF Start, GcInv, StagesInv, GcTypeOK
  <2>2. GcTypeOK'
    BY <2>1 DEF GcTypeOK, GcStates, Idle
  <2> QED BY <2>1, <2>2 DEF StagesInv, OnePlace, Phases, Doomed,
                            NothingOverlooked, Idle
<1>2. CASE Done \/ Dies
  <2>1. PICK n \in UpSems : g' = Idle(n)
    BY <1>2 DEF Done, Dies, GcInv, StagesInv, GcTypeOK, GcStates
  <2>2. faults' \in 0 .. MaxFaults
    BY <1>2 DEF Done, Dies, GcInv, StagesInv, GcTypeOK
  <2>3. GcTypeOK'
    BY <2>1, <2>2 DEF GcTypeOK, GcStates, Idle
  <2> QED BY <2>1, <2>3 DEF StagesInv, OnePlace, Phases, Doomed,
                            NothingOverlooked, Idle
<1>3. CASE Others
  <2>1. /\ UNCHANGED <<g, faults>> /\ steady' \subseteq steady
        /\ garbage' = garbage \ (pieces' \ pieces)
    BY <1>3 DEF Others
  <2> QED BY <2>1 DEF GcInv, StagesInv, GcTypeOK, OnePlace, Phases, Doomed,
                      NothingOverlooked
<1>4. CASE UNCHANGED vars
  BY <1>4 DEF vars, GcInv, StagesInv, GcTypeOK, OnePlace, Phases, Doomed,
              NothingOverlooked
<1> QED BY <1>1, <1>2, <1>3, <1>4

\* Only the operator removes a .torrent, and then it is not steady either.
LEMMA SteadyStays ==
    GcInv /\ [Next]_vars => (steady \subseteq markers)'
<1> SUFFICES ASSUME GcInv, [Next]_vars PROVE steady' \subseteq markers'
  OBVIOUS
<1>1. CASE Others
  <2>1. CASE \E j \in Jobs : B!JobStep(j) /\ UNCHANGED steady
    <3>1. markers \subseteq markers'
      BY <2>1 DEF B!JobStep, B!FetchStep, B!FetchStart, B!FetchList,
                  B!FetchCommit, B!RepackStep, B!RepackStart, B!RepackRead,
                  B!RepackCommit, B!Marks, B!PutPiece, B!JobDies
    <3> QED BY <2>1, <3>1 DEF GcInv
  <2>2. CASE \E t \in Torrents :
                 B!RemoveTorrent(t) /\ steady' = steady \ {t}
    BY <2>2 DEF B!RemoveTorrent, GcInv
  <2> QED BY <1>1, <2>1, <2>2 DEF Others
<1>2. CASE \E n \in UpSems : Start(n)
  BY <1>2 DEF Start
<1>3. CASE ~Others /\ ~\E n \in UpSems : Start(n)
  <2>1. UNCHANGED <<markers, steady>>
    BY <1>3 DEF Next, vars, Progress, ListNotFound, StreamNotFound, Dies,
                Listed, Sweep, StreamEnds, Done, ListKey, Send, Load, Skip,
                Stream, Take, Queue, Receive, Delete
  <2> QED BY <2>1 DEF GcInv
<1> QED BY <1>1, <1>2, <1>3

\* GcInv is an invariant, whatever the jobs and the operator do.
THEOREM GcInvariant == Spec => []GcInv
<1>1. Init => GcInv
  <2> SUFFICES ASSUME Init PROVE GcInv
    OBVIOUS
  <2>1. PICK n \in UpSems : g = Idle(n)
    BY DEF Init
  <2> QED BY <2>1, IdleInv, GcAssumption DEF Init, GcInv
<1>2. GcInv /\ [Next]_vars => GcInv'
  <2>1. GcInv /\ [Next]_vars => StagesInv'
    BY ListingInv, SweepingInv, EdgesInv DEF Next, Progress
  <2> QED BY <2>1, SteadyStays DEF GcInv
<1> QED BY <1>1, <1>2, PTL DEF Spec

\* The sweep judges by every .torrent that was there all the time and was not
\* skipped, unless List was cut short (gc.go:88-120, storage.go:227).
THEOREM SweepSees == Spec => []SweepSeesSteady
<1>1. GcInv => SweepSeesSteady
  BY DEF GcInv, StagesInv, Phases, SweepSeesSteady
<1> QED BY <1>1, GcInvariant, PTL

\* The channels and workers of the sweep overlook no garbage, unless
\* ListStream was cut short (gc.go:130-170).
THEOREM GarbageGoes == Spec => []NothingOverlooked
<1>1. GcInv => NothingOverlooked
  BY DEF GcInv, StagesInv
<1> QED BY <1>1, GcInvariant, PTL

-----------------------------------------------------------------------------
(* The refinement *)

\* Before the sweep gc only reads: a step of Bucket's gc when it has read a
\* .torrent, and when its sweep begins.
LEMMA ListingRefines ==
    ASSUME GcInv,
           \/ Listed \/ ListNotFound \/ Sweep
           \/ \E n \in UpSems : Start(n)
           \/ \E t \in Torrents : ListKey(t) \/ Send(t) \/ Load(t) \/ Skip(t)
    PROVE  [B!Next]_(B!vars)
<1>1. ASSUME NEW n \in UpSems, Start(n) PROVE B!GcStart
  <2>1. /\ gc = [at |-> "idle"]
        /\ gc' = [at |-> "load", loaded |-> {}, stale |-> {}]
        /\ UNCHANGED <<pieces, markers, job, risky>>
    BY <1>1 DEF Start, gc, Doomed, Idle
  <2> QED BY <2>1 DEF B!GcStart, B!IdleGc
<1>2. ASSUME \/ Listed \/ ListNotFound
             \/ \E t \in Torrents : ListKey(t) \/ Send(t) \/ Skip(t)
      PROVE  UNCHANGED <<pieces, markers, job, gc, risky>>
  <2> DEFINE Same ==
        /\ UNCHANGED <<pieces, markers, job, risky>>
        /\ UNCHANGED <<g.loaded, g.alive, SweepFields>>
        /\ g.at \in {"list", "load"} /\ g'.at \in {"list", "load"}
  <2>1. Same
    <3>1. CASE Listed
      BY <3>1 DEF Listed, GcInv, StagesInv, GcTypeOK, GcStates, SweepFields
    <3>2. CASE ListNotFound
      BY <3>2 DEF ListNotFound, GcInv, StagesInv, GcTypeOK, GcStates,
                  SweepFields
    <3>3. ASSUME NEW t \in Torrents, ListKey(t) PROVE Same
      BY <3>3 DEF ListKey, GcInv, StagesInv, GcTypeOK, GcStates, SweepFields
    <3>4. ASSUME NEW t \in Torrents, Send(t) PROVE Same
      BY <3>4 DEF Send, GcInv, StagesInv, GcTypeOK, GcStates, SweepFields
    <3>5. ASSUME NEW t \in Torrents, Skip(t) PROVE Same
      BY <3>5 DEF Skip, GcInv, StagesInv, Phases, GcTypeOK, GcStates,
                  SweepFields
    <3> QED BY <1>2, <3>1, <3>2, <3>3, <3>4, <3>5
  <2> QED BY <2>1 DEF gc, Doomed, SweepFields
<1>3. ASSUME NEW t \in Torrents, Load(t) PROVE B!GcLoad(t)
  <2>1. /\ g.at = "load" /\ t \in markers
        /\ UNCHANGED <<g.at, SweepFields>>
        /\ g'.loaded = g.loaded \cup {t}
        /\ UNCHANGED <<pieces, markers, job, risky>>
    BY <1>3 DEF Load, GcInv, StagesInv, Phases, GcTypeOK, GcStates, SweepFields
  <2>2. Doomed = {} /\ Doomed' = {}
    BY <2>1 DEF GcInv, StagesInv, Phases, Doomed, SweepFields
  <2>3. /\ gc = [at |-> "load", loaded |-> g.loaded, stale |-> {}]
        /\ gc' = [at |-> "load", loaded |-> g.loaded \cup {t}, stale |-> {}]
    BY <2>1, <2>2 DEF gc
  <2> QED BY <2>1, <2>3 DEF B!GcLoad
<1>4. CASE Sweep
  <2>1. /\ g.at = "load" /\ g'.at = "sweep" /\ g'.loaded = g.loaded
        /\ UNCHANGED <<g.alive, g.pieceCh, g.hand, g.stale, g.deleting>>
        /\ UNCHANGED <<pieces, markers>> /\ B!SweepBegins
    BY <1>4 DEF Sweep, AllLoaded, GcInv, StagesInv, GcTypeOK, GcStates
  <2>2. Doomed = {} /\ Doomed' = {}
    BY <2>1 DEF GcInv, StagesInv, Phases, Doomed
  <2>3. /\ gc = [at |-> "load", loaded |-> g.loaded, stale |-> {}]
        /\ gc' = [at |-> "sweep", loaded |-> g.loaded, stale |-> {}]
    BY <2>1, <2>2 DEF gc
  <2> QED BY <2>1, <2>3 DEF B!GcSweep, B!Next, B!GcStep
<1> QED BY <1>1, <1>2, <1>3, <1>4 DEF B!Next, B!GcStep, B!vars

\* In the sweep a key that is found dead joins those that Bucket's gc is about
\* to delete, and leaves them when it is deleted.
LEMMA SweepingRefines ==
    ASSUME GcInv,
           \/ StreamEnds \/ StreamNotFound
           \/ \E h \in Hashes :
                 Stream(h) \/ Take(h) \/ Queue(h) \/ Receive(h) \/ Delete(h)
    PROVE  [B!Next]_(B!vars)
<1>1. ASSUME g.at = "sweep", g'.at = "sweep", g'.loaded = g.loaded
      PROVE  /\ gc = [at |-> "sweep", loaded |-> g.loaded, stale |-> Doomed]
             /\ gc' = [at |-> "sweep", loaded |-> g.loaded, stale |-> Doomed']
  BY <1>1 DEF gc
<1>2. CASE StreamEnds \/ StreamNotFound
  <2>1. /\ UNCHANGED <<pieces, markers, job, risky, g.at, g.loaded, g.alive>>
        /\ UNCHANGED <<g.pieceCh, g.hand, g.stale, g.deleting>>
    <3>1. CASE StreamEnds
      BY <3>1 DEF StreamEnds, GcInv, StagesInv, GcTypeOK, GcStates
    <3>2. CASE StreamNotFound
      BY <3>2 DEF StreamNotFound, GcInv, StagesInv, GcTypeOK, GcStates
    <3> QED BY <1>2, <3>1, <3>2
  <2> QED BY <2>1 DEF gc, Doomed, B!vars
<1>3. ASSUME NEW h \in Hashes, Stream(h)
      PROVE  [B!Next]_(B!vars)
  <2>1. /\ UNCHANGED <<pieces, markers, job, risky, g.at, g.loaded, g.alive>>
        /\ UNCHANGED <<g.hand, g.stale, g.deleting>>
        /\ g.at = "sweep"
        /\ g'.pieceCh = g.pieceCh \cup ({h} \cap pieces)
    BY <1>3 DEF Stream, GcInv, StagesInv, Phases, GcTypeOK, GcStates
  <2>2. CASE h \in pieces \ g.alive
    <3>1. Doomed' = Doomed \cup {h}
      BY <2>1, <2>2 DEF Doomed
    <3>2. h \notin B!Alive
      BY <1>1, <2>1, <2>2 DEF B!Alive, GcInv, StagesInv
    <3> QED BY <1>1, <2>1, <2>2, <3>1, <3>2
            DEF B!GcFind, B!Sweeping, B!GcStep, B!Next
  <2>3. CASE h \notin pieces \ g.alive
    <3>1. Doomed' = Doomed
      BY <2>1, <2>3 DEF Doomed
    <3>2. gc' = gc
      BY <1>1, <2>1, <3>1
    <3> QED BY <2>1, <3>2 DEF B!vars
  <2> QED BY <2>2, <2>3
<1>4. ASSUME NEW h \in Hashes, Take(h) \/ Queue(h) \/ Receive(h)
      PROVE  [B!Next]_(B!vars)
  <2>1. UNCHANGED <<pieces, markers, job, risky, g.at, g.loaded, g.alive>>
    <3>1. CASE Take(h)
      BY <3>1 DEF Take, GcInv, StagesInv, GcTypeOK, GcStates
    <3>2. CASE Queue(h)
      BY <3>2 DEF Queue, GcInv, StagesInv, GcTypeOK, GcStates
    <3>3. CASE Receive(h)
      BY <3>3 DEF Receive, GcInv, StagesInv, GcTypeOK, GcStates
    <3> QED BY <1>4, <3>1, <3>2, <3>3
  <2>2. g.at = "sweep"
    BY <1>4 DEF Take, Queue, Receive, GcInv, StagesInv, Phases
  <2>3. Doomed' = Doomed
    <3>1. CASE Take(h)
      <4>1. /\ h \in g.pieceCh /\ g.hand = {}
            /\ g'.pieceCh = g.pieceCh \ {h} /\ g'.hand = {h} \ g.alive
            /\ UNCHANGED <<g.stale, g.deleting>>
        BY <3>1 DEF Take, GcInv, StagesInv, GcTypeOK, GcStates
      <4>2. (g'.pieceCh \ g'.alive) \cup g'.hand
              = (g.pieceCh \ g.alive) \cup g.hand
        BY <2>1, <4>1
      <4> QED BY <4>1, <4>2 DEF Doomed
    <3>2. CASE Queue(h)
      <4>1. /\ h \in g.hand /\ g'.hand = {} /\ g'.stale = g.stale \cup {h}
            /\ UNCHANGED <<g.pieceCh, g.deleting>>
        BY <3>2 DEF Queue, GcInv, StagesInv, GcTypeOK, GcStates
      <4>2. g.hand = {h}
        BY <4>1 DEF GcInv, StagesInv, OnePlace
      <4> QED BY <2>1, <4>1, <4>2 DEF Doomed
    <3>3. CASE Receive(h)
      <4>1. /\ h \in g.stale /\ g'.stale = g.stale \ {h}
            /\ g'.deleting = g.deleting \cup {h}
            /\ UNCHANGED <<g.pieceCh, g.hand>>
        BY <3>3 DEF Receive, GcInv, StagesInv, GcTypeOK, GcStates
      <4> QED BY <2>1, <4>1 DEF Doomed
    <3> QED BY <1>4, <3>1, <3>2, <3>3
  <2> QED BY <1>1, <2>1, <2>2, <2>3 DEF B!vars
<1>5. ASSUME NEW h \in Hashes, Delete(h) PROVE B!GcDelete(h)
  <2>1. /\ UNCHANGED <<markers, job, risky, g.at, g.loaded, g.alive>>
        /\ UNCHANGED <<g.pieceCh, g.hand, g.stale>>
        /\ g.at = "sweep" /\ pieces' = pieces \ {h}
        /\ h \in g.deleting /\ g'.deleting = g.deleting \ {h}
    BY <1>5 DEF Delete, GcInv, StagesInv, Phases, GcTypeOK, GcStates
  <2>2. Doomed' = Doomed \ {h} /\ h \in Doomed
    BY <2>1 DEF GcInv, StagesInv, OnePlace, Doomed
  <2> QED BY <1>1, <2>1, <2>2 DEF B!GcDelete, B!Sweeping
<1> QED BY <1>2, <1>3, <1>4, <1>5 DEF B!Next, B!GcStep

\* gc implements the gc of Bucket beside the same jobs: it starts as one, and
\* each of its steps is a step of Bucket or changes nothing there.
THEOREM GcImplementsBucket == Spec => ImplementsBucket
<1>1. Init => B!Init
  BY DEF Init
<1>2. GcInv /\ [Next]_vars => [B!Next]_(B!vars)
  <2> SUFFICES ASSUME GcInv, [Next]_vars PROVE [B!Next]_(B!vars)
    OBVIOUS
  <2>1. CASE Done \/ Dies
    <3>1. PICK H \in SUBSET Doomed : pieces' = pieces \ H
      <4>1. CASE Done
        BY <4>1 DEF Done
      <4>2. CASE Dies
        BY <4>2 DEF Dies, Doomed
      <4> QED BY <2>1, <4>1, <4>2
    <3>2. /\ g.at # "idle" /\ g'.at = "idle"
          /\ UNCHANGED <<markers, job, risky>>
      BY <2>1 DEF Done, Dies, Swept, Idle
    <3>3. gc # B!IdleGc /\ gc' = B!IdleGc /\ gc.stale = Doomed
      BY <3>2 DEF gc, B!IdleGc
    <3> QED BY <3>1, <3>2, <3>3 DEF B!GcEnds, B!GcStep, B!Next
  <2>2. CASE Others
    BY <2>2 DEF Others, B!Next
  <2>3. CASE UNCHANGED vars
    <3>1. UNCHANGED <<pieces, markers, job, risky, g>>
      BY <2>3 DEF vars
    <3> QED BY <3>1 DEF gc, Doomed, B!vars
  <2> QED BY <2>1, <2>2, <2>3, ListingRefines, SweepingRefines
          DEF Next, Progress
<1> QED BY <1>1, <1>2, GcInvariant, PTL DEF Spec, ImplementsBucket, B!Spec

-----------------------------------------------------------------------------
(* Why gc ends *)

\* GcNeverStuck holds: in every state of a run with a worker some step of it
\* can be taken (gc.go:73-170).
THEOREM GcGoesOn == Spec => []GcNeverStuck
<1>1. ASSUME GcInv, g.at # "idle", g.upSem > 0, ChanCap > 0
      PROVE  CanGoOn
  <2>1. /\ Cardinality({}) = 0 /\ g.upSem \in Nat /\ 2 * g.upSem > 0
    BY <1>1, FS_EmptySet, GcAssumption
       DEF GcInv, StagesInv, GcTypeOK, GcStates
  <2>2. CASE g.at = "list"
    BY <2>2 DEF CanGoOn
  <2>3. CASE g.at = "load"
    BY <1>1, <2>1, <2>3 DEF CanGoOn, AllLoaded
  <2>4. CASE g.at = "sweep"
    <3>1. g.pieceCh = {} /\ g.hand \cup g.stale \cup g.deleting = {}
            => Doomed = {}
      BY DEF Doomed
    <3> QED BY <1>1, <2>1, <2>4, <3>1 DEF CanGoOn, Swept
  <2> QED BY <1>1, <2>2, <2>3, <2>4 DEF GcInv, StagesInv, GcTypeOK, GcStates
<1>2. GcInv => GcNeverStuck
  BY <1>1 DEF GcNeverStuck
<1> QED BY <1>2, GcInvariant, PTL

\* A set of a stage loses a member.
LEMMA OneLess ==
    ASSUME NEW S, IsFiniteSet(S), NEW x \in S
    PROVE  Cardinality(S \ {x}) = Cardinality(S) - 1
BY FS_RemoveElement

\* A set of a stage gets a member, or had it.
LEMMA OneMore ==
    ASSUME NEW S, IsFiniteSet(S), NEW x
    PROVE  /\ Cardinality(S \cup {x}) \in Nat
           /\ Cardinality(S \cup {x}) <= Cardinality(S) + 1
<1>1. Cardinality(S) \in Nat
  BY FS_CardinalityType
<1>2. Cardinality(S \cup {x}) \in {Cardinality(S), Cardinality(S) + 1}
  BY FS_AddElement
<1> QED BY <1>1, <1>2

\* What the stages hold, counted.
Finite ==
    /\ IsFiniteSet(g.listing) /\ IsFiniteSet(g.keys) /\ IsFiniteSet(g.loading)
    /\ IsFiniteSet(g.scan) /\ IsFiniteSet(g.pieceCh) /\ IsFiniteSet(g.hand)
    /\ IsFiniteSet(g.stale) /\ IsFiniteSet(g.deleting)

Counts ==
    /\ StagesLeft \in Nat
    /\ Cardinality(g.listing) \in Nat /\ Cardinality(g.keys) \in Nat
    /\ Cardinality(g.loading) \in Nat
    /\ Cardinality(g.scan) \in Nat /\ Cardinality(g.pieceCh) \in Nat
    /\ Cardinality(g.hand) \in Nat /\ Cardinality(g.stale) \in Nat
    /\ Cardinality(g.deleting) \in Nat

LEMMA StagesAreFinite ==
    ASSUME IsFiniteSet(Torrents), IsFiniteSet(Hashes), GcInv
    PROVE  Finite /\ Counts
<1>1. /\ {g.listing, g.keys, g.loading} \subseteq SUBSET Torrents
      /\ {g.scan, g.pieceCh, g.hand, g.stale, g.deleting}
            \subseteq SUBSET Hashes
  BY DEF GcInv, StagesInv, GcTypeOK, GcStates
<1>2. \A S \in (SUBSET Torrents) \cup (SUBSET Hashes) : IsFiniteSet(S)
  BY FS_Subset
<1>3. Finite
  BY <1>1, <1>2 DEF Finite
<1>4. Cardinality(Hashes) \in Nat
  BY FS_CardinalityType
<1>5. StagesLeft \in Nat
  BY <1>4 DEF StagesLeft
<1> QED BY <1>3, <1>5, FS_CardinalityType DEF Finite, Counts

\* A .torrent goes to the next stage of the listing, or leaves them.
LEMMA TorrentMovesOn ==
    ASSUME GcInv, Finite, Counts, NEW t \in Torrents,
           ListKey(t) \/ Send(t) \/ Load(t) \/ Skip(t)
    PROVE  Work' < Work
<1>1. CASE ListKey(t)
  <2>1. /\ t \in g.listing /\ g'.listing = g.listing \ {t}
        /\ g'.keys = g.keys \cup ({t} \cap markers)
        /\ UNCHANGED <<g.at, g.loading, SweepFields>>
    BY <1>1 DEF ListKey, GcInv, StagesInv, GcTypeOK, GcStates, SweepFields
  <2>2. Cardinality(g'.listing) = Cardinality(g.listing) - 1
    BY <2>1, OneLess DEF Finite
  <2>3. /\ Cardinality(g'.keys) \in Nat
        /\ Cardinality(g'.keys) <= Cardinality(g.keys) + 1
    <3>1. CASE t \in markers
      <4>1. g'.keys = g.keys \cup {t}
        BY <2>1, <3>1
      <4> QED BY <4>1, OneMore DEF Finite
    <3>2. CASE t \notin markers
      <4>1. g'.keys = g.keys
        BY <2>1, <3>2
      <4> QED BY <4>1 DEF Counts
    <3> QED BY <3>1, <3>2
  <2> QED BY <2>1, <2>2, <2>3 DEF Work, StagesLeft, Counts, SweepFields
<1>2. CASE Send(t)
  <2>1. /\ t \in g.keys /\ g'.keys = g.keys \ {t}
        /\ g'.loading = g.loading \cup {t}
        /\ UNCHANGED <<g.at, g.listing, SweepFields>>
    BY <1>2 DEF Send, GcInv, StagesInv, GcTypeOK, GcStates, SweepFields
  <2>2. Cardinality(g'.keys) = Cardinality(g.keys) - 1
    BY <2>1, OneLess DEF Finite
  <2>3. /\ Cardinality(g'.loading) \in Nat
        /\ Cardinality(g'.loading) <= Cardinality(g.loading) + 1
    BY <2>1, OneMore DEF Finite
  <2> QED BY <2>1, <2>2, <2>3 DEF Work, StagesLeft, Counts, SweepFields
<1>3. CASE Load(t) \/ Skip(t)
  <2>1. /\ t \in g.loading /\ g'.loading = g.loading \ {t}
        /\ UNCHANGED <<g.at, g.listing, g.keys, SweepFields>>
    <3>1. CASE Load(t)
      BY <3>1 DEF Load, GcInv, StagesInv, GcTypeOK, GcStates, SweepFields
    <3>2. CASE Skip(t)
      BY <3>2 DEF Skip, GcInv, StagesInv, GcTypeOK, GcStates, SweepFields
    <3> QED BY <1>3, <3>1, <3>2
  <2>2. Cardinality(g'.loading) = Cardinality(g.loading) - 1
    BY <2>1, OneLess DEF Finite
  <2> QED BY <2>1, <2>2 DEF Work, StagesLeft, Counts, SweepFields
<1> QED BY <1>1, <1>2, <1>3

\* A key of the CAS does so in the sweep.
LEMMA PieceMovesOn ==
    ASSUME GcInv, Finite, Counts, NEW h \in Hashes,
           Stream(h) \/ Take(h) \/ Queue(h) \/ Receive(h) \/ Delete(h)
    PROVE  Work' < Work
<1>1. CASE Stream(h)
  <2>1. /\ h \in g.scan /\ g'.scan = g.scan \ {h}
        /\ g'.pieceCh = g.pieceCh \cup ({h} \cap pieces)
        /\ UNCHANGED <<ReadFields, g.open, g.hand, g.stale, g.deleting>>
    BY <1>1 DEF Stream, GcInv, StagesInv, GcTypeOK, GcStates, ReadFields
  <2>2. Cardinality(g'.scan) = Cardinality(g.scan) - 1
    BY <2>1, OneLess DEF Finite
  <2>3. /\ Cardinality(g'.pieceCh) \in Nat
        /\ Cardinality(g'.pieceCh) <= Cardinality(g.pieceCh) + 1
    <3>1. CASE h \in pieces
      <4>1. g'.pieceCh = g.pieceCh \cup {h}
        BY <2>1, <3>1
      <4> QED BY <4>1, OneMore DEF Finite
    <3>2. CASE h \notin pieces
      <4>1. g'.pieceCh = g.pieceCh
        BY <2>1, <3>2
      <4> QED BY <4>1 DEF Counts
    <3> QED BY <3>1, <3>2
  <2> QED BY <2>1, <2>2, <2>3 DEF Work, StagesLeft, Counts, ReadFields
<1>2. CASE Take(h)
  <2>1. /\ h \in g.pieceCh /\ g'.pieceCh = g.pieceCh \ {h}
        /\ g.hand = {} /\ g'.hand \in {{}, {h}}
        /\ UNCHANGED <<ReadFields, g.open, g.scan, g.stale, g.deleting>>
    BY <1>2 DEF Take, GcInv, StagesInv, GcTypeOK, GcStates, ReadFields
  <2>2. Cardinality(g'.pieceCh) = Cardinality(g.pieceCh) - 1
    BY <2>1, OneLess DEF Finite
  <2>3. Cardinality(g.hand) = 0
    BY <2>1, FS_EmptySet
  <2>4. Cardinality(g'.hand) \in {0, 1}
    <3>1. Cardinality({}) = 0 /\ Cardinality({h}) = 1
      BY FS_EmptySet, FS_Singleton
    <3> QED BY <2>1, <3>1
  <2> QED BY <2>1, <2>2, <2>3, <2>4 DEF Work, StagesLeft, Counts, ReadFields
<1>3. CASE Queue(h)
  <2>1. /\ g.hand = {h} /\ g'.hand = {}
        /\ g'.stale = g.stale \cup {h}
        /\ UNCHANGED <<ReadFields, g.open, g.scan, g.pieceCh, g.deleting>>
    BY <1>3 DEF Queue, GcInv, StagesInv, OnePlace, GcTypeOK, GcStates,
                ReadFields
  <2>2. Cardinality(g.hand) = 1 /\ Cardinality(g'.hand) = 0
    BY <2>1, FS_EmptySet, FS_Singleton
  <2>3. /\ Cardinality(g'.stale) \in Nat
        /\ Cardinality(g'.stale) <= Cardinality(g.stale) + 1
    BY <2>1, OneMore DEF Finite
  <2> QED BY <2>1, <2>2, <2>3 DEF Work, StagesLeft, Counts, ReadFields
<1>4. CASE Receive(h)
  <2>1. /\ h \in g.stale /\ g'.stale = g.stale \ {h}
        /\ g'.deleting = g.deleting \cup {h}
        /\ UNCHANGED <<ReadFields, g.open, g.scan, g.pieceCh, g.hand>>
    BY <1>4 DEF Receive, GcInv, StagesInv, GcTypeOK, GcStates, ReadFields
  <2>2. Cardinality(g'.stale) = Cardinality(g.stale) - 1
    BY <2>1, OneLess DEF Finite
  <2>3. /\ Cardinality(g'.deleting) \in Nat
        /\ Cardinality(g'.deleting) <= Cardinality(g.deleting) + 1
    BY <2>1, OneMore DEF Finite
  <2> QED BY <2>1, <2>2, <2>3 DEF Work, StagesLeft, Counts, ReadFields
<1>5. CASE Delete(h)
  <2>1. /\ h \in g.deleting /\ g'.deleting = g.deleting \ {h}
        /\ UNCHANGED <<ReadFields, g.open, g.scan, g.pieceCh, g.hand, g.stale>>
    BY <1>5 DEF Delete, GcInv, StagesInv, GcTypeOK, GcStates, ReadFields
  <2>2. Cardinality(g'.deleting) = Cardinality(g.deleting) - 1
    BY <2>1, OneLess DEF Finite
  <2> QED BY <2>1, <2>2 DEF Work, StagesLeft, Counts, ReadFields
<1> QED BY <1>1, <1>2, <1>3, <1>4, <1>5

\* gc itself goes to its next phase.
LEMMA PhaseMovesOn ==
    ASSUME GcInv, Counts, IsFiniteSet(Hashes),
           Listed \/ Sweep \/ StreamEnds \/ Done
    PROVE  Work' < Work
<1>1. Cardinality(Hashes) \in Nat /\ Cardinality({}) = 0
  BY FS_CardinalityType, FS_EmptySet
<1>2. CASE Listed
  <2>1. /\ g.at = "list" /\ g'.at = "load"
        /\ UNCHANGED <<g.listing, g.keys, g.loading, SweepFields>>
    BY <1>2 DEF Listed, GcInv, StagesInv, GcTypeOK, GcStates, SweepFields
  <2> QED BY <1>1, <2>1 DEF Work, StagesLeft, Counts, SweepFields
<1>3. CASE Sweep
  <2>1. /\ g.at = "load" /\ g'.at = "sweep" /\ g'.open
        /\ g.scan = {} /\ g'.scan = Hashes
        /\ UNCHANGED <<g.listing, g.keys, g.loading>>
        /\ UNCHANGED <<g.pieceCh, g.hand, g.stale, g.deleting>>
    BY <1>3 DEF Sweep, AllLoaded, GcInv, StagesInv, Phases, GcTypeOK, GcStates
  <2> QED BY <1>1, <2>1 DEF Work, StagesLeft, Counts
<1>4. CASE StreamEnds
  <2>1. /\ g.at = "sweep" /\ g.open /\ ~g'.open
        /\ UNCHANGED <<ReadFields, g.scan, g.pieceCh, g.hand, g.stale>>
        /\ UNCHANGED g.deleting
    BY <1>4
       DEF StreamEnds, GcInv, StagesInv, Phases, GcTypeOK, GcStates, ReadFields
  <2> QED BY <2>1 DEF Work, StagesLeft, Counts, ReadFields
<1>5. CASE Done
  <2>1. /\ g.at = "sweep" /\ g'.at = "idle"
        /\ g'.listing = {} /\ g'.keys = {} /\ g'.loading = {}
        /\ g'.scan = {} /\ g'.pieceCh = {} /\ g'.hand = {}
        /\ g'.stale = {} /\ g'.deleting = {}
    BY <1>5 DEF Done, Swept, Idle
  <2> QED BY <1>1, <2>1 DEF Work, StagesLeft, Counts
<1> QED BY <1>2, <1>3, <1>4, <1>5

\* What gc does not do itself leaves it no more to do.
LEMMA NoMoreToDo ==
    ASSUME GcInv, Counts, g.at # "idle",
           \/ ListNotFound \/ StreamNotFound \/ Dies \/ Others
           \/ UNCHANGED vars
    PROVE  Work' <= Work
<1>1. Cardinality({}) = 0
  BY FS_EmptySet
<1>2. CASE ListNotFound
  <2>1. /\ UNCHANGED <<g.at, g.loading, SweepFields>>
        /\ g'.listing = {} /\ g'.keys = {}
    BY <1>2
       DEF ListNotFound, GcInv, StagesInv, GcTypeOK, GcStates, SweepFields
  <2> QED BY <1>1, <2>1 DEF Work, StagesLeft, Counts, SweepFields
<1>3. CASE StreamNotFound
  <2>1. /\ UNCHANGED <<ReadFields, g.pieceCh, g.hand, g.stale, g.deleting>>
        /\ g.at = "sweep" /\ g.open /\ ~g'.open /\ g'.scan = {}
    BY <1>3 DEF StreamNotFound, GcInv, StagesInv, Phases, GcTypeOK, GcStates,
                ReadFields
  <2>2. StagesLeft = 2 /\ StagesLeft' = 1
    BY <2>1 DEF StagesLeft, ReadFields
  <2> QED BY <1>1, <2>1, <2>2 DEF Work, Counts, ReadFields
<1>4. CASE Dies
  <2>1. /\ g'.at = "idle"
        /\ g'.listing = {} /\ g'.keys = {} /\ g'.loading = {}
        /\ g'.scan = {} /\ g'.pieceCh = {} /\ g'.hand = {}
        /\ g'.stale = {} /\ g'.deleting = {}
    BY <1>4 DEF Dies, Idle
  <2> QED BY <1>1, <2>1 DEF Work, StagesLeft, Counts
<1>5. CASE Others \/ UNCHANGED vars
  <2>1. g' = g
    BY <1>5 DEF Others, vars
  <2> QED BY <2>1 DEF Work, StagesLeft, Counts
<1> QED BY <1>2, <1>3, <1>4, <1>5

\* With finitely many .torrents and pieces, a run of gc takes no more than
\* Work steps of its own: each one makes Work smaller, and nobody else makes
\* it greater (gc.go:55-177).
THEOREM GcWorkIsBounded ==
    ASSUME IsFiniteSet(Torrents), IsFiniteSet(Hashes)
    PROVE  Spec => [](Work \in Nat) /\ WorkShrinks
<1>1. GcInv => Finite /\ Counts
  BY StagesAreFinite
<1>2. GcInv => Work \in Nat
  BY <1>1 DEF Counts, Work
<1>3. GcInv /\ (Work \in Nat)' /\ [Next]_vars =>
         [/\ Progress => Work' < Work
          /\ g.at # "idle" => Work' <= Work]_vars
  <2> SUFFICES ASSUME GcInv, Work' \in Nat, [Next]_vars
               PROVE  /\ Progress => Work' < Work
                      /\ g.at # "idle" => Work' <= Work
    OBVIOUS
  <2>1. Finite /\ Counts /\ Work \in Nat
    BY <1>1, <1>2
  <2>2. Progress => Work' < Work
    BY <2>1, TorrentMovesOn, PieceMovesOn, PhaseMovesOn DEF Progress
  <2>3. ASSUME g.at # "idle" PROVE Work' <= Work
    <3>1. CASE Progress
      BY <2>1, <2>2, <3>1
    <3>2. CASE ~Progress
      <4>1. ~\E n \in UpSems : Start(n)
        BY <2>3 DEF Start
      <4> QED BY <2>1, <2>3, <3>2, <4>1, NoMoreToDo DEF Next
    <3> QED BY <3>1, <3>2
  <2> QED BY <2>2, <2>3
<1> QED BY <1>2, <1>3, GcInvariant, PTL DEF Spec, WorkShrinks
=============================================================================
