---------------------------- MODULE PieceStorage ----------------------------
(***************************************************************************)
(* The in-process half of `samogon fetch`: samogonStorage, the storage     *)
(* back end that the torrent client calls (fetch.go:20-260).  Many peer    *)
(* readers call WriteAt at once; a hasher goroutine per finished piece     *)
(* calls MarkComplete or MarkNotComplete; two channels used as counting    *)
(* semaphores, bufSem and sem, bound the buffers in RAM and the uploads.   *)
(*                                                                         *)
(* Every critical section of the code is one action: a goroutine that lets *)
(* go of pieceState.mu, or blocks on a channel, may be overtaken there.    *)
(*                                                                         *)
(* The torrent client is not in the repository.  Its side of the contract  *)
(* is what the storage code relies on: a chunk is handed to WriteAt only   *)
(* while it is wanted, a piece is hashed when all its chunks are written   *)
(* and no write of it is in flight, and after MarkComplete or              *)
(* MarkNotComplete it asks Completion() whether the piece is still needed. *)
(***************************************************************************)
EXTENDS Naturals, FiniteSets

CONSTANTS
    Pieces,          \* piece indices of the torrent
    Hashes,          \* piece hashes: the keys of the CAS
    HashOf,          \* HashOf[p]: the v1 hash of piece p (repeats are legal)
    Chunks,          \* the parts of a piece that one WriteAt carries
    Peers,           \* peer reader goroutines of the torrent client
    InflightPieces,  \* capacity of bufSem (--inflight-pieces)
    UpSem,           \* capacity of sem (--up-parallel)
    MaxFaults,       \* bound: how many faults one behaviour may contain
    NoBuf,           \* a nil buffer, and the contents of an empty object
    Absent           \* no object under this key

Bytes == {"zero", "good", "bad"}     \* never written, as hashed, corrupt
Contents == [Chunks -> Bytes]
Good == [c \in Chunks |-> "good"]    \* the bytes the piece hash stands for
Blank == [c \in Chunks |-> "zero"]   \* make([]byte, length)

ASSUME StorageAssumption ==
    /\ IsFiniteSet(Pieces) /\ IsFiniteSet(Peers)
    /\ Chunks # {}
    /\ HashOf \in [Pieces -> Hashes]
    /\ InflightPieces \in Nat
    /\ UpSem \in Nat
    /\ MaxFaults \in Nat
    /\ NoBuf \notin Contents /\ Absent \notin Contents /\ Absent # NoBuf

VARIABLES
    buf,       \* pieceState.buf: NoBuf or the bytes received so far
    complete,  \* pieceState.complete
    bufSem,    \* tokens in the bufSem channel
    sem,       \* tokens in the sem channel
    writer,    \* where each peer reader is inside WriteAt
    hasher,    \* where the hasher of each piece is
    dirty,     \* the client's record of the chunks it has received
    cas,       \* the objects under <root>/pieces/ that this torrent names
    known,     \* hashes listed in the CAS when the fetch started
    faults     \* faults so far: corrupt chunks, failing requests, crashes

storageVars ==
    <<buf, complete, bufSem, sem, writer, hasher, dirty, cas, known, faults>>

HasherStates ==
    {"idle", "upload", "put", "stored", "freeing", "return", "dropping"}

NotWriting == [at |-> "idle"]
Writing ==
    [at : {"acquire", "recheck"}, piece : Pieces, chunk : Chunks,
     bytes : {"good", "bad"}]

TypeOK ==
    /\ buf \in [Pieces -> Contents \cup {NoBuf}]
    /\ complete \in [Pieces -> BOOLEAN]
    /\ bufSem \in 0..InflightPieces
    /\ sem \in 0..UpSem
    /\ writer \in [Peers -> Writing \cup {NotWriting}]
    /\ hasher \in [Pieces -> HasherStates]
    /\ dirty \in [Pieces -> SUBSET Chunks]
    /\ cas \in [Hashes -> Contents \cup {NoBuf, Absent}]
    /\ known \in SUBSET Hashes
    /\ faults \in 0..MaxFaults

-----------------------------------------------------------------------------
(* Helpers *)

\* One more fault, if the bound MaxFaults allows it.
Fault == faults < MaxFaults /\ faults' = faults + 1

\* The writers that are inside WriteAt for piece p.
InFlight(p) == {w \in Peers : writer[w].at # "idle" /\ writer[w].piece = p}

\* Chunks of p whose bytes have reached the buffer.
Written(p) == dirty[p] \ {writer[w].chunk : w \in InFlight(p)}

\* Completion(): complete already, or in the CAS when the fetch started.
Completion(done, p) == done \/ HashOf[p] \in known

\* What ReadAt returns to the hasher (the CAS only once the piece is complete).
ReadAt(p) ==
    CASE buf[p] # NoBuf -> buf[p]
      [] buf[p] = NoBuf /\ complete[p] -> cas[HashOf[p]]
      [] OTHER -> NoBuf

\* The client still asks its peers for chunk c of piece p.
Wanted(p, c) == ~complete[p] /\ hasher[p] = "idle" /\ c \notin dirty[p]

\* The client starts hashing p: every chunk is in, no write is in flight.
ReadyToHash(p) ==
    /\ ~complete[p] /\ hasher[p] = "idle"
    /\ dirty[p] = Chunks
    /\ InFlight(p) = {}

-----------------------------------------------------------------------------
(* WriteAt, called by a peer reader with one chunk *)

\* Only a corrupt chunk costs a fault.
Delivered(b) == IF b = "bad" THEN Fault ELSE UNCHANGED faults

\* The piece has a buffer: copy under the lock and return.
WriteAtBuffered(w, p, c, b) ==
    /\ writer[w] = NotWriting /\ Wanted(p, c) /\ buf[p] # NoBuf
    /\ Delivered(b)
    /\ buf' = [buf EXCEPT ![p][c] = b]
    /\ dirty' = [dirty EXCEPT ![p] = @ \cup {c}]
    /\ UNCHANGED <<complete, bufSem, sem, writer, hasher, cas, known>>

\* The piece has no buffer: drop the lock, then wait for a slot.
WriteAtUnbuffered(w, p, c, b) ==
    /\ writer[w] = NotWriting /\ Wanted(p, c) /\ buf[p] = NoBuf
    /\ Delivered(b)
    /\ writer' = [writer EXCEPT ![w] =
                    [at |-> "acquire", piece |-> p, chunk |-> c, bytes |-> b]]
    /\ dirty' = [dirty EXCEPT ![p] = @ \cup {c}]
    /\ UNCHANGED <<buf, complete, bufSem, sem, hasher, cas, known>>

\* bufSem <- struct{}{} blocks while InflightPieces tokens are in the channel.
SlotFree == bufSem < InflightPieces

AcquireSlot(w) ==
    /\ writer[w].at = "acquire" /\ SlotFree
    /\ bufSem' = bufSem + 1
    /\ writer' = [writer EXCEPT ![w].at = "recheck"]
    /\ UNCHANGED <<buf, complete, sem, hasher, dirty, cas, known, faults>>

\* Mutant: the spare slot is never given back.
WriteAtRecheckLeaksSlot(w) ==
    LET p == writer[w].piece
        array == IF buf[p] = NoBuf THEN Blank ELSE buf[p]
    IN  /\ writer[w].at = "recheck"
        /\ buf' = [buf EXCEPT ![p] =
                     [array EXCEPT ![writer[w].chunk] = writer[w].bytes]]
        /\ writer' = [writer EXCEPT ![w] = NotWriting]
        /\ UNCHANGED <<complete, bufSem, sem, hasher, dirty, cas, known,
                       faults>>

\* Mutant: the buffer is allocated without looking again.
WriteAtRecheckReallocates(w) ==
    LET p == writer[w].piece
    IN  /\ writer[w].at = "recheck"
        /\ buf' = [buf EXCEPT ![p] =
                     [Blank EXCEPT ![writer[w].chunk] = writer[w].bytes]]
        /\ bufSem' = IF buf[p] = NoBuf THEN bufSem ELSE bufSem - 1
        /\ writer' = [writer EXCEPT ![w] = NotWriting]
        /\ UNCHANGED <<complete, sem, hasher, dirty, cas, known, faults>>

\* The lock again: another WriteAt may have allocated the buffer meanwhile;
\* then the spare slot goes back.
WriteAtRecheck(w) ==
    LET p == writer[w].piece
        array == IF buf[p] = NoBuf THEN Blank ELSE buf[p]
    IN  /\ writer[w].at = "recheck"
        /\ buf' = [buf EXCEPT ![p] =
                     [array EXCEPT ![writer[w].chunk] = writer[w].bytes]]
        /\ bufSem' = IF buf[p] = NoBuf THEN bufSem ELSE bufSem - 1
        /\ writer' = [writer EXCEPT ![w] = NotWriting]
        /\ UNCHANGED <<complete, sem, hasher, dirty, cas, known, faults>>

-----------------------------------------------------------------------------
(* The hasher of a piece: ReadAt, then MarkComplete or MarkNotComplete *)

\* Mutant: the buffer is taken out of the piece before the upload reads it.
MarkCompleteTakesBuffer(p) ==
    /\ ReadyToHash(p) /\ ReadAt(p) = Good
    /\ buf' = [buf EXCEPT ![p] = NoBuf]
    /\ hasher' = [hasher EXCEPT ![p] = "upload"]
    /\ UNCHANGED <<complete, bufSem, sem, writer, dirty, cas, known, faults>>

\* The hash matches; MarkComplete takes the slice under the lock.  The slice
\* shares the buffer's array: what PutBytes sends is what is in it then.
MarkComplete(p) ==
    /\ ReadyToHash(p) /\ ReadAt(p) = Good
    /\ hasher' = [hasher EXCEPT ![p] = "upload"]
    /\ UNCHANGED <<buf, complete, bufSem, sem, writer, dirty, cas, known,
                   faults>>

AcquireUpload(p) ==
    /\ hasher[p] = "upload" /\ sem < UpSem
    /\ sem' = sem + 1
    /\ hasher' = [hasher EXCEPT ![p] = "put"]
    /\ UNCHANGED <<buf, complete, bufSem, writer, dirty, cas, known, faults>>

PutPiece(p) ==
    /\ hasher[p] = "put"
    /\ cas' = [cas EXCEPT ![HashOf[p]] = buf[p]]
    /\ hasher' = [hasher EXCEPT ![p] = "stored"]
    /\ UNCHANGED <<buf, complete, bufSem, sem, writer, dirty, known, faults>>

\* Mutant: the error of PutObject is dropped.
PutPieceFailsUnnoticed(p) ==
    /\ hasher[p] = "put"
    /\ Fault
    /\ cas' \in {cas, [cas EXCEPT ![HashOf[p]] = buf[p]]}
    /\ hasher' = [hasher EXCEPT ![p] = "stored"]
    /\ UNCHANGED <<buf, complete, bufSem, sem, writer, dirty, known>>

\* PutBytes throws; the object may have landed all the same.  The buffer and
\* its slot stay, the error goes back to the client.
PutPieceFails(p) ==
    /\ hasher[p] = "put"
    /\ Fault
    /\ cas' \in {cas, [cas EXCEPT ![HashOf[p]] = buf[p]]}
    /\ hasher' = [hasher EXCEPT ![p] = "return"]
    /\ UNCHANGED <<buf, complete, bufSem, sem, writer, dirty, known>>

\* The second critical section of MarkComplete.
SetComplete(p) ==
    /\ hasher[p] = "stored"
    /\ complete' = [complete EXCEPT ![p] = TRUE]
    /\ buf' = [buf EXCEPT ![p] = NoBuf]
    /\ hasher' = [hasher EXCEPT ![p] =
                    IF buf[p] # NoBuf THEN "freeing" ELSE "return"]
    /\ UNCHANGED <<bufSem, sem, writer, dirty, cas, known, faults>>

\* `if freed { <-bufSem }`, outside the lock.
FreeSlot(p) ==
    /\ hasher[p] = "freeing"
    /\ bufSem' = bufSem - 1
    /\ hasher' = [hasher EXCEPT ![p] = "return"]
    /\ UNCHANGED <<buf, complete, sem, writer, dirty, cas, known, faults>>

\* Back in the client: all chunks of the piece are pending again and
\* Completion() says whether they are still wanted.
Reported(p) ==
    /\ dirty' = [dirty EXCEPT ![p] = {}]
    /\ complete' = [complete EXCEPT ![p] = Completion(@, p)]
    /\ hasher' = [hasher EXCEPT ![p] = "idle"]

\* Mutant: no deferred <-sem.
MarkCompleteKeepsToken(p) ==
    /\ hasher[p] = "return"
    /\ Reported(p)
    /\ UNCHANGED <<buf, bufSem, sem, writer, cas, known, faults>>

\* The deferred <-sem, then MarkComplete returns (its error is only logged).
MarkCompleteReturns(p) ==
    /\ hasher[p] = "return"
    /\ sem' = sem - 1
    /\ Reported(p)
    /\ UNCHANGED <<buf, bufSem, writer, cas, known, faults>>

\* The hash does not match: MarkNotComplete drops the buffer under the lock.
MarkNotComplete(p) ==
    /\ ReadyToHash(p) /\ ReadAt(p) # Good
    /\ IF buf[p] = NoBuf
       THEN Reported(p) /\ UNCHANGED buf
       ELSE /\ complete' = [complete EXCEPT ![p] = FALSE]
            /\ buf' = [buf EXCEPT ![p] = NoBuf]
            /\ hasher' = [hasher EXCEPT ![p] = "dropping"]
            /\ UNCHANGED dirty
    /\ UNCHANGED <<bufSem, sem, writer, cas, known, faults>>

MarkNotCompleteReturns(p) ==
    /\ hasher[p] = "dropping"
    /\ bufSem' = bufSem - 1
    /\ Reported(p)
    /\ UNCHANGED <<buf, sem, writer, cas, known, faults>>

-----------------------------------------------------------------------------
(* The specification *)

\* newSamogonStorage, and the client's first round of Completion() calls.
StorageReset(listed) ==
    /\ buf' = [p \in Pieces |-> NoBuf]
    /\ complete' = [p \in Pieces |-> HashOf[p] \in listed]
    /\ bufSem' = 0
    /\ sem' = 0
    /\ writer' = [w \in Peers |-> NotWriting]
    /\ hasher' = [p \in Pieces |-> "idle"]
    /\ dirty' = [p \in Pieces |-> {}]
    /\ known' = listed

StorageInit ==
    /\ cas \in [Hashes -> {Good, Absent}]
    /\ known \in SUBSET {h \in Hashes : cas[h] # Absent}
    /\ buf = [p \in Pieces |-> NoBuf]
    /\ complete = [p \in Pieces |-> HashOf[p] \in known]
    /\ bufSem = 0
    /\ sem = 0
    /\ writer = [w \in Peers |-> NotWriting]
    /\ hasher = [p \in Pieces |-> "idle"]
    /\ dirty = [p \in Pieces |-> {}]
    /\ faults = 0

WriteAt(w) ==
    \/ \E p \in Pieces, c \in Chunks, b \in {"good", "bad"} :
          WriteAtBuffered(w, p, c, b) \/ WriteAtUnbuffered(w, p, c, b)
    \/ AcquireSlot(w)
    \/ WriteAtRecheck(w)

Hasher(p) ==
    \/ MarkComplete(p)
    \/ AcquireUpload(p)
    \/ PutPiece(p)
    \/ PutPieceFails(p)
    \/ SetComplete(p)
    \/ FreeSlot(p)
    \/ MarkCompleteReturns(p)
    \/ MarkNotComplete(p)
    \/ MarkNotCompleteReturns(p)

\* Mutant: WaitAll looks at the hashers only.
AllIdle == \A p \in Pieces : hasher[p] = "idle"

\* client.WaitAll() returns: every piece complete, every hasher finished.
AllComplete == \A p \in Pieces : complete[p] /\ hasher[p] = "idle"

StorageNext ==
    \/ \E w \in Peers : WriteAt(w)
    \/ \E p \in Pieces : Hasher(p)

StorageSpec == StorageInit /\ [][StorageNext]_storageVars

-----------------------------------------------------------------------------
(* What the storage promises *)

\* Tokens owed to bufSem: one per buffer, one per writer that has a slot and
\* not yet used or returned it, one per hasher about to return one.
Buffered == {p \in Pieces : buf[p] # NoBuf}
SpareHolders == {w \in Peers : writer[w].at = "recheck"}
Releasing == {p \in Pieces : hasher[p] \in {"freeing", "dropping"}}
Uploading ==
    {p \in Pieces : hasher[p] \in {"put", "stored", "freeing", "return"}}

\* No slot of bufSem is leaked or returned twice, whichever way WriteAt,
\* MarkComplete and MarkNotComplete interleave (fetch.go:119-224).
SlotsAccounted ==
    bufSem = Cardinality(Buffered) + Cardinality(SpareHolders)
                + Cardinality(Releasing)

\* The RAM cap that fetch.go:28-36 promises: at most InflightPieces buffers,
\* although several writers may race to allocate them.
BuffersBounded == Cardinality(Buffered) <= InflightPieces

\* sem counts exactly the uploads in progress, on the error path too, so the
\* cap on concurrent PutObject calls holds and no token is lost (194-209).
UploadsAccounted == sem = Cardinality(Uploading)

\* A chunk that WriteAt has accepted is not wiped by a second writer that
\* allocates the same buffer (fetch.go:127-139).
NoLostWrite ==
    \A p \in Pieces : hasher[p] = "idle" =>
        \A c \in Written(p) : buf[p] # NoBuf /\ buf[p][c] # "zero"

\* Content addressing: an object under pieces/<hash> never holds anything but
\* the bytes with that hash, though the upload reads a shared buffer after
\* the lock is released (fetch.go:189-198).
CasHoldsVerified == \A h \in Hashes : cas[h] \in {Good, Absent}

\* complete is set only for a piece whose object is in the CAS (200-204, 238).
CompleteIsStored == \A p \in Pieces : complete[p] => cas[HashOf[p]] = Good

-----------------------------------------------------------------------------
(* The inductive invariant behind them *)

\* A piece is not hashed while a write of it is in flight, so none of its
\* writers can touch the buffer that an upload is reading.
WriterInv ==
    \A w \in Peers : writer[w].at # "idle" =>
        /\ hasher[writer[w].piece] = "idle"
        /\ ~complete[writer[w].piece]
        /\ writer[w].chunk \in dirty[writer[w].piece]

\* From the hash to SetComplete the buffer is there and holds the right bytes.
HasherInv ==
    \A p \in Pieces :
        /\ hasher[p] \in {"upload", "put", "stored"} => buf[p] = Good
        /\ hasher[p] = "stored" => cas[HashOf[p]] = Good
        /\ hasher[p] \in {"freeing", "dropping"} => buf[p] = NoBuf

KnownIsStored == \A h \in known : cas[h] = Good

IInv ==
    /\ TypeOK
    /\ WriterInv
    /\ HasherInv
    /\ NoLostWrite
    /\ CasHoldsVerified
    /\ KnownIsStored
    /\ CompleteIsStored
    /\ SlotsAccounted
    /\ UploadsAccounted
=============================================================================
