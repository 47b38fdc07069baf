---------------------------- MODULE FetchProofs -----------------------------
(***************************************************************************)
(* Theorems about PieceStorage and about Fetch, which runs it, for every   *)
(* value of their constants.                                               *)
(***************************************************************************)
EXTENDS Fetch, FiniteSetTheorems, TLAPS

-----------------------------------------------------------------------------
(* PieceStorage *)

\* What is known of the constants.
LEMMA Constants ==
    /\ Good \in Contents /\ Good # NoBuf /\ Good # Absent /\ NoBuf # Absent
    /\ Blank \in Contents /\ Blank # NoBuf
    /\ \A h \in Contents : h # NoBuf /\ h # Absent
BY StorageAssumption DEF Good, Blank, Contents, Bytes

\* One element more.
LEMMA CardAdd ==
    ASSUME NEW S, NEW T, NEW x, IsFiniteSet(S), x \notin S, T = S \cup {x}
    PROVE  Cardinality(T) = Cardinality(S) + 1
BY FS_AddElement

\* One element less.
LEMMA CardRemove ==
    ASSUME NEW S, NEW T, NEW x, IsFiniteSet(S), x \in S, T = S \ {x}
    PROVE  Cardinality(T) = Cardinality(S) - 1
BY FS_RemoveElement

\* A finite set with an element is not empty.
LEMMA CardPositive ==
    ASSUME NEW S, NEW x, IsFiniteSet(S), x \in S
    PROVE  Cardinality(S) \in Nat /\ Cardinality(S) >= 1
BY FS_EmptySet, FS_CardinalityType

\* The sets that the semaphores count are finite.
LEMMA Finite ==
    /\ IsFiniteSet(Buffered) /\ Cardinality(Buffered) \in Nat
    /\ IsFiniteSet(SpareHolders) /\ Cardinality(SpareHolders) \in Nat
    /\ IsFiniteSet(Releasing) /\ Cardinality(Releasing) \in Nat
    /\ IsFiniteSet(Uploading) /\ Cardinality(Uploading) \in Nat
<1>1. /\ Buffered \subseteq Pieces /\ SpareHolders \subseteq Peers
      /\ Releasing \subseteq Pieces /\ Uploading \subseteq Pieces
  BY DEF Buffered, SpareHolders, Releasing, Uploading
<1> QED BY <1>1, StorageAssumption, FS_Subset, FS_CardinalityType

\* A write into an existing buffer touches only chunks that are awaited.
LEMMA WriteAtBufferedStep ==
    ASSUME IInv, NEW w \in Peers, NEW p \in Pieces, NEW c \in Chunks,
           NEW b \in {"good", "bad"},
           WriteAtBuffered(w, p, c, b)
    PROVE  IInv'
<1>1. TypeOK'
  BY StorageAssumption
     DEF IInv, WriteAtBuffered, TypeOK, Delivered, Fault, Wanted, Writing,
         NotWriting, HasherStates, Contents, Bytes
<1>2. WriterInv'
  BY DEF IInv, WriteAtBuffered, WriterInv
<1>3. HasherInv'
  BY DEF IInv, WriteAtBuffered, HasherInv, Delivered, Fault, Wanted
<1>4. NoLostWrite'
  <2>1. \A q \in Pieces : InFlight(q)' = InFlight(q)
    BY DEF WriteAtBuffered, InFlight
  <2>2. Written(p)' \subseteq Written(p) \cup {c}
    BY <2>1 DEF IInv, TypeOK, WriteAtBuffered, Written, InFlight
  <2>3. \A q \in Pieces \ {p} : Written(q)' = Written(q) /\ buf'[q] = buf[q]
    BY <2>1 DEF IInv, TypeOK, WriteAtBuffered, Written, InFlight
  <2>4. /\ buf'[p] # NoBuf /\ buf'[p][c] = b
        /\ \A d \in Chunks \ {c} : buf'[p][d] = buf[p][d]
    BY Constants DEF IInv, TypeOK, WriteAtBuffered, Contents, Bytes
  <2>5. Written(p) \subseteq Chunks
    BY DEF IInv, TypeOK, Written
  <2>6. hasher' = hasher
    BY DEF WriteAtBuffered
  <2> QED BY <2>2, <2>3, <2>4, <2>5, <2>6 DEF IInv, NoLostWrite
<1>5. CasHoldsVerified'
  BY DEF IInv, WriteAtBuffered, CasHoldsVerified
<1>6. KnownIsStored'
  BY DEF IInv, WriteAtBuffered, KnownIsStored
<1>7. CompleteIsStored'
  BY DEF IInv, WriteAtBuffered, CompleteIsStored
<1>8. SlotsAccounted'
  <2>1. buf'[p] # NoBuf
    BY Constants DEF IInv, TypeOK, WriteAtBuffered, Contents, Bytes
  <2>2. Buffered' = Buffered
    BY <2>1 DEF IInv, TypeOK, WriteAtBuffered, Buffered
  <2>3. SpareHolders' = SpareHolders /\ Releasing' = Releasing
    BY DEF WriteAtBuffered, SpareHolders, Releasing
  <2> QED BY <2>2, <2>3 DEF IInv, WriteAtBuffered, SlotsAccounted
<1>9. UploadsAccounted'
  BY DEF IInv, WriteAtBuffered, UploadsAccounted, Uploading
<1> QED BY <1>1, <1>2, <1>3, <1>4, <1>5, <1>6, <1>7, <1>8, <1>9 DEF IInv

\* A writer that found no buffer holds nothing yet.
LEMMA WriteAtUnbufferedStep ==
    ASSUME IInv, NEW w \in Peers, NEW p \in Pieces, NEW c \in Chunks,
           NEW b \in {"good", "bad"},
           WriteAtUnbuffered(w, p, c, b)
    PROVE  IInv'
<1>1. TypeOK'
  BY StorageAssumption
     DEF IInv, WriteAtUnbuffered, TypeOK, Delivered, Fault, Wanted, Writing,
         NotWriting, HasherStates, Contents, Bytes
<1>2. WriterInv'
  BY DEF IInv, WriteAtUnbuffered, WriterInv, Delivered, Fault, Wanted, TypeOK
<1>3. HasherInv'
  BY DEF IInv, WriteAtUnbuffered, HasherInv
<1>4. NoLostWrite'
  BY DEF IInv, WriteAtUnbuffered, NoLostWrite, Delivered, Fault, Wanted,
     TypeOK, Written, InFlight, NotWriting, WriterInv, HasherInv
<1>5. CasHoldsVerified'
  BY DEF IInv, WriteAtUnbuffered, CasHoldsVerified
<1>6. KnownIsStored'
  BY DEF IInv, WriteAtUnbuffered, KnownIsStored
<1>7. CompleteIsStored'
  BY DEF IInv, WriteAtUnbuffered, CompleteIsStored
<1>8. SlotsAccounted'
  <2>1. SpareHolders' = SpareHolders
    BY DEF IInv, TypeOK, WriteAtUnbuffered, SpareHolders, NotWriting
  <2>2. Buffered' = Buffered /\ Releasing' = Releasing
    BY DEF WriteAtUnbuffered, Buffered, Releasing
  <2> QED BY <2>1, <2>2 DEF IInv, WriteAtUnbuffered, SlotsAccounted
<1>9. UploadsAccounted'
  BY DEF IInv, WriteAtUnbuffered, UploadsAccounted, Uploading
<1> QED BY <1>1, <1>2, <1>3, <1>4, <1>5, <1>6, <1>7, <1>8, <1>9 DEF IInv

\* A token is taken from the semaphore and held by one more writer.
LEMMA AcquireSlotStep ==
    ASSUME IInv, NEW w \in Peers,
           AcquireSlot(w)
    PROVE  IInv'
<1>1. TypeOK'
  BY StorageAssumption
     DEF IInv, AcquireSlot, TypeOK, SlotFree, Writing, NotWriting,
         HasherStates, Contents, Bytes
<1>2. WriterInv'
  BY DEF IInv, AcquireSlot, WriterInv
<1>3. HasherInv'
  BY DEF IInv, AcquireSlot, HasherInv
<1>4. NoLostWrite'
  BY DEF IInv, AcquireSlot, NoLostWrite, Written, InFlight
<1>5. CasHoldsVerified'
  BY DEF IInv, AcquireSlot, CasHoldsVerified
<1>6. KnownIsStored'
  BY DEF IInv, AcquireSlot, KnownIsStored
<1>7. CompleteIsStored'
  BY DEF IInv, AcquireSlot, CompleteIsStored
<1>8. SlotsAccounted'
  <2>1. SpareHolders' = SpareHolders \cup {w} /\ w \notin SpareHolders
    BY DEF IInv, TypeOK, AcquireSlot, SpareHolders, Writing, NotWriting
  <2>2. Buffered' = Buffered /\ Releasing' = Releasing
    BY DEF AcquireSlot, Buffered, Releasing
  <2>3. Cardinality(SpareHolders') = Cardinality(SpareHolders) + 1
    BY <2>1, Finite, CardAdd
  <2> QED BY <2>2, <2>3, Finite DEF IInv, AcquireSlot, SlotsAccounted
<1>9. UploadsAccounted'
  BY DEF IInv, AcquireSlot, UploadsAccounted, Uploading
<1> QED BY <1>1, <1>2, <1>3, <1>4, <1>5, <1>6, <1>7, <1>8, <1>9 DEF IInv

\* The second look turns the token into a buffer, or gives it back.
LEMMA WriteAtRecheckStep ==
    ASSUME IInv, NEW w \in Peers,
           WriteAtRecheck(w)
    PROVE  IInv'
<1>0. bufSem >= 1
  <2>1. w \in SpareHolders
    BY DEF WriteAtRecheck, SpareHolders
  <2> QED BY <2>1, Finite, CardPositive DEF IInv, SlotsAccounted
<1>p. PICK p \in Pieces, c \in Chunks, b \in {"good", "bad"} :
         writer[w] = [at |-> "recheck", piece |-> p, chunk |-> c, bytes |-> b]
  BY DEF IInv, TypeOK, WriteAtRecheck, Writing, NotWriting
<1>h. hasher[p] = "idle"
  BY <1>p DEF IInv, WriterInv
<1>b. /\ buf' \in [Pieces -> Contents \cup {NoBuf}]
      /\ \A q \in Pieces \ {p} : buf'[q] = buf[q]
      /\ buf'[p] # NoBuf /\ buf'[p][c] = b
      /\ buf[p] # NoBuf => \A d \in Chunks \ {c} : buf'[p][d] = buf[p][d]
  <2> DEFINE array == IF buf[p] = NoBuf THEN Blank ELSE buf[p]
             new == [array EXCEPT ![c] = b]
  <2>1. array \in Contents
    BY Constants DEF IInv, TypeOK
  <2>2. /\ new \in Contents /\ new[c] = b
        /\ \A d \in Chunks \ {c} : new[d] = array[d]
    BY <2>1 DEF Contents, Bytes
  <2>3. buf' = [buf EXCEPT ![p] = new]
    BY <1>p DEF WriteAtRecheck
  <2>4. buf'[p] = new /\ \A q \in Pieces \ {p} : buf'[q] = buf[q]
    BY <2>3 DEF IInv, TypeOK
  <2> HIDE DEF new
  <2> QED BY <2>2, <2>3, <2>4, Constants DEF IInv, TypeOK
<1>1. TypeOK'
  BY <1>0, <1>p, <1>b, StorageAssumption
     DEF IInv, WriteAtRecheck, TypeOK, Writing, NotWriting
<1>2. WriterInv'
  BY DEF IInv, WriteAtRecheck, WriterInv, TypeOK, Writing, NotWriting,
     InFlight
<1>3. HasherInv'
  BY DEF IInv, WriteAtRecheck, HasherInv, TypeOK, WriterInv
<1>4. NoLostWrite'
  <2>1. \A q \in Pieces : InFlight(q)' = InFlight(q) \ {w}
    BY DEF IInv, TypeOK, WriteAtRecheck, InFlight, NotWriting
  <2>2. \A q \in Pieces : \A v \in InFlight(q) \ {w} : writer'[v] = writer[v]
    BY DEF IInv, TypeOK, WriteAtRecheck, InFlight
  <2>3. dirty' = dirty /\ hasher' = hasher
    BY DEF WriteAtRecheck
  <2>4. \A q \in Pieces \ {p} : Written(q)' = Written(q)
    <3>1. \A q \in Pieces \ {p} : w \notin InFlight(q)
      BY <1>p DEF InFlight
    <3> QED BY <3>1, <2>1, <2>2, <2>3 DEF Written
  <2>5. Written(p)' \subseteq Written(p) \cup {c}
    BY <2>1, <2>2, <2>3, <1>p DEF Written
  <2>6. Written(p) \subseteq Chunks
    BY DEF IInv, TypeOK, Written
  <2>7. \A d \in Written(p) \cup {c} : buf'[p] # NoBuf /\ buf'[p][d] # "zero"
    BY <1>b, <1>h, <2>6 DEF IInv, NoLostWrite
  <2> QED BY <2>3, <2>4, <2>5, <2>7, <1>b DEF IInv, NoLostWrite
<1>5. CasHoldsVerified'
  BY DEF IInv, WriteAtRecheck, CasHoldsVerified
<1>6. KnownIsStored'
  BY DEF IInv, WriteAtRecheck, KnownIsStored
<1>7. CompleteIsStored'
  BY DEF IInv, WriteAtRecheck, CompleteIsStored
<1>8. SlotsAccounted'
  <2>1. w \in SpareHolders /\ SpareHolders' = SpareHolders \ {w}
    BY DEF IInv, TypeOK, WriteAtRecheck, SpareHolders, Writing, NotWriting
  <2>2. Cardinality(SpareHolders') = Cardinality(SpareHolders) - 1
    BY <2>1, Finite, CardRemove
  <2>3. Releasing' = Releasing
    BY DEF WriteAtRecheck, Releasing
  <2>4. CASE buf[p] = NoBuf
    <3>1. p \notin Buffered /\ Buffered' = Buffered \cup {p}
      BY <2>4, <1>b DEF IInv, TypeOK, Buffered
    <3>2. Cardinality(Buffered') = Cardinality(Buffered) + 1
      BY <3>1, Finite, CardAdd
    <3>3. bufSem' = bufSem
      BY <2>4, <1>p DEF WriteAtRecheck
    <3> QED BY <3>2, <3>3, <2>2, <2>3, Finite DEF IInv, SlotsAccounted
  <2>5. CASE buf[p] # NoBuf
    <3>1. Buffered' = Buffered
      BY <2>5, <1>b DEF IInv, TypeOK, Buffered
    <3>2. bufSem' = bufSem - 1
      BY <2>5, <1>p DEF WriteAtRecheck
    <3> QED BY <3>1, <3>2, <2>2, <2>3, Finite DEF IInv, SlotsAccounted
  <2> QED BY <2>4, <2>5
<1>9. UploadsAccounted'
  BY DEF IInv, WriteAtRecheck, UploadsAccounted, Uploading
<1> QED BY <1>1, <1>2, <1>3, <1>4, <1>5, <1>6, <1>7, <1>8, <1>9 DEF IInv

\* Only a buffer whose bytes are right goes to MarkComplete.
LEMMA MarkCompleteStep ==
    ASSUME IInv, NEW p \in Pieces,
           MarkComplete(p)
    PROVE  IInv'
<1>1. TypeOK'
  BY DEF IInv, MarkComplete, TypeOK, ReadyToHash, ReadAt, HasherStates
<1>2. WriterInv'
  BY DEF IInv, MarkComplete, WriterInv, ReadyToHash, ReadAt, TypeOK, Writing,
     NotWriting, InFlight
<1>3. HasherInv'
  BY DEF IInv, MarkComplete, HasherInv, ReadyToHash, ReadAt
<1>4. NoLostWrite'
  BY DEF IInv, MarkComplete, NoLostWrite, Written, InFlight
<1>5. CasHoldsVerified'
  BY DEF IInv, MarkComplete, CasHoldsVerified
<1>6. KnownIsStored'
  BY DEF IInv, MarkComplete, KnownIsStored
<1>7. CompleteIsStored'
  BY DEF IInv, MarkComplete, CompleteIsStored
<1>8. SlotsAccounted'
  BY DEF IInv, MarkComplete, SlotsAccounted, ReadyToHash, ReadAt, Buffered,
     SpareHolders, Releasing, TypeOK
<1>9. UploadsAccounted'
  BY DEF IInv, MarkComplete, UploadsAccounted, ReadyToHash, ReadAt, Uploading
<1> QED BY <1>1, <1>2, <1>3, <1>4, <1>5, <1>6, <1>7, <1>8, <1>9 DEF IInv

\* One more upload, one more token of sem.
LEMMA AcquireUploadStep ==
    ASSUME IInv, NEW p \in Pieces,
           AcquireUpload(p)
    PROVE  IInv'
<1>1. TypeOK'
  BY StorageAssumption DEF IInv, AcquireUpload, TypeOK, HasherStates
<1>2. WriterInv'
  BY DEF IInv, AcquireUpload, WriterInv
<1>3. HasherInv'
  BY DEF IInv, AcquireUpload, HasherInv
<1>4. NoLostWrite'
  BY DEF IInv, AcquireUpload, NoLostWrite, Written, InFlight
<1>5. CasHoldsVerified'
  BY DEF IInv, AcquireUpload, CasHoldsVerified
<1>6. KnownIsStored'
  BY DEF IInv, AcquireUpload, KnownIsStored
<1>7. CompleteIsStored'
  BY DEF IInv, AcquireUpload, CompleteIsStored
<1>8. SlotsAccounted'
  BY DEF IInv, AcquireUpload, SlotsAccounted, Buffered, SpareHolders,
     Releasing, TypeOK
<1>9. UploadsAccounted'
  <2>1. Uploading' = Uploading \cup {p} /\ p \notin Uploading
    BY DEF IInv, TypeOK, AcquireUpload, Uploading
  <2> QED BY <2>1, Finite, CardAdd DEF IInv, AcquireUpload, UploadsAccounted
<1> QED BY <1>1, <1>2, <1>3, <1>4, <1>5, <1>6, <1>7, <1>8, <1>9 DEF IInv

\* The buffer that is uploaded is still the verified one.
LEMMA PutPieceStep ==
    ASSUME IInv, NEW p \in Pieces,
           PutPiece(p)
    PROVE  IInv'
<1>1. TypeOK'
  BY DEF IInv, PutPiece, TypeOK, HasherStates
<1>2. WriterInv'
  BY DEF IInv, PutPiece, WriterInv
<1>3. HasherInv'
  BY StorageAssumption DEF IInv, PutPiece, HasherInv, TypeOK, WriterInv
<1>4. NoLostWrite'
  BY DEF IInv, PutPiece, NoLostWrite, Written, InFlight
<1>5. CasHoldsVerified'
  BY DEF IInv, PutPiece, CasHoldsVerified, HasherInv, TypeOK
<1>6. KnownIsStored'
  BY DEF IInv, PutPiece, KnownIsStored, HasherInv, TypeOK
<1>7. CompleteIsStored'
  BY DEF IInv, PutPiece, CompleteIsStored, KnownIsStored, HasherInv, TypeOK
<1>8. SlotsAccounted'
  BY DEF IInv, PutPiece, SlotsAccounted, Buffered, SpareHolders, Releasing,
     TypeOK
<1>9. UploadsAccounted'
  BY DEF IInv, PutPiece, UploadsAccounted, Uploading
<1> QED BY <1>1, <1>2, <1>3, <1>4, <1>5, <1>6, <1>7, <1>8, <1>9 DEF IInv

\* A failing upload stores the verified bytes or nothing.
LEMMA PutPieceFailsStep ==
    ASSUME IInv, NEW p \in Pieces,
           PutPieceFails(p)
    PROVE  IInv'
<1>1. TypeOK'
  BY StorageAssumption DEF IInv, PutPieceFails, TypeOK, Fault, HasherStates
<1>2. WriterInv'
  BY DEF IInv, PutPieceFails, WriterInv
<1>3. HasherInv'
  BY StorageAssumption
     DEF IInv, PutPieceFails, HasherInv, Fault, TypeOK, WriterInv
<1>4. NoLostWrite'
  BY DEF IInv, PutPieceFails, NoLostWrite, Written, InFlight
<1>5. CasHoldsVerified'
  BY DEF IInv, PutPieceFails, CasHoldsVerified, Fault, HasherInv, TypeOK
<1>6. KnownIsStored'
  BY DEF IInv, PutPieceFails, KnownIsStored, Fault, HasherInv, TypeOK
<1>7. CompleteIsStored'
  BY StorageAssumption
     DEF IInv, PutPieceFails, CompleteIsStored, Fault, KnownIsStored,
         HasherInv, TypeOK
<1>8. SlotsAccounted'
  BY DEF IInv, PutPieceFails, SlotsAccounted, Buffered, SpareHolders,
     Releasing, TypeOK
<1>9. UploadsAccounted'
  BY DEF IInv, PutPieceFails, UploadsAccounted, Uploading
<1> QED BY <1>1, <1>2, <1>3, <1>4, <1>5, <1>6, <1>7, <1>8, <1>9 DEF IInv

\* A piece is complete only after it was stored; its buffer goes.
LEMMA SetCompleteStep ==
    ASSUME IInv, NEW p \in Pieces,
           SetComplete(p)
    PROVE  IInv'
<1>1. TypeOK'
  BY DEF IInv, SetComplete, TypeOK, HasherStates
<1>2. WriterInv'
  BY DEF IInv, SetComplete, WriterInv
<1>3. HasherInv'
  BY DEF IInv, SetComplete, HasherInv, TypeOK
<1>4. NoLostWrite'
  BY DEF IInv, SetComplete, NoLostWrite, Written, InFlight
<1>5. CasHoldsVerified'
  BY DEF IInv, SetComplete, CasHoldsVerified
<1>6. KnownIsStored'
  BY DEF IInv, SetComplete, KnownIsStored
<1>7. CompleteIsStored'
  BY DEF IInv, SetComplete, CompleteIsStored, KnownIsStored, HasherInv, TypeOK
<1>8. SlotsAccounted'
  <2>1. p \in Buffered /\ Buffered' = Buffered \ {p}
    BY Constants DEF IInv, TypeOK, HasherInv, SetComplete, Buffered
  <2>2. p \notin Releasing /\ Releasing' = Releasing \cup {p}
    BY Constants DEF IInv, TypeOK, HasherInv, SetComplete, Releasing
  <2>3. SpareHolders' = SpareHolders
    BY DEF SetComplete, SpareHolders
  <2>4. /\ Cardinality(Buffered') = Cardinality(Buffered) - 1
        /\ Cardinality(Releasing') = Cardinality(Releasing) + 1
    BY <2>1, <2>2, Finite, CardAdd, CardRemove
  <2> QED BY <2>3, <2>4, Finite DEF IInv, SetComplete, SlotsAccounted
<1>9. UploadsAccounted'
  BY DEF IInv, SetComplete, UploadsAccounted, Uploading
<1> QED BY <1>1, <1>2, <1>3, <1>4, <1>5, <1>6, <1>7, <1>8, <1>9 DEF IInv

\* The token of the dropped buffer returns to the semaphore.
LEMMA FreeSlotStep ==
    ASSUME IInv, NEW p \in Pieces,
           FreeSlot(p)
    PROVE  IInv'
<1>0. bufSem >= 1
  <2>1. p \in Releasing
    BY DEF FreeSlot, Releasing
  <2> QED BY <2>1, Finite, CardPositive DEF IInv, SlotsAccounted
<1>1. TypeOK'
  BY <1>0, Constants, StorageAssumption
     DEF IInv, FreeSlot, TypeOK, HasherStates
<1>2. WriterInv'
  BY DEF IInv, FreeSlot, WriterInv
<1>3. HasherInv'
  BY DEF IInv, FreeSlot, HasherInv
<1>4. NoLostWrite'
  BY DEF IInv, FreeSlot, NoLostWrite, Written, InFlight
<1>5. CasHoldsVerified'
  BY DEF IInv, FreeSlot, CasHoldsVerified
<1>6. KnownIsStored'
  BY DEF IInv, FreeSlot, KnownIsStored
<1>7. CompleteIsStored'
  BY DEF IInv, FreeSlot, CompleteIsStored
<1>8. SlotsAccounted'
  <2>1. p \in Releasing /\ Releasing' = Releasing \ {p}
    BY DEF IInv, TypeOK, FreeSlot, Releasing
  <2>2. Buffered' = Buffered /\ SpareHolders' = SpareHolders
    BY DEF FreeSlot, Buffered, SpareHolders
  <2>3. Cardinality(Releasing') = Cardinality(Releasing) - 1
    BY <2>1, Finite, CardRemove
  <2> QED BY <2>2, <2>3, Finite DEF IInv, FreeSlot, SlotsAccounted
<1>9. UploadsAccounted'
  BY DEF IInv, FreeSlot, UploadsAccounted, Uploading
<1> QED BY <1>1, <1>2, <1>3, <1>4, <1>5, <1>6, <1>7, <1>8, <1>9 DEF IInv

\* The token of sem returns, after a success or a failure.
LEMMA MarkCompleteReturnsStep ==
    ASSUME IInv, NEW p \in Pieces,
           MarkCompleteReturns(p)
    PROVE  IInv'
<1>0. sem >= 1
  <2>1. p \in Uploading
    BY DEF MarkCompleteReturns, Uploading
  <2> QED BY <2>1, Finite, CardPositive DEF IInv, UploadsAccounted
<1>1. TypeOK'
  BY <1>0, Constants, StorageAssumption
     DEF IInv, MarkCompleteReturns, Reported, Completion, TypeOK, HasherStates
<1>2. WriterInv'
  BY DEF IInv, MarkCompleteReturns, WriterInv, Reported, Completion
<1>3. HasherInv'
  BY DEF IInv, MarkCompleteReturns, HasherInv, Reported, Completion
<1>4. NoLostWrite'
  BY DEF IInv, MarkCompleteReturns, NoLostWrite, Reported, Completion,
     Written, InFlight, TypeOK
<1>5. CasHoldsVerified'
  BY DEF IInv, MarkCompleteReturns, CasHoldsVerified
<1>6. KnownIsStored'
  BY DEF IInv, MarkCompleteReturns, KnownIsStored
<1>7. CompleteIsStored'
  BY DEF IInv, MarkCompleteReturns, CompleteIsStored, Reported, Completion,
     KnownIsStored, HasherInv, TypeOK
<1>8. SlotsAccounted'
  BY DEF IInv, MarkCompleteReturns, SlotsAccounted, Reported, Completion,
     Buffered, SpareHolders, Releasing
<1>9. UploadsAccounted'
  <2>1. p \in Uploading /\ Uploading' = Uploading \ {p}
    BY DEF IInv, TypeOK, MarkCompleteReturns, Reported, Uploading
  <2> QED BY <2>1, Finite, CardRemove
          DEF IInv, MarkCompleteReturns, UploadsAccounted
<1> QED BY <1>1, <1>2, <1>3, <1>4, <1>5, <1>6, <1>7, <1>8, <1>9 DEF IInv

\* A corrupt piece loses its buffer, and every trace of its chunks.
LEMMA MarkNotCompleteStep ==
    ASSUME IInv, NEW p \in Pieces,
           MarkNotComplete(p)
    PROVE  IInv'
<1>1. TypeOK'
  BY DEF IInv, MarkNotComplete, TypeOK, ReadyToHash, Reported, Completion,
     HasherStates
<1>2. WriterInv'
  BY DEF IInv, MarkNotComplete, WriterInv, ReadyToHash, Reported, Completion,
     TypeOK, Writing, NotWriting, InFlight
<1>3. HasherInv'
  BY DEF IInv, MarkNotComplete, HasherInv, ReadyToHash, Reported, Completion,
     TypeOK
<1>4. NoLostWrite'
  BY DEF IInv, MarkNotComplete, NoLostWrite, ReadyToHash, Reported,
     Completion, Written, InFlight, TypeOK
<1>5. CasHoldsVerified'
  BY DEF IInv, MarkNotComplete, CasHoldsVerified
<1>6. KnownIsStored'
  BY DEF IInv, MarkNotComplete, KnownIsStored
<1>7. CompleteIsStored'
  BY DEF IInv, MarkNotComplete, CompleteIsStored, ReadyToHash, Reported,
     Completion, KnownIsStored, HasherInv, TypeOK
<1>8. SlotsAccounted'
  <2>1. SpareHolders' = SpareHolders
    BY DEF MarkNotComplete, SpareHolders
  <2>2. CASE buf[p] = NoBuf
    <3>1. Buffered' = Buffered /\ Releasing' = Releasing
      BY <2>2 DEF IInv, TypeOK, MarkNotComplete, ReadyToHash, Reported,
                  Buffered, Releasing
    <3> QED BY <2>1, <3>1 DEF IInv, MarkNotComplete, SlotsAccounted
  <2>3. CASE buf[p] # NoBuf
    <3>1. p \in Buffered /\ Buffered' = Buffered \ {p}
      BY <2>3 DEF IInv, TypeOK, MarkNotComplete, Buffered
    <3>2. p \notin Releasing /\ Releasing' = Releasing \cup {p}
      BY <2>3 DEF IInv, TypeOK, MarkNotComplete, ReadyToHash, Releasing
    <3>3. /\ Cardinality(Buffered') = Cardinality(Buffered) - 1
          /\ Cardinality(Releasing') = Cardinality(Releasing) + 1
      BY <3>1, <3>2, Finite, CardAdd, CardRemove
    <3> QED BY <2>1, <3>3, Finite DEF IInv, MarkNotComplete, SlotsAccounted
  <2> QED BY <2>2, <2>3
<1>9. UploadsAccounted'
  BY DEF IInv, MarkNotComplete, UploadsAccounted, ReadyToHash, Reported,
     Completion, Uploading, TypeOK
<1> QED BY <1>1, <1>2, <1>3, <1>4, <1>5, <1>6, <1>7, <1>8, <1>9 DEF IInv

\* The token of the dropped corrupt buffer returns.
LEMMA MarkNotCompleteReturnsStep ==
    ASSUME IInv, NEW p \in Pieces,
           MarkNotCompleteReturns(p)
    PROVE  IInv'
<1>0. bufSem >= 1
  <2>1. p \in Releasing
    BY DEF MarkNotCompleteReturns, Releasing
  <2> QED BY <2>1, Finite, CardPositive DEF IInv, SlotsAccounted
<1>1. TypeOK'
  BY <1>0, Constants, StorageAssumption
     DEF IInv, MarkNotCompleteReturns, Reported, Completion, TypeOK,
         HasherStates
<1>2. WriterInv'
  BY DEF IInv, MarkNotCompleteReturns, WriterInv, Reported, Completion
<1>3. HasherInv'
  BY DEF IInv, MarkNotCompleteReturns, HasherInv, Reported, Completion
<1>4. NoLostWrite'
  BY DEF IInv, MarkNotCompleteReturns, NoLostWrite, Reported, Completion,
     Written, InFlight, TypeOK
<1>5. CasHoldsVerified'
  BY DEF IInv, MarkNotCompleteReturns, CasHoldsVerified
<1>6. KnownIsStored'
  BY DEF IInv, MarkNotCompleteReturns, KnownIsStored
<1>7. CompleteIsStored'
  BY DEF IInv, MarkNotCompleteReturns, CompleteIsStored, Reported, Completion,
     KnownIsStored, HasherInv, TypeOK
<1>8. SlotsAccounted'
  <2>1. p \in Releasing /\ Releasing' = Releasing \ {p}
    BY DEF IInv, TypeOK, MarkNotCompleteReturns, Reported, Releasing
  <2>2. Buffered' = Buffered /\ SpareHolders' = SpareHolders
    BY DEF MarkNotCompleteReturns, Buffered, SpareHolders
  <2>3. Cardinality(Releasing') = Cardinality(Releasing) - 1
    BY <2>1, Finite, CardRemove
  <2> QED BY <2>2, <2>3, Finite
             DEF IInv, MarkNotCompleteReturns, SlotsAccounted
<1>9. UploadsAccounted'
  BY DEF IInv, MarkNotCompleteReturns, UploadsAccounted, Reported, Completion,
     Uploading
<1> QED BY <1>1, <1>2, <1>3, <1>4, <1>5, <1>6, <1>7, <1>8, <1>9 DEF IInv

-----------------------------------------------------------------------------
(* The invariant of PieceStorage *)

\* It holds when a storage starts on an empty or partly filled CAS.
LEMMA InitIInv == StorageInit => IInv
<1> SUFFICES ASSUME StorageInit PROVE IInv
  OBVIOUS
<1>1. TypeOK
  BY Constants, StorageAssumption
     DEF StorageInit, TypeOK, HasherStates, NotWriting
<1>2. WriterInv /\ HasherInv
  BY DEF StorageInit, WriterInv, HasherInv, NotWriting
<1>3. NoLostWrite
  BY DEF StorageInit, NoLostWrite, Written
<1>4. CasHoldsVerified /\ KnownIsStored
  BY DEF StorageInit, CasHoldsVerified, KnownIsStored
<1>5. CompleteIsStored
  BY <1>4, StorageAssumption DEF StorageInit, CompleteIsStored, KnownIsStored
<1>6. SlotsAccounted
  <2>1. Buffered = {} /\ SpareHolders = {} /\ Releasing = {}
    BY DEF StorageInit, Buffered, SpareHolders, Releasing, NotWriting
  <2> QED BY <2>1, FS_EmptySet DEF StorageInit, SlotsAccounted
<1>7. UploadsAccounted
  <2>1. Uploading = {}
    BY DEF StorageInit, Uploading
  <2> QED BY <2>1, FS_EmptySet DEF StorageInit, UploadsAccounted
<1> QED BY <1>1, <1>2, <1>3, <1>4, <1>5, <1>6, <1>7 DEF IInv

\* Every critical section of every goroutine keeps it.
LEMMA NextIInv == IInv /\ StorageNext => IInv'
<1> SUFFICES ASSUME IInv, StorageNext PROVE IInv'
  OBVIOUS
<1>1. ASSUME NEW w \in Peers, WriteAt(w) PROVE IInv'
  BY <1>1, WriteAtBufferedStep, WriteAtUnbufferedStep, AcquireSlotStep,
     WriteAtRecheckStep DEF WriteAt
<1>2. ASSUME NEW p \in Pieces, Hasher(p) PROVE IInv'
  BY <1>2, MarkCompleteStep, AcquireUploadStep, PutPieceStep,
     PutPieceFailsStep, SetCompleteStep, FreeSlotStep,
     MarkCompleteReturnsStep, MarkNotCompleteStep, MarkNotCompleteReturnsStep
     DEF Hasher
<1> QED BY <1>1, <1>2 DEF StorageNext

\* Nothing happens: nothing changes.
LEMMA StutterIInv == IInv /\ UNCHANGED storageVars => IInv'
<1> SUFFICES ASSUME IInv, UNCHANGED storageVars PROVE IInv'
  OBVIOUS
<1>1. TypeOK' /\ WriterInv' /\ HasherInv'
  BY DEF IInv, storageVars, TypeOK, WriterInv, HasherInv
<1>2. NoLostWrite'
  BY DEF IInv, storageVars, NoLostWrite, Written, InFlight
<1>3. CasHoldsVerified' /\ KnownIsStored' /\ CompleteIsStored'
  BY DEF IInv, storageVars, CasHoldsVerified, KnownIsStored, CompleteIsStored
<1>4. SlotsAccounted' /\ UploadsAccounted'
  BY DEF IInv, storageVars, SlotsAccounted, UploadsAccounted, Buffered,
         SpareHolders, Releasing, Uploading
<1> QED BY <1>1, <1>2, <1>3, <1>4 DEF IInv

\* Whatever the numbers of pieces, peers and slots, every reachable state of
\* the storage of fetch.go satisfies the inductive invariant.
THEOREM StorageInvariant == StorageSpec => []IInv
<1>1. IInv /\ [StorageNext]_storageVars => IInv'
  BY NextIInv, StutterIInv
<1> QED BY <1>1, InitIInv, PTL DEF StorageSpec

-----------------------------------------------------------------------------
(* What follows from the invariant of PieceStorage *)

\* Every variable of the storage keeps its type; in particular the two
\* channels never hold more tokens than their capacity.
THEOREM StorageTypeOK == StorageSpec => []TypeOK
<1>1. IInv => TypeOK
  BY DEF IInv
<1> QED BY <1>1, StorageInvariant, PTL

\* No token of bufSem is leaked or returned twice by WriteAt, MarkComplete
\* and MarkNotComplete (fetch.go:119-224).
THEOREM StorageSlots == StorageSpec => []SlotsAccounted
<1>1. IInv => SlotsAccounted
  BY DEF IInv
<1> QED BY <1>1, StorageInvariant, PTL

\* At most InflightPieces pieces are in RAM at once (fetch.go:28-36).
THEOREM StorageBounded == StorageSpec => []BuffersBounded
<1>1. IInv => BuffersBounded
  BY Finite, StorageAssumption
     DEF IInv, TypeOK, SlotsAccounted, BuffersBounded
<1> QED BY <1>1, StorageInvariant, PTL

\* Tokens of sem and uploads in progress agree, also after a failed upload
\* (fetch.go:194-209).
THEOREM StorageUploads == StorageSpec => []UploadsAccounted
<1>1. IInv => UploadsAccounted
  BY DEF IInv
<1> QED BY <1>1, StorageInvariant, PTL

\* A chunk that WriteAt accepted is in the buffer until the piece has been
\* hashed, however many writers raced for the allocation (fetch.go:127-139).
THEOREM StorageNoLostWrite == StorageSpec => []NoLostWrite
<1>1. IInv => NoLostWrite
  BY DEF IInv
<1> QED BY <1>1, StorageInvariant, PTL

\* Only bytes whose hash matched are ever under a key of the CAS, though
\* PutBytes reads the shared buffer without the lock (fetch.go:189-198).
THEOREM StorageVerified == StorageSpec => []CasHoldsVerified
<1>1. IInv => CasHoldsVerified
  BY DEF IInv
<1> QED BY <1>1, StorageInvariant, PTL

\* A piece that is reported complete is in the CAS (fetch.go:200-204, 238).
THEOREM StorageComplete == StorageSpec => []CompleteIsStored
<1>1. IInv => CompleteIsStored
  BY DEF IInv
<1> QED BY <1>1, StorageInvariant, PTL

-----------------------------------------------------------------------------
(* Fetch: steps that are not a step of the storage *)

\* A fault that touches nothing keeps the invariant of the storage.
LEMMA FaultIInv ==
    ASSUME IInv, Fault,
           UNCHANGED <<buf, complete, bufSem, sem, writer, hasher, dirty, cas,
                       known>>
    PROVE  IInv'
<1>1. TypeOK'
  BY StorageAssumption DEF IInv, TypeOK, Fault
<1>2. WriterInv' /\ HasherInv'
  BY DEF IInv, WriterInv, HasherInv
<1>3. NoLostWrite'
  BY DEF IInv, NoLostWrite, Written, InFlight
<1>4. CasHoldsVerified' /\ KnownIsStored' /\ CompleteIsStored'
  BY DEF IInv, CasHoldsVerified, KnownIsStored, CompleteIsStored
<1>5. SlotsAccounted' /\ UploadsAccounted'
  BY DEF IInv, SlotsAccounted, UploadsAccounted, Buffered, SpareHolders,
         Releasing, Uploading
<1> QED BY <1>1, <1>2, <1>3, <1>4, <1>5 DEF IInv

\* A fresh storage satisfies the invariant when everything listed is stored
\* and the CAS holds verified bytes only.
LEMMA ResetIInv ==
    ASSUME NEW L \in SUBSET Hashes, StorageReset(L),
           cas' \in [Hashes -> {Good, Absent}], \A h \in L : cas'[h] = Good,
           faults' \in 0..MaxFaults
    PROVE  IInv'
<1>1. TypeOK'
  <2>1. bufSem' \in 0..InflightPieces /\ sem' \in 0..UpSem
    BY StorageAssumption DEF StorageReset
  <2>2. cas' \in [Hashes -> Contents \cup {NoBuf, Absent}]
    BY Constants
  <2> QED BY <2>1, <2>2 DEF StorageReset, TypeOK, HasherStates
<1>2. WriterInv' /\ HasherInv'
  BY DEF StorageReset, WriterInv, HasherInv, NotWriting
<1>3. NoLostWrite'
  BY DEF StorageReset, NoLostWrite, Written
<1>4. CasHoldsVerified' /\ KnownIsStored'
  BY DEF StorageReset, CasHoldsVerified, KnownIsStored
<1>5. CompleteIsStored'
  BY StorageAssumption DEF StorageReset, CompleteIsStored
<1>6. SlotsAccounted'
  <2>1. Buffered' = {} /\ SpareHolders' = {} /\ Releasing' = {}
    BY DEF StorageReset, Buffered, SpareHolders, Releasing, NotWriting
  <2> QED BY <2>1, FS_EmptySet DEF StorageReset, SlotsAccounted
<1>7. UploadsAccounted'
  <2>1. Uploading' = {}
    BY DEF StorageReset, Uploading
  <2> QED BY <2>1, FS_EmptySet DEF StorageReset, UploadsAccounted
<1> QED BY <1>1, <1>2, <1>3, <1>4, <1>5, <1>6, <1>7 DEF IInv

\* The CAS as a function into what it may hold.
LEMMA CasType == IInv => cas \in [Hashes -> {Good, Absent}]
BY DEF IInv, TypeOK, CasHoldsVerified

\* A process that ends leaves a storage that satisfies the invariant.
LEMMA EndIInv ==
    ASSUME NEW ph, ProcessEnds(ph), cas' \in [Hashes -> {Good, Absent}],
           faults' \in 0..MaxFaults
    PROVE  IInv'
BY ResetIInv DEF ProcessEnds

\* What a dying process had in flight is verified: the CAS stays sound and
\* loses nothing.
LEMMA CrashCas ==
    ASSUME IInv, Crash
    PROVE  /\ cas' \in [Hashes -> {Good, Absent}]
           /\ \A h \in Hashes : cas[h] = Good => cas'[h] = Good
<1>1. PICK landed \in SUBSET {p \in Pieces : hasher[p] = "put"} :
        cas' = [h \in Hashes |-> IF \E p \in landed : HashOf[p] = h
                                 THEN buf[CHOOSE p \in landed : HashOf[p] = h]
                                 ELSE cas[h]]
  BY DEF Crash
<1>2. \A p \in landed : buf[p] = Good
  BY DEF IInv, HasherInv
<1>3. \A h \in Hashes : cas'[h] \in {Good, cas[h]}
  <2> TAKE h \in Hashes
  <2>1. CASE \E p \in landed : HashOf[p] = h
    <3>1. (CHOOSE p \in landed : HashOf[p] = h) \in landed
      BY <2>1
    <3> QED BY <1>1, <1>2, <2>1, <3>1
  <2>2. CASE ~\E p \in landed : HashOf[p] = h
    BY <1>1, <2>2
  <2> QED BY <2>1, <2>2
<1> QED BY <1>1, <1>3, CasType

\* A fault stays within the bound.
LEMMA FaultType == IInv /\ Fault => faults' \in 0..MaxFaults
BY StorageAssumption DEF IInv, TypeOK, Fault

-----------------------------------------------------------------------------
(* Nothing in the bucket is lost *)

\* No step of any phase replaces a stored object, or takes the marker back.
LEMMA StepKeepsProgress ==
    ASSUME FetchInv, Next
    PROVE  /\ \A h \in Hashes : cas[h] = Good => cas'[h] = Good
           /\ marker => marker'
<1>1. ASSUME Download
      PROVE  \A h \in Hashes : cas[h] = Good => cas'[h] = Good
  <2>1. ASSUME NEW w \in Peers, WriteAt(w) PROVE cas' = cas
    BY <2>1 DEF WriteAt, WriteAtBuffered, WriteAtUnbuffered, AcquireSlot,
               WriteAtRecheck
  <2>2. ASSUME NEW p \in Pieces, Hasher(p)
        PROVE  cas' \in {cas, [cas EXCEPT ![HashOf[p]] = Good]}
    BY <2>2 DEF Hasher, MarkComplete, AcquireUpload, PutPiece, PutPieceFails,
               SetComplete, FreeSlot, MarkCompleteReturns, MarkNotComplete,
               MarkNotCompleteReturns, FetchInv, IInv, HasherInv
  <2>3. cas' = cas \/ \E p \in Pieces :
                         cas' \in {cas, [cas EXCEPT ![HashOf[p]] = Good]}
    BY <1>1, <2>1, <2>2 DEF Download, StorageNext
  <2> QED BY <2>3 DEF FetchInv, IInv, TypeOK
<1>2. ASSUME Crash
      PROVE  \A h \in Hashes : cas[h] = Good => cas'[h] = Good
  BY <1>2, CrashCas DEF FetchInv
<1>3. ASSUME ~Download, ~Crash
      PROVE  cas' = cas
  BY <1>3 DEF Next, Stat, StatFails, ListPieces, ListPiecesFails, WaitAll,
             Commit, CommitFails, Restart, storageVars
<1>4. marker => marker'
  BY DEF Next, Stat, StatFails, ListPieces, ListPiecesFails, WaitAll, Commit,
         CommitFails, Crash, Restart, Download, fetchVars
<1> QED BY <1>1, <1>2, <1>3, <1>4

\* At the moment of the commit every hash of the torrent is in the CAS.
LEMMA CommitHasAll ==
    FetchInv /\ phase = "commit" => \A h \in Hashes : cas[h] = Good
BY FetchAssumption DEF FetchInv, AllComplete, IInv, CompleteIsStored

-----------------------------------------------------------------------------
(* The invariant of Fetch *)

\* A fetch starts in it.
LEMMA InitFetchInv == Init => FetchInv
BY InitIInv DEF Init, FetchInv, Phases, MarkerMeansComplete

\* Every step of the process keeps the storage sound.
LEMMA NextKeepsIInv ==
    ASSUME FetchInv, Next
    PROVE  IInv'
<1>1. CASE Stat \/ WaitAll \/ Restart
  BY <1>1, StutterIInv DEF FetchInv, Stat, WaitAll, Restart
<1>2. CASE StatFails
  BY <1>2, FaultIInv DEF FetchInv, StatFails
<1>3. CASE ListPieces
  <2> DEFINE L == {h \in Hashes : cas[h] # Absent}
  <2>1. \A h \in L : cas[h] = Good
    BY DEF FetchInv, IInv, CasHoldsVerified
  <2>2. StorageReset(L) /\ cas' = cas /\ faults' = faults
    BY <1>3 DEF ListPieces
  <2>3. faults' \in 0..MaxFaults
    BY <2>2 DEF FetchInv, IInv, TypeOK
  <2> QED BY <2>1, <2>2, <2>3, CasType, ResetIInv DEF FetchInv
<1>4. CASE ListPiecesFails
  <2>1. StorageReset({}) /\ cas' = cas
    BY <1>4 DEF ListPiecesFails
  <2>2. faults' \in 0..MaxFaults
    BY <1>4, FaultType DEF FetchInv, ListPiecesFails
  <2> QED BY <2>1, <2>2, CasType, ResetIInv DEF FetchInv
<1>5. CASE Download
  BY <1>5, NextIInv DEF FetchInv, Download
<1>6. CASE Commit
  <2>1. faults' \in 0..MaxFaults
    BY <1>6 DEF Commit, FetchInv, IInv, TypeOK
  <2> QED BY <1>6, <2>1, CasType, EndIInv DEF FetchInv, Commit
<1>7. CASE CommitFails
  <2>1. faults' \in 0..MaxFaults
    BY <1>7, FaultType DEF FetchInv, CommitFails
  <2> QED BY <1>7, <2>1, CasType, EndIInv DEF FetchInv, CommitFails
<1>8. CASE Crash
  <2>1. faults' \in 0..MaxFaults
    BY <1>8, FaultType DEF FetchInv, Crash
  <2>2. ProcessEnds("dead")
    BY <1>8 DEF Crash
  <2> QED BY <1>8, <2>1, <2>2, CrashCas, EndIInv DEF FetchInv
<1> QED BY <1>1, <1>2, <1>3, <1>4, <1>5, <1>6, <1>7, <1>8 DEF Next

\* Every step of the process keeps the whole invariant.
LEMMA NextFetchInv == FetchInv /\ Next => FetchInv'
<1> SUFFICES ASSUME FetchInv, Next PROVE FetchInv'
  OBVIOUS
<1>1. IInv'
  BY NextKeepsIInv
<1>2. phase' \in Phases /\ marker' \in BOOLEAN
  BY DEF FetchInv, Next, Stat, StatFails, ListPieces, ListPiecesFails,
         Download, WaitAll, Commit, CommitFails, Crash, Restart, ProcessEnds,
         Phases, fetchVars
<1>3. phase' = "commit" => AllComplete'
  <2> SUFFICES ASSUME phase' = "commit" PROVE AllComplete'
    OBVIOUS
  <2>1. WaitAll
    BY DEF FetchInv, Next, Stat, StatFails, ListPieces, ListPiecesFails,
           Download, WaitAll, Commit, CommitFails, Crash, Restart,
           ProcessEnds, Phases, fetchVars
  <2> QED BY <2>1 DEF WaitAll, storageVars, AllComplete
<1>4. MarkerMeansComplete'
  <2> SUFFICES ASSUME marker' PROVE \A h \in Hashes : cas'[h] = Good
    BY DEF MarkerMeansComplete
  <2>1. CASE marker
    BY <2>1, StepKeepsProgress DEF FetchInv, MarkerMeansComplete
  <2>2. CASE ~marker
    <3>1. phase = "commit"
      BY <2>2 DEF Next, Stat, StatFails, ListPieces, ListPiecesFails, WaitAll,
                  Commit, CommitFails, Crash, Restart, Download, fetchVars
    <3> QED BY <3>1, CommitHasAll, StepKeepsProgress
  <2> QED BY <2>1, <2>2
<1> QED BY <1>1, <1>2, <1>3, <1>4 DEF FetchInv

\* Nothing happens: nothing changes.
LEMMA StutterFetchInv == FetchInv /\ UNCHANGED vars => FetchInv'
BY StutterIInv
   DEF FetchInv, vars, fetchVars, storageVars, AllComplete, MarkerMeansComplete

\* Every reachable state of a fetch, through crashes, failing requests and
\* restarts, satisfies the inductive invariant.
THEOREM FetchInvariant == Spec => []FetchInv
<1>1. FetchInv /\ [Next]_vars => FetchInv'
  BY NextFetchInv, StutterFetchInv
<1> QED BY <1>1, InitFetchInv, PTL DEF Spec

-----------------------------------------------------------------------------
(* What follows from the invariant of Fetch *)

\* Every variable of a fetch keeps its type.
THEOREM FetchTypes == Spec => []FetchTypeOK
<1>1. FetchInv => FetchTypeOK
  BY DEF FetchInv, IInv, FetchTypeOK
<1> QED BY <1>1, FetchInvariant, PTL

\* The commit marker never points at a piece that is not in the CAS
\* (README.md:97-101, fetch.go:365-369).
THEOREM MarkerSafe == Spec => []MarkerMeansComplete
<1>1. FetchInv => MarkerMeansComplete
  BY DEF FetchInv
<1> QED BY <1>1, FetchInvariant, PTL

\* Neither a crash nor a retry costs an uploaded piece or the marker.
THEOREM ProgressSafe == Spec => ProgressIsKept
<1>1. FetchInv /\ [Next]_vars =>
        [/\ \A h \in Hashes : cas[h] = Good => cas'[h] = Good
         /\ marker => marker']_vars
  BY StepKeepsProgress
<1> QED BY <1>1, FetchInvariant, PTL DEF Spec, ProgressIsKept

\* With more slots than pieces, bufSem is full only while some writer holds a
\* spare slot that its next step gives back: the semaphore of
\* fetch.go:127-138 cannot wedge.
THEOREM NoWedge ==
    ASSUME InflightPieces > Cardinality(Pieces)
    PROVE  Spec => []FullOnlyForAMoment
<1>1. ASSUME FetchInv, ~SlotFree PROVE SpareHolders # {}
  <2>1. Buffered \cap Releasing = {}
    BY <1>1 DEF FetchInv, IInv, HasherInv, Buffered, Releasing
  <2>2. Cardinality(Buffered \cup Releasing)
          = Cardinality(Buffered) + Cardinality(Releasing)
    <3>1. Cardinality(Buffered \cap Releasing) = 0
      BY <2>1, FS_EmptySet
    <3>2. Cardinality(Buffered \cup Releasing)
            = Cardinality(Buffered) + Cardinality(Releasing)
                - Cardinality(Buffered \cap Releasing)
      BY Finite, FS_Union
    <3> QED BY <3>1, <3>2, Finite
  <2>3. Cardinality(Buffered \cup Releasing) <= Cardinality(Pieces)
    <3>1. Buffered \cup Releasing \in SUBSET Pieces
      BY DEF Buffered, Releasing
    <3> QED BY <3>1, FS_Subset, StorageAssumption
  <2>4. bufSem >= InflightPieces
    BY <1>1, StorageAssumption DEF SlotFree, FetchInv, IInv, TypeOK
  <2>5. Cardinality(Pieces) \in Nat
    BY StorageAssumption, FS_CardinalityType
  <2>6. Cardinality(SpareHolders) # 0
    BY <1>1, <2>2, <2>3, <2>4, <2>5, Finite, StorageAssumption
       DEF FetchInv, IInv, TypeOK, SlotsAccounted
  <2> QED BY <2>6, FS_EmptySet
<1>2. FetchInv => FullOnlyForAMoment
  BY <1>1 DEF FullOnlyForAMoment
<1> QED BY <1>2, FetchInvariant, PTL

\* fetch.go:119-209: with a peer, an upload slot and more buffers than pieces
\* the two semaphores never hold everybody up: until the last piece is complete
\* some goroutine of the download can go on.
THEOREM DownloadGoesOn ==
    ASSUME InflightPieces > Cardinality(Pieces), UpSem > 0, Peers # {}
    PROVE  Spec => []DownloadNeverStuck
<1> DEFINE Works == \/ \E w \in Peers : WriterCanStep(w)
                    \/ \E p \in Pieces : HasherCanStep(p)
           Asks == /\ \E w \in Peers : writer[w] = NotWriting
                   /\ \E p \in Pieces, c \in Chunks : Wanted(p, c)
<1>1. ASSUME FetchInv, FullOnlyForAMoment, ~AllComplete, ~Works PROVE Asks
  <2>1. /\ TypeOK /\ UploadsAccounted
    BY <1>1 DEF FetchInv, IInv
  <2>2. \A w \in Peers : writer[w].at # "recheck"
    BY <1>1 DEF WriterCanStep
  <2>3. SlotFree
    BY <1>1, <2>2 DEF FullOnlyForAMoment, SpareHolders
  <2>4. \A w \in Peers : writer[w] = NotWriting
    <3>1. \A w \in Peers : writer[w].at # "acquire"
      BY <1>1, <2>3 DEF WriterCanStep
    <3>2. \A w \in Peers : writer[w] \in Writing \cup {NotWriting}
      BY <2>1 DEF TypeOK
    <3> QED BY <2>2, <3>1, <3>2 DEF Writing
  <2>5. \A p \in Pieces : hasher[p] \in {"idle", "upload"}
    BY <1>1, <2>1 DEF HasherCanStep, TypeOK
  <2>6. sem < UpSem
    <3>1. Uploading = {}
      BY <2>5 DEF Uploading
    <3>2. sem = 0
      BY <2>1, <3>1, FS_EmptySet DEF UploadsAccounted
    <3> QED BY <3>2, StorageAssumption
  <2>7. \A p \in Pieces : hasher[p] = "idle" /\ ~ReadyToHash(p)
    BY <1>1, <2>5, <2>6 DEF HasherCanStep
  <2>8. PICK p \in Pieces : ~complete[p]
    BY <1>1, <2>7 DEF AllComplete
  <2>9. InFlight(p) = {}
    BY <2>4 DEF InFlight, NotWriting
  <2>10. dirty[p] # Chunks /\ dirty[p] \subseteq Chunks
    BY <2>1, <2>7, <2>8, <2>9 DEF ReadyToHash, TypeOK
  <2>11. PICK c \in Chunks : c \notin dirty[p]
    BY <2>10
  <2> QED BY <2>4, <2>7, <2>8, <2>11 DEF Wanted
<1>2. FetchInv /\ FullOnlyForAMoment => DownloadNeverStuck
  BY <1>1 DEF DownloadNeverStuck
<1> QED BY <1>2, FetchInvariant, NoWedge, PTL

-----------------------------------------------------------------------------
(* Refinement *)

\* The first state of a fetch is a first state of Ingest.
LEMMA InitRefines == Init => Abstract!Init
BY DEF Init, Abstract!Init, Stored

\* Each step of a fetch is a step of Ingest, or invisible there.
LEMMA NextRefines ==
    ASSUME FetchInv, [Next]_vars
    PROVE  [Abstract!Next]_(Abstract!ingestVars)
<1> DEFINE S == Stored
           T == Stored'
<1>1. CASE UNCHANGED vars
  BY <1>1 DEF vars, fetchVars, storageVars, Abstract!ingestVars, Stored
<1>2. CASE Next /\ marker' = marker
  <2>1. T = S \cup T
    BY <1>2, StepKeepsProgress DEF Stored
  <2>2. T \in SUBSET Hashes
    BY DEF Stored
  <2> QED BY <1>2, <2>1, <2>2 DEF Abstract!Next, Abstract!Store
<1>3. CASE Next /\ marker' # marker
  <2>1. (Commit \/ CommitFails) /\ marker' = TRUE
    BY <1>3 DEF FetchInv, Next, Stat, StatFails, ListPieces, ListPiecesFails,
                WaitAll, Commit, CommitFails, Crash, Restart, Download,
                fetchVars
  <2>2. S = Hashes
    BY <2>1, CommitHasAll DEF Commit, CommitFails, Stored
  <2>3. T = S
    BY <2>1 DEF Commit, CommitFails, Stored
  <2>4. Abstract!Commit
    BY <2>1, <2>2, <2>3 DEF Abstract!Commit
  <2> QED BY <2>4 DEF Abstract!Next
<1> QED BY <1>1, <1>2, <1>3

\* Seen from the bucket, a fetch with all its buffers, semaphores, retries
\* and crashes is the two-line Ingest.
THEOREM FetchImplementsIngest == Spec => ImplementsIngest
<1>1. FetchInv /\ [Next]_vars => [Abstract!Next]_(Abstract!ingestVars)
  BY NextRefines
<1> QED BY <1>1, InitRefines, FetchInvariant, PTL
        DEF Spec, ImplementsIngest, Abstract!Spec

-----------------------------------------------------------------------------
(* The fetch job of Bucket *)

\* Only a download has hashers at work.
Quiet == phase # "download" => \A p \in Pieces : hasher[p] = "idle"

\* Every step keeps it.
LEMMA QuietStep == Quiet /\ [Next]_vars => Quiet'
<1> SUFFICES ASSUME Quiet, [Next]_vars PROVE Quiet'
  OBVIOUS
<1>1. CASE UNCHANGED vars
  BY <1>1 DEF Quiet, vars, storageVars, fetchVars
<1>2. CASE Stat \/ StatFails \/ Restart
  BY <1>2 DEF Quiet, Stat, StatFails, Restart, storageVars
<1>3. CASE ListPieces \/ ListPiecesFails \/ Download
  BY <1>3 DEF Quiet, ListPieces, ListPiecesFails, Download, fetchVars
<1>4. CASE WaitAll
  BY <1>4 DEF Quiet, WaitAll, AllComplete, storageVars
<1>5. CASE Commit \/ CommitFails \/ Crash
  BY <1>5 DEF Quiet, Commit, CommitFails, Crash, ProcessEnds, StorageReset
<1> QED BY <1>1, <1>2, <1>3, <1>4, <1>5 DEF Next

\* What a fetch believes to be there is there.
LEMMA BelievedStored == FetchInv => Believed \subseteq Stored
BY StorageAssumption DEF FetchInv, IInv, CompleteIsStored, Believed, Stored

\* In the commit phase it believes in all it needs.
LEMMA BelievesAll == FetchInv /\ phase = "commit" => Hashes \subseteq Believed
BY FetchAssumption DEF FetchInv, AllComplete, Believed

\* Nothing that the bucket sees has changed.
LEMMA Unseen ==
    ASSUME Stored' = Stored, marker' = marker, JobState' = JobState
    PROVE  UNCHANGED Shared!vars
BY DEF Shared!vars

\* In a download one piece more is stored, or is known to be.
LEMMA OneMore ==
    ASSUME FetchInv, phase = "download", phase' = phase, marker' = marker,
           NEW h \in Hashes, Stored' = Stored \cup {h},
           Believed' \in {Believed, Believed \cup {h}}
    PROVE  [Shared!Next]_(Shared!vars)
<1>1. CASE h \in Believed
  <2>1. Stored' = Stored /\ Believed' = Believed
    BY <1>1, BelievedStored
  <2> QED BY <2>1, Unseen DEF JobState
<1>2. CASE h \notin Believed
  <2>1. Shared!PutPiece("fetch", h)
    BY <1>2 DEF Shared!PutPiece, Shared!Uploadable, JobState
  <2> QED BY <2>1 DEF Shared!Next, Shared!JobStep
<1> QED BY <1>1, <1>2

\* A step of a hasher, as far as the bucket sees it.
LEMMA HasherSeen ==
    ASSUME FetchInv, NEW p \in Pieces, Hasher(p)
    PROVE  \/ Stored' = Stored /\ Believed' = Believed
           \/ /\ Stored' = Stored \cup {HashOf[p]}
              /\ Believed' \in {Believed, Believed \cup {HashOf[p]}}
<1> USE StorageAssumption DEF FetchInv, IInv, TypeOK
<1>1. HashOf[p] \in Hashes
  OBVIOUS
<1>2. CASE PutPiece(p) \/ PutPieceFails(p)
  <2>1. complete' = complete /\ cas' \in {cas, [cas EXCEPT ![HashOf[p]] = Good]}
    BY <1>2 DEF PutPiece, PutPieceFails, HasherInv
  <2> QED BY <1>1, <2>1 DEF Stored, Believed
<1>3. CASE SetComplete(p)
  <2>1. cas' = cas /\ complete' = [complete EXCEPT ![p] = TRUE]
    BY <1>3 DEF SetComplete
  <2>2. HashOf[p] \in Stored
    BY <1>1, <1>3 DEF SetComplete, HasherInv, Stored
  <2>3. Believed' = Believed \cup {HashOf[p]}
    BY <2>1 DEF Believed
  <2> QED BY <2>1, <2>2, <2>3 DEF Stored
<1>4. ASSUME cas' = cas, Reported(p)
      PROVE  \/ Stored' = Stored /\ Believed' = Believed
             \/ /\ Stored' = Stored \cup {HashOf[p]}
                /\ Believed' = Believed \cup {HashOf[p]}
  <2>1. complete' \in {complete, [complete EXCEPT ![p] = TRUE]}
    BY <1>4 DEF Reported, Completion
  <2>2. CASE complete' = complete
    BY <1>4, <2>2 DEF Stored, Believed
  <2>3. CASE complete' # complete
    <3>1. HashOf[p] \in known
      BY <1>4, <2>3 DEF Reported, Completion
    <3>2. HashOf[p] \in Stored
      BY <1>1, <3>1 DEF KnownIsStored, Stored
    <3>3. Believed' = Believed \cup {HashOf[p]}
      BY <2>1, <2>3 DEF Believed
    <3> QED BY <1>4, <3>2, <3>3 DEF Stored
  <2> QED BY <2>2, <2>3
<1>5. CASE MarkCompleteReturns(p) \/ MarkNotCompleteReturns(p)
  BY <1>4, <1>5 DEF MarkCompleteReturns, MarkNotCompleteReturns
<1>6. CASE MarkNotComplete(p)
  <2>1. CASE buf[p] = NoBuf
    BY <1>4, <1>6, <2>1 DEF MarkNotComplete
  <2>2. CASE buf[p] # NoBuf
    <3>1. cas' = cas /\ complete' = [complete EXCEPT ![p] = FALSE]
      BY <1>6, <2>2 DEF MarkNotComplete
    <3>2. complete \in [Pieces -> BOOLEAN] /\ ~complete[p]
      BY <1>6 DEF MarkNotComplete, ReadyToHash
    <3>3. \A q \in Pieces : complete'[q] <=> complete[q]
      BY <3>1, <3>2
    <3> QED BY <3>1, <3>3 DEF Stored, Believed
  <2> QED BY <2>1, <2>2
<1>7. CASE MarkComplete(p) \/ AcquireUpload(p) \/ FreeSlot(p)
  BY <1>7 DEF MarkComplete, AcquireUpload, FreeSlot, Stored, Believed
<1> QED BY <1>2, <1>3, <1>5, <1>6, <1>7 DEF Hasher

\* A step of the download is an upload of the job, or invisible.
LEMMA DownloadShared ==
    ASSUME FetchInv, Download
    PROVE  [Shared!Next]_(Shared!vars)
<1>1. phase = "download" /\ phase' = phase /\ marker' = marker
  BY DEF Download, fetchVars
<1>2. ASSUME NEW w \in Peers, WriteAt(w)
      PROVE  [Shared!Next]_(Shared!vars)
  <2>1. cas' = cas /\ complete' = complete
    BY <1>2 DEF WriteAt, WriteAtBuffered, WriteAtUnbuffered, AcquireSlot,
               WriteAtRecheck
  <2> QED BY <1>1, <2>1, Unseen DEF Stored, Believed, JobState
<1>3. ASSUME NEW p \in Pieces, Hasher(p)
      PROVE  [Shared!Next]_(Shared!vars)
  <2>1. HashOf[p] \in Hashes
    BY StorageAssumption
  <2>2. CASE Stored' = Stored /\ Believed' = Believed
    BY <1>1, <2>2, Unseen DEF JobState
  <2> QED BY <1>1, <1>3, <2>1, <2>2, HasherSeen, OneMore
<1> QED BY <1>2, <1>3 DEF Download, StorageNext

\* The listing, successful or not.
LEMMA ListShared ==
    ASSUME FetchInv, ListPieces \/ ListPiecesFails
    PROVE  Shared!FetchList("fetch")
<1>1. /\ phase = "list" /\ phase' = "download" /\ marker' = marker
      /\ cas' = cas /\ Stored' = Stored
  BY DEF ListPieces, ListPiecesFails, Stored
<1>2. Believed' \in {Stored, {}}
  <2>1. CASE ListPieces
    <3>1. {h \in Hashes : cas[h] # Absent} = Stored
      BY Constants DEF FetchInv, IInv, CasHoldsVerified, Stored
    <3>2. complete' = [p \in Pieces |-> HashOf[p] \in Stored]
      BY <2>1, <3>1 DEF ListPieces, StorageReset
    <3> QED BY <3>2, FetchAssumption, StorageAssumption DEF Believed, Stored
  <2>2. CASE ListPiecesFails
    BY <2>2 DEF ListPiecesFails, StorageReset, Believed
  <2> QED BY <2>1, <2>2
<1>3. Believed' \cap Hashes = Believed'
  BY <1>2 DEF Stored
<1> QED BY <1>1, <1>2, <1>3 DEF Shared!FetchList, JobState

\* The end of a process is the end of the job, or no change to an idle one.
LEMMA EndShared ==
    ASSUME FetchInv, Quiet, Commit \/ CommitFails \/ Crash
    PROVE  [Shared!Next]_(Shared!vars)
<1>1. JobState' = [at |-> "idle"]
  BY DEF Commit, CommitFails, Crash, ProcessEnds, JobState
<1>2. CASE (Commit \/ CommitFails) /\ marker' = TRUE
  <2>1. Stored' = Stored /\ phase = "commit"
    BY <1>2 DEF Commit, CommitFails, Stored
  <2>2. Shared!FetchCommit("fetch")
    BY <1>1, <1>2, <2>1, BelievesAll
       DEF Shared!FetchCommit, Shared!HasAll, Shared!Marks, Shared!IdleJob,
           JobState
  <2> QED BY <2>2 DEF Shared!Next, Shared!JobStep, Shared!FetchStep
<1>3. CASE ~(Commit \/ CommitFails) \/ marker' # TRUE
  <2> DEFINE H == Stored' \ Stored
  <2>1. /\ phase \in {"start", "list", "download", "commit"}
        /\ marker' = marker /\ Stored' = Stored \cup H
        /\ Crash \/ H = {}
    <3>1. CASE Crash
      BY <3>1, CrashCas DEF FetchInv, Phases, Crash, Stored
    <3>2. CASE ~Crash
      BY <1>3, <3>2 DEF Commit, CommitFails, Stored, FetchInv
    <3> QED BY <3>1, <3>2
  <2>2. phase # "download" => H = {}
    BY <2>1 DEF Crash, Quiet, Stored
  <2>3. H \subseteq Hashes \ Believed
    BY BelievedStored DEF Stored
  <2>4. CASE phase = "start"
    BY <1>1, <2>1, <2>2, <2>4, Unseen DEF JobState
  <2>5. CASE phase # "start"
    <3>1. H \in SUBSET Shared!Uploadable("fetch")
      BY <2>1, <2>2, <2>3, <2>5 DEF Shared!Uploadable, JobState
    <3>2. Shared!Active("fetch")
      BY <2>1, <2>5 DEF Shared!Active, Shared!IdleJob, JobState
    <3>3. Shared!JobDies("fetch")
      BY <1>1, <2>1, <3>1, <3>2 DEF Shared!JobDies, Shared!IdleJob
    <3> QED BY <3>3 DEF Shared!Next, Shared!JobStep
  <2> QED BY <2>4, <2>5
<1> QED BY <1>2, <1>3

\* Each step of a fetch is a step of a fetch job of Bucket, or invisible.
LEMMA NextShared ==
    ASSUME FetchInv, Quiet, [Next]_vars
    PROVE  [Shared!Next]_(Shared!vars)
<1>1. CASE UNCHANGED vars \/ Restart \/ WaitAll
  <2>1. Stored' = Stored /\ marker' = marker /\ Believed' = Believed
    BY <1>1 DEF vars, fetchVars, storageVars, Restart, WaitAll, Stored, Believed
  <2>2. JobState' = JobState
    BY <1>1, <2>1 DEF vars, fetchVars, Restart, WaitAll, JobState
  <2> QED BY <2>1, <2>2, Unseen
<1>2. CASE Stat \/ StatFails
  <2>1. Stored' = Stored /\ marker' = marker /\ phase = "start"
    BY <1>2 DEF Stat, StatFails, storageVars, Stored
  <2>2. CASE phase' = "list"
    <3>1. Shared!FetchStart("fetch", "torrent")
      BY <2>1, <2>2 DEF Shared!FetchStart, Shared!Active, Shared!IdleJob,
                        Shared!Sweeping, JobState
    <3> QED BY <3>1 DEF Shared!Next, Shared!JobStep, Shared!FetchStep
  <2>3. CASE phase' # "list"
    BY <1>2, <2>1, <2>3, Unseen DEF Stat, StatFails, JobState
  <2> QED BY <2>2, <2>3
<1>3. CASE ListPieces \/ ListPiecesFails
  BY <1>3, ListShared DEF Shared!Next, Shared!JobStep, Shared!FetchStep
<1> QED BY <1>1, <1>2, <1>3, DownloadShared, EndShared DEF Next

\* A fetch, with all that PieceStorage knows of it, is a fetch job of Bucket.
THEOREM FetchImplementsJob == Spec => ImplementsJob
<1>1. Init => Shared!Init
  BY DEF Init, Shared!Init, Shared!IdleJob, Shared!IdleGc, JobState, Stored
<1>2. Init => Quiet
  BY DEF Init, StorageInit, Quiet
<1>3. Spec => []Quiet
  BY <1>2, QuietStep, PTL DEF Spec
<1>4. FetchInv /\ Quiet /\ [Next]_vars => [Shared!Next]_(Shared!vars)
  BY NextShared
<1> QED BY <1>1, <1>3, <1>4, FetchInvariant, PTL
        DEF Spec, ImplementsJob, Shared!Spec
=============================================================================
