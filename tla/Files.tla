------------------------------- MODULE Files --------------------------------
(***************************************************************************)
(* The tree that a torrent is shown as and the bytes behind it: buildMeta  *)
(* (meta.go:153-202), paths, listings and reads (sftp.go:83-295), and the  *)
(* two local readers, `get` (get.go:94-176) and the range of pieces of     *)
(* `get2` (get2.go:190-232).                                               *)
(*                                                                         *)
(* A string of a path is the sequence of what its slashes separate, so     *)
(* that joining and splitting are operations on sequences.  The bytes of a *)
(* torrent are the numbers 1, 2, 3, ..., all different.  Pieces are        *)
(* numbered from 0, as in the source.                                      *)
(***************************************************************************)
EXTENDS Integers, SequencesExt

LeastOf(a, b) == IF a < b THEN a ELSE b

\* Division of Go's integers: towards zero.
Quo(a, b) == IF a < 0 THEN -((-a) \div b) ELSE a \div b

-----------------------------------------------------------------------------
(* buildMeta, of what the .torrent says: name, length or files, pieceLen *)

\* strings.Trim(n, "/"), and no name that a client would choke on.
SanitizeName(n) ==
    LET kept == {i \in DOMAIN n : n[i] # ""}
        trimmed == IF kept = {} THEN <<"">> ELSE SubSeq(n, Min(kept), Max(kept))
    IN IF trimmed \in {<<"">>, <<".">>, <<"..">>} THEN <<"torrent">>
       ELSE trimmed

Entry(path, size, offset) == [path |-> path, size |-> size, offset |-> offset]

\* Where each file begins, and behind them all where the torrent ends.
Offsets(files) ==
    LET offset[i \in 1 .. Len(files) + 1] ==
            IF i = 1 THEN 0 ELSE offset[i - 1] + files[i - 1].length
    IN offset

BuildMeta(info) ==
    LET name == SanitizeName(info.name)
        offset == Offsets(info.files)
        n == Len(info.files)
    IN [name |-> name,
        pieceLen |-> info.pieceLen,
        totalLen |-> IF n = 0 THEN info.length ELSE offset[n + 1],
        files |-> IF n = 0 THEN <<Entry(name, info.length, 0)>>
                  ELSE [i \in 1 .. n |-> Entry(info.files[i].path,
                                               info.files[i].length,
                                               offset[i])]]

NumPieces(tm) == (tm.totalLen + tm.pieceLen - 1) \div tm.pieceLen

\* The bytes of piece k.
Piece(tm, k) ==
    [i \in 1 .. LeastOf(tm.pieceLen, tm.totalLen - k * tm.pieceLen) |->
        k * tm.pieceLen + i]

-----------------------------------------------------------------------------
(* Paths and listings, for the torrents of the set dir *)

\* path.Clean("/" + p)
Clean(p) ==
    LET cleaned[i \in 0 .. Len(p)] ==
            IF i = 0 THEN <<>>
            ELSE LET done == cleaned[i - 1]
                 IN IF p[i] \in {"", "."} THEN done
                    ELSE IF p[i] # ".." THEN Append(done, p[i])
                    ELSE IF done = <<>> THEN done ELSE Front(done)
    IN cleaned[Len(p)]

Named(dir, c) == {tm \in dir : tm.name = <<c>>}

Node(name, size, isDir) == [name |-> name, size |-> size, dir |-> isDir]
None == [name |-> <<>>, size |-> 0, dir |-> FALSE]

\* Mutant: a file deeper down is listed as if it were here.
ListedFlat(f, fpath) == Node(<<Last(f.path)>>, f.size, FALSE)

\* What the file f adds to the listing of fpath: itself or its directory.
Listed(f, fpath) ==
    LET rest == SubSeq(f.path, Len(fpath) + 1, Len(f.path))
    IN IF Len(rest) > 1 THEN Node(<<Head(rest)>>, 0, TRUE)
       ELSE Node(rest, f.size, FALSE)

Below(tm, fpath) == {f \in ToSet(tm.files) : IsStrictPrefix(fpath, f.path)}

\* list(p): a set, for the order is that of the names; {} as well when it
\* throws, which only a path that names no torrent makes it do.
List(dir, p) ==
    LET path == Clean(p)
    IN IF path = <<>> THEN {Node(tm.name, 0, TRUE) : tm \in dir}
       ELSE {Listed(f, Tail(path)) :
                f \in UNION {{f \in Below(tm, Tail(path)) :
                                 f.path # Append(Tail(path), "")} :
                             tm \in Named(dir, Head(path))}}

\* The first file of that path.
FileAt(tm, fpath) ==
    LET at == {i \in DOMAIN tm.files : tm.files[i].path = fpath}
    IN {tm.files[i] : i \in IF at = {} THEN {} ELSE {Min(at)}}

\* stat(p); None when it throws.
Stat(dir, p) ==
    LET path == Clean(p)
    IN IF path = <<>> THEN Node(<<"">>, 0, TRUE)
       ELSE IF Named(dir, Head(path)) = {} THEN None
       ELSE LET tm == CHOOSE t \in Named(dir, Head(path)) : TRUE
                fpath == Tail(path)
                files == FileAt(tm, fpath)
            IN IF fpath = <<>> THEN Node(tm.name, tm.totalLen, TRUE)
               ELSE IF files # {}
               THEN LET f == CHOOSE f \in files : TRUE
                    IN Node(<<Last(fpath)>>, f.size, FALSE)
               ELSE IF Below(tm, fpath) # {} THEN Node(<<Last(fpath)>>, 0, TRUE)
               ELSE None

\* openFile(p): the torrent and the file, or nothing when it throws.
OpenFile(dir, p) ==
    LET path == Clean(p)
    IN IF Len(path) < 2 THEN {}
       ELSE UNION {{[tm |-> tm, file |-> f] : f \in FileAt(tm, Tail(path))} :
                   tm \in Named(dir, Head(path))}

\* The file that `get` and `get2` are told to read; for `get` the bare name of
\* a torrent of one file will do.
Target(dir, p) ==
    LET path == Clean(p)
    IN IF Len(path) # 1 THEN OpenFile(dir, p)
       ELSE {[tm |-> tm, file |-> tm.files[1]] :
                tm \in {tm \in Named(dir, Head(path)) : Len(tm.files) = 1}}

-----------------------------------------------------------------------------
(* Reads *)

\* Mutant: a request is not clipped to the file.
WantAll(file, off, len) == len

Want(file, off, len) == LeastOf(len, file.size - off)

\* The loop of ReadAt over the pieces, from the byte b of the torrent on.
\* getPiece has nothing to give for a piece in lost.
Walk(tm, b, want, lost) ==
    LET walk[total \in 0 .. want] ==
            LET streamOff == b + total
                k == streamOff \div tm.pieceLen
                o == streamOff % tm.pieceLen
                piece == IF k \in lost THEN <<>> ELSE Piece(tm, k)
                n == LeastOf(want - total, Len(piece) - o)
            IN IF total = want \/ k >= NumPieces(tm) \/ o >= Len(piece)
               THEN <<>>
               ELSE SubSeq(piece, o + 1, o + n) \o walk[total + n]
    IN walk[0]

\* ReadAt of v at off.
ReadAt(v, off, len, lost) ==
    LET want == Want(v.file, off, len)
        got == Walk(v.tm, v.file.offset + off, want, lost)
    IN IF off >= v.file.size THEN [bytes |-> <<>>, eof |-> TRUE]
       ELSE [bytes |-> got,
             eof |-> Len(got) < want \/ off + Len(got) >= v.file.size]

\* Mutant: the end of the file is taken for its end, however much came.
ShortReadKept(v, off) == [out |-> <<>>, thrown |-> FALSE]

\* get after the read that ended at off: is it the end, or a short read?
AtEof(v, off) == [out |-> <<>>, thrown |-> off < v.file.size]

\* What `get` has written when it is through, and whether it threw.
Get(v, chunk, lost) ==
    LET from[off \in 0 .. v.file.size] ==
            IF off = v.file.size THEN [out |-> <<>>, thrown |-> FALSE]
            ELSE LET want == LeastOf(chunk, v.file.size - off)
                     r == ReadAt(v, off, want, lost)
                     next == off + Len(r.bytes)
                     rest == IF r.eof THEN AtEof(v, next) ELSE from[next]
                 IN [rest EXCEPT !.out = r.bytes \o @]
    IN from[0]

\* Mutant: the byte after the last one is asked for too.
EndPieceAfter(v) == Quo(v.file.offset + v.file.size, v.tm.pieceLen)

EndPiece(v) == Quo(v.file.offset + v.file.size - 1, v.tm.pieceLen)

\* The pieces that `get2` reads for a file.
PieceRange(v) == Quo(v.file.offset, v.tm.pieceLen) .. EndPiece(v)
=============================================================================
