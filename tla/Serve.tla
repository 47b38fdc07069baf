------------------------------- MODULE Serve --------------------------------
(***************************************************************************)
(* One connection to `samogon serve`: the channels that a client opens on  *)
(* it (serve.go:145-225), each with the goroutine that answers its         *)
(* requests and the handler that waits for the sftp subsystem and then     *)
(* serves the files of module Files; and a client that walks the tree and  *)
(* downloads what it finds, while Reload may drop torrents.                *)
(*                                                                         *)
(* The ssh library reads the packets of a connection in one goroutine, in  *)
(* the order they were sent, and stands still when the queue of a channel  *)
(* is full.                                                                *)
(***************************************************************************)
EXTENDS Files, FiniteSets

CONSTANTS
    Channels,      \* the channels of the connection
    Parts,         \* what stands between the slashes of a path
    Infos,         \* the .torrents of the bucket
    ReadLens,      \* lengths of a read that clients use
    QueueCap,      \* requests that the library holds for a channel
    MaxRequests,   \* bound: requests of a channel beside its files
    MaxFaults      \* bound: pieces that a read does not get

\* Names that a path can spell, none of them twice.  SanitizeName sees to less
\* than this: a name with a slash inside, say, is listed and leads elsewhere.
WellFormed(info) ==
    /\ Len(SanitizeName(info.name)) = 1
    /\ \A i, j \in DOMAIN info.files :
          /\ ToSet(info.files[i].path) \cap {"", ".", ".."} = {}
          /\ IsPrefix(info.files[i].path, info.files[j].path) => i = j

\* What a .torrent says: its name, and its length or its files.
InfoType ==
    [name : Seq(Parts), length : Nat, pieceLen : Nat \ {0},
     files : Seq([path : Seq(Parts), length : Nat])]

ASSUME ServeAssumption ==
    /\ {"", ".", "..", "torrent"} \subseteq Parts
    /\ Infos \subseteq InfoType /\ ReadLens \subseteq Nat
    /\ \A i, j \in Infos :
          SanitizeName(i.name) = SanitizeName(j.name) => i = j
    /\ QueueCap \in Nat \ {0} /\ MaxRequests \in Nat /\ MaxFaults \in Nat

VARIABLES
    loaded,        \* the directory (module Meta)
    wire,          \* packets sent and not yet read by the library
    session,       \* what serve holds for each channel
    client,        \* the other end of each channel
    faults

vars == <<loaded, wire, session, client, faults>>

Dir == {BuildMeta(info) : info \in loaded}

NewSession ==
    [queue |-> <<>>, eof |-> FALSE, inbox |-> 0,
     answerer |-> "recv", accepted |-> 0, handler |-> "wait"]

NewClient ==
    [at |-> "new", sent |-> 0, asked |-> 0, path |-> <<>>, entry |-> None,
     found |-> None, open |-> {}, len |-> 0, got |-> <<>>]

Set(c, s) == session' = [session EXCEPT ![c] = s]
SetClient(c, s) == client' = [client EXCEPT ![c] = s]
Send(c, what) == wire' = Append(wire, [on |-> c, what |-> what])

-----------------------------------------------------------------------------
(* The client *)

\* A request before or beside the files: the sftp subsystem, or another.
Ask(c, what) ==
    LET cl == client[c]
    IN /\ cl.at # "closed"
       /\ cl.sent < MaxRequests
       /\ SetClient(c, [cl EXCEPT !.sent = @ + 1,
                           !.asked = IF what = "sftp" THEN @ + 1 ELSE @])
       /\ Send(c, what)
       /\ UNCHANGED <<loaded, session, faults>>

\* It lists where it is, looks at what it was shown, and opens or enters it.
Requests(c) ==
    LET cl == client[c]
    IN /\ \/ cl.at = "dir" /\ SetClient(c, [cl EXCEPT !.at = "list"])
          \/ cl.at = "chosen" /\ SetClient(c, [cl EXCEPT !.at = "stat"])
          \/ cl.at = "found" /\ SetClient(c, [cl EXCEPT !.at = "open"])
          \/ /\ cl.at = "file"
             /\ \E n \in ReadLens :
                   SetClient(c, [cl EXCEPT !.at = "read", !.len = n])
       /\ Send(c, "data")
       /\ UNCHANGED <<loaded, session, faults>>

Here(cl) == cl.path \o cl.entry.name

\* It remembers the directory by its real path.
Enters(c) ==
    LET cl == client[c]
    IN /\ cl.at = "seen" /\ cl.found # None /\ cl.found.dir
       /\ SetClient(c, [cl EXCEPT !.at = "dir", !.path = Clean(Here(cl)),
                                  !.entry = None, !.found = None])
       /\ UNCHANGED <<loaded, wire, session, faults>>

Closes(c) ==
    /\ client[c].at # "closed"
    /\ SetClient(c, [client[c] EXCEPT !.at = "closed"])
    /\ Send(c, "close")
    /\ UNCHANGED <<loaded, session, faults>>

ClientStep(c) ==
    \/ \E what \in {"sftp", "other"} : Ask(c, what)
    \/ Requests(c) \/ Enters(c) \/ Closes(c)

-----------------------------------------------------------------------------
(* handleSession *)

\* The library reads the next packet, if there is room for it.
Deliver ==
    /\ wire # <<>>
    /\ LET c == Head(wire).on
           what == Head(wire).what
           s == session[c]
       IN /\ what \in {"sftp", "other"} => Len(s.queue) < QueueCap
          /\ Set(c, CASE what = "close" -> [s EXCEPT !.eof = TRUE]
                      [] what = "data" -> [s EXCEPT !.inbox = @ + 1]
                      [] OTHER -> [s EXCEPT !.queue = Append(@, what)])
    /\ wire' = Tail(wire)
    /\ UNCHANGED <<loaded, client, faults>>

\* The answer to a request; "yes" lets the client begin.
Answer(c) ==
    LET s == session[c]
        cl == client[c]
    IN /\ s.answerer = "recv" /\ s.queue # <<>>
       /\ IF Head(s.queue) = "sftp"
          THEN /\ Set(c, [s EXCEPT !.queue = Tail(@), !.answerer = "send"])
               /\ IF cl.at = "new" THEN SetClient(c, [cl EXCEPT !.at = "dir"])
                                   ELSE UNCHANGED client
          ELSE Set(c, [s EXCEPT !.queue = Tail(@)]) /\ UNCHANGED client
       /\ UNCHANGED <<loaded, wire, faults>>

\* Mutant: accepted has no room, somebody has to take the value at once.
NoRoom(s) == s.handler = "wait" /\ s.accepted = 0

\* accepted <- true does not block: make(chan bool, 1).
Room(s) == s.accepted = 0

Accept(c) ==
    LET s == session[c]
    IN /\ s.answerer = "send" /\ Room(s)
       /\ Set(c, [s EXCEPT !.answerer = "recv", !.accepted = 1])
       /\ UNCHANGED <<loaded, wire, client, faults>>

\* Mutant: close(accepted) is forgotten.
NeverClosed(s) == FALSE

\* The channel accepted is closed.
AcceptedClosed(s) == s.answerer = "gone"

AnswererEnds(c) ==
    LET s == session[c]
    IN /\ s.answerer = "recv" /\ s.queue = <<>> /\ s.eof
       /\ Set(c, [s EXCEPT !.answerer = "gone"])
       /\ UNCHANGED <<loaded, wire, client, faults>>

\* <-accepted: a value that is there comes before the end.
Begin(c) ==
    LET s == session[c]
    IN /\ s.handler = "wait" /\ (s.accepted = 1 \/ AcceptedClosed(s))
       /\ Set(c, IF s.accepted = 1
                 THEN [s EXCEPT !.accepted = 0, !.handler = "serve"]
                 ELSE [s EXCEPT !.handler = "over"])
       /\ UNCHANGED <<loaded, wire, client, faults>>

ServeEnds(c) ==
    LET s == session[c]
    IN /\ s.handler = "serve" /\ s.inbox = 0 /\ s.eof
       /\ Set(c, [s EXCEPT !.handler = "over"])
       /\ UNCHANGED <<loaded, wire, client, faults>>

-----------------------------------------------------------------------------
(* srv.Serve: the requests for files *)

\* Filelist: the client goes on with one of the entries.
ServeList(c) ==
    LET cl == client[c]
        shown == List(Dir, cl.path)
    IN /\ cl.at = "list"
       /\ IF shown = {} THEN SetClient(c, [cl EXCEPT !.at = "done"])
          ELSE \E e \in shown :
                  SetClient(c, [cl EXCEPT !.at = "chosen", !.entry = e])
       /\ UNCHANGED faults

\* Filelist again, of one path.
ServeStat(c) ==
    LET cl == client[c]
        found == Stat(Dir, Here(cl))
    IN /\ cl.at = "stat"
       /\ SetClient(c, [cl EXCEPT !.found = found,
                           !.at = IF found = None \/ found.dir THEN "seen"
                                  ELSE "found"])
       /\ UNCHANGED faults

\* Fileread, which looks the path up anew; the open file keeps its torrent.
ServeOpen(c) ==
    LET cl == client[c]
        opened == OpenFile(Dir, Here(cl))
    IN /\ cl.at = "open"
       /\ SetClient(c, [cl EXCEPT !.open = opened,
                           !.at = IF opened = {} THEN "failed" ELSE "file"])
       /\ UNCHANGED faults

\* ReadAt, at the place where the last read ended.
ServeRead(c) ==
    LET cl == client[c]
    IN /\ cl.at = "read"
       /\ \E v \in cl.open : \E lost \in {{}} \cup {{k} : k \in PieceRange(v)} :
             LET r == ReadAt(v, Len(cl.got), cl.len, lost)
             IN /\ IF lost = {} THEN UNCHANGED faults
                   ELSE faults < MaxFaults /\ faults' = faults + 1
                /\ SetClient(c, [cl EXCEPT !.got = @ \o r.bytes,
                                    !.at = IF r.eof THEN "done" ELSE "file"])

ServeRequest(c) ==
    /\ session[c].handler = "serve" /\ session[c].inbox > 0
    /\ Set(c, [session[c] EXCEPT !.inbox = @ - 1])
    /\ IF client[c].at = "closed" THEN UNCHANGED <<client, faults>>
       ELSE ServeList(c) \/ ServeStat(c) \/ ServeOpen(c) \/ ServeRead(c)
    /\ UNCHANGED <<loaded, wire>>

-----------------------------------------------------------------------------

\* Reload finds that a .torrent is gone.
Drops(info) ==
    /\ info \in loaded
    /\ loaded' = loaded \ {info}
    /\ UNCHANGED <<wire, session, client, faults>>

SessionStep(c) ==
    \/ Answer(c) \/ Accept(c) \/ AnswererEnds(c)
    \/ Begin(c) \/ ServeRequest(c) \/ ServeEnds(c)

Init ==
    /\ loaded = Infos
    /\ wire = <<>>
    /\ session = [c \in Channels |-> NewSession]
    /\ client = [c \in Channels |-> NewClient]
    /\ faults = 0

Next ==
    \/ \E c \in Channels : ClientStep(c) \/ SessionStep(c)
    \/ Deliver
    \/ \E info \in Infos : Drops(info)

Spec == Init /\ [][Next]_vars

\* The goroutines of serve and of the library are scheduled, and a read ends.
FairSpec ==
    /\ Spec
    /\ WF_vars(Deliver)
    /\ \A c \in Channels : WF_vars(SessionStep(c))

-----------------------------------------------------------------------------

\* serve.go:184-202: three sftp requests on a channel are one too many, the
\* goroutine that answers them never gets to the next.
Overasked(c) == client[c].asked > 2

\* serve.go:186-199: who asks for a file gets an answer, whatever is asked
\* beside it, unless a channel of the connection is asked for sftp more than
\* twice: then its answerer stops, its queue fills, and the library reads no
\* further, the requests for files included.
RequestsServed ==
    \A c \in Channels :
        client[c].at \in {"list", "stat", "open", "read"}
            ~> \/ client[c].at \notin {"list", "stat", "open", "read"}
               \/ \E d \in Channels : Overasked(d)

\* serve.go:186-212: when the client has closed a channel both its goroutines
\* end, whether it has asked for sftp or not.
SessionsEnd ==
    \A c \in Channels :
        client[c].at = "closed"
            ~> \/ session[c].answerer = "gone" /\ session[c].handler = "over"
               \/ \E d \in Channels : Overasked(d)

\* The torrent tm lists e in the directory path.
Lists(tm, path, e) ==
    IF path = <<>> THEN e = Node(tm.name, 0, TRUE)
    ELSE /\ tm.name = <<Head(path)>>
         /\ \E f \in Below(tm, Tail(path)) : e = Listed(f, Tail(path))

\* What the client looks at is of a torrent whose names a path can spell.
Reachable(cl) ==
    \E info \in Infos :
        WellFormed(info) /\ Lists(BuildMeta(info), cl.path, cl.entry)

\* sftp.go:35-230: what is listed is there, through three requests that each
\* look the torrent up: stat of an entry gives the same kind, and the same size
\* of a file, and the file can be opened, unless its torrent was dropped since.
\* Other torrents, of odd names too, do not get in the way.
ListedIsThere ==
    \A c \in Channels :
        LET cl == client[c]
            gone == Named(Dir, Head(Here(cl))) = {}
        IN Reachable(cl) =>
             /\ cl.at = "seen" /\ cl.found = None => gone
             /\ cl.found # None =>
                   /\ cl.found.dir = cl.entry.dir
                   /\ cl.found.name = <<Last(cl.entry.name)>>
                   /\ ~cl.found.dir => cl.found.size = cl.entry.size
             /\ cl.at = "failed" => gone

\* The bytes of the open file v.
FileBytes(v) == [i \in 1 .. v.file.size |-> v.file.offset + i]

\* sftp.go:250-294: whatever lengths a client reads with, it has the bytes of
\* the file so far, of this file only, and at the end it has all of them,
\* unless a piece was lost; also when the torrent is dropped meanwhile.
DownloadsAreExact ==
    \A c \in Channels : \A v \in client[c].open :
        /\ IsPrefix(client[c].got, FileBytes(v))
        /\ client[c].at = "done" /\ faults = 0 => client[c].got = FileBytes(v)

\* The pieces with a byte of the file v.
PiecesOfFile(v) ==
    {k \in 0 .. NumPieces(v.tm) - 1 :
        ToSet(Piece(v.tm, k)) \cap ToSet(FileBytes(v)) # {}}

\* The file i of a torrent, found by its path.
Opened(tm, i) ==
    CHOOSE v \in Target({tm}, tm.name \o tm.files[i].path) : TRUE

\* With any --chunk, what `get` writes of the files of tm is together the
\* torrent; a file is cut short only with an exception, and for a piece of its
\* own; and the bare name of a torrent is its only file.
GetWorks(tm) ==
    /\ \A chunk \in 1 .. tm.totalLen + 1 :
       LET file(i) == Get(Opened(tm, i), chunk, {}).out
       IN /\ FlattenSeq([i \in DOMAIN tm.files |-> file(i)])
                = [i \in 1 .. tm.totalLen |-> i]
          /\ \A i \in DOMAIN tm.files :
             \A lost \in SUBSET (0 .. NumPieces(tm) - 1) :
                LET g == Get(Opened(tm, i), chunk, lost)
                    needed == PiecesOfFile(Opened(tm, i))
                IN /\ g.thrown <=> lost \cap needed # {}
                   /\ IsPrefix(g.out, file(i))
    /\ Target({tm}, tm.name) = IF Len(tm.files) = 1 THEN {Opened(tm, 1)} ELSE {}

\* Evaluated once: it does not depend on the state.
GetOf == [info \in Infos |-> WellFormed(info) => GetWorks(BuildMeta(info))]

\* get.go:80-176, of every torrent whose names a path can spell: no chunk size
\* and no missing piece makes `get` write a wrong file or a short one without
\* saying so.
GetIsWholeOrThrows == \A info \in loaded : GetOf[info]

RangeWorks(tm) ==
    \A i \in DOMAIN tm.files :
        LET v == Opened(tm, i)
        IN IF v.file.size > 0 THEN PieceRange(v) = PiecesOfFile(v)
           ELSE /\ \A j, k \in PieceRange(v) : j = k
                /\ tm.totalLen > 0 =>
                      PieceRange(v) \subseteq 0 .. NumPieces(tm) - 1

\* Evaluated once too.
RangeOf == [info \in Infos |-> WellFormed(info) => RangeWorks(BuildMeta(info))]

\* get2.go:222-228, of every torrent whose names a path can spell: the range is
\* the pieces of the file; for an empty file it is at most one piece, and none
\* that the torrent does not have.
RangeIsExact == \A info \in loaded : RangeOf[info]

-----------------------------------------------------------------------------
(* The inductive invariant of the proofs *)

\* What a path can be spelled with.
Words == Parts \ {"", ".", ".."}

\* The torrents there have been, and what is in them.
TorrentMetas == {BuildMeta(info) : info \in Infos}

FileType == [path : Seq(Parts), size : Nat, offset : Nat]

Views == [tm : TorrentMetas, file : FileType]

NodeType == [name : Seq(Parts), size : Nat, dir : BOOLEAN]

ClientType ==
    [at : {"new", "dir", "list", "chosen", "stat", "seen", "found", "open",
           "failed", "file", "read", "done", "closed"},
     sent : Nat, asked : Nat, path : Seq(Words), entry : NodeType,
     found : NodeType, open : SUBSET Views, len : Nat, got : Seq(Nat)]

\* The client was shown e in the directory path, of a torrent that may be gone.
Shown(path, e) == \E tm \in TorrentMetas : Lists(tm, path, e)

\* What a client knows at each stage of its walk.
StageInv(cl) ==
    /\ cl.at \in {"chosen", "stat", "seen", "found", "open"} =>
          Shown(cl.path, cl.entry)
    /\ cl.at \in {"new", "dir", "list", "chosen", "stat"} => cl.found = None
    /\ cl.at \in {"found", "open"} => cl.found # None /\ ~cl.found.dir
    /\ cl.open # {} => cl.at \in {"file", "read", "done", "closed"}
    /\ cl.at \in {"file", "read"} => cl.open # {}
    /\ cl.open = {} => cl.got = <<>>
    /\ \A v, w \in cl.open : v = w
    /\ \A v \in cl.open : v.file \in ToSet(v.tm.files)

ServeInv ==
    /\ loaded \subseteq Infos /\ faults \in Nat
    /\ client \in [Channels -> ClientType]
    /\ \A c \in Channels : StageInv(client[c])
    /\ ListedIsThere
    /\ DownloadsAreExact

-----------------------------------------------------------------------------
(* Why requests are served and sessions end: somebody can always go on       *)

Kinds == {"sftp", "other", "data", "close"}
Packets == [on : Channels, what : Kinds]

SessionType ==
    [queue : Seq({"sftp", "other"}), eof : BOOLEAN, inbox : Nat,
     answerer : {"recv", "send", "gone"}, accepted : {0, 1},
     handler : {"wait", "serve", "over"}]

Waiting == {"list", "stat", "open", "read"}

\* How often x is in the sequence s.
Times(x, s) == Cardinality({i \in DOMAIN s : s[i] = x})

Packet(c, what) == [on |-> c, what |-> what]
OnWire(c, what) == Times(Packet(c, what), wire)

One(b) == IF b THEN 1 ELSE 0

\* The requests for sftp that have been answered: the one whose answer is not
\* passed on yet, the one that accepted holds, and the one that handler took.
Taken(s) ==
    One(s.answerer = "send") + s.accepted
      + One(s.handler # "wait" /\ s.answerer # "gone")

\* No request for sftp is taken for two.
SftpInv(c) ==
    OnWire(c, "sftp") + Times("sftp", session[c].queue) + Taken(session[c])
      <= client[c].asked

Silent(c) == \A i \in DOMAIN wire : wire[i].on # c

CloseIsLast(c) ==
    \A i, j \in DOMAIN wire :
        wire[i] = Packet(c, "close") /\ wire[j].on = c => j <= i

\* The close of a channel is its last packet, and the goroutines of a channel
\* end after it alone.
CloseInv(c) ==
    LET s == session[c]
    IN /\ client[c].at = "closed" <=> (s.eof \/ OnWire(c, "close") > 0)
       /\ s.eof => Silent(c)
       /\ CloseIsLast(c)
       /\ s.answerer = "gone" => s.eof /\ s.queue = <<>>
       /\ s.handler = "over" => s.eof

\* A client that asks for files is served or will be.
BegunInv(c) ==
    LET s == session[c]
        cl == client[c]
    IN /\ cl.at \notin {"new", "closed"} =>
             s.handler = "serve" \/ s.accepted = 1 \/ s.answerer = "send"
       /\ cl.at \in Waiting => s.inbox > 0 \/ OnWire(c, "data") > 0

ConnectionInv ==
    /\ wire \in Seq(Packets)
    /\ session \in [Channels -> SessionType]
    /\ \A c \in Channels : SftpInv(c) /\ CloseInv(c) /\ BegunInv(c)

\* The guards of Deliver and SessionStep.
CanDeliver ==
    /\ wire # <<>>
    /\ Head(wire).what \in {"sftp", "other"} =>
          Len(session[Head(wire).on].queue) < QueueCap

SessionCanStep(c) ==
    LET s == session[c]
        cl == client[c]
    IN \/ s.answerer = "recv" /\ (s.queue # <<>> \/ s.eof)
       \/ s.answerer = "send" /\ Room(s)
       \/ s.handler = "wait" /\ (s.accepted = 1 \/ AcceptedClosed(s))
       \/ /\ s.handler = "serve" /\ s.inbox > 0
          /\ \/ cl.at \in {"closed", "list", "stat", "open"}
             \/ cl.at = "read" /\ cl.open # {}
       \/ s.handler = "serve" /\ s.inbox = 0 /\ s.eof

\* The library stands still only before a channel whose goroutines can go on,
\* or that was asked for sftp more than twice; no request for a file is left
\* with nobody at work on it, nor a session that was closed and asked no more.
ServeNeverStuck ==
    /\ wire # <<>> /\ ~Overasked(Head(wire).on) =>
          CanDeliver \/ SessionCanStep(Head(wire).on)
    /\ \A c \in Channels :
          /\ client[c].at \in Waiting => SessionCanStep(c) \/ wire # <<>>
          /\ client[c].at = "closed" /\ ~Overasked(c) =>
                \/ SessionCanStep(c) \/ wire # <<>>
                \/ /\ session[c].answerer = "gone"
                   /\ session[c].handler = "over"
=============================================================================
