# samogon in TLA+

Models, model-checking runs and machine-checked proofs for the program in
`src/`: a content-addressed torrent store on S3. Every definition follows the
Go source; `PROJECT.json` maps each one to its lines.

Tools: TLC (`tlc -config X.cfg M`) and the TLA+ proof system (`tlapm M.tla`).

## 1. The system

`samogon fetch` downloads a torrent and puts each verified piece into a bucket
under its SHA-1 (`<root>/pieces/<hash>`, the CAS); the `.torrent` itself
(`<root>/torrents/<infohash>`) is uploaded last and is the commit marker.
`samogon serve` shows the committed torrents over SFTP. `repack` writes a
torrent again with another piece size, `gc` deletes pieces that no `.torrent`
names, `get` and `get2` read one file, and `bot` queues fetches in gorn, which
runs failed tasks again.

The processes share nothing but the bucket: no locks, no conditional writes.

| Component | State | Operations | Interacts through |
|---|---|---|---|
| Piece storage (`fetch.go:20-260`) | a buffer and a flag per piece, channels `bufSem` and `sem`, the set `known` | `WriteAt`, `ReadAt`, `MarkComplete`, `MarkNotComplete`, `Completion` | called by the goroutines of the torrent client; uploads to the bucket |
| Fetch (`fetch.go:266-372`) | where `runFetch` is | Stat, ListPieces, download, WaitAll, commit | storage, bucket, the gorn queue (`bot.go:195-218`) |
| gc (`gc.go:55-177`) | listed keys, the union `alive`, two pools of workers, the channels between them | list, load, sweep, delete | bucket, through `List` and `ListStream` |
| repack (`repack.go:99-351`) | where the stream stands, the buffer, the pieces cut, the uploads | read through cache and singleflight, Stat+Put, new `.torrent` | bucket; one semaphore for all requests |
| S3 client (`storage.go`) | the listing goroutine | Stat, Put, Delete, Cat, List, ListStream | every request may fail; a failed write may have landed |
| Piece cache (`cache.go`) | list and map | Get, Put | shared by every session |
| SFTP reads (`sftp.go:241-344`) | singleflight group per session | ReadAt, getPiece, prefetch | cache, S3 |
| Directory (`meta.go`, `serve.go:15-70`) | `byHash`, `byName` | Reload, lookups, `buildMeta` | bucket |
| Sessions (`serve.go:145-225`, `sftp.go:83-295`) | per channel: a queue of requests, the one-place channel `accepted`, a handler | accept, subsystem request, list, stat, open, read | SSH library, directory |
| get, get2 (`get.go`, `get2.go`) | an offset; a range of pieces | find the target, read it | directory, SFTP reads, S3 |
| bot, bench, config, main, throw | - | - | - |

What is hard in it, and what has to hold:

- **Piece storage.** `WriteAt` gives up the lock of the piece while it waits
  for a slot (`fetch.go:128-130`), so several writers race for one
  allocation; uploads read a buffer that is still shared (`fetch.go:191,198`);
  an upload may fail with its object stored. *No token is lost, no chunk is
  wiped, only verified bytes reach the CAS, complete means stored, and no
  writer waits for ever.*
- **Fetch.** A crash anywhere, failing requests that read as "not there"
  (`storage.go:98-108`), restarts. *The marker never points at a missing
  piece, progress is kept, and every fetch commits in the end.*
- **Bucket.** Jobs and gc act on listings that grow stale. *A marker that no
  sweep could have harmed is complete, and gc spares what it has read.*
- **gc.** Listings that end early (`storage.go:227`), two pools, three
  channels, a main goroutine in between. *The sweep judges by every .torrent
  that stayed, loses no garbage between two stages, and ends.*
- **repack.** One goroutine per chunk, one buffer for all of them, a cache that
  may evict what was read for the next step, one semaphore for reads and
  uploads. *The new torrent is the same bytes and all there, and the process
  neither dies nor waits without a cause.*
- **Reads.** Foreground reads, prefetches and evictions race for the same
  piece. *One request per piece, every read returns, EOF comes at the end or
  for a cause, and the bytes are those of the file.*
- **Sessions.** Two goroutines a channel and a library that reads the packets
  of all channels in order. *Requests are answered, and both goroutines end.*
- **Directory.** Torrents of one name come and go while reloads fail. *A name
  leads to its torrent, what is listed is there, and the directory follows the
  bucket.*

The full list, with lines and the properties that cover each, is under
`hazards` in `PROJECT.json`.

## 2. Modules

```
PieceStorage <- Fetch          Fetch instantiates Ingest and Bucket (refines)
Lru <- Repack                  Repack instantiates Ingest and Bucket (refines)
Gc                             Gc instantiates Bucket (refines, and takes its
                               jobs and operator as they are)
Lru <- LruCache                Files <- Serve
Lru <- PieceReader             Meta

Fetch <- FetchProofs              Repack, LruFacts <- RepackProofs
Bucket <- BucketProofs            Gc <- GcProofs
Lru <- LruFacts                   LruCache, LruFacts <- LruProofs
Meta, Serve <- ServeProofs        PieceReader, LruFacts <- PieceReaderProofs
```

(`A <- B`: B extends A.) An `MC...` module gives constants their values; its
`.cfg` files are the runs.

```
            Ingest                     Bucket
           /      \                 /    |    \
       Fetch      Repack        Fetch  Repack   Gc
```

Two abstract specifications hold the project together. **Ingest** is what a
download or a repack promises to the readers of the bucket, in two actions:
pieces are added; the commit happens once, with every piece stored. **Bucket**
is what the processes may do to each other. Fetch, Repack and Gc are each
shown to be the job or the gc that Bucket has, so what Bucket promises of any
number of jobs beside gc holds of the detailed ones as far as their steps are
Bucket's.

**PieceStorage** - one action per critical section of the goroutines that call
the storage. Peer readers (`Peers`) run `WriteAt`: with a buffer the whole call
is one action (`WriteAtBuffered`); without one it is three, as the code drops
the lock (`WriteAtUnbuffered`, `AcquireSlot`, `WriteAtRecheck`). A hasher of
piece p runs `MarkComplete` or `MarkNotComplete`; each send and receive on a
channel, each request and each locked section is an action. The content of a
buffer is, per chunk, zero, good or bad: what the properties tell apart.
The torrent client is external: it asks for each missing chunk from one peer at
a time, hashes a piece when all chunks are in and no write is in flight, marks
it complete or not, and asks again after a failure. `dirty`, `hasher` and
`writer` are its state, deduced from how `fetch.go` relies on it.

**Fetch** - `runFetch` around it. A crash, a failing `PutBytes` of the marker
and `WaitAll` returning false end the process; the queue starts it again.
Uploads under way at a crash land or do not. `JobState` is what Bucket sees of
it: a hasher past its upload is a piece that the job has.

**Bucket** - several jobs, `gc` and an operator. gc reads or skips each
`.torrent`, then judges and deletes piece by piece, in any order. Nothing in
the code keeps gc and jobs apart, so nothing here does. Two history variables
say where that can hurt: a job is `beside` a sweep when one has run during its
life, and a marker is `risky` when such a job wrote it or a sweep began without
having read it. At the start the CAS may hold pieces that earlier jobs left.

**Gc** - `gc` itself. `List` reaches each key at a moment of its own; `pmap`
hands keys to `--max-inflight` workers, each of which loads or skips; the
sweep is a pipeline of the listing, its channel, the key in the hand of the
main goroutine, the channel of twice `--max-inflight`, and the delete workers.
A page of a listing may answer "not found" and end it (`storage.go:227`), a
read may fail, and the process may die anywhere. The jobs and the operator are
Bucket's own actions (`Others`).

**Repack** - from the first read to the new `.torrent`: `pieceStream.Read` as
`io.ReadFull` calls it (`Fetch`, `Get`, `Do`, `Copy`), the singleflight calls
and prefetchers (`Prefetch`, `Check`, `CatToken`, `Cat`), the cut into chunks,
the upload goroutines (`UploadToken`, `Stat`, `Put`) and the end. A piece is
its bytes and a hash the bytes it is the hash of, so the layouts, the last
short piece and the reuse of one buffer are all there. The process may die
and be run again, with another piece size too.

**Lru, LruCache** - the list operations of `container/list` and the two
operations of the cache, each atomic under its mutex. `used` and `put` are
history: all keys ever put by last use, and their last values.

**PieceReader** - the goroutines of `ReadAt` and of the prefetches, with the
cache as the list of its keys and a group per session. One action per critical
section of the cache or the group, and per request. The daemon dies when an
exception leaves a library goroutine.

**Files** - pure definitions: the tree and offsets of `buildMeta`, `path.Clean`,
`list`, `stat`, `openFile`, the loop of `ReadAt`, the loop of `get` over it,
and the range of pieces of `get2`. A path is the sequence of what its slashes
separate; the bytes of a torrent are the numbers 1, 2, 3, ..., so that a
misplaced one shows. Loops are recursive functions.

**Serve** - `handleSession` with its two goroutines for each channel of a
connection, the library that reads packets in order and stops at a full queue,
and a client that lists, looks at what it was shown, enters or opens it, reads
in any of the lengths, asks for other things meanwhile, and may close at any
time. List, stat, open and read are requests of their own, and the first three
look the path up in the directory as it then is (`ServeList`, `ServeStat`,
`ServeOpen`); `Reload` may drop a torrent between any two of them. Torrents may
have names that no path can spell: their entries are shown and may lead
nowhere, or into another torrent. The properties speak of the other entries
(`Reachable`, `WellFormed`).

**Meta** - `Reload` step by step, between them the bucket changes; the daemon
may be started again. A listing that fails leaves the directory as it is; one
that is answered with "not found" counts as empty (`ListNotFound`), and Reload
goes on to drop all that was loaded. Names are abstract: `NameOf` and
`Suffixed`, of which nothing is assumed, so a suffixed name may be the name of
another torrent; the properties exempt such a name (`Contested`). Its
specification is `MetaSpec`, with `MetaInit` and `MetaNext`, so that ServeProofs
can extend it beside Serve.

## 3. Runs

| Run | Instance | What it shows |
|---|---|---|
| `fetch` | 2 pieces, 2 chunks, 3 readers, 3 slots, 1 upload, 3 faults | no token leaked, no chunk wiped, only verified bytes stored, marker complete, progress kept, no wedge, no deadlock, Ingest and the fetch job of Bucket implemented, the commit comes |
| `fetch_stall` | 2 pieces, 3 readers, 2 slots, no fault | **refuted**: a stalled writer resumes |
| `bucket` | 3 torrents, 3 hashes, 2 jobs (symmetric), gc, operator | markers that are not risky are complete; what gc has read it spares |
| `bucket_gc_overlap` | the same with 1 job | **refuted**: every marker is complete |
| `lru` | 4 keys, 2 values, sizes -1, 0, 1, 2, 3, 5 | the cache is an LRU of its size |
| `reader` | a file of 3 pieces and 2 hashes, 2 readers in one session or two, 1 prefetcher, caches of 1 and 2, 1 fault | one request per key, EOF needs a cause, every read returns (or the daemon is dead) |
| `reader_eof` | the same file, 2 prefetchers, cache for all, 1 fault | **refuted**: EOF only at the end |
| `meta` | 3 torrents, 2 of one name, a third whose name is a suffixed one, 2 faults | names lead home and are stable but for a contested one, the directory converges, also after a listing that came out empty |
| `meta_names` | the same | **refuted**: display names are unique |
| `gc` | 2 torrents that share a piece, 1 job, `--max-inflight` 0 and 2, channel of 1, 1 fault | the sweep sees what stayed, overlooks nothing, is the gc of Bucket, and ends if it has a worker |
| `repack` | 5 bytes in pieces of 2 (one repeated, one short), new length 2, 3 or 5, cache 1 or 2, distance 0 to 2, `--max-inflight` 0 to 2, 1 fault a run | same bytes, keys address bytes, death needs a cause, Ingest and the repack job of Bucket implemented, it ends |
| `serve` | 3 torrents (a tree with an empty file and straddling pieces; one file whose name is replaced; a path that leads elsewhere), 1 channel, reads of 2 and 3, queue of 1, 5 other requests, 1 lost piece | listings lead to files, downloads, `get` and the range of `get2` are exact, requests are answered, sessions end |

Each of the four refuted properties is what a comment of the repository says;
the disagreement is described under `findings` in `PROJECT.json`.

Limits of what passes that are worth knowing:

- One failing read of a `.torrent` makes gc delete that torrent's pieces while
  its marker stays (`gc.go:113`); so does a page of the listing that answers
  "not found" (`storage.go:227`). Such a marker is `risky` in Bucket, and
  `SweepSeesSteady` exempts what gc skipped or a listing cut off. What holds
  all the same is `LoadedIsSpared`.
- With `--max-inflight 0` gc and repack block for ever. `GcEnds` and
  `RepackEnds` ask for one worker at least; `config.go` does not.
- repack gives up with "missing from cache after fetch" (`repack.go:337`) when a
  prefetch evicts what the main goroutine waits for; `DiesForACause` says that
  this takes a cache smaller than the set of the torrent's pieces.
- A failing `GetObject` under a foreground `ReadAt` leaves a library goroutine as
  an uncaught exception (`sftp.go:336`) and ends the daemon: `alive` becomes
  FALSE, and `ReadsEnd` has to count that as an end.
- A third request for `sftp` on one channel stops its answerer, for `accepted`
  has room for one value and is read once (`serve.go:197`); its queue then
  fills and the library reads no further packet of the connection.
  `RequestsServed` and `SessionsEnd` exempt such a connection (`Overasked`).
- A suffixed display name that equals the literal name of another torrent
  (`meta.go:112`) hides one of the two, and dropping one takes the entry of both
  away: `meta_names`. `NamesLeadHome` and `NamesAreStable` say that this is the
  only way to lose a name: they exempt `Contested` names and no others.
- A listing answered with "not found" empties the directory of the daemon until
  the next reload (`storage.go:229`, `meta.go:115`). `FollowsBucket` says that
  the torrents come back. They may come back under other names: stability is
  promised while a torrent stays loaded.
- A name with a slash inside, or a path with an empty part or dots, is listed
  and cannot be reached (`meta.go:195`), or leads to what another torrent shows.
  `ListedIsThere` exempts the entries of such torrents, and `RangeIsExact` and
  `GetIsWholeOrThrows` the torrents themselves; what they do to the others is
  in the run.
- The range of `get2` for a file of a torrent that holds only empty files is one
  piece that does not exist (`get2.go:223`): `RangeIsExact` says so much and no
  more.

### Bounds

- `MaxFaults` (all but Bucket; `MaxFailures` in Meta): corrupt chunks, failing
  requests, crashes, lost pieces. One is enough for each branch; three let a failing upload, a crash
  and a failing listing follow each other. In Repack it counts per run of the
  program. Deaths of gc (`Dies`) and of the jobs of Bucket are unbounded.
- `Peers`, `Readers`, `Prefetchers`, `Jobs`: two compete; a third shows
  that a waiter behind two others is not forgotten, and is what the stall of
  `fetch_stall` needs. With all prefetchers of PieceReader busy a new one counts
  as not yet scheduled; Repack has as many as the code starts.
- `Pieces`, `Chunks`, `Hashes`, `Torrents`: two chunks make a piece half
  filled; two pieces compete for a slot. Pieces with equal bytes share a key in
  Repack, PieceReader, Bucket and Gc.
- `InflightPieces`, `UpSem`, `UpSems`: below, at and above the number of
  competitors. PieceStorage assumes them positive; Gc and Repack have zero too.
- `ChanCap` (Gc): how far the listing may be ahead of the sweep; 1 here, 1024
  in the code (and the key in its hand). The proofs hold for all values.
- `Content`, `OldLen`, `NewLens` (Repack): chunks that span two source pieces, a
  source piece that feeds two chunks, both ends short, a last chunk that is full
  (the stream then ends with an empty read), and a hash that occurs twice, so
  that a prefetch and the foreground want the same one.
- `Caps`, `Distances`: every relation of the size to the number of keys; a
  prefetch of the next piece, of one behind the end, and none.
- `MaxSpan` (PieceReader), `ReadLens` (Serve): a request reaches into two
  pieces, stops inside one, or runs over the end of the file.
- `MaxRequests`, `QueueCap`, `Channels` (Serve): five requests are three for
  sftp, and two more that fill the queue behind the answerer. With two
  channels TLC does not finish in minutes: how one channel holds up the other
  is in the model (`Deliver` reads one `wire`) and not in a run.

What holds for other values is the matter of section 4.

### Fairness

`Fetch!Fairness`: every goroutine that can run is scheduled, and each S3
request ends, because the client has a 30-second timeout (`storage.go:43-53`);
the queue restarts a failed task (`--retry-error`, `bot.go:199-203`); the swarm
keeps offering each chunk, without which no download can end. Faults carry no
fairness and are bounded. `PieceReader!Fairness`: the same of the goroutines
of a session; nothing is assumed of clients. `Meta!FairMetaSpec`: the ticker of
`metaReloader` fires for ever. `Gc!FairSpec`, `Repack!FairSpec`: while some
goroutine of the process can run, one does (`WF_vars(Progress)`), which is the
least a scheduler gives; nothing is assumed of jobs, operator, faults or of
another start. `Serve!FairSpec`: the library's reader and each session are
scheduled; nothing is assumed of clients. Weak fairness suffices: a hasher
waiting for `sem` competes only with uploads that end.

Deadlock is checked except where the system may stop: in `fetch_stall` (the
wedge of that run), in the runs of PieceReader where the
daemon may be dead, in `repack` (it blocks with no token to have), and in
`serve` (all channels are closed, or one was asked for sftp three times).

## 4. Proofs

All theorems are checked by tlapm; the constants are arbitrary, with the
assumptions named in the modules (finite sets of pieces and peers, positive
sizes).

**FetchProofs**, first part, on the storage of pieces. `IInv` is inductive. The
properties alone are not: that no chunk is lost needs to know that a writer in
flight has its chunk in `dirty` and nobody else writes the same one
(`WriterInv`); that the CAS holds verified bytes needs to know that a piece
between hashing and `SetComplete` still has its good buffer (`HasherInv`); that
complete means stored needs `KnownIsStored` for pieces taken from the listing.
One lemma per action (`WriteAtRecheckStep`, ...) shows each of the nine parts
kept. Token counts are cardinalities: an action adds or removes one element of
the set its semaphore counts.

**FetchProofs**, second part, on the life of a fetch. `FetchInv` adds to `IInv`
that the process commits only what is complete and that the marker means
complete. `ProgressIsKept` and the refinement of Ingest follow step by step.
`NoWedge`: with more slots than pieces a full semaphore means that more tokens
are held than pieces have buffers, so some writer is at its second look with a
spare one. `FetchImplementsJob` sorts the steps of a fetch by what Bucket sees
of them. Most change neither the stored hashes nor what the job believes
(`QuietStep`); an upload adds one stored hash (`OneMore`), which the job comes
to believe when the hasher is past the request (`HasherSeen`); the commit needs
that all complete pieces are believed (`BelievesAll`), and a death that what
the job had on the wire is what Bucket lets a dying job leave behind.

**BucketProofs.** `BucketInv` is inductive for any number of jobs. A marker
that is not risky is complete because the job that wrote it had no sweep beside
it, so what it believed stored was stored, and because every sweep since has
read it; what gc queues is dead by what it has read.

**GcProofs.** `StagesInv` follows each key through the pipeline: it is at one
place at a time (`OnePlace`), a phase finds the stages of the other phases
empty (`Phases`), nothing doomed is alive, and a `.torrent` that stayed is in
the listing, with main, with a worker, loaded or skipped. `SweepSees` and
`GarbageGoes` are what that says at the end. The refinement maps the pipeline to
the `stale` set of Bucket (`Doomed`): a key enters it when the listing finds it
dead, and a step from stage to stage is a stutter.

**RepackProofs.** `RepackInv` says where the stream stands: what it has handed
out is the content up to the least of `(cur - 1) * OldLen`, or that plus `pos`
inside a piece, and the end of the content, for any content and any two piece
lengths. Layouts are handled by quotient and remainder (`LayoutFacts`,
`NextPiece`), and a buffer that is full, or the last one when the stream ends,
is the next piece of the new layout (`CutStep`); that the layout is complete
once the uploads are drained is `DrainedFacts`. The other parts say that
cache and CAS hold right bytes, that each chunk has its upload and an upload
that is through its object, and that without a fault and with room for every
piece a lookup finds what the call it waited for fetched (`CauseInv`).
`RepackSameBytes`, `RepackKeysAddressBytes` and `RepackDiesForACause` follow.
`RepackImplementsIngest` and `RepackImplementsJob` sort the steps by what the
bucket sees: an upload adds one object (`BucketStep`), most steps change
nothing of it (`MainJob`, `CallsJob`), the end of an upload makes the job
believe (`UploadsJob`), a death leaves behind what Bucket allows (`DeathJob`),
and the commit comes when all is read and believed (`PublishJob`).

**LruProofs.** `LruInv`: the list is the front of the history of uses, so each
move to the front acts alike on both. Sequences are handled by position
(`MoveToFrontFacts`, `PushFrontFacts`, `RemoveBackFacts` in **LruFacts**).

**PieceReaderProofs.** `FlightInv` alone is not inductive: that the key of a
leader is in its group needs each goroutine at work to know its session and
hash, and the walk needs each reader to be inside its request (`GoInv`). With
room for every piece (`Room`, a matter of cardinality: a list without repeats
that lacks a key is shorter than there are keys) and no failing request,
`KeptInv` says that the hash of a call that is over is in the cache, so no read
breaks off early (`EofNeedsCause`). `reader_eof` shows that the second condition
is needed, a cache of one piece that the first is.

**ServeProofs**, first part, on the directory. `MetaInv`: each display name is
the name or the suffixed name of its torrent. A fresh one that meets one in use
is therefore a suffixed name, and that of another torrent too: such a name is
`Contested`. Nothing is assumed of the names. That a name leads to a torrent
shown under it needs no exemption: only the latest owner is in `byName`.

**ServeProofs**, second part, on the files. What Files computes is proved for
every `.torrent` that `ServeAssumption` admits: any names and paths, any
lengths, any piece length but zero. What a listing, `get` and `get2` promise is
conditional on names that a path can spell (`WellFormed`, `Reachable`): the
torrent's own, not those of the torrents beside it. The loops of Files are
recursive functions, which TLA+ defines with CHOOSE, so each is first shown to
exist: those that step forward by what a read returned (`Walk`, `Get`) by
`ForwardRecursion`, the others step by step (`OffsetsFacts`, `CleanFacts`,
`FlattenFacts`). The library's induction takes an operator, so `Upwards` and
`Downwards` do the same with a set, from the least member that fails
(`LeastExists`). Then, in the order in which they rest on each other:

- `TorrentFacts`: the table of `buildMeta` is contiguous, from zero to the
  length of the torrent;
- `WalkFacts`, `ReadFacts`: a read returns the bytes from its offset on, up to
  its length, the end of the file or the first lost piece (`ReadsRight`), and
  EOF in the last two cases only;
- `ListedFacts`, `OpenFileFacts`, `StatBelow`: what a listing shows is found
  by `stat`, with the same size, and opened, or its torrent is gone
  (`ReachableFacts`); and whatever else a path leads to is of the right kind
  (`CleanType`, `StatType`, `OpenType`);
- `PiecesFacts`, `RangeFacts`: which pieces hold a byte of a file, and that
  `get2` computes these (`RangeExact`);
- `GetFacts`: the loop of `get` ends with all bytes or with the exception at the
  first lost piece, for every size of its buffer; the files one after the other
  are the torrent (`GetWholeOrThrows`).

**ServeProofs**, third part, on the sessions. `ListedIsThere` and
`DownloadsAreExact` are not inductive: between a listing and the answer to
`stat` a torrent may go, so the client must be known to hold an entry that some
torrent did list (`Shown`), a directory that a path can spell, and an open file
of a torrent that stays as it was though it is no longer loaded (`StageInv`).
With the types this is `ServeInv`, which TLC checked on the instance of `serve`
before. That stat and open are two requests shows in `ServeStatInv` and
`ServeOpenInv`: each finds the entry, or no torrent of that name is left.
`ByClient` splits it by clients: a step moves one of them
(`OneClient`), or none (`NoClient`), or takes a torrent away, which leaves each
client's part true (`ClientOkStays`).

What the proofs assume of the constants: `ServeAssumption` leaves out two
torrents of one sanitized name (that is the matter of Meta) and a piece length
of zero, which would be a division by zero in `sftp.go:263`.

**Towards liveness.** That something eventually happens needs fairness and
ENABLED, which the provers cannot treat. Two halves of the arguments can be
said without either, and are proved for every value of the constants.

*Somebody can always go on.* A formula lists the guards of the steps that the
scheduler owes, and a theorem says that one of them holds until the work is
done.

| Theorem | Why nobody is left waiting | Under which condition |
|---|---|---|
| `DownloadGoesOn` | a full semaphore of buffers means that a writer is about to return a spare slot (as in `NoWedge`); a full one of uploads, that an upload is under way; else a chunk is still wanted and a peer free | more slots than pieces, a token for an upload, a peer; `fetch_stall` shows what happens with fewer slots |
| `GcGoesOn` | a stage with a key in it waits only for room in the next one, and the last deletes | a worker, a channel that holds a key |
| `ReadersGoOn` | who waits in a group waits for a leader, and a leader does not wait (`FlightInv`) | the daemon lives |
| `RepackGoesOn` | main waits for a call that is under way (`RepackAwaits`) or for the uploads, these for a token, and who holds a token (`TokenHolder`) waits for nobody | a semaphore of one at least |
| `ServeGoesOn` | see below | the channel was asked for sftp at most twice |

`ServeGoesOn` needs an invariant of its own, `ConnectionInv`. It follows each
request for sftp from the wire to the queue, to the goroutine that answers it,
to the channel `accepted` and to the handler: it is at one place at a time, so
these together are at most the requests that were made (`SftpInv`). The
goroutine that answers can be held up only with one request in its hand, one
in `accepted` and one that the handler has taken, which are three. A full queue
in front of the library is therefore one that its goroutine can empty. The close
of a channel is the last packet it has (`CloseInv`), so what is behind it never
keeps the goroutines from ending, and a client that asks for files has a
handler at work, or one that will be (`BegunInv`).

*What is left gets less.* `GcWorkIsBounded`, `ReadsShrink` and `RepackShrinks`
each count the steps that a run or a request still has before it, in a number
that every step of its own makes smaller and nobody else makes larger. For gc it
is the stages before each `.torrent` and each key (`Work`, of finitely many
torrents and keys). For a reader it is the steps that a piece can cost, also
when its call fails or the piece was evicted (`Left`): a read asks for no piece
again. For repack (`RunLeft`) a byte of the content stands for more than all
that is done before the next one: a lookup, a prefetcher, a call and what is
kept for the upload of a buffer that is not empty. Prefetchers, calls and
uploads are counted by the places that they have before them, so a step of one
of them is a step less of the run, whatever it finds in the cache or the bucket.

None of these formulas is the property of a run. TLC evaluated each on the
instances of section 3 (with the conditions of the table), and compared the
lists of guards with ENABLED of the actions that they stand for.

**What is only model-checked.** Every safety property that a passing run checks
is a theorem. (`StorageBounded`, that at most `InflightPieces` buffers are in
RAM, is proved only: it follows from `SlotsAccounted`.) Left to TLC is liveness
(`EventuallyCommitted`, `ReadsEnd`, `FollowsBucket`, `GcEnds`, `RepackEnds`,
`RequestsServed`, `SessionsEnd`): the step from the two halves above to
"eventually" is the fairness of the scheduler. For `FollowsBucket`, and for the
steps of a download or a session that may be repeated (a chunk that fails its
check is asked for again, a client asks again), no measure is proved either.

## 5. Not modelled

- The torrent client, the S3 service and the retries inside its SDK, SSH and
  SFTP framing and authentication, Telegram: external code, present only as
  what `src/` relies on.
- Parsing of `.torrent` files: a torrent is its name, sizes and hashes.
- `bot`: a sequential filter around library calls. That a failed task is queued
  again is `Fetch!Restart`.
- The worker pool of `get2` and all of `bench`: they fetch and discard for a
  measurement and keep counters only.
- Configuration (values out of range are noted above where they matter), flags,
  dispatch, logging, progress reports and formatting.

`PROJECT.json` gives the reason for each part that is left out.

## 6. What is left

In this order, should the model be taken further:

1. `Serve` with two channels, once the client's walk is made smaller: how a
   channel that is asked for sftp three times holds up its neighbours.
2. Several sessions over one cache in Repack's detail, that is, Repack's
   stream and PieceReader as two users of one module.
