# DateiLager: TLA+ models, model checking and proofs

DateiLager is a versioned file store. A Go gRPC server keeps the files of many
projects in PostgreSQL; a client (a library and a binary) downloads a version
into a directory, follows newer versions incrementally, and uploads local
changes; a daemon on each Kubernetes node keeps a shared cache of packed
directories. This directory holds TLA+ models of the parts that carry the
program's logic, TLC configurations that check them on small instances, and
TLAPS proofs.

## 1. Inventory

| Component | Code | State | Operations |
| --- | --- | --- | --- |
| Object store | `pkg/api/fs.go`, `internal/db/{update,project,copy,reset}.go` | `dl.projects` (latest version), `dl.objects` (rows with `start_version`, `stop_version`), `dl.contents` (bytes by hash) | Update, NewProject, CloneToProject, DeleteProject, Rollback, Reset |
| Garbage collection | `internal/db/gc.go`, `pkg/api/fs.go` | the same tables; the hashes collected between two statements | GcProject, GcRandomProjects, GcContents |
| Version queries | `internal/db/queryBuilder.go`, `query.go` | none | the SQL of `updated_objects`, `removed_objects` |
| Reading | `pkg/api/fs.go`, `internal/db/{query,content,tar}.go` | content cache | Get, GetCompress, GetUnary, Inspect, GetCache |
| Pack merging | `internal/db/tar.go` | none | `updateObjects`, `packObjects` |
| Client | `pkg/client/client.go`, `dir.go`, `internal/files/writer.go` | the directory, `.dl/version`, `.dl/sum` | Rebuild, Update, GetCache |
| Cached daemon | `pkg/api/cached.go`, `pkg/cached`, `pkg/cachedcli`, `internal/files/writer.go` | the cache version, the socket, volumes of hard links | Prepare, NodePublishVolume, PopulateDiskCache, NodeUnpublishVolume, Probe, graceful stop |
| Server process | `pkg/server/server.go`, `pkg/cli/server.go` | a pool of at most 60 connections, the health status | Connect, serve, monitorDbPool, graceful stop, Close |
| Authentication | `internal/auth`, `pkg/server/server.go`, `pkg/api/fs.go` | none | token to role, role to call |
| CLI, JS client, telemetry | `pkg/cli`, `js`, `internal/telemetry` | none of their own | |

How they interact. Every API call runs SQL on a pooled connection. `Update`
reads its whole stream, then locks the project's row, numbers the next version
and writes one object after another in a transaction; contents are inserted on
a second connection and are visible at once. The client asks for the difference
between the version in `.dl/version` and a target, receives it as tars from
`GetCompress`, and applies them with parallel workers; its `Update` compares
the directory with the summary in `.dl/sum`, streams the difference and, when
somebody else published in between, rebuilds.

What is hard. Transactions of concurrent calls interleave at READ COMMITTED;
contents and rows are written in different transactions; garbage collection
works on what it read earlier; clone and copy read a source that others write;
rollback uses version numbers again; the client's disk, version file and
summary are written in separate steps, and each may be the last before a crash;
receivers, workers and cancellation race, and the workers of an upload share an
error variable; daemons end, are killed and start while the last one still links
files. The list in `PROJECT.json` ("hazards")
gives each at its line.

What makes each component correct:

* object store: a published version never changes while it is complete; an
  update publishes its batch and nothing else; a path has one object in a
  version; a clone is exact; every object has its contents;
* garbage collection: it removes only versions outside the window asked for,
  and only contents no object refers to;
* version queries: what they return, applied to the files of `from`, gives the
  files of `to`;
* reading: an answer has exactly the files of one version, whatever is written
  between its statements;
* pack merging: every entry and every update is in the result once, and sending
  the same again changes nothing;
* client: a directory that says it is at version v has the files of v;
  local changes are uploaded or stay pending; a diff is published whole or not
  at all; every call returns;
* cache and daemon: a cache directory under its final name is complete, a volume
  has every file it promises, and one that is asked for is published;
* server process: while there are connections to spare calls do not wait for each
  other for ever, the status tells when they do, and the process drains before it
  closes its pool.

## 2. Modules

| Module | What it is | Uses |
| --- | --- | --- |
| `QueryBuilder` | the version queries as operators on a set of rows | |
| `ObjectStore` | the tables and every operation that writes them | `QueryBuilder`, `VersionedFs` |
| `VersionedFs` | the abstract specification of the store | |
| `ObjectStoreProofs` | type correctness, `ContentsAvailable` | `ObjectStore` |
| `ObjectStoreSafety` | the inductive invariant, `DisjointLives`, `NoFutureRows` | `ObjectStoreProofs` |
| `ObjectStoreVersions` | `BatchPublished`, `CloneExact`, `QueriesExact`, the refinement of `VersionedFs` | `ObjectStoreSafety` |
| `Reading` | the calls that read, statement by statement, beside every writer | `ObjectStore` |
| `ReadingProofs` | `ReadTypeOK`, `ReadExact` | `Reading`, `ObjectStoreVersions` |
| `ClientSync` | a directory, its version file and summary, beside a project | `QueryBuilder` |
| `ClientSyncProofs` | `TypeOK`, `RetryExact`, `Synced`, for any tree of names | `ClientSync` |
| `TarPipeline` | the goroutines of one rebuild | |
| `PackMerge` | the generator that merges a pack | |
| `UpdatePipeline` | the goroutines of `Client.Update`, the server's end of their stream, and the rebuild that may follow | `TarPipeline`, `PackMerge` |
| `UpdatePipelineProofs` | `Complete` for any number of workers and tars; what an update publishes and reports, and that packs are merged exactly, for any diff, pack and number of workers | `UpdatePipeline` |
| `CacheFetch` | cache versions on the server and `GetCache` on a directory | |
| `CachedDaemon` | the daemon on a node, its socket and the volumes | `CacheFetch` |
| `CachedDaemonProofs` | `CacheComplete` and `VolumeWhole` for any number of daemons that do not overlap | `CachedDaemon` |
| `ConnectionPool` | the server process: connections, health, shutdown | |
| `ConnectionPoolProofs` | the accounting of connections, `ClosedWhenIdle`, `SomebodyRuns` | `ConnectionPool` |
| `MCObjectStore`, `MCReading`, `MCClientSync`, `MCTarPipeline`, `MCUpdatePipeline`, `MCConnectionPool` | paths, streams, diffs and trees for TLC | |

### ObjectStore

`latest`, `objects` and `contents` are the three tables, committed rows only.
`tx[s]` is the transaction of the API call s: the rows it has stopped and added
and what it holds in Go variables between statements. `Pending(tx[s])` is what
the transaction sees, the committed rows with its own changes; it becomes
`objects` on commit. That is READ COMMITTED: another call's commit between two
statements changes `objects` under an open transaction. `gcHashes` are the
hashes a collection holds between its two statements. `used` and `floor` are
history variables: the ids ever created, and the oldest version of a project
that collection has left complete.

An action is one statement, or a group of statements between which no other
call can be seen to act:

| Action | Code |
| --- | --- |
| `LockLatestVersion` | `Fs.Update` up to `SELECT ... FOR UPDATE`; the stream is complete by then |
| `DeleteObject` | `UPDATE ... SET stop_version` of one deleted path |
| `InsertContent` | `INSERT INTO dl.contents` on the second connection |
| `IdenticalObject`, `UpdateObject` | `INSERT ... ON CONFLICT DO NOTHING` into `dl.objects`, and the `UPDATE` that stops the previous row and the `dir/` markers above it |
| `IdenticalPack`, `UpdatePackedObjects` | the merged pack: stop and insert |
| `CommitUpdate`, `UnchangedUpdate` | `UpdateLatestVersion` and `COMMIT`; or the early return |
| `CreateProject`; `CopyAllObjects`, `CommitNewProject` | `NewProject` without and with a template |
| `CloneRemoved`, `CommitClone` | the two statements of `CloneToProject` |
| `DeleteObjects`, `DeleteProject` | the two statements of `DeleteProject` |
| `Rollback`, `Reset`, `ResetAll` | `ResetProject`, `DropOtherProjects`, `ResetAll` |
| `GcProjectObjects`, `RandomContents`, `GcContentHashes`, `GcFail` | collection, which runs outside transactions |
| `Abort` | any error, cancellation or crash: the deferred close rolls back |

`FOR UPDATE` and the writes of a project's row are the guard `~Locked(p)`. The
unique indexes are guards as well: a statement that would break
`objects_latest_idx` (`UniqueStops`) fails, and what remains for its transaction
is `Abort`.

Abstractions. `hash` stands for a row's (hash, mode, size, packed), all of
which `identical_objects_idx` compares. A batch is a set, so every order of the
stream is explored, packed parents after the others as in the code; what merging
a pack yields is an input. The row locks that `DeleteObjects` takes on objects
are left out: a writer that would wait for them may go on, which adds
behaviours. `Reset` is modelled with one project. `MaxVersion` bounds versions
for TLC; the proofs hold for every value. Symbolic links, path prefixes and
ignores are not modelled.

Three switches are assumptions about callers and operators that the code does
not enforce. With `FreshIds` a deleted project's id is not used again; with
`StableClones` the files being cloned do not change between the statements of
the clone; with `QuiescentGc` contents are collected only while no call has a
transaction open. `SafeUse` is FreshIds, StableClones, templates that are never
rolled back, and streams that name a path once.

### VersionedFs

A project is a window of versions, each a set of files. Publishing adds one at
the new end, rollback drops some there, collection forgets some at the old end,
and none of these changes another version in the window. `StableVersions` states
that the store implements it, with `hist[p][v] = View(objects, p, v)` for v from
`floor[p]` to `latest[p]`.

### Reading

`reads[r]` is the call that reader r is in: its version, the queries still to be
run, the rows of the current one, and what was sent. `known` are the hashes that
the server's content cache may have; it may have dropped any of them (`hits`).
The version (`NewVersionRange`), the project's patterns (`NewPackManager`), each
query (`executeQuery`) and each chunk of contents (`GetObjects`, `GetTars`) is a
statement, and every action of `ObjectStore` may run between two of them
(`WriteStep`). `Retry` is gRPC's own retry policy: the handler starts anew and
nothing of the first attempt reaches the caller. A content that is not found is
an empty file in a tar; `GetObjects`, which unpacks, panics on an empty pack and
the call fails. `steady` is a history variable: the version was complete when it
was chosen, and has been since.

Reads are of whole versions; the differences of two are in `ClientSync`.
Prefixes and ignores are sets of paths (`Queries`).

### ClientSync

The server is one project: `rows` and `latest`. An update there is one step
(`Publish`, `SendUpdate`), which is what `ObjectStore` establishes of it. The
client is `disk` (what is at each name: a content, a directory, or nothing),
`version` (`.dl/version`), `summary` (`.dl/sum.s2`) and `job`, the call in
progress. `attempts` and `faults` are history variables.

| Action | Code |
| --- | --- |
| `Publish`, `GcProject` | others write to the project; old rows are collected |
| `Rebuild` | `Client.Rebuild` up to the request: the version file is read |
| `GetCompress` | the query and the cutting of its result into tars; an empty stream ends the call without a version file |
| `WriteObject` | the next system call for the next object of a tar, by any worker: a directory is made, a file opened and written, a path removed, a pack removed or put in place |
| `RemoveTarget` | `retryFileErrors` after a failed call: `os.RemoveAll` of what is in the way, before the call is tried again |
| `WriteFails` | a worker's write fails, the others go on |
| `RebuildError` | `group.Wait` returns a worker's error |
| `WriteVersionFile`, `WriteSummary` | the end of a rebuild |
| `Update` | `DiffAndSummarize`, which writes the summary first |
| `SendUpdate`, `ReceiveAnswer`, `RebuildAfterUpdate` | the upload, the answer, and the rebuild when somebody else published |
| `Edit`, `Fault` | a file changes in the directory; the client is killed or loses its connection |

An object that is left to write has a `kind`, the call its worker makes next (a
`file` whose directory is to be made is then an `open`; a `pack` that exists is
unpacked elsewhere, removed, and is then a `place`), and a `step`, where
`retryFileErrors` is with it: `try`, `clear`, `again`. Every other worker may
write between these. `Blocked` says when a call fails: making or removing a path
below a file (ENOTDIR), a directory where a file is, a file where a directory is,
a directory that another worker has removed. The removal of a path that is gone or
of a directory that is not empty is no error. `Written` is the disk after a call
that succeeds, `Rest` what is left of the tar, `Target` what is removed between the
two tries of `mkdir` or `open` (`Retries`): for a file the directory it is in.
`Made` is `existingDirs`: a directory that a tar has made is not made again for
that tar, even when another worker has removed it since.

Abstractions. A tar is a set of objects that is written in the order of the
stream (`Earlier`: updated before removed, each by path, `Rank` being the order of
the paths). Plain objects are cut into at most two tars, at any place (`Starts`);
packs are tars of their own and one leaf of the disk. Tars are written in any
order, call by call, so the workers interleave in every way; `os.MkdirAll` and
`os.RemoveAll` are single steps. Local edits are made at the paths `Mine`,
at the top of the directory. The version file is written in one step. Callers
ask for versions that exist.

Names are assumed to be a tree (`TreeAssumption`: being inside is transitive, two
files have two nodes, no file has a pack's name), what others publish to be one
(`TreesAssumption`: a path once, nothing inside a file), and edited files to be at
its top (`EditAssumption`).

Switches. With `Interrupts` files change while the client runs and a rebuild is
started although edits are not uploaded. With `GcKeepsUp` no version the
directory may still be at is collected. `Folding` are the paths that may have
been inside a directory which becomes a file. `Crowding` are the files that may
become a directory with more than one entry: two workers then both find the file
in the way, and the one that is late removes the directory with what the other has
written in it (section 3).

### TarPipeline

The receiver, the workers, the channel, the group's context and its error. The
channel is first in, first out and is two counters: it holds the responses
`taken + 1 .. sent`. The places where the code calls `cancel()` and only later
returns its error are two steps (`failing`), because the others can see the
context end before `errgroup` has the error. A `select` with several ready cases
takes any of them. `gone` is the end of the caller's context. `Total` responses,
each with a version, come from `Answers`.

### UpdatePipeline and PackMerge

A call is an upload, a rebuild, or an upload that goes on to a rebuild; the state
of the rebuild is `TarPipeline`'s. The workers take updates of the diff, read
files and put objects into a channel; the sender streams them; the server
collects them, merges the pack and commits.

| Action | Code |
| --- | --- |
| `PickUpdate`, `SendObject`, `SenderLoop` | the three `select`s; any ready case is taken |
| `ReadFile`, `CheckErr` | the assignment to the `err` that all workers share, and the test of it, which sees whatever was assigned last |
| `Connect`, `CloseSend`, `RecvAnswer` | opening the stream, its end, the answer or an error |
| `UpdatePackedObjects` | one call of the merging generator |
| `CommitUpdate`, `Rollback` | the end of `Fs.Update` |
| `UploadEnds`, `RebuildEnds` | `group.Wait` and what follows |
| `ContextEnds` | the caller gives up |

A worker that read a file and failed, and then sees another one's success in
`err`, sends a nil object; the handler panics on it and the recovery interceptor
answers with an error, so nothing is published. When the Send of such an object
fails, the sender reads the path of nil for its message and the whole process ends
(`SenderPanics`, phase `panicked`). A file that is gone since the diff was made is
sent as deleted (`ObjectFromFilePath`, `Vanished`). The answer is its distance from
the version the client was at; what others published meanwhile is in `ClientSync`.
The distance may be 0 when nothing changed: every plain file was there as it is and
the pack is the same (`PackChanged`); a deletion always counts as a change.

`PackMerge` is the generator with its `idxHint`, an index into
`updates[idxHint:]` that later calls take as an index into `updates`; `Merged` is
the reference definition. `sort.Slice` is `SortByPath`, by the increasing
enumeration of the paths (`InOrder`); the paths of a stream are different. An
emptied pack has no row: `UpdatePackedObjects` compares with a hash of zero, so the
same updates sent again publish another version, in this case and in no other
(`MergeAgain`).

### CacheFetch

`live`, `contents` and `cached` are the packs that objects refer to,
`dl.contents` and `dl.cache_versions`; `objects`, `tmp`, `lock` and `versions`
are what is in the cache directory, which several processes may share; `Collects`
are the packs that may be collected; `proc[p]`
is where process p is in `GetCache`. A pack is a set of parts, so that half a
pack can be told from a whole one. The workers of a process are the set
`writing`, any number at a time. `WritePart` after the temporary directory was
removed either makes the directory again or fails, as the layout of the tar has
it. `BreakStream` is the panic of a receiver that reads `response.Version` of a
nil response; as in `Crash` the deferred calls do not run and the lock file
stays (`StaleLock`). No code removes it; `RemoveLock` is somebody who does so by
hand, and no fairness makes it happen. `AppendVersion` may fail to open or write the
file `versions`. `lost` is a history variable: hashes that were collected. `Responses` is what `Fs.GetCache` streams.

### CachedDaemon

A process runs `Prepare`, which is `GetCache` of `CacheFetch` step by step, then
listens at the socket's path (`Serve`) and publishes volumes until it is stopped
(`GracefulStop`, `Exit`) or killed (`Kill`, `KillFetch`). `GracefulStop` closes
the listener and waits for the calls, so that the next daemon may fetch into the
staging directory while the last one still links from it.

A publish call removes what was at the target path, reads the directories
(`Walk`), links file after file (`Link`) and answers; `LinkTemporary` is a file of
the other daemon's temporary directory, or its lock, which may be gone before it
is linked. `writeCacheFails` is a target path that is a file, cannot be written to
or cannot be looked at. `volume[d].promised` is a history variable: the versions there were
when the call began. The file `versions` of a volume is a hard link and shows
later versions too. Kubelet makes one call at a time for a target path. The
`Prepared` value 0 is an error of `GetCache`, which ends the command.

`Overlap` says whether a daemon may start while another one prepares or serves.

### ConnectionPool

`free` and `leaked` connections and where each request is. A request is first
authorized (`Authorize`): the header's token has a role, and each kind of call
wants one; a request that is refused takes no connection. A `Writer` holds a
connection with its transaction and waits for its project's row lock with it
(`LockLatestVersion`): an update, or one of `Admin`, which are `CloneToProject`,
`Rollback` and `DeleteProject`. An update also takes a second connection for each
content. `Begin` may fail, and `Connect` then returns without releasing the
connection. `Spare` says that there are more usable connections than writers.
`Reset`, which locks project after project, is left out: it is for development only. Requests have no deadline; `Abort` is a client
that gives up or an error of the database.

The monitor (`Ping`, `AcquireForPing`, `PingTimeout`, `Pong`) sets the health
status and needs a connection of the pool it watches; a ping that has one may still
fail. A stop (`GracefulStop`)
refuses new requests, waits for those that run (`Drained`), and closes the pool,
which waits for every connection (`Close`).

## 3. Runs

| Run | Instance | What it shows |
| --- | --- | --- |
| `store_single` | 1 project, 1 call at a time, 3 versions, 3 paths (a file, the directory it is in, a pack), 2 contents, 8 streams, horizons 1 and 2 | `DisjointLives`, `BatchPublished`, `StableVersions`, `ContentsAvailable`, `QueriesExact` (the version queries between any two complete versions) with failures after any statement, rollbacks and collections |
| `store_projects` | 2 projects, 2 calls, 2 versions | updates, clones, template copies, deletion, rollback and reset interleave: `StoreInv` (the invariant of the proofs), `NoFutureRows`, `CloneExact`, `StableVersions` |
| `store_gc_race` | 2 calls, `QuiescentGc` off | violation of `ContentsAvailable` |
| `sync_edits` | 4 versions, edits of a file, 5 trees of the others, collection | `Synced`: between calls, what the version file says is there or is found by the next `Update` |
| `sync_follow` | 3 versions, 5 trees, 2 interruptions or failed writes anywhere, fair | `CatchUp`: once the project rests the directory ends up with its files, and `RetryExact`: a rebuild that was cut short or failed is complete once a call for the same version succeeds |
| `sync_lost_upload` | 1 interruption | violation of `Synced` |
| `reads` | 1 project, 1 writing call, 1 reader, 2 versions, 3 streams, chunks of 1 object, queries of everything or of a directory and a pack, `to_version` unset or 1 | `ReadExact` beside updates, rollbacks and collections |
| `tars` | 2 workers, channels of 1, 4 diffs, 2 packs, rebuilds of 0, 1, 2, 4 and 5 responses, everything may fail | `Complete`, `PublishedWhole`, `SuccessPublished`, `MergeExact`, `MergeAgain`, `CallReturns` |
| `daemon` | 2 processes, 2 packs of 2 parts, 1 volume, 2 cache versions, 1 mishap of any kind, collection of one pack | `CacheComplete`, `VolumeWhole`, `Published` (unless a lock that a killed process left stays for good) |
| `cache_wiped` | 2 processes | violation of `CacheComplete` |
| `pool` | an update and a clone, rollback or delete of one project, 1 reader, 3 connections, up to 2 of them leaked, a stop at any time | `ClosedWhenIdle`, `SomebodyRuns` (with a connection to spare somebody can always go on), `AnsweredIfSpare`, `ExhaustionReported`, `HealthReturns`, `Exits` |
| `pool_exhausted` | 3 updates, 3 connections | violation of `Answered` |

Why the bounds are enough. The store's rows matter through the order of their
versions: three versions give a row that is written, replaced and collected, or
written, discarded by a rollback and numbered again; the two-project run needs
two versions for a clone or copy with something before and something after. Two
contents are "the same" and "another". Two calls suffice for every pair of
statements to interleave, and the proofs cover more. The six paths of
`ClientSync` are one of each kind of clash: a file, a directory of that name,
empty or with one or two files in it, an unrelated file and a pack. Five responses exceed
what a channel of one and two workers hold, so the receiver blocks; three updates
of a diff exceed what the channel holds and the workers have in hand once one of
them has stopped. A reader of one project needs two versions, so that the one it
reads is replaced, collected or rolled back under it, and chunks of one object, so
that contents are looked up in several statements. One mishap is enough for the
daemon: what it leaves (a lock, a temporary directory, half a volume, a stale
socket) is then met by the other process and by the same one. Three connections are
one more than the writers; one leak makes them too few, two leave the update
without its second.

`CHECK_DEADLOCK FALSE` is used where the system may rest: a project at its last
version with an up-to-date directory, a rebuild or requests that have returned.

Fairness.

* `ClientSync`: weak fairness of the steps of a call, strong fairness of a call
  for the latest version, because callers are sent each new version and apply it
  (docs/core.md: "apply all updates between its current filesystem version and
  the new version"); it is strong because another rebuild may be in progress.
* `TarPipeline`, `UpdatePipeline`: weak fairness of each goroutine and of the
  server's handler; the caller's cancellation has none. gRPC's `Recv` returns,
  with a response or an error. That the handler goes on is an assumption: a server
  with an exhausted pool does not (`pool_exhausted`), and its clients wait with it.
* `CachedDaemon`: weak fairness of starting a daemon when none serves (its
  container is restarted), of each step it has begun, and of kubelet asking for a
  volume that is not published; mishaps, stops, unpublishing and the removal of a
  left lock file have none.
* `ConnectionPool`: strong fairness of each request's steps, of each writer's row
  lock and of the monitor's acquisition, because the pool and PostgreSQL's row locks
  serve those who wait in turn; weak fairness of the monitor's timer and of the
  shutdown. `Abort`, new requests and the stop have none, and nothing makes a ping
  succeed (`HealthReturns` is about a database that answers).

### Findings

* `store_gc_race` (`internal/db/update.go:55`): contents are inserted before the
  row that refers to them is committed, so a collection in between commits an
  object without contents. That `ContentsAvailable` holds under `QuiescentGc` is
  proved.
* `sync_lost_upload` (`pkg/client/client.go:519`): the summary is written before
  the upload; after an upload that fails the change is never sent.
* `cache_wiped` (`pkg/client/client.go:749`): the temporary directory is removed
  without the lock, under the process that has it; half a pack stays under its
  final name.
* `pool_exhausted` (`internal/db/update.go:55`): an update needs a second
  connection of the pool it holds one of; as many updates as connections wait
  for ever. While there is one connection more than requests that wait for a row
  lock (updates, clones, rollbacks, deletes) each is answered (`AnsweredIfSpare` in
  `pool`).

### What the switches exclude

The passing runs make assumptions that the code does not enforce. Each can be
lifted by a constant, and TLC then shows a short behaviour:

| Change | What happens | Code |
| --- | --- | --- |
| `Store_single`, `Streams <- RepeatingStreams` | a path twice in a stream leaves two live objects: `DisjointLives` | `internal/db/update.go:94` |
| `Store_projects`, `StableClones = FALSE` | a source that changes between the two statements of a clone is cloned wrongly and may leave two live objects: `CloneExact`, `DisjointLives` | `internal/db/copy.go:94` |
| `Sync_follow`, `Trees <- FoldingTrees`, `Folding = {"a/f"}` | a directory became a file: the file is written first, removing `a/f` fails with ENOTDIR, now and at every later rebuild: `CatchUp` | `internal/files/writer.go:159` |
| `Sync_edits`, `Trees <- MarkerTrees`, `Folding = {"a/"}` | an empty directory became a file: the file is written and removed again: `Synced` | `internal/files/writer.go:85` |
| `Sync_follow`, trees `a` and `a/d/f` | a file became a directory with a directory in it: `mkdir -p a/d` and the removal of `a/d` fail with ENOTDIR, now and at every later rebuild: `CatchUp` (such trees are outside `Steady`, the hypothesis of `AlwaysSynced`) | `internal/files/writer.go:101` |
| `Sync_follow` and `Sync_edits`, `Trees <- CrowdTrees`, `Crowding = {"a"}` | a file became a directory with two files, in two tars: both workers fail to make the directory; one removes the file, makes the directory and writes `a/f`; the other then removes the directory, and the rebuild ends well without `a/f`: `RetryExact`, `Synced` | `internal/files/writer.go:75` |
| `CatchUp` without `Diverted` in `Sync_follow` | a rebuild that was cut short, then one to another version: a file that neither list names stays | `pkg/client/client.go:492` |
| `Sync_edits`, `Interrupts = TRUE` | the summary at the end of a rebuild takes in edits that were never uploaded: `Synced` | `pkg/client/client.go:498` |
| `Sync_edits`, `Trees <- SharedTrees`, `Theirs` with `"b"` | an update that changes nothing is answered with the version of somebody else, and the client takes the number without the files: `Synced` | `pkg/client/client.go:639` |
| `Sync_edits`, `GcKeepsUp = FALSE` | a directory that is behind never learns what was removed: `Synced` | `internal/db/gc.go:32` |
| `Complete` without `~gone` | the caller gives up, receiver and workers return nil, and the version file is written | `pkg/client/client.go:435` |
| `Daemon`, `Overlap = TRUE` | two daemons empty each other's temporary directory: `CacheComplete`, as in `cache_wiped`; and they find each other's lock and end, again and again: `Published` | `pkg/client/client.go:749` |
| `Published` without `<>[]StaleLock` | a process that was killed leaves its lock file, and every daemon that is started ends in "unable to obtain cache lock file" | `pkg/client/client.go:728` |
| `CallReturns` without `"panicked"` | a nil object is in the channel when the Send fails, and the process dies | `pkg/client/client.go:621` |
| `ReadExact` without `steady` | a version that is collected or rolled back while it is read is delivered in part, without an error | `internal/db/query.go:69` |
| `VolumeWhole` with `versions` for `promised` | a published volume's `versions` file, a hard link, names the packs of a later fetch | `pkg/client/client.go:881` |
| `Exits` without `leaked > 0` | `pool.Close` waits for ever for a connection that a failed `Begin` leaked | `pkg/server/server.go:97` |
| `AnsweredIfSpare`, `Exits` without `~Spare`, or `Spare` counting only updates | an update waits for its second connection while those that wait for its row lock hold the others; nobody goes on, and a stop waits for them | `pkg/api/fs.go:156`, `internal/db/reset.go:31`, `internal/db/project.go:41` |
| `CacheComplete` without `\ lost` | a cache version is claimed without a pack that was collected | `internal/db/query.go:345` |

## 4. Proofs

| Theorem | Statement | Assumptions |
| --- | --- | --- |
| `ObjectStoreProofs!TypeCorrect` | `Spec => []TypeOK` | `StoreAssumption`, `PathAssumption` |
| `ObjectStoreProofs!ContentsNeverLost` | `QuiescentGc => (Spec => []ContentsAvailable)` | the same |
| `ObjectStoreSafety!StructureInvariant` | `SafeUse => (Spec => []StoreInv)` | the same |
| `ObjectStoreSafety!LivesNeverOverlap` | `SafeUse => (Spec => []DisjointLives)` | the same |
| `ObjectStoreSafety!RowsNeverAhead` | `SafeUse => (Spec => []NoFutureRows)` | the same |
| `ObjectStoreVersions!WritesInvariant` | `SafeUse => (Spec => []WritesInv)` | the same |
| `ObjectStoreVersions!UpdatesExact` | `SafeUse => (Spec => BatchPublished)` | the same |
| `ObjectStoreVersions!ClonesExact` | `SafeUse => (Spec => CloneExact)` | the same |
| `ObjectStoreVersions!WindowInvariant` | `SafeUse => (Spec => []WindowInv)` | the same |
| `ObjectStoreVersions!ImplementsVersionedFs` | `SafeUse => (Spec => StableVersions)` | the same |
| `ObjectStoreVersions!DifferencesExact` | `SafeUse => (Spec => []QueriesExact)` | the same |
| `ReadingProofs!ReadersBesideStore` | `ReadSpec => Spec` | the same, `ReadAssumption` |
| `ReadingProofs!ReadTypeCorrect` | `ReadSpec => []ReadTypeOK` | the same |
| `ReadingProofs!ReadsExact` | `SafeUse /\ QuiescentGc => (ReadSpec => []ReadExact)` | the same |
| `ClientSyncProofs!SyncTypeCorrect` | `Spec => []TypeOK` | `SyncAssumption`, `TreeAssumption`, `EditAssumption`, `TreesAssumption` |
| `ClientSyncProofs!RetriesExact` | `Following => (Spec => RetryExact)` | the same |
| `ClientSyncProofs!AlwaysSynced` | `Undisturbed => (Spec => []Synced)` | the same |
| `UpdatePipelineProofs!PipelineInvariant` | `Spec => []PipelineInv` | `PipelineAssumption` |
| `UpdatePipelineProofs!RebuildComplete` | `Spec => []Complete` | the same |
| `UpdatePipelineProofs!UpdateInvariant` | `UpdateSpec => []UpdateInv` | the same, `UpdateAssumption` |
| `UpdatePipelineProofs!UpdateRebuilds` | `UpdateSpec => Spec` | the same |
| `UpdatePipelineProofs!UpdateTypeCorrect` | `UpdateSpec => []UpdateTypeOK` | the same |
| `UpdatePipelineProofs!WholeOrNothing` | `UpdateSpec => []PublishedWhole` | the same |
| `UpdatePipelineProofs!SuccessMeansPublished` | `UpdateSpec => []SuccessPublished` | the same |
| `UpdatePipelineProofs!MergesExact` | `UpdateSpec => []MergeExact` | the same |
| `UpdatePipelineProofs!MergesIdempotent` | `UpdateSpec => []MergeAgain` | the same |
| `UpdatePipelineProofs!UpdateRebuildComplete` | `UpdateSpec => []Complete` | the same |
| `CachedDaemonProofs!DaemonTypeCorrect` | `DaemonSpec => []DaemonTypeOK /\ []Calm` | `CacheAssumption`, `DaemonAssumption` |
| `CachedDaemonProofs!CacheAlwaysComplete` | `~Overlap => (DaemonSpec => []CacheComplete)` | the same |
| `CachedDaemonProofs!VolumesAlwaysWhole` | `~Overlap => (DaemonSpec => []VolumeWhole)` | the same |
| `ConnectionPoolProofs!PoolTypeCorrect` | `Spec => []TypeOK` | `PoolAssumption` |
| `ConnectionPoolProofs!ClosesWhenIdle` | `Spec => []ClosedWhenIdle` | the same |
| `ConnectionPoolProofs!PoolNeverStuck` | `Spec => []SomebodyRuns` | the same |

They hold for every number of projects, calls, readers, paths, contents,
versions, streams, workers, responses, diffs, packs, daemons, volumes, mishaps,
requests and connections, and any channel size. The assumptions on constants say
what a value is: there is a worker and the workers are finitely many, a diff names
a path once and its paths are ordered, like numbers (`UpdateAssumption`), `None`
and `Null` are none of the values they stand beside, the pool has a connection.

`StoreInv`. `DisjointLives` alone is not inductive: nothing in it says that the
row an open transaction is about to commit replaces the live row of its path.
`LockInv` says that the holder of a project's lock numbers the version after the
latest and has stopped only rows that are still live; `UpdateInv` that every live
row at a path it has added is among those it stopped, and that the paths still to
come are others; `CloneInv` that the rows a clone has kept are rows the source
has at the version asked for, so those it inserts are at other paths (this is
where `StableClones` is needed); `NewInv` that what a template copy has copied is
not ahead of the template (which is never rolled back) and that its id was never
used, with `UsedInv`. `Alone` says that no two calls hold one project's lock.
Publishing is one lemma, `PublishRows`, for updates, clones and copies; rollback
and reset are `ResetRowsSafe`; collection and deletion only take rows away
(`FewerRows`).

`ContentsInv` adds to `ContentsAvailable` that the contents of the rows a
transaction has added or stopped, and of the object it has staged, are there
(`Kept`): they are committed before the rows are.

Versions. `BatchPublished` and `CloneExact` are about the commit, but what they
say was done by earlier statements. `WritesInv` carries it: an open update has
written every object of its batch that is no longer to do and touched no other
path (`BatchInv`, directory markers aside), and a clone has stopped only rows that
the source does not have (`CloneStops`). For the refinement `WindowInv` says that
the complete versions end with the latest one. Each step that writes the tables is
then one of `VersionedFs`: a commit changes no view of an earlier version, because
its rows start and stop at the new one; a rollback makes the rows live again that
its target had; a collection of rows that stopped at or before the horizon changes
no view after it. `QueriesExact` follows from `DisjointLives`: a path of which one
row ended between the two versions has no other row that spans them, so that
`removed_objects` cannot name a file that stays. The marker of an empty directory
is the exception: the query names it as removed and as updated.

Reading. `ReadSpec => Spec` gives a reader everything proved of the store.
`ReaderInv`: while the version stays complete, what was sent, the rows in hand and
what the remaining queries will find make up what was asked for. That the queries
find the same whenever they run is the refinement; that the contents are there is
`ContentsNeverLost`.

The directory. Both theorems rest on what the queries say and what a write does.
`History` is what `ObjectStore` proves of a project's rows, with two things more: a
file has ended before a path inside it begins (`FileFirst`), which is the case
because no directory becomes a file, and another: at most one path inside it is
there at a time (`Lone`), which is `Crowding = {}`. Then `QueriesDescribe`: between two versions
the entries to write and the paths to remove are a `Change` from the one tree to
the other. A disk is `Between` two versions when every file that both have is in
place and nothing else is there than files of one of them; this is what an
interrupted rebuild leaves, wherever it was cut. It is `Accounted` for by the
objects still to be written when each file that is missing, or too many, is named
by one of them, or a path inside it is. `WriteKeeps`: any one call for any one of
the objects, in any order, keeps `Between`, and when it is the object's last takes
it from the account. `RemovedKeeps` is the same for what `retryFileErrors` removes:
a call is blocked only by a file of the old tree (`BlockedReplaces`), which `Genuine`
remembers until the removal, when other workers have written; because the object is
alone in the directory that takes the file's place, nothing of the new tree is lost.
`Rooted` (what exists is in directories) holds throughout. When nothing is left the
disk holds the new version (`EndHolds`).

`RetryInv` is that, for a client that may be cut short anywhere: with no attempt
behind it the directory holds its version; with attempts at one version only, it
is between the two, so that the next attempt, which gets the same answer again,
starts from a state that `StartAccounted` covers. `Following` is what the answer
being the same takes: nobody edits (`Mine = {}`), no directory becomes a file
(`Folding = {}`), no file becomes a directory with more than one entry
(`Crowding = {}`), and the version the client is at is not collected (`GcKeepsUp`).
Every one of them is needed: section 3 has the behaviours without.

`SyncInv` has a conjunct for each stage of a call. `Clean` between calls: the
summary is the version, and only edited files differ from it. `Sending`: the files
of the diff differ from the version and no others do, so that the update always
publishes a version (`SendDiffers`). `Sent`: own files are those of the new
version and the others those of the old one; when the new version is the next one
these are the same tree, so the version may be written down, and otherwise the
directory is between the two (`SyncAgain`). `Settled` says that own files have not
changed since, because nobody else writes them, and `Evidence` that the rebuild
after an update finds something to do, since one with an empty answer ends without
a summary. `Undisturbed` is the way of use: no interruption (`sync_lost_upload` is
what one does), edits between calls and uploaded before a rebuild, own files apart
from the others', summaries asked for, and `Steady`: no name that the others write
is a file at one time and a directory at another. Then no call is ever blocked
(`NoFail`), which takes that files are nowhere directories (`Distinct`) and that the
directories of what is opened or moved are there (`Ready`). `Steady` is narrower than
the trees of `sync_edits`, where a file also becomes a directory with one entry: with
that, and without failures, `Synced` is model-checked only. The run `sync_follow` is
an instance of `Following`.

`PipelineInv` is `Accounted` (a tar that left the channel is written, in a
worker's hands, or its failure is known to the group), `Stops` (a goroutine that
stopped early leaves an error or saw the caller's end), `OneVersion`, and
`Complete`.

`UpdateInv` is `PipelineInv`, the types, `MergeInv` and `UploadInv`. That the
sender has counted as many objects as the diff has does not say that they are the
right ones: a worker whose error another one's success overwrote sends nil.
`Located` is the disjunction that is preserved: fewer updates are handled than
were picked (a worker gave up, and the count is never reached), or a nil object is
on its way (and the server will fail), or every update that was picked was
received, is in the channel or in a worker's hands. `StreamInv` ties the sender's
state to the server's, `OutcomeInv` says that whoever stops early leaves an error.
`MergeInv` follows the generator: while it reads, the output is the merge of the
entries read (`Walking`); afterwards it is the kept entries and the new updates
seen so far, in order, and every unseen update comes after them (`Appending`). The
hint that the code leaves is an index into another slice; `HintSound` says that it
never points past an unseen update, and this is all the proof needs. What
`InOrder` and `SortByPath` return is proved by the rank of an element, without
induction.

`StageInv`. `ProcInv` says that the packs a process is unpacking have in `tmp`
what they should, and that what is not yet in the directory is still to do or being
unpacked; it holds as long as no other process empties `tmp`, which is `OneActive`,
and fails with `Overlap` (`cache_wiped`). With `StagingInv` (a pack is there whole
or not at all) a version is claimed only when it is complete. `VolumesInv` says the
same of the calls that link files.

`TypeOK` of the pool counts connections: free, leaked, pinging and in requests'
hands add up to the size. `SomebodyRuns` follows by counting: if everyone waits for
a connection or a row lock, the only ones held are the writers' own, one each, and
with `Spare` there are more than that.

Only model-checked: the violations of section 3, and every liveness property
(`CatchUp`, `CallReturns`, `Published`, `AnsweredIfSpare`, `ExhaustionReported`,
`HealthReturns`, `Exits`), since fairness is out of the prover's reach.

## 5. Not modelled

* The command line tools, the JavaScript client, telemetry, the fuzz test and
  generated code: wiring, or no state of their own that the properties speak of.
* Encodings (tar, s2, protobuf), cryptography, symbolic links, matchers
  (`FileMatch`) and counters of a rebuild, hard links of cached packs in a
  rebuild. Path prefixes and ignores are sets of paths in `Reading` and absent
  from `ClientSync`.
* `GetPluginInfo`, `NodeGetInfo`, `NodeGetVolumeStats`, and what `ListProjects`
  and `Snapshot` return: they change nothing. The count of all rows in `Inspect`.
* `Reset` with several projects, and `Reset` among the requests of `ConnectionPool`.
* Cases that the models leave out by their assumptions: a rebuild to a version
  that does not exist yet (it writes the future number down, `query.go:75`);
  `DL_WRITE_WORKERS=0` (`client.go:1070`), which starts no worker; a version file
  that is cut short by a crash (`dir.go:92`); two publish calls for one target
  path at a time (`api/cached.go:243`); a socket's file that a stopping daemon
  removes although a newer one listens there (`cached/cached.go:69`), which needs
  `Overlap`; a daemon that was started before the first cache and never looks
  again (`cachedcli/server.go:122`).

## 6. Plan

Done: the store with its abstract specification; the readers; the client, the
goroutines of its rebuild and of its update; pack merging; the cache and the
daemon; the server process; and a proof of every safety property that a passing
run checks.

What could be added, in the order of its worth:

1. A rebuild that is cut short and followed by one to another version, for trees
   in which this is harmless (`Diverted` left out of `CatchUp`).
2. Cached packs (hard links) and symbolic links in `ClientSync`.
3. The version file in two steps, with a client that recovers from an empty one,
   once the code does.
