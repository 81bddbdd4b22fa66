# A verification development for oci-torrent

oci-torrent distributes OCI images with BitTorrent. A *seeder* daemon copies the
layers of an image from a registry into an OCI image layout and seeds each layer;
*leecher* daemons ask the seeder for a layer's torrent, download the layer from the
swarm and write it, with the image's config and manifest, into their own layout.

This directory models the program in TLA+, model-checks it with TLC on small
instances, and proves the main results with TLAPS for every instance.
Paths below are relative to the repository's root; `PROJECT.json` maps every
definition to the lines it models.

## 1. Inventory

| component | state | operations | how it interacts |
|---|---|---|---|
| engine (`bt/engine.go`, `bt/torrent.go`, `bt/btprogress.go`) | `idInfos` (layer id → info hash, Started, Count), `ts` (info hash → wrapper with State and the client's object), `started`, `mut`; files `bt/data/<id>.layer`, `bt/torrents/<id>.torrent` | Run, StartSeed, StartLeecher, StopTorrent, DeleteTorrent, GetStatus, GetAllStatus, GetTorrent, rate limits; goroutines that call startTorrent | called by the daemon; calls the torrent client |
| torrent client (vendored `anacrolix/torrent`) | open torrents by info hash, per torrent its pieces' state | AddTorrent, Torrent.Drop, DownloadAll, BytesCompleted; goroutines that hash pieces and receive chunks | reads and writes the layer files |
| OCI layout (`oci/dir.go`, `oci/layout.go`) | a directory: `blobs/sha256`, `refs`, `oci-layout`, a temporary directory per opener | Open, PutBlob, PutReference, GetBlob, GetReference, DeleteBlob, DeleteReference, lists, Exist, Close | opened anew by each request of the daemon; no lock |
| daemon (`daemon/daemon.go`, `daemon/oci.go`, `daemon/remote.go`) | configuration and the engine; everything else is in the layouts and the engine | StartDownload (seeder, leecher), StopDownload, Status, GetTorrent; manifest conversion; the call to the seeder | one goroutine per gRPC request, no lock |
| client (`cmd/ctr`) | a directory with three named pipes | start, stop, status | gRPC to the daemon; the daemon writes its progress into one of the pipes |
| gRPC server, `main` of the daemon | none | pass requests on; start and stop the process | a signal ends the process with `os.Exit`, which is a crash to everything above |

What is hard here, and what each component owes:

* **Engine.** Handlers hold `mut`, but the goroutines that start downloads, the
  callers that wait in `waitComplete`, the client's own goroutines, the writers of
  the layer files and a crash do not. Two maps must agree with each other, with the
  client and with the disk through starts, stops, restarts and deletes in any order;
  wrappers, and the objects in them, are cached beyond the life of the object; the
  user count is off by one. It owes: each known id has a wrapper; exactly the started
  ids have an open torrent; starts do not leak; a seeder's started id survives a
  restart; complete means on disk; a waiting caller is served.
* **Torrent client.** `Drop` works by info hash and not by object; pieces are hashed
  first, then missing ones are fetched, and a fetched piece may be bad. A fetched piece
  that fails its hash bans the address of every peer it came from, for all torrents and
  for the life of the client.
* **Layout.** The file system is the only lock, and a first open that is cut short
  makes every later one fail. It owes: nothing partial under a final
  name; `oci-layout` only when the directories are there; an open layout stays usable
  while others close theirs; references are not clobbered.
* **Requests of the daemon.** A request is a long sequence of steps on two stores
  (layout and engine) with no transaction around it: it overlaps with others and with
  stops, it fails or dies half-way, and later requests skip what they find. A caller
  may go on before its download is verified, and a second one does not wait at all.
  With hard links layout and engine share files. It owes: a reference leads to a
  manifest whose blobs are all there; no blob is wrong, or at least none that was
  right becomes wrong; what is in a seeder's layout is seeded; Status is right; a
  client that retries gets its image.
* **Progress reports.** Client and daemon wait for one another at a named pipe, three
  times: to open it, to find room in it, and for the answer. It owes: nobody waits for
  ever at a pipe.

`PROJECT.json` lists 40 hazards at their lines, with the properties that cover them or
the reason none does. Hazards that are one input and one outcome are left to
tests: the type assertion that panics on a reference by digest (`daemon/oci.go:88`),
the first of no trackers (`bt/engine.go:457`), the nil client after a failed dial
(`daemon/remote.go:24`), the connection that is never closed (`daemon/daemon.go:499`),
the credentials that are dropped (`daemon/daemon.go:74`), `Run` returning nil when it
cannot make its directories (`bt/engine.go:98`).

## 2. Modules

| module | what it is |
|---|---|
| `EngineService` | what the engine promises its callers: an id is unknown, stopped or started; a started one is hashed, fetched and hashed again |
| `BtEngine` | the engine of one daemon, the client as the engine uses it, its files; properties; the inductive strengthening; refines `EngineService` |
| `BtEngineProofs`, `BtServiceProofs` | theorems about `BtEngine`; the proof of the refinement |
| `LayoutStore` | what the interface `Layout` promises: blobs and references that change in one step |
| `OciLayout` | the layout directory, one file system call per action; refines `LayoutStore` |
| `OciLayoutProofs` | theorems about `OciLayout`, both refinements among them |
| `Daemon` | the requests of one daemon, seeder or leecher, over layouts and an instance of `EngineService` |
| `ImageStore` | what a daemon promises its clients: blobs that stay, images published when they are complete, success reported when they are there |
| `DaemonProofs`, `DaemonSeedProofs`, `DaemonStoreProofs` | theorems about `Daemon`: references; contents, seeds and hard links; the refinement of `ImageStore`, and that it uses the engine and the layouts as `EngineService` and `LayoutStore` allow |
| `CtrStdio`, `CtrStdioProofs` | the named pipes between a client and the daemon; theorems |
| `MCBtEngine`, `MCOciLayout`, `MCDaemon`, `MCCtrStdio` | instances for TLC |

So the composition is: `Daemon` uses `EngineService`, which `BtEngine` implements, and
blobs and references that appear at once, which is what `OciLayout` implements with
its temporary files and renames. `BtEngine` is not unfolded under `Daemon`: the
product would be out of TLC's reach, and the refinement, proved for all constants,
makes it unnecessary for safety. That `Daemon` stays within both interfaces is proved as
well (`UsesEngineService`, `UsesLayoutStore`), and what it makes of them is `ImageStore`.

Operators that say `mutant:` are plausible bugs: each replaces the definition
after it in one extra run, in which the property named in `PROJECT.json` must fail.
They show that the property depends on the code.

### BtEngine

| variable | code |
|---|---|
| `mode`, `toSeed` | how far the daemon is: not started, inside `Run` with files left to seed, serving |
| `layer`, `torrentFile` | the two files of an id |
| `idInfos`, `ts` | the two maps of `BtEngine` |
| `client`, `obj` | `Client.torrents`, and the torrent objects, open or closed |
| `starters` | goroutines that wait to call `startTorrent`, per info hash |
| `waiter` | the object each `StartLeecher` caller polls |
| `pending` | per object, the chunk that `downloadedChunk` has taken and not yet written |
| `banned` | `Client.badPeerIPs`, of the peers that there are |
| `owed` | history: starts of an id that no stop has undone |
| `late` | history: ids whose file a dropped object has written to since their last start |

A handler that holds `mut` for its whole body is one action: `CountStart`,
`StartSeed`, `StartSeedTorn` (the torrent file's write fails), `StartLeecher`,
`StopOneUser`, `StopRefused` and `StopTorrent` (the three ends of `StopTorrent`),
`DeleteTorrent` (with its partial failures). `Run` is `RunBegin`, then `RunSeed` or
`RunSkip` per file, then `RunEnd`, so that a crash or a piece hash can fall between.
`startTorrent`, `WaitDone`, `HashPiece`, `ReceiveChunk` and `WriteLayer` run without
`mut`; so do `WriteChunk` and `WriteChunkFails`, the write that `downloadedChunk` does
with no lock at all after `ReceiveChunk`, and for which only the hashing of the same
object waits. A handler that returns without a change is no action. `Crash` keeps the disk
alone, the bans with the rest of the memory gone; `CrashInStartSeed` and `CrashInDelete` are crashes between two writes of one
handler.

Abstractions. A torrent has one piece, which is queued for hashing, missing, received
but not verified ("dirty") or complete. `Peers` are the addresses that it can be fetched from: a hash
that fails on a dirty piece bans any of them (`Blamed`), as each may have sent a chunk
of it and may still be connected, whether the chunk was bad or the file was spoiled
after a good one. `Versions` are the contents that a layer file
may have when `createTorrent` reads it: a blob is copied into place without `mut`, so a
half-copied file can be hashed into a torrent of its own; that content, `Prefix`, is the
start of the whole one, and hashing honours it. `createTorrent` would take a junk file
as well, so the runs of a seeder have `Junk` among the versions. An info hash stands for
the pair of id and content, as the id is in the info dictionary. `Junk` is a file that
is wrong from its first piece on, one content for all such files. The client keeps its
record of complete pieces in memory, since `storage/db.go` opens a database driver that
nothing links, so a new object hashes everything again. `GotInfo` never blocks: both
starts pass the whole metainfo. `AddTorrent` does not fail: torrents are built by this
program, and `validateInfo` refuses none of those.

`Service` is the refinement mapping: an entry's stage is that of its open object,
with a chunk under way still "missing"; a straggler is a dropped object whose write is
under way; a caller polls an id, or `Closed` if its object has been dropped.

### EngineService

The service promises no more than the engine keeps: `StopTorrent` may leave a torrent
started (the daemon's step allows "nothing changes" beside it, since the engine counts
users); `Return` lets a caller go before the file is whole; a caller that restarts an
id may poll `Closed`; a straggler may write after its torrent was dropped; a hash of a fetched piece that fails may
ban any peers. What it does promise carries the weight
of the daemon's properties: a started torrent writes only after a hash found its file
wrong, `Run` seeds every layer with a whole torrent file before the daemon serves, and
a torrent file appears whole, torn or not at all.

### OciLayout

`pc` is where a request is inside a call, `temp` the file in its temporary directory,
`target` what it is putting. `Open` and `Mkdir` walk through `initialize` and
`newDirLayout`; `BeginWrite`, `EndWrite` and `Rename` are the common course of
`PutBlob` and `PutReference`, the latter after its check of the name. `Fail` is an
error of any file system call, `Crash` the end of the process between two calls. Two
openers may be at the same stage, as `os.Mkdir` alone decides between them. The
creation of the path and its parents is idempotent and left out. A content stands for
its digest and for a descriptor of it. Readers do not appear: they change nothing.
A crash is one of the process, not of the machine: the code never calls `fsync`, and
what a power failure does to renames is not modelled.

### Daemon

| variable | code |
|---|---|
| `mode`, `entry`, `layer`, `torrentFile`, `straggler`, `polling` | the engine, as in `EngineService` |
| `banned` | the peers that the engine's client has banned |
| `blobs`, `stored`, `refs` | the layouts: layer blobs, other blobs, references |
| `made` | how far each layout's directory is: not there, half made, whole |
| `req` | the request in each slot: its image, the layer its loop is at, its next step, `clean` |
| `copier` | which request truncated a layer file last, so that what its `io.Copy` leaves is known (its file offset is the kernel's) |
| `done` | history: images whose StartDownload returned success |
| `spoiled` | history: ids whose way to being seeded an error or a crash interrupted, or that were stopped while a chunk was under way |
| `clashed` | history: ids whose layer file a request truncated while another was copying to it, or had copied and not yet called StartSeed |

`StartDownload` opens the layout and begins a request at step "exist". The first open for
a repository makes its directory, and may fail on the way, which leaves it half made;
a crash may do the same. A half-made layout refuses every later open (`HalfMadeIsFinal` of
`OciLayout`), so `StartDownload` is then disabled for good. Status and StopDownload
open the layout as well: for a repository that is not there they have nothing to read,
and what their open leaves behind is what a failing or succeeding `StartDownload` does. From there `SkipLayer` or `MissLayer`
(the `Exist` check); on a seeder `CopyLayer`, then `LinkLayer` or `CreateLayer` and
`FillLayer` (`os.Link`, or `os.Create` and `io.Copy`), then `Seed`; on a leecher
`StartLeecher` (the torrent from the seeder and the engine's call), `Return` (the end
of `waitComplete`), `CopyToLayout` or `LinkToLayout`, and after the last layer
`PutConfig`, `PutManifest`, `CheckReference` and `WriteReference` (the two halves of
`PutReference`). `StopDownload` reads the manifest, then `StopLayer` and `DeleteLayer`
go through its layers. `Fail` ends a request at any step but "wait" with an error;
`Refused` names the errors it cannot avoid, but for that of the half-made layout, which
comes before there is a request. `PutConfig` stores the config that the image has; an image
without one (`srcInfo.Digest` empty) is of a kind that the manifest's conversion refuses. `Crash` ends all requests, also between
the two halves of `createTorrent` and of `DeleteTorrent`. An error that the code only
logs does not end the request: in `Seed` and `DeleteLayer`.

Abstractions. A layer's digest is its id, and `Whole` the content it is the digest of;
`Prefix` is a half-copied one, any other wrong content is `Junk`. An image stands for
its source and its manifest; `Name` gives its repository and tag, so two images with
one name are a tag that moved, or images of two registries with one path. The seeder
is another machine: its answer is a torrent of any content in `Offered[id]`, or an error.
Of two requests that copy to one file, the one that truncated it last writes every
byte and leaves it whole when it ends, unless a chunk that the engine wrote meanwhile
stays; the other goes on from its own offset, so between the two the file may be the
prefix or have a hole (`Holed`), and it is whole if the last truncator's bytes had reached
that offset when the other ends. `config.UseHardlink` and the
role do not change in the life of a layout. Status and GetTorrent change nothing;
`StatusIsTrue` and `DoneIsKnown` are about what Status would say.

### CtrStdio

`client` is where a run of `ctr start` is, `handler` the daemon's end, `pipe` the
reports in the pipe. The client opens both ends of a pipe, which does not wait; the
daemon opens it to write, which does (`Open`), and fails if the path is not on its
machine or gone (`OpenFails`). `Kill` is a signal to the client, `Crash` the end of the
daemon, which ends the calls it serves. What a request does between its reports is
`Daemon`'s subject; here it writes up to `Reports` and may end before, or it comes to poll
a download that never completes (`PollForEver`), because its torrent was dropped or all
its peers are banned, and then reports for ever (`TakeReport`).

## 3. Runs

| run | question |
|---|---|
| `seeder_lifecycle` | do tables, client and disk of a seeder stay consistent? does the engine implement its service? |
| `leecher_lifecycle` | do starts settle, are callers served, is complete on disk? does `IInv` hold? does the engine implement its service? |
| `leecher_liveness` | do starts settle, callers return and fresh downloads complete, in the end, while a peer is left that is not banned? are the bans those of the service? |
| `finding_stale_handle` | section 5 |
| `layout_concurrent` | is the layout sound, and a last-writer-wins store, for three requests at once? does `IInv` hold? |
| `layout_single` | is it the documented store for one request at a time? |
| `leecher_requests` | leecher that copies, two requests for images that share a layer and one tag, with stops, deletes, errors and crashes: are references right, is Status true, is what is done known? |
| `leecher_hardlink` | leecher that links, two repositories, a seeder that may offer the torrent of half a layer: does a whole blob stay whole, and does the daemon implement the image store? |
| `leecher_image_arrives` | do clients that retry get their images, when they share a layer and one of them does not wait, but for a half-made layout or a banned seeder? |
| `seeder_copies` | two requests that copy a shared layer: are torrents whole but where requests clash, is a torrent kept for good, is what is stored seeded, and does the daemon implement the image store? |
| `seeder_links` | the same requests with hard links: are blobs whole, and is what is stored seeded? |
| `client_reports` | does a client get its answer and a request its end, with clients killed and a daemon that dies, but for a download that never completes? |

Bounds of the engine. One layer id: no action reads or writes two ids, and the
theorems cover any number. Two contents, and junk for
a seeder, so that torrents of one id can have different info hashes.
Three torrent objects: the open one, the stale one in a wrapper and one more for the
other content; a run stops registering when they are used up, until a crash frees
them. Two polling callers, so that one may poll a closed object while another polls
the open one. `MaxStarts` bounds the starts an id may be owed, and how far refused
stops push `Count` below zero; with 3, on the seeder, both sides of `Count - 1 > 0`
occur, and 2 in the other runs gives restarts, refused stops and counted starts.

Bounds of the others. The layout has two contents and one or two names, three requests where they race. The
daemon has two layers, the second shared by both images, so that the loop over the
layers, skipping, joining a download and the second link of a layer occur; two
request slots, that is any number of requests with two at a time, so that a stop or a
third image comes after or between them. With hard links there is one layer
in two repositories, which is what links add, and one image that cannot be converted.
The client's pipe holds fewer reports than a request writes, so that both sides wait.

Peers. Bans restrict no safety property: `banned` is in no other guard than the
fairness of a good chunk. So the safety runs have no peers, and two runs need some:
`leecher_liveness` has two, so that one may be banned and the download still complete,
and `leecher_image_arrives` has one, a lone seeder, which is the usual deployment. A chunk
may come from a banned peer all the same: only the connection of the piece that failed is
dropped, and those of other torrents stay.

Symmetry is used in safety runs only, and only for sets that no definition tells
apart. Deadlock is checked but for `CtrStdio`, where clients end for good.

Fairness. In `leecher_liveness`, a goroutine that can run does (`startTorrent`,
the hashing goroutine and the polling loop: weak fairness). A missing piece arrives
intact again and again while the torrent is open and wanted, as long as a seeder is up
and not all peers are banned (`banned # Peers /\ ReceiveChunk` of the right content: strong
fairness, as bad pieces and restarts interrupt it). After the last ban nothing is
assumed to arrive, and the properties exempt it: one bad piece of a lone seeder, or one
good one that a late write of a dropped object has spoiled, and the client downloads
nothing until the daemon is restarted (`MCBtEngineBanned.cfg`). A write that is under way ends (weak fairness of its two ends), and not
every write of a good chunk fails (`WriteGoodChunk`: strong fairness). No handler call,
stop or crash is fair. The properties also exempt a torrent that is stopped: the code then
really leaves the caller polling for ever.

In `leecher_image_arrives` the fairness of the engine's part is what
`leecher_liveness` shows of it, a started torrent is hashed and what it lacks arrives intact (`Hash`,
`Fetch`). `FreshStartCompletes` is about torrents started afresh, and indeed
`LiveNext` has no stops, as the fetch of a stopped and restarted torrent is not to be
had (`finding_stale_handle`). A request goes on (weak), and a client that failed comes back (strong fairness of
`StartDownload`). The daemon is restarted after a crash. The conclusion is drawn for
behaviours in which crashes and avoidable errors stop at some time; those a request
meets because of others (`Refused`) go on. Two states are past repair, and each is an
alternative of the conclusion: the repository's layout is half made, by an error or a crash
in its first open, or the client has banned every peer. A configuration for each,
`MCDaemonHalfLayout.cfg` and `MCDaemonBanned.cfg`, shows the image that then never arrives.

In `client_reports` processes run; that nobody fails, is killed or crashes is not
assumed. A request ends once it has written its reports, unless it is stuck: of its steps only
the wait for the download can last for ever, and there the code leaves no way out, so
`StartReturns` and `RequestEnds` both say "or it is stuck". The pipe is then read and
written on, but no answer comes.

## 4. Proofs

The proofs hold for all values of the constants, under the modules' assumptions: the
markers for "absent", "torn", "junk" and "partial" are no contents, handles or records,
the role and the hard links are Booleans, an image has at least one layer.

**Engine.** The safety properties are not inductive one by one. That a stop drops the
right torrent (`OpenIffStarted`) needs that the id's wrapper exists
(`EveryIdHasTorrent`) and that no two ids share an open torrent; that a caller is
served (`WaiterIsServed`) needs that the wrapper it got has the open object or a closed
one, never another's (`ObjectsHaveOneHome`), and that State Started with an open
object means that `DownloadAll` was called on it (`FreshIsWanted`); that starts do not
leak needs `OwedCoversCount`, a bound on `Count` by the starts owed; restarts need
`BootIsFresh`, that `Run` meets each id with no entry; that complete means on disk
(`CompleteIsIntact`) needs `WriterIsDirty`: an object with a write under way is not
verified, and an open one writes to its own id's file, so that only a dropped object's
write can spoil a complete torrent, which is the exemption `late` states and
`MCBtEngineLateWrite.cfg` shows to be needed. `IInv` is the conjunction.
`BtEngineProofs` has a lemma per group of actions, each showing every conjunct; the key
one, `ObjectIsNew`, is that an id that is not started has no open torrent, so that
registering it makes an object to which nothing refers yet.

**Service.** `ServiceRefinement` needs two facts more (`ServiceInv`): while the daemon
boots, `Run` has every whole torrent file on its list (`BootSeedsAll`), and the chunk of
an open object is what its torrent describes or a bad one (`ChunkIsOwn`). Each action
of `BtEngine` then is a step of the service or a stutter: counting a user, a starter
goroutine, receiving a chunk and a refused stop are stutters.

**Layout.** `IInv` adds what each stage of an open has made (`StageHasDirs`,
`StageMakesDirs`), that a written temporary file has its target's content
(`WriteHasTarget`) and that nothing partial is published. `WeakRefinement` maps every
file system call to a step or a stutter of `LayoutStore` for any number of requests.
`LoneRefinement`, for one request, needs in addition that the name it puts stays free
until its rename (`NameIsFree`), which is just what concurrency breaks.

**Daemon.** `ReferencesArePresent`: a request that has come to a step has left the
layers, config and manifest behind that come before it (`Progress`), and nothing
removes them: a clean stop removes the layer file, of which a linked blob is another
name (`LinkedHasFile`). From the same invariant `DoneImagesAreKnown` (leecher). With copies Status is right about
what it does not know (`StatusTellsTruth`): a layer of a reference is there, and a copy is
what its digest says (`BlobsAreCopies`), as `PutBlob` names what it has read. `StoredLayersAreSeeded`: a seeder never writes a
reference, so it never stops or deletes a torrent (`SeederOnlySeeds`); a stored layer
that is not spoiled has its layer file and a torrent file that decodes, or a request on
its way (`StoredIsSeedable`), so `Run` seeds it after every restart. From
`SeederOnlySeeds` also `TorrentsAreKept`: a torrent file that decodes is read by later
starts and replaced by none.

`TorrentsAreWhole` is about what a seeder seeds. A request that comes to StartSeed has a
file that is whole or wrong from the start, and one that is copying is the file's last
truncator, unless its id has clashed (`SeedIsWhole`); a torrent made from such a file is
whole, since a file that a bad chunk has made wrong already has a torrent, which is kept
(`JunkHasTorrent`). What remains is the clash of two requests, which
`MCDaemonHalfTorrent.cfg` shows to be needed; `LoneTorrentsAreWhole` proves that a
single request, or hard links, never clash. `LinkedLayoutIsWhole`: a seeder that links
has nothing to fetch (`LinksAreWhole`). `WholeBlobsStay`: with hard links the engine
fetches only what a hash found wrong (`FetchIsNeeded`), and a leecher's entries have
contents that were offered (`FetchIsOffered`). Its assumption `OffersAgree` says that a
seeder that has the torrent of a layer offers no other content of it than its prefix,
which a hash finds in the whole layer; `TorrentsAreKept` is why one seeder keeps it.

**Image store.** `DaemonImplementsImageStore` maps the layouts to what is in them, by name and
regardless of content, and `done` to what was reported. With the invariants above,
every put of a blob is `Store`, the two ends of `PutReference` that succeed are `Publish`,
whose guard is `Progress`, and a seeder's last layer is `Report`; a clean stop of a linked
layer is a stutter by `LinkedHasFile`. Nothing else touches what the store shows.

**Interfaces.** `DaemonUsesEngineService`: each step of `Daemon` is one of `EngineService`
or leaves its variables alone; the work is in the end of a copy, which writes the layer
file without the engine (`FillIsWrite`), and needs that only seeders copy
(`LeecherSeedsNothing`) and that requests run in a daemon that is up
(`CallsAreServed`). `DaemonUsesLayoutStore`, where blobs are copied: a put is `PutBlob` of
the right content, `WriteReference` is `OverwriteReference`, the weak call that `OciLayout` gives
concurrent callers. For one request at a time it is `PutReference`, as the name it has
checked is still free (`NameIsFree`): `LoneDaemonUsesDocumentedStore`. These three have
no run of their own; TLC finds no error in them on the instances of section 3.

**Client.** `CallIsBacked`: while a call is under way its directory exists and its
client is there or killed. Hence `OpenIsAwaited`; `TypeCorrect` is by induction.

Only model-checked: the liveness properties (`StartSettles`, `WaiterReturns`,
`FreshStartCompletes`, `ImageArrives`, `StartReturns`, `RequestEnds`), as fairness and
`ENABLED` are out of the prover's reach. Every other property of a run is stated by a
theorem. No module that proofs use has a recursive operator.

## 5. Findings

`finding_stale_handle`: start, stop, start. `addTorrent` returns the wrapper of the
first start with the object that the stop closed; `DownloadAll` goes to that object,
the open torrent stays unwanted. A leecher that restarts an unfinished layer gets
nothing, although the log says that the start succeeded.

The following configurations are not among the runs of `PROJECT.json`. Each checks one
property that a reader of the code might expect, and TLC shows a counterexample; they
are why the properties of section 3 are stated as they are. Run one with
`tlc -config <configuration> <module>`.

| configuration | property | what happens |
|---|---|---|
| `MCBtEngineLateStart.cfg` | `StoppedIsDropped` | Start, stop, and only then the starter goroutine runs: it sets State back to Started, and status says so of a stopped layer. |
| `MCBtEngineLateWrite.cfg` | `DropIsSafe` | A bad chunk arrives, its write is delayed; stop, start, and the second object verifies the piece; then the write lands. The torrent stays complete and its file is wrong. |
| `MCBtEngineBanned.cfg` | `EveryStartCompletes` | The only peer sends one bad piece and is banned; the torrent, started and wanted, never completes. |
| `MCOciLayoutClobber.cfg` | `ImplementsStore` | Two requests put different descriptors at one name; both pass the check, both rename, none gets `ErrClobber`. |
| `MCDaemonHalfTorrent.cfg` | `EveryTorrentIsWhole` | Two requests copy one layer to one file; one truncates it before the other's StartSeed, which makes a torrent of half a layer. It is never replaced. |
| `MCDaemonHalfBlob.cfg` | `LayoutIsWhole` | With hard links a caller that is let go early, or does not wait, links a file that is not verified, into a layout that avoids "half-writing an invalid blob" (`oci/dir.go:91-92`) when it copies. |
| `MCDaemonNotSeeded.cfg` | `DoneIsSeeded` | An error of StartSeed is logged, the request reports success, and no later request seeds the layer. |
| `MCDaemonHalfLayout.cfg` | `EveryLayoutServes` | The first call for a repository dies, or fails, while it makes the layout; every retry is refused, as `oci/dir.go:56-66` takes an existing directory for an error. |
| `MCDaemonBanned.cfg` | `EveryPieceArrives` | The seeder is banned for one piece that failed; every retry joins a torrent that no peer serves. |
| `MCDaemonSeederStatus.cfg` | `DoneIsKnown` | A seeder writes no reference, on which Status and StopDownload rest; the README shows the status of a seeder's image (`README.md:47-49`). |
| `MCDaemonNoStop.cfg` | `StartedIsStoppable` | A download that fails after StartLeecher has no reference yet, and nothing can stop its torrent but a restart or a download that succeeds. |
| `MCCtrStdioTail.cfg` | `ReportsAreShown` | The answer overtakes the reports, and the client exits before it has copied them. |
| `MCCtrStdioQuiet.cfg` | `QuietReturns` | With `--quiet` the client sends the path of a pipe of which it opens no end; the daemon waits for a reader, and the call never returns. |

Noted besides: `Open` creates a missing path although
`oci/layout.go:95-97` promises `os.ErrNotExist`; the user count of an id is 0 after its
first start, so two starts need only one stop, with no text that says what was meant; a
torn torrent file is never repaired, and an id it blocks has no entry through which
`DeleteTorrent` would remove it; a copying seeder that is restarted on the layout of
a linking one would truncate blobs through their links (the model keeps the setting).

## 6. Plan

1. **Readers of the engine**: GetStatus and GetTorrent as two-step readers without the
   mutex, in `BtEngine`; what they may return in a race with stop and delete.
2. **Distribution**: one seeder and leechers as instances of `Daemon`, with `Offered`
   computed from the seeder's torrent files.
3. **Pure parts**: percentage and rate at their edges, digest to path, media types to
   manifests, as operators against reference definitions.
4. **Proofs**: what two leechers and a seeder guarantee together (`Offered` from a
   seeder's `TorrentsAreKept`), once they are composed.

## 7. Not modelled

Rate limits, `addMagnet` (no caller), `GetTorrents`, logging and progress bars; the
gRPC layer, which passes calls on, and its generated types; the client's stop and
status commands, which print one answer, and which of its pipes' directories it removes; trackers and the
rest of the BitTorrent protocol, of which only its effect on a torrent's piece, and on
which peers are banned, is kept;
a daemon whose engine was not started (BitTorrent disabled, or `Run` returning nil
because it could not make a directory), in which every call fails; registry access
beyond its answer, a blob or an error; the conversion of manifests beyond whether it
succeeds; power failures.
