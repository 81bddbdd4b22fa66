------------------------------- MODULE BtEngine -------------------------------
(***************************************************************************)
(* The BitTorrent engine of one daemon (src/bt): the table of layer ids    *)
(* (idInfos), the cache of torrent wrappers (ts), the embedded torrent     *)
(* client, the goroutines that start downloads, the callers that wait for  *)
(* a download, and the files under <root>/bt/{data,torrents}.              *)
(*                                                                         *)
(* Every exported handler holds e.mut for its whole body (StartLeecher     *)
(* releases it only to wait), so a handler is one action.  What does       *)
(* interleave is everything that runs without e.mut: the goroutine calling *)
(* startTorrent, the waiting callers, the client's own goroutines, writers *)
(* of the layer file, and crashes.                                         *)
(***************************************************************************)
EXTENDS Integers

CONSTANTS
    Ids,        \* layer ids (hex digests)
    Versions,   \* contents a layer file, hence a torrent of an id, may have
    Handles,    \* client-side torrent objects, one per registration
    Calls,      \* StartLeecher calls that report progress, hence wait
    Peers,      \* addresses from which the client can get every piece
    BtSeeder,   \* the role of the daemon: config.BtSeeder
    MaxStarts,  \* bound on the starts an id may be owed (bounds Count)
    None,       \* absent: no map entry, no file, no handle
    Prefix,     \* the content of a half-copied blob, which starts all others
    Torn,       \* a .torrent file that does not decode
    Junk        \* a layer file that is wrong from its first piece on; if it is
                \* one of Versions, createTorrent may find and hash it

ASSUME RoleAssumption == BtSeeder \in BOOLEAN
ASSUME BoundAssumption == MaxStarts \in Nat
ASSUME FileAssumption ==
    /\ None \notin Versions \cup {Torn, Junk}
    /\ Torn \notin Versions
ASSUME HandleAssumption == None \notin Handles \cup Ids \cup {"closed"}
ASSUME RecordAssumption ==
    /\ None \notin [tt : Handles, state : {"Unknown", "Started", "Dropped"}]
    /\ None \notin [v : Versions, started : BOOLEAN, count : Int]
    /\ None \notin [v : Versions,
                    stage : {"stopped", "queued", "missing", "dirty", "complete"}]
    /\ None \notin [wanted : BOOLEAN,
                    have : {"queued", "missing", "dirty", "complete"}]
    /\ None \notin Ids \X (Versions \cup {Junk})

\* The name id.layer is part of the info dictionary, so an info hash stands
\* for an id together with the content the torrent describes.
InfoHash == Ids \X Versions

VARIABLES
    mode,         \* "down", "booting" (inside Run) or "up" (serving calls)
    toSeed,       \* the data directory entries Run has yet to visit
    layer,        \* data/<id>.layer
    torrentFile,  \* torrents/<id>.torrent
    idInfos,      \* BtEngine.idInfos
    ts,           \* BtEngine.ts
    client,       \* Client.torrents: the open torrent of an info hash
    obj,          \* the torrent objects made since the daemon started
    starters,     \* goroutines that have yet to call startTorrent
    waiter,       \* the object a StartLeecher call polls in waitComplete
    pending,      \* the chunk a torrent object has received, not yet written
    owed,         \* history: starts of an id not yet undone by a stop
    late,         \* history: ids whose file a dropped object has written to
                  \* since the id was last started
    banned        \* Client.badPeerIPs

disk == <<layer, torrentFile>>
tables == <<idInfos, ts, client, obj, starters, pending, owed, late, banned>>
vars == <<mode, toSeed, layer, torrentFile, idInfos, ts, client, obj,
          starters, waiter, pending, owed, late, banned>>

-----------------------------------------------------------------------------
(* Types *)

Mode == {"down", "booting", "up"}
State == {"Unknown", "Started", "Dropped"}
Torrent == [tt : Handles, state : State]
IdInfo == [v : Versions, started : BOOLEAN, count : Int]
Have == {"queued", "missing", "dirty", "complete"}
TorrentObject == [wanted : BOOLEAN, have : Have]

Chunk == Ids \X (Versions \cup {Junk})

TypeOK ==
    /\ mode \in Mode
    /\ toSeed \in SUBSET Ids
    /\ layer \in [Ids -> Versions \cup {None, Junk}]
    /\ torrentFile \in [Ids -> Versions \cup {None, Torn}]
    /\ idInfos \in [Ids -> IdInfo \cup {None}]
    /\ ts \in [InfoHash -> Torrent \cup {None}]
    /\ client \in [InfoHash -> Handles \cup {None}]
    /\ obj \in [Handles -> TorrentObject \cup {None}]
    /\ starters \in [InfoHash -> Nat]
    /\ waiter \in [Calls -> Handles \cup {None}]
    /\ pending \in [Handles -> Chunk \cup {None}]
    /\ owed \in [Ids -> Nat]
    /\ late \in SUBSET Ids
    /\ banned \in SUBSET Peers

Started(id) == idInfos[id] # None /\ idInfos[id].started
InfoHashOf(id) == <<id, idInfos[id].v>>
Registered(ih) == client[ih] # None

NoEntries == [id \in Ids |-> None]
NoTorrents == [ih \in InfoHash |-> None]
NoObjects == [h \in Handles |-> None]
NoStarters == [ih \in InfoHash |-> 0]
NoWaiters == [p \in Calls |-> None]
NothingOwed == [id \in Ids |-> 0]

Init ==
    /\ mode = "down"
    /\ layer = [id \in Ids |-> None]
    /\ torrentFile = [id \in Ids |-> None]
    /\ toSeed = {}
    /\ idInfos = NoEntries
    /\ ts = NoTorrents
    /\ client = NoTorrents
    /\ obj = NoObjects
    /\ starters = NoStarters
    /\ waiter = NoWaiters
    /\ pending = NoObjects
    /\ owed = NothingOwed
    /\ late = {}
    /\ banned = {}

-----------------------------------------------------------------------------
(* The embedded torrent client, as the engine calls it *)

\* The object Client.AddTorrent returns: the open one, or a new one.
AddTorrentResult(ih) ==
    IF Registered(ih) THEN {client[ih]} ELSE {h \in Handles : obj[h] = None}

\* A new object has its pieces queued for hashing: the completion database
\* falls back to an empty map, as no sqlite driver is linked.
AddTorrent(ih, h) ==
    /\ client' = [client EXCEPT ![ih] = h]
    /\ obj' = IF Registered(ih) THEN obj
              ELSE [obj EXCEPT ![h] = [wanted |-> FALSE, have |-> "queued"]]

\* Torrent.Drop and Client.dropTorrent close whatever object the info hash
\* has at the moment, not the one Drop is called on.
DropByHandle(ih) ==  \* mutant: Drop closes the object it is called on
    client' = IF ts[ih] # None /\ ts[ih].tt = client[ih]
                THEN [client EXCEPT ![ih] = None] ELSE client
DropTorrent(ih) == client' = [client EXCEPT ![ih] = None]

\* Torrent.DownloadAll marks the pieces of an object, open or closed, wanted.
DownloadAllHashed(h) ==  \* mutant: pieces still queued for hashing are left
    obj' = [obj EXCEPT ![h].wanted = obj[h].have # "queued"]
DownloadAll(h) == obj' = [obj EXCEPT ![h].wanted = TRUE]

\* The layer file begins with the content that the torrent describes.
Holds(ih) ==
    \/ layer[ih[1]] = ih[2]
    \/ ih[2] = Prefix /\ layer[ih[1]] \in Versions \ {Junk}

\* The result of hashing the pieces of an open torrent in the layer file.
TrustedHash(ih) == "complete"  \* mutant: a received piece is not verified
PieceHash(ih) == IF Holds(ih) THEN "complete" ELSE "missing"

BytesCompletedIsTotal(h) == obj[h].have \in {"dirty", "complete"}

-----------------------------------------------------------------------------
(* Engine helpers *)

\* addTorrent: the cached wrapper of the info hash wins over the new object.
addTorrent(ih, h) ==
    ts' = IF ts[ih] # None THEN ts
          ELSE [ts EXCEPT ![ih] = [tt |-> h, state |-> "Unknown"]]

\* The common tail of StartSeed and StartLeecher: add the torrent of the
\* decoded metainfo, cache it, spawn the starter, overwrite the id's entry.
Register(id, v, h) ==
    /\ AddTorrent(<<id, v>>, h)
    /\ addTorrent(<<id, v>>, h)
    /\ starters' = [starters EXCEPT ![<<id, v>>] = @ + 1]
    /\ idInfos' = [idInfos EXCEPT
                     ![id] = [v |-> v, started |-> TRUE, count |-> 0]]
    /\ owed' = [owed EXCEPT ![id] = 1]
    /\ late' = late \ {id}
    /\ UNCHANGED <<pending, banned>>

\* The early return of both: the id is started, count one more user.
CountStart(id) ==
    /\ mode = "up"
    /\ Started(id)
    /\ owed[id] < MaxStarts
    /\ idInfos' = [idInfos EXCEPT ![id].count = @ + 1]
    /\ owed' = [owed EXCEPT ![id] = @ + 1]
    /\ UNCHANGED <<mode, toSeed, disk, ts, client, obj, starters, waiter, pending,
                   late, banned>>

-----------------------------------------------------------------------------
(* Start of the daemon *)

\* Run: make the client, mark the engine started, list the data directory.
RunBegin ==
    /\ mode = "down"
    /\ mode' = "booting"
    /\ toSeed' = {id \in Ids : layer[id] # None}
    /\ UNCHANGED <<disk, tables, waiter>>

\* Run calls StartSeed for a layer that has a torrent file; a file that does
\* not decode is logged and skipped.
RunSeed(id, h) ==
    /\ id \in toSeed
    /\ torrentFile[id] \in Versions
    /\ h \in AddTorrentResult(<<id, torrentFile[id]>>)
    /\ Register(id, torrentFile[id], h)
    /\ toSeed' = toSeed \ {id}
    /\ UNCHANGED <<mode, disk, waiter>>

RunSkip(id) ==
    /\ id \in toSeed
    /\ torrentFile[id] \notin Versions
    /\ toSeed' = toSeed \ {id}
    /\ UNCHANGED <<mode, disk, tables, waiter>>

\* Run returns and the gRPC server starts to serve.
RunEndEarly ==  \* mutant: the directory is walked in the background
    /\ mode = "booting"
    /\ mode' = "up"
    /\ toSeed' = {}
    /\ UNCHANGED <<disk, tables, waiter>>
RunEnd ==
    /\ mode = "booting"
    /\ toSeed = {}
    /\ mode' = "up"
    /\ UNCHANGED <<toSeed, disk, tables, waiter>>

-----------------------------------------------------------------------------
(* Calls *)

\* The torrent file as it is or, when there is none, one that createTorrent
\* builds from the layer file as it is now.
UseBuiltInfo(id, v) ==  \* mutant: the built metainfo is used, not written
    /\ IF torrentFile[id] = None THEN layer[id] = v ELSE torrentFile[id] = v
    /\ UNCHANGED torrentFile
UseTorrentFile(id, v) ==
    IF torrentFile[id] = None
      THEN layer[id] = v /\ torrentFile' = [torrentFile EXCEPT ![id] = v]
      ELSE torrentFile[id] = v /\ UNCHANGED torrentFile

\* StartSeed on an id that is not started.
StartSeed(id, h) ==
    /\ mode = "up" /\ BtSeeder
    /\ ~Started(id)
    /\ \E v \in Versions :
         /\ UseTorrentFile(id, v)
         /\ h \in AddTorrentResult(<<id, v>>)
         /\ Register(id, v, h)
    /\ UNCHANGED <<mode, toSeed, layer, waiter>>

\* createTorrent makes the file, then fails to write it: the error is
\* returned and the torn file stays.
StartSeedTorn(id) ==
    /\ mode = "up" /\ BtSeeder
    /\ ~Started(id)
    /\ torrentFile[id] = None
    /\ layer[id] # None
    /\ torrentFile' = [torrentFile EXCEPT ![id] = Torn]
    /\ UNCHANGED <<mode, toSeed, layer, tables, waiter>>

\* StartLeecher with the metainfo fetched from the seeder.  The caller p, if
\* there is one, goes on to poll the cached wrapper's object.
StartLeecher(id, v, h, p) ==
    /\ mode = "up" /\ ~BtSeeder
    /\ ~Started(id)
    /\ h \in AddTorrentResult(<<id, v>>)
    /\ Register(id, v, h)
    /\ IF p = None THEN UNCHANGED waiter
       ELSE /\ waiter[p] = None
            /\ waiter' = [waiter EXCEPT ![p] = ts'[<<id, v>>].tt]
    /\ UNCHANGED <<mode, toSeed, disk>>

\* waitComplete leaves its loop.
WaitDone(p) ==
    /\ waiter[p] # None
    /\ BytesCompletedIsTotal(waiter[p])
    /\ waiter' = [waiter EXCEPT ![p] = None]
    /\ UNCHANGED <<mode, toSeed, disk, tables>>

\* StopTorrent of a started id, up to its decision: one user less.
StopCount(id) ==
    /\ mode = "up"
    /\ Started(id)
    /\ idInfos[id].count > -MaxStarts

\* The decrement leaves other users.
OthersLeftOrOne(id) == idInfos[id].count >= 0  \* mutant: off by one more
OthersLeft(id) == idInfos[id].count - 1 > 0

StopOneUser(id) ==
    /\ StopCount(id)
    /\ OthersLeft(id)
    /\ idInfos' = [idInfos EXCEPT ![id].count = @ - 1]
    /\ owed' = [owed EXCEPT ![id] = @ - 1]
    /\ UNCHANGED <<mode, toSeed, disk, ts, client, obj, starters, waiter, pending,
                   late, banned>>

\* stopTorrent fails with "Already stopped"; the count stays decremented.
StopRefused(id) ==
    /\ StopCount(id)
    /\ ~OthersLeft(id)
    /\ ts[InfoHashOf(id)] = None \/ ts[InfoHashOf(id)].state = "Dropped"
    /\ idInfos' = [idInfos EXCEPT ![id].count = @ - 1]
    /\ UNCHANGED <<mode, toSeed, disk, ts, client, obj, starters, waiter, pending,
                   owed, late, banned>>

\* stopTorrent drops the torrent.
StopTorrent(id) ==
    /\ StopCount(id)
    /\ ~OthersLeft(id)
    /\ ts[InfoHashOf(id)] # None
    /\ ts[InfoHashOf(id)].state # "Dropped"
    /\ DropTorrent(InfoHashOf(id))
    /\ ts' = [ts EXCEPT ![InfoHashOf(id)].state = "Dropped"]
    /\ idInfos' = [idInfos EXCEPT ![id].count = @ - 1, ![id].started = FALSE]
    /\ owed' = [owed EXCEPT ![id] = 0]
    /\ UNCHANGED <<mode, toSeed, disk, obj, starters, waiter, pending, late,
                   banned>>

\* DeleteTorrent acts on an id that is known and stopped.
DeletableWhenKnown(id) == idInfos[id] # None  \* mutant: Started not checked
Deletable(id) == idInfos[id] # None /\ ~idInfos[id].started

\* deleteTorrent, which drops a torrent the client may still hold, and the
\* removal of the id's entry.
DeleteWrapperOnly(id) ==  \* mutant: the id's entry is left
    /\ ts' = [ts EXCEPT ![InfoHashOf(id)] = None]
    /\ DropTorrent(InfoHashOf(id))
    /\ UNCHANGED <<idInfos, obj, starters, pending, owed, late, banned>>
DeleteEntries(id) ==
    /\ ts' = [ts EXCEPT ![InfoHashOf(id)] = None]
    /\ DropTorrent(InfoHashOf(id))
    /\ idInfos' = [idInfos EXCEPT ![id] = None]
    /\ UNCHANGED <<obj, starters, pending, owed, late, banned>>

\* DeleteTorrent: the entries go first, then the data file, then the torrent
\* file; a removal that fails ends the call and leaves the rest.
DeleteTorrent(id) ==
    /\ mode = "up"
    /\ Deletable(id)
    /\ ts[InfoHashOf(id)] # None
    /\ DeleteEntries(id)
    /\ \/ UNCHANGED disk
       \/ layer' = [layer EXCEPT ![id] = None] /\ UNCHANGED torrentFile
       \/ /\ layer' = [layer EXCEPT ![id] = None]
          /\ torrentFile' = [torrentFile EXCEPT ![id] = None]
    /\ UNCHANGED <<mode, toSeed, waiter>>

-----------------------------------------------------------------------------
(* What runs without e.mut *)

\* startTorrent fails: no such wrapper, or "Already started".
FailsIfSeen(ih) ==  \* mutant: a dropped wrapper is not started again
    ts[ih] = None \/ ts[ih].state # "Unknown"
StartFails(ih) == ts[ih] = None \/ ts[ih].state = "Started"

\* The goroutine of StartSeed and StartLeecher calls startTorrent.  It takes
\* no lock, but each of its reads and writes of the wrapper's State commutes
\* with or is covered by an order in which it runs at once.
startTorrent(ih) ==
    /\ starters[ih] > 0
    /\ starters' = [starters EXCEPT ![ih] = @ - 1]
    /\ IF StartFails(ih)
         THEN UNCHANGED <<ts, obj>>
         ELSE /\ ts' = [ts EXCEPT ![ih].state = "Started"]
              /\ DownloadAll(ts[ih].tt)
    /\ UNCHANGED <<mode, toSeed, disk, idInfos, client, waiter, pending, owed,
                   late, banned>>

\* The last missing chunk of an open, wanted torrent arrives, good or bad.
\* downloadedChunk counts it as received, then writes it without a lock.  It may
\* come from a banned peer, which keeps its connections for other torrents.
ReceiveChunk(ih, content) ==
    /\ Registered(ih)
    /\ obj[client[ih]].wanted
    /\ obj[client[ih]].have = "missing"
    /\ content \in {ih[2], Junk}
    /\ obj' = [obj EXCEPT ![client[ih]].have = "dirty"]
    /\ pending' = [pending EXCEPT ![client[ih]] = <<ih[1], content>>]
    /\ UNCHANGED <<mode, toSeed, disk, idInfos, ts, client, starters, waiter,
                   owed, late, banned>>

\* The layer file once a chunk is in it.
Overwritten(id, content) ==
    IF content = Prefix /\ layer[id] \in Versions \ {Junk} THEN layer[id] ELSE content

\* The chunk is written, though its object may have been dropped meanwhile.
IsOpen(h) == \E ih \in InfoHash : client[ih] = h

WriteChunk(h) ==
    /\ pending[h] # None
    /\ LET id == pending[h][1]
       IN /\ layer' = [layer EXCEPT ![id] = Overwritten(id, pending[h][2])]
          /\ late' = IF IsOpen(h) THEN late ELSE late \cup {id}
    /\ pending' = [pending EXCEPT ![h] = None]
    /\ UNCHANGED <<mode, toSeed, torrentFile, idInfos, ts, client, obj, starters,
                   waiter, owed, banned>>

\* The write fails: the chunk is missing again.
WriteChunkFails(h) ==
    /\ pending[h] # None
    /\ obj' = [obj EXCEPT ![h].have = "missing"]
    /\ pending' = [pending EXCEPT ![h] = None]
    /\ UNCHANGED <<mode, toSeed, disk, idInfos, ts, client, starters, waiter,
                   owed, late, banned>>

\* The peers that a failed hash of an open torrent may cost the client: any of
\* those a received piece came from and that are still connected, whether the
\* piece was bad or something else has written to the file.
BlamedUntouched(ih) ==  \* mutant: also for a piece that was found on the disk
    IF PieceHash(ih) = "missing" THEN SUBSET Peers ELSE {{}}
Blamed(ih) ==
    IF obj[client[ih]].have = "dirty" /\ PieceHash(ih) = "missing"
      THEN SUBSET Peers ELSE {{}}

\* verifyPiece of an open torrent: the file has the content or it has not.
\* hashPiece waits for the pending writes of the object.  pieceHashed bans the
\* peers of a received piece that fails.
HashPiece(ih) ==
    /\ Registered(ih)
    /\ obj[client[ih]].have \in {"queued", "dirty"}
    /\ pending[client[ih]] = None
    /\ obj' = [obj EXCEPT ![client[ih]].have = PieceHash(ih)]
    /\ \E peers \in Blamed(ih) : banned' = banned \cup peers
    /\ UNCHANGED <<mode, toSeed, disk, idInfos, ts, client, starters, waiter,
                   pending, owed, late>>

\* startSeedingLayer of the daemon creates or truncates the layer file and
\* copies the blob into it, before StartSeed and without e.mut.
WriteLayer(id, content) ==
    /\ mode = "up" /\ BtSeeder
    /\ layer' = [layer EXCEPT ![id] = content]
    /\ UNCHANGED <<mode, toSeed, torrentFile, tables, waiter>>

-----------------------------------------------------------------------------
(* Crashes: also the way the daemon ends, since a signal leads to os.Exit *)

\* Nothing but the disk is left.
LoseMemory ==
    /\ mode' = "down"
    /\ toSeed' = {}
    /\ idInfos' = NoEntries
    /\ ts' = NoTorrents
    /\ client' = NoTorrents
    /\ obj' = NoObjects
    /\ starters' = NoStarters
    /\ waiter' = NoWaiters
    /\ pending' = NoObjects
    /\ owed' = NothingOwed
    /\ late' = {}
    /\ banned' = {}

Crash ==
    /\ mode # "down"
    /\ LoseMemory
    /\ UNCHANGED disk

\* Between os.Create and the end of the write of createTorrent.
CrashInStartSeed(id) ==
    /\ mode = "up" /\ BtSeeder
    /\ ~Started(id)
    /\ torrentFile[id] = None
    /\ layer[id] # None
    /\ LoseMemory
    /\ torrentFile' = [torrentFile EXCEPT ![id] = Torn]
    /\ UNCHANGED layer

\* Between the two os.Remove calls of DeleteTorrent.
CrashInDelete(id) ==
    /\ mode = "up"
    /\ Deletable(id)
    /\ LoseMemory
    /\ layer' = [layer EXCEPT ![id] = None]
    /\ UNCHANGED torrentFile

-----------------------------------------------------------------------------

Boot ==
    \/ RunBegin
    \/ \E id \in Ids : RunSkip(id) \/ \E h \in Handles : RunSeed(id, h)
    \/ RunEnd

Call(id) ==
    \/ CountStart(id)
    \/ \E h \in Handles : StartSeed(id, h)
    \/ StartSeedTorn(id)
    \/ \E v \in Versions, h \in Handles, p \in Calls \cup {None} :
         StartLeecher(id, v, h, p)
    \/ StopOneUser(id) \/ StopRefused(id) \/ StopTorrent(id)
    \/ DeleteTorrent(id)

ClientStep(ih) ==
    \/ \E content \in Versions \cup {Junk} : ReceiveChunk(ih, content)
    \/ HashPiece(ih)

Failure == Crash \/ \E id \in Ids : CrashInStartSeed(id) \/ CrashInDelete(id)

Next ==
    \/ Boot
    \/ \E id \in Ids : Call(id)
    \/ \E p \in Calls : WaitDone(p)
    \/ \E ih \in InfoHash : startTorrent(ih) \/ ClientStep(ih)
    \/ \E h \in Handles : WriteChunk(h) \/ WriteChunkFails(h)
    \/ \E id \in Ids, content \in Versions : WriteLayer(id, content)
    \/ Failure

Spec == Init /\ [][Next]_vars

\* The good chunk of an open torrent is written.
WriteGoodChunk(ih) ==
    /\ Registered(ih)
    /\ pending[client[ih]] = <<ih[1], ih[2]>>
    /\ WriteChunk(client[ih])

\* A spawned goroutine, a polling loop and the client's hashing goroutine are
\* scheduled; peers that stay up deliver good pieces again and again, as long as
\* the client has not banned them all, and not every write of one fails.
Fairness ==
    /\ \A ih \in InfoHash :
         /\ WF_vars(startTorrent(ih))
         /\ WF_vars(HashPiece(ih))
         /\ SF_vars(banned # Peers /\ ReceiveChunk(ih, ih[2]))
         /\ SF_vars(WriteGoodChunk(ih))
    /\ \A p \in Calls : WF_vars(WaitDone(p))
    /\ \A h \in Handles : WF_vars(WriteChunk(h) \/ WriteChunkFails(h))

FairSpec == Spec /\ Fairness
-----------------------------------------------------------------------------
(* Safety *)

\* An id in the table always has a wrapper in the cache.  stopTorrent,
\* deleteTorrent and GetAllStatus look the wrapper up under e.mut and have an
\* error path for a miss; it is never taken, although the two maps are filled
\* and emptied one after the other and entries are overwritten on restart.
EveryIdHasTorrent ==
    \A id \in Ids : idInfos[id] # None => ts[InfoHashOf(id)] # None

\* The client holds a torrent open exactly for the ids whose entry says
\* Started: none keeps running that no stop can reach, none is counted as
\* running that was dropped.  Stop calls Drop on a handle that may be stale.
OpenIffStarted ==
    \A ih \in InfoHash :
        Registered(ih) <=> Started(ih[1]) /\ idInfos[ih[1]].v = ih[2]

\* Once every starter goroutine of a started torrent has run, its wrapper
\* says Started, whatever stops, restarts and deletes they overlapped with.
SettledIsStarted ==
    \A id \in Ids :
        Started(id) /\ starters[InfoHashOf(id)] = 0
            => ts[InfoHashOf(id)].state = "Started"

\* A StartLeecher caller that polls an open torrent does not poll in vain:
\* its pieces are wanted, or a goroutine is about to want them.
WaiterIsServed ==
    \A p \in Calls, ih \in InfoHash :
        waiter[p] # None /\ waiter[p] = client[ih]
            => obj[waiter[p]].wanted \/ starters[ih] > 0

\* A started id is owed at least one stop: as many successful StopTorrent
\* calls as there were starts always leave the torrent stopped, so no start
\* leaks although Count is off by one and refused stops decrement it.
NoStartLeaks == \A id \in Ids : Started(id) => owed[id] > 0

\* On a seeder, the torrent file of a started id is on disk, decodes, and is
\* the one the id was started from, so that a restart seeds the same torrent.
SeedTorrentIsDurable ==
    BtSeeder => \A id \in Ids :
        Started(id) => torrentFile[id] = idInfos[id].v

\* On a leecher, an open torrent whose pieces are complete has its content in
\* the layer file, whatever bad pieces, failed writes, restarts and deletes came
\* before, unless a chunk of a dropped object was written since its start.
CompleteIsIntact ==
    ~BtSeeder => \A ih \in InfoHash :
        Registered(ih) /\ obj[client[ih]].have = "complete" /\ ih[1] \notin late
            => Holds(ih)

\* What the code says of itself and does not do; a configuration for each shows
\* the counterexample.

\* startTorrent is to "Start downloading" (engine.go:542) and its goroutine
\* logs "Start torrent %v success" (engine.go:325, 399): once it has run, the
\* open torrent of a started id is wanted.
StartedIsWanted ==
    \A id \in Ids :
        Started(id) /\ starters[InfoHashOf(id)] = 0
            => obj[client[InfoHashOf(id)]].wanted

\* "there is no stop - kill underlying torrent" (engine.go:567), reported as
\* "Stopped: <id>" (src/README.md:108): status says so of a stopped id.
StoppedIsDropped ==
    \A id \in Ids :
        idInfos[id] # None /\ ~idInfos[id].started
            => ts[InfoHashOf(id)].state = "Dropped"

\* "It's always safe to" drop a torrent: "No data corruption can, or should
\* occur to either the torrent's data, or connected peers." (t.go:64-66 of the
\* client): a complete torrent is intact, also after an earlier drop of it.
DropIsSafe ==
    ~BtSeeder => \A ih \in InfoHash :
        Registered(ih) /\ obj[client[ih]].have = "complete" => Holds(ih)

-----------------------------------------------------------------------------
(* The strengthening that makes the safety properties inductive *)

\* Ids are registered while no call is served and no entry exists for them.
BootIsFresh ==
    /\ mode = "down" => \A id \in Ids : idInfos[id] = None
    /\ mode # "booting" => toSeed = {}
    /\ \A id \in toSeed : idInfos[id] = None

\* Whatever refers to an object refers to one the client made.
ObjectsExist ==
    /\ \A ih \in InfoHash : client[ih] # None => obj[client[ih]] # None
    /\ \A ih \in InfoHash : ts[ih] # None => obj[ts[ih].tt] # None
    /\ \A p \in Calls : waiter[p] # None => obj[waiter[p]] # None

\* An open object belongs to one info hash; a wrapper or a caller that refers
\* to it does so for that info hash.
ObjectsHaveOneHome ==
    /\ \A i, j \in InfoHash : client[i] # None /\ client[i] = client[j] => i = j
    /\ \A i, j \in InfoHash :
         ts[i] # None /\ client[j] # None /\ ts[i].tt = client[j] => i = j
    /\ \A p \in Calls, ih \in InfoHash :
         waiter[p] # None /\ waiter[p] = client[ih]
            => ts[ih] # None /\ ts[ih].tt = client[ih]

\* A wrapper in state Started whose object is open has had DownloadAll called.
FreshIsWanted ==
    \A ih \in InfoHash :
        /\ ts[ih] # None
        /\ client[ih] # None
        /\ ts[ih].tt = client[ih]
        /\ ts[ih].state = "Started"
        => obj[client[ih]].wanted

\* Count never exceeds the starts owed, less the first.
OwedCoversCount ==
    \A id \in Ids : Started(id) => owed[id] > 0 /\ owed[id] > idInfos[id].count

\* An object that is writing a chunk has received it and not verified it; an
\* open object writes to the file of its own id.
WriterIsDirty ==
    /\ \A h \in Handles :
         pending[h] # None => obj[h] # None /\ obj[h].have = "dirty"
    /\ \A ih \in InfoHash :
         client[ih] # None /\ pending[client[ih]] # None
            => pending[client[ih]][1] = ih[1]

IInv ==
    /\ TypeOK
    /\ BootIsFresh
    /\ ObjectsExist
    /\ ObjectsHaveOneHome
    /\ FreshIsWanted
    /\ OwedCoversCount
    /\ WriterIsDirty
    /\ EveryIdHasTorrent
    /\ OpenIffStarted
    /\ SettledIsStarted
    /\ WaiterIsServed
    /\ SeedTorrentIsDurable
    /\ CompleteIsIntact

-----------------------------------------------------------------------------
(* Action properties *)

\* No step, a crash included, removes the layer file or changes the torrent
\* file of an id while the client has a torrent of the id open.
FilesOutliveTorrent ==
    [][\A id \in Ids :
         (\E v \in Versions : Registered(<<id, v>>))
           => /\ layer[id] # None => layer'[id] # None
              /\ torrentFile'[id] = torrentFile[id]]_vars

-----------------------------------------------------------------------------
(* What the engine does for the daemon (EngineService) *)

\* A daemon starts without torrents; during Run, what is durable is started or
\* on the list, and no torrent has been dropped.
BootSeedsAll ==
    /\ mode = "down" => \A h \in Handles : obj[h] = None
    /\ mode = "booting" =>
        /\ \A id \in Ids :
             layer[id] # None /\ torrentFile[id] \in Versions
                => Started(id) \/ id \in toSeed
        /\ \A id \in toSeed : layer[id] # None
        /\ \A h \in Handles : obj[h] # None => IsOpen(h)

\* An open object writes what its torrent describes, or a bad piece.
ChunkIsOwn ==
    \A ih \in InfoHash :
        client[ih] # None /\ pending[client[ih]] # None
            => pending[client[ih]][2] \in {ih[2], Junk}

\* What the refinement below rests on.
ServiceInv == IInv /\ BootSeedsAll /\ ChunkIsOwn

\* The stage of a started id: what its open object has left to do.
StageOf(h) ==
    IF obj[h].have = "dirty" /\ pending[h] # None THEN "missing" ELSE obj[h].have

EntryOf(id) ==
    IF idInfos[id] = None THEN None
    ELSE [v |-> idInfos[id].v,
          stage |-> IF idInfos[id].started
                      THEN StageOf(client[InfoHashOf(id)]) ELSE "stopped"]

\* A dropped object is still to write a chunk of id.
Straggles(id) ==
    \E h \in Handles : pending[h] # None /\ ~IsOpen(h) /\ pending[h][1] = id

PolledBy(p) ==
    IF waiter[p] = None THEN None
    ELSE IF IsOpen(waiter[p])
      THEN (CHOOSE ih \in InfoHash : client[ih] = waiter[p])[1]
      ELSE "closed"

Service == INSTANCE EngineService WITH
    entry <- [id \in Ids |-> EntryOf(id)],
    straggler <- {id \in Ids : Straggles(id)},
    polling <- [p \in Calls |-> PolledBy(p)],
    Closed <- "closed"

\* Through cached wrappers, stale objects, torn files, races of the starter
\* goroutines and crashes, a caller of the engine sees an id that is unknown,
\* stopped or started, that writes its file only where a hash found it wrong,
\* and that is started again after a restart if its torrent file is whole.
ImplementsService == Service!Spec

-----------------------------------------------------------------------------
(* Liveness *)

\* A started torrent ends up reported Started, unless it is stopped.
StartSettles ==
    \A id \in Ids :
        Started(id) ~> \/ ~Started(id)
                       \/ ts[InfoHashOf(id)].state = "Started"

\* An open torrent whose wrapper is its own is complete in the end, unless it
\* is stopped or the client has banned every peer that has it: failed writes
\* only delay it, and so do bad pieces and the writes of dropped torrents while
\* a peer is left that has not been blamed for one.
FreshStartCompletes ==
    \A ih \in InfoHash, h \in Handles :
        client[ih] = h /\ ts[ih] # None /\ ts[ih].tt = h
            ~> client[ih] # h \/ obj[h].have = "complete" \/ banned = Peers

\* A waiting StartLeecher call returns, unless its torrent is closed or the
\* client has banned every peer that has it.
WaiterReturns ==
    \A p \in Calls, ih \in InfoHash :
        waiter[p] # None /\ waiter[p] = client[ih]
            ~> waiter[p] = None \/ waiter[p] # client[ih] \/ banned = Peers

\* What one would expect and a single bad piece prevents: the client bans its
\* only seeder and the download never completes.  A configuration shows it.
EveryStartCompletes ==
    \A ih \in InfoHash, h \in Handles :
        client[ih] = h /\ ts[ih] # None /\ ts[ih].tt = h
            ~> client[ih] # h \/ obj[h].have = "complete"
=============================================================================
