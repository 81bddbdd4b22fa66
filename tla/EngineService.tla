---------------------------- MODULE EngineService ----------------------------
(***************************************************************************)
(* What the engine (src/bt) does for the daemon that calls it, without the *)
(* maps, torrent objects and goroutines it does it with: an id is unknown, *)
(* stopped or started, a started one hashes its layer file, fetches it if  *)
(* that fails, and hashes it again.  BtEngine implements this              *)
(* specification and the daemon's requests are modelled on top of it.      *)
(*                                                                         *)
(* It promises no more than the engine keeps: a stop may leave a torrent   *)
(* started, as the engine counts users, a caller may be let go before the  *)
(* file is whole, and the chunk of a stopped torrent may still be written. *)
(***************************************************************************)

CONSTANTS
    Ids,        \* layer ids
    Versions,   \* contents a layer file, hence a torrent of an id, may have
    Calls,      \* calls that may wait for a download
    Peers,      \* addresses from which every piece can be fetched
    BtSeeder,   \* the role of the daemon
    None,       \* no entry, no file, nothing polled
    Prefix,     \* the content of a half-copied blob, which starts all others
    Torn,       \* a .torrent file that does not decode
    Junk,       \* a layer file that is wrong from its first piece on; if it is
                \* one of Versions, createTorrent may find and hash it
    Closed      \* what a caller polls whose torrent was dropped

VARIABLES
    mode,         \* "down", "booting" (inside Run) or "up"
    entry,        \* what the engine knows of an id: content and stage
    layer,        \* data/<id>.layer
    torrentFile,  \* torrents/<id>.torrent
    straggler,    \* ids for which a dropped torrent still writes a chunk
    polling,      \* the id whose download a call waits for, or Closed
    banned        \* addresses from which nothing is fetched any more

vars == <<mode, entry, layer, torrentFile, straggler, polling, banned>>
disk == <<layer, torrentFile>>

\* "queued" is to be hashed, "missing" to be fetched, "dirty" is fetched and to
\* be hashed.
Stage == {"stopped", "queued", "missing", "dirty", "complete"}

Started(id) == entry[id] # None /\ entry[id].stage # "stopped"

Holds(id, v) == layer[id] = v \/ (v = Prefix /\ layer[id] \in Versions \ {Junk})

Overwritten(id, content) ==
    IF content = Prefix /\ layer[id] \in Versions \ {Junk} THEN layer[id] ELSE content

Init ==
    /\ mode = "down"
    /\ entry = [id \in Ids |-> None]
    /\ layer = [id \in Ids |-> None]
    /\ torrentFile = [id \in Ids |-> None]
    /\ straggler = {}
    /\ polling = [p \in Calls |-> None]
    /\ banned = {}

StartUnhashed(id, v) ==  \* mutant: a new torrent is fetched without a hash
    entry' = [entry EXCEPT ![id] = [v |-> v, stage |-> "missing"]]
Start(id, v) == entry' = [entry EXCEPT ![id] = [v |-> v, stage |-> "queued"]]
-----------------------------------------------------------------------------
(* Start of the daemon *)

RunBegin ==
    /\ mode = "down"
    /\ mode' = "booting"
    /\ UNCHANGED <<entry, disk, straggler, polling, banned>>

RunSeed(id) ==
    /\ mode = "booting"
    /\ entry[id] = None
    /\ layer[id] # None
    /\ torrentFile[id] \in Versions
    /\ Start(id, torrentFile[id])
    /\ UNCHANGED <<mode, disk, straggler, polling, banned>>

RunEndEarly ==  \* mutant: calls are served while the layers are listed
    /\ mode = "booting"
    /\ mode' = "up"
    /\ UNCHANGED <<entry, disk, straggler, polling, banned>>
\* No call is served before every layer with a torrent file is started.
RunEnd ==
    /\ mode = "booting"
    /\ \A id \in Ids :
         layer[id] # None /\ torrentFile[id] \in Versions => Started(id)
    /\ mode' = "up"
    /\ UNCHANGED <<entry, disk, straggler, polling, banned>>

(* Calls; those that only count a user change nothing here *)

StartSeedAnew(id) ==  \* mutant: every request makes the torrent of its file
    /\ mode = "up" /\ BtSeeder
    /\ \E v \in Versions :
         /\ layer[id] = v
         /\ torrentFile' = [torrentFile EXCEPT ![id] = v]
         /\ Start(id, v)
    /\ UNCHANGED <<mode, layer, straggler, polling, banned>>
StartSeed(id) ==
    /\ mode = "up" /\ BtSeeder
    /\ ~Started(id)
    /\ \E v \in Versions :
         /\ IF torrentFile[id] = None THEN layer[id] = v ELSE torrentFile[id] = v
         /\ torrentFile' = [torrentFile EXCEPT ![id] = v]
         /\ Start(id, v)
    /\ UNCHANGED <<mode, layer, straggler, polling, banned>>

\* The torrent file cannot be written to its end.
StartSeedTorn(id) ==
    /\ mode = "up" /\ BtSeeder
    /\ ~Started(id)
    /\ torrentFile[id] = None
    /\ layer[id] # None
    /\ torrentFile' = [torrentFile EXCEPT ![id] = Torn]
    /\ UNCHANGED <<mode, entry, layer, straggler, polling, banned>>

\* p waits, if it is a call, perhaps on the dropped object of an old start.
StartLeecher(id, v, p) ==
    /\ mode = "up" /\ ~BtSeeder
    /\ ~Started(id)
    /\ Start(id, v)
    /\ IF p = None THEN UNCHANGED polling
       ELSE /\ polling[p] = None
            /\ \E t \in {id, Closed} : polling' = [polling EXCEPT ![p] = t]
    /\ UNCHANGED <<mode, disk, straggler, banned>>

\* All bytes have been received, which says little about the file.
Return(p) ==
    /\ polling[p] # None
    /\ polling' = [polling EXCEPT ![p] = None]
    /\ UNCHANGED <<mode, entry, disk, straggler, banned>>

StopTorrent(id) ==
    /\ mode = "up"
    /\ Started(id)
    /\ entry' = [entry EXCEPT ![id].stage = "stopped"]
    /\ straggler' \in {straggler, straggler \cup {id}}
    /\ polling' = [p \in Calls |-> IF polling[p] = id THEN Closed ELSE polling[p]]
    /\ UNCHANGED <<mode, disk, banned>>

Deletable(id) == entry[id] # None /\ ~Started(id)

DeleteTorrent(id) ==
    /\ mode = "up"
    /\ Deletable(id)
    /\ entry' = [entry EXCEPT ![id] = None]
    /\ \/ UNCHANGED disk
       \/ layer' = [layer EXCEPT ![id] = None] /\ UNCHANGED torrentFile
       \/ /\ layer' = [layer EXCEPT ![id] = None]
          /\ torrentFile' = [torrentFile EXCEPT ![id] = None]
    /\ UNCHANGED <<mode, straggler, polling, banned>>

(* What goes on by itself *)

\* The peers that a failed hash may cost: any, if what failed was fetched.
Blamed(id) ==
    IF entry[id].stage = "dirty" /\ ~Holds(id, entry[id].v)
      THEN SUBSET Peers ELSE {{}}

HashPiece(id) ==
    /\ Started(id)
    /\ entry[id].stage \in {"queued", "dirty"}
    /\ entry' = [entry EXCEPT ![id].stage =
                   IF Holds(id, entry[id].v) THEN "complete" ELSE "missing"]
    /\ \E peers \in Blamed(id) : banned' = banned \cup peers
    /\ UNCHANGED <<mode, disk, straggler, polling>>

\* A started torrent writes only what it found missing.
WriteChunk(id, content) ==
    /\ Started(id)
    /\ entry[id].stage = "missing"
    /\ content \in {entry[id].v, Junk}
    /\ layer' = [layer EXCEPT ![id] = Overwritten(id, content)]
    /\ entry' = [entry EXCEPT ![id].stage = "dirty"]
    /\ UNCHANGED <<mode, torrentFile, straggler, polling, banned>>

StragglerWrite(id, content) ==
    /\ id \in straggler
    /\ layer' = [layer EXCEPT ![id] = Overwritten(id, content)]
    /\ straggler' \in {straggler, straggler \ {id}}
    /\ UNCHANGED <<mode, entry, torrentFile, polling, banned>>

StragglerFails(id) ==
    /\ straggler' = straggler \ {id}
    /\ UNCHANGED <<mode, entry, disk, polling, banned>>

\* The daemon writes the layer file of a seeder itself.
WriteLayer(id, content) ==
    /\ mode = "up" /\ BtSeeder
    /\ layer' = [layer EXCEPT ![id] = content]
    /\ UNCHANGED <<mode, entry, torrentFile, straggler, polling, banned>>

(* Crashes: idle, while a torrent file is written, between two removals *)

LoseMemory ==
    /\ mode # "down"
    /\ mode' = "down"
    /\ entry' = [id \in Ids |-> None]
    /\ straggler' = {}
    /\ polling' = [p \in Calls |-> None]
    /\ banned' = {}

Crash == LoseMemory /\ UNCHANGED disk

CrashInStartSeed(id) ==
    /\ mode = "up" /\ BtSeeder
    /\ ~Started(id)
    /\ torrentFile[id] = None
    /\ layer[id] # None
    /\ LoseMemory
    /\ torrentFile' = [torrentFile EXCEPT ![id] = Torn]
    /\ UNCHANGED layer

CrashInDelete(id) ==
    /\ mode = "up"
    /\ Deletable(id)
    /\ LoseMemory
    /\ layer' = [layer EXCEPT ![id] = None]
    /\ UNCHANGED torrentFile
-----------------------------------------------------------------------------

\* What the engine does with an id of its own accord.
Work(id) ==
    \/ RunSeed(id)
    \/ HashPiece(id)
    \/ \E content \in Versions \cup {Junk} :
         WriteChunk(id, content) \/ StragglerWrite(id, content)
    \/ StragglerFails(id)

Call(id) ==
    \/ StartSeed(id) \/ StartSeedTorn(id)
    \/ \E v \in Versions, p \in Calls \cup {None} : StartLeecher(id, v, p)
    \/ StopTorrent(id) \/ DeleteTorrent(id)

Next ==
    \/ RunBegin \/ RunEnd
    \/ \E id \in Ids : Work(id) \/ Call(id)
    \/ \E p \in Calls : Return(p)
    \/ \E id \in Ids, content \in Versions : WriteLayer(id, content)
    \/ Crash \/ \E id \in Ids : CrashInStartSeed(id) \/ CrashInDelete(id)

Spec == Init /\ [][Next]_vars
=============================================================================
