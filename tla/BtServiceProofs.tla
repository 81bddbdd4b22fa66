---------------------------- MODULE BtServiceProofs ----------------------------
(***************************************************************************)
(* Proof that BtEngine implements EngineService for every value of the     *)
(* constants: the daemon may be modelled on top of the service.            *)
(***************************************************************************)
EXTENDS BtEngineProofs

-----------------------------------------------------------------------------
(* What a caller sees of the engine's tables *)

\* The stage of an open object is one of a started entry.
LEMMA StageIsStarted ==
  ASSUME NEW h \in Handles, obj[h] \in TorrentObject
  PROVE  StageOf(h) \in {"queued", "missing", "dirty", "complete"}
  BY DEF StageOf, TorrentObject, Have

\* A caller of the service knows as started what the table says is started.
LEMMA SameStarted ==
  ASSUME IInv, NEW id \in Ids
  PROVE  Service!Started(id) <=> Started(id)
<1> USE DEF IInv
<1>1. CASE idInfos[id] = None
  BY <1>1 DEF Service!Started, EntryOf, Started
<1>2. CASE idInfos[id] # None /\ ~idInfos[id].started
  BY <1>2 DEF Service!Started, EntryOf, Started
<1>3. CASE idInfos[id] # None /\ idInfos[id].started
  <2>1. /\ InfoHashOf(id) \in InfoHash /\ InfoHashOf(id)[1] = id
        /\ InfoHashOf(id)[2] = idInfos[id].v /\ idInfos[id].v \in Versions
    BY <1>3 DEF InfoHashOf, InfoHash, TypeOK, IdInfo
  <2>2. client[InfoHashOf(id)] \in Handles /\ obj[client[InfoHashOf(id)]] \in TorrentObject
    BY <1>3, <2>1 DEF OpenIffStarted, Registered, Started, TypeOK, ObjectsExist
  <2>3. StageOf(client[InfoHashOf(id)]) \in {"queued", "missing", "dirty", "complete"}
    BY <2>2, StageIsStarted
  <2>4. EntryOf(id) = [v |-> idInfos[id].v, stage |-> StageOf(client[InfoHashOf(id)])]
    BY <1>3 DEF EntryOf
  <2>5. EntryOf(id) # None
    BY <2>1, <2>3, <2>4, RecordAssumption
  <2>. QED
    BY <1>3, <2>3, <2>4, <2>5 DEF Service!Started, Started
<1>. QED
  BY <1>1, <1>2, <1>3

\* An open object is that of one info hash.
LEMMA PolledIsHome ==
  ASSUME IInv, NEW p \in Calls, NEW ih \in InfoHash,
         waiter[p] # None, client[ih] = waiter[p]
  PROVE  PolledBy(p) = ih[1]
<1>1. IsOpen(waiter[p])
  BY DEF IsOpen
<1>2. \A j \in InfoHash : client[j] = waiter[p] => j = ih
  BY DEF IInv, ObjectsHaveOneHome
<1>3. (CHOOSE j \in InfoHash : client[j] = waiter[p]) = ih
  BY <1>2
<1>. QED
  BY <1>1, <1>3 DEF PolledBy

\* The same after a step.
LEMMA PolledIsHomeNext ==
  ASSUME IInv', NEW p \in Calls, NEW ih \in InfoHash,
         waiter'[p] # None, client'[ih] = waiter'[p]
  PROVE  PolledBy(p)' = ih[1]
<1>1. IsOpen(waiter[p])'
  BY DEF IsOpen
<1>2. \A j \in InfoHash : client'[j] = waiter'[p] => j = ih
  BY DEF IInv, ObjectsHaveOneHome
<1>3. (CHOOSE j \in InfoHash : client'[j] = waiter'[p]) = ih
  BY <1>2
<1>. QED
  BY <1>1, <1>3 DEF PolledBy

\* A caller's view does not change while its object stays where it is.
LEMMA PolledFrame ==
  ASSUME IInv, IInv', NEW p \in Calls, waiter'[p] = waiter[p],
         waiter[p] # None =>
            \A ih \in InfoHash : client'[ih] = waiter[p] <=> client[ih] = waiter[p]
  PROVE  PolledBy(p)' = PolledBy(p)
<1>1. CASE waiter[p] = None
  BY <1>1 DEF PolledBy
<1>2. ASSUME waiter[p] # None, NEW ih \in InfoHash, client[ih] = waiter[p]
      PROVE  PolledBy(p)' = PolledBy(p)
  BY <1>2, PolledIsHome, PolledIsHomeNext
<1>3. CASE waiter[p] # None /\ ~\E ih \in InfoHash : client[ih] = waiter[p]
  <2>1. ~IsOpen(waiter[p]) /\ ~IsOpen(waiter[p])'
    BY <1>3 DEF IsOpen
  <2>. QED
    BY <1>3, <2>1 DEF PolledBy
<1>. QED
  BY <1>1, <1>2, <1>3

Entries == [id \in Ids |-> EntryOf(id)]
Stragglers == {id \in Ids : Straggles(id)}
Polls == [p \in Calls |-> PolledBy(p)]

LEMMA PollsFrame ==
  ASSUME IInv, IInv', waiter' = waiter, client' = client
  PROVE  Polls' = Polls
  BY PolledFrame DEF Polls

\* Counting users and marking pieces wanted cannot be seen.
LEMMA EntriesFrame ==
  ASSUME IInv, client' = client,
         \A id \in Ids : /\ idInfos'[id] = None <=> idInfos[id] = None
                         /\ idInfos'[id].v = idInfos[id].v
                         /\ Started(id)' <=> Started(id),
         \A ih \in InfoHash : client[ih] # None =>
            StageOf(client[ih])' = StageOf(client[ih])
  PROVE  Entries' = Entries
<1> SUFFICES ASSUME NEW id \in Ids PROVE EntryOf(id)' = EntryOf(id)
  BY DEF Entries
<1>1. CASE ~Started(id)
  BY <1>1 DEF EntryOf, Started
<1>2. CASE Started(id)
  <2>1. InfoHashOf(id) \in InfoHash /\ InfoHashOf(id)' = InfoHashOf(id)
    BY <1>2 DEF InfoHashOf, InfoHash, IInv, TypeOK, IdInfo, Started
  <2>2. client[InfoHashOf(id)] # None
    BY <1>2, <2>1 DEF IInv, OpenIffStarted, Registered, InfoHashOf
  <2>3. StageOf(client[InfoHashOf(id)])' = StageOf(client[InfoHashOf(id)])
    BY <2>1, <2>2
  <2>. QED
    BY <1>2, <2>1, <2>3 DEF EntryOf, Started
<1>. QED
  BY <1>1, <1>2

-----------------------------------------------------------------------------
(* Steps that a caller does not see *)

LEMMA CountIsUnseen ==
  ASSUME IInv, IInv', NEW id \in Ids,
         CountStart(id) \/ StopOneUser(id) \/ StopRefused(id)
  PROVE  UNCHANGED Service!vars
<1>1. UNCHANGED <<mode, layer, torrentFile, client, obj, waiter, pending, banned>>
  BY DEF CountStart, StopOneUser, StopRefused, disk
<1>2. Started(id) /\ idInfos[id] \in IdInfo
  BY DEF CountStart, StopOneUser, StopRefused, StopCount, Started, IInv, TypeOK
<1>3. PICK n \in Int : idInfos' = [idInfos EXCEPT ![id].count = n]
  <2>1. idInfos[id].count + 1 \in Int /\ idInfos[id].count - 1 \in Int
    BY <1>2 DEF IdInfo
  <2>2. \/ idInfos' = [idInfos EXCEPT ![id].count = idInfos[id].count + 1]
        \/ idInfos' = [idInfos EXCEPT ![id].count = idInfos[id].count - 1]
    BY DEF CountStart, StopOneUser, StopRefused
  <2>. QED
    BY <2>1, <2>2
<1>4. \A i \in Ids : /\ idInfos'[i] = None <=> idInfos[i] = None
                     /\ idInfos'[i].v = idInfos[i].v
                     /\ Started(i)' <=> Started(i)
  BY <1>2, <1>3, RecordAssumption DEF IInv, TypeOK, IdInfo, Started
<1>5. Entries' = Entries
  BY <1>1, <1>4, EntriesFrame DEF StageOf
<1>6. Polls' = Polls
  BY <1>1, PollsFrame
<1>7. Stragglers' = Stragglers
  BY <1>1 DEF Stragglers, Straggles, IsOpen
<1>. QED
  BY <1>1, <1>5, <1>6, <1>7 DEF Service!vars, Entries, Polls, Stragglers

LEMMA StarterIsUnseen ==
  ASSUME IInv, IInv', NEW ih \in InfoHash, startTorrent(ih)
  PROVE  UNCHANGED Service!vars
<1>1. UNCHANGED <<mode, layer, torrentFile, idInfos, client, waiter, pending, banned>>
  BY DEF startTorrent, disk
<1>2. \A h \in Handles : obj[h] # None => obj'[h].have = obj[h].have
  <2>1. CASE StartFails(ih)
    BY <2>1 DEF startTorrent
  <2>2. CASE ~StartFails(ih)
    <3>1. /\ ts[ih].tt \in Handles /\ obj[ts[ih].tt] \in TorrentObject
          /\ obj' = [obj EXCEPT ![ts[ih].tt].wanted = TRUE]
      BY <2>2 DEF startTorrent, StartFails, DownloadAll, IInv, TypeOK, ObjectsExist,
                  Torrent
    <3>. QED
      BY <3>1 DEF IInv, TypeOK, TorrentObject
  <2>. QED
    BY <2>1, <2>2
<1>3. \A i \in InfoHash : client[i] # None => StageOf(client[i])' = StageOf(client[i])
  BY <1>1, <1>2 DEF StageOf, IInv, TypeOK, ObjectsExist
<1>4. Entries' = Entries
  BY <1>1, <1>3, EntriesFrame DEF Started
<1>5. Polls' = Polls
  BY <1>1, PollsFrame
<1>6. Stragglers' = Stragglers
  BY <1>1 DEF Stragglers, Straggles, IsOpen
<1>. QED
  BY <1>1, <1>4, <1>5, <1>6 DEF Service!vars, Entries, Polls, Stragglers

\* A chunk that is received is still missing from the file.
LEMMA ReceiveIsUnseen ==
  ASSUME IInv, IInv', NEW ih \in InfoHash, NEW content \in Versions \cup {Junk},
         ReceiveChunk(ih, content)
  PROVE  UNCHANGED Service!vars
<1> DEFINE g == client[ih]
<1>1. UNCHANGED <<mode, layer, torrentFile, idInfos, client, waiter, banned>>
  BY DEF ReceiveChunk, disk
<1>2. /\ g \in Handles /\ obj[g] \in TorrentObject /\ obj[g].have = "missing"
      /\ <<ih[1], content>> \in Chunk
      /\ pending' = [pending EXCEPT ![g] = <<ih[1], content>>]
      /\ obj' = [obj EXCEPT ![g].have = "dirty"]
  BY DEF ReceiveChunk, Registered, IInv, TypeOK, ObjectsExist, InfoHash, Chunk
<1>3. /\ obj'[g].have = "dirty" /\ pending'[g] # None
      /\ \A h \in Handles \ {g} : obj'[h] = obj[h] /\ pending'[h] = pending[h]
  BY <1>2, RecordAssumption DEF IInv, TypeOK, TorrentObject, Chunk
<1>4. \A i \in InfoHash : client[i] # None => StageOf(client[i])' = StageOf(client[i])
  BY <1>1, <1>2, <1>3 DEF StageOf, IInv, TypeOK
<1>5. Entries' = Entries
  BY <1>1, <1>4, EntriesFrame DEF Started
<1>6. Polls' = Polls
  BY <1>1, PollsFrame
<1>7. IsOpen(g)
  BY DEF IsOpen
<1>8. Stragglers' = Stragglers
  BY <1>1, <1>3, <1>7 DEF Stragglers, Straggles, IsOpen
<1>. QED
  BY <1>1, <1>5, <1>6, <1>8 DEF Service!vars, Entries, Polls, Stragglers

-----------------------------------------------------------------------------
(* Steps of the client: hashing and writing *)

\* The entry of a started id.
LEMMA StartedEntry ==
  ASSUME IInv, NEW id \in Ids, Started(id)
  PROVE  /\ InfoHashOf(id) \in InfoHash
         /\ InfoHashOf(id) = <<id, idInfos[id].v>>
         /\ client[InfoHashOf(id)] \in Handles
         /\ obj[client[InfoHashOf(id)]] \in TorrentObject
         /\ EntryOf(id) = [v |-> idInfos[id].v,
                           stage |-> StageOf(client[InfoHashOf(id)])]
<1> USE DEF IInv
<1>1. InfoHashOf(id) \in InfoHash /\ InfoHashOf(id) = <<id, idInfos[id].v>>
  BY DEF InfoHashOf, InfoHash, TypeOK, IdInfo, Started
<1>2. client[InfoHashOf(id)] \in Handles /\ obj[client[InfoHashOf(id)]] \in TorrentObject
  BY <1>1 DEF OpenIffStarted, Registered, TypeOK, ObjectsExist
<1>. QED
  BY <1>1, <1>2 DEF EntryOf, Started

\* An open torrent belongs to a started id.
LEMMA OpenIsStarted ==
  ASSUME IInv, NEW ih \in InfoHash, client[ih] # None
  PROVE  /\ ih[1] \in Ids /\ ih[2] \in Versions /\ ih = <<ih[1], ih[2]>>
         /\ Started(ih[1]) /\ idInfos[ih[1]].v = ih[2] /\ InfoHashOf(ih[1]) = ih
  BY DEF IInv, OpenIffStarted, Registered, InfoHash, InfoHashOf

\* An entry does not change while its open object keeps its stage.
LEMMA EntryFrame ==
  ASSUME IInv, NEW id \in Ids, idInfos'[id] = idInfos[id],
         Started(id) =>
            /\ client'[InfoHashOf(id)] = client[InfoHashOf(id)]
            /\ obj'[client[InfoHashOf(id)]].have = obj[client[InfoHashOf(id)]].have
            /\ pending'[client[InfoHashOf(id)]] = pending[client[InfoHashOf(id)]]
  PROVE  EntryOf(id)' = EntryOf(id)
<1>1. CASE ~Started(id)
  BY <1>1 DEF EntryOf, Started
<1>2. CASE Started(id)
  <2>1. InfoHashOf(id)' = InfoHashOf(id)
    BY DEF InfoHashOf
  <2>2. StageOf(client[InfoHashOf(id)])' = StageOf(client[InfoHashOf(id)])
    BY <1>2, <2>1 DEF StageOf
  <2>. QED
    BY <1>2, <2>1, <2>2 DEF EntryOf, Started
<1>. QED
  BY <1>1, <1>2

\* Started ids do not share an open object.
LEMMA DistinctObjects ==
  ASSUME IInv, NEW i \in Ids, NEW j \in Ids, Started(i), Started(j), i # j
  PROVE  client[InfoHashOf(i)] # client[InfoHashOf(j)]
<1>1. /\ InfoHashOf(i) \in InfoHash /\ InfoHashOf(i) = <<i, idInfos[i].v>>
      /\ client[InfoHashOf(i)] \in Handles
  BY StartedEntry
<1>2. InfoHashOf(j) \in InfoHash /\ InfoHashOf(j) = <<j, idInfos[j].v>>
  BY StartedEntry
<1>3. InfoHashOf(i) # InfoHashOf(j)
  BY <1>1, <1>2
<1>. QED
  BY <1>1, <1>2, <1>3, HandleAssumption DEF IInv, ObjectsHaveOneHome

\* One entry goes to another stage.
LEMMA EntryStep ==
  ASSUME NEW id \in Ids, NEW v, NEW s, NEW t,
         EntryOf(id) = [v |-> v, stage |-> s],
         EntryOf(id)' = [v |-> v, stage |-> t],
         \A j \in Ids \ {id} : EntryOf(j)' = EntryOf(j)
  PROVE  Entries' = [Entries EXCEPT ![id].stage = t]
<1>1. [Entries[id] EXCEPT !.stage = t] = [v |-> v, stage |-> t]
  BY DEF Entries
<1>2. Entries' = [Entries EXCEPT ![id] = [v |-> v, stage |-> t]]
  BY DEF Entries
<1>. QED
  BY <1>1, <1>2

LEMMA HashIsHash ==
  ASSUME IInv, IInv', NEW ih \in InfoHash, HashPiece(ih)
  PROVE  Service!HashPiece(ih[1])
<1> DEFINE id == ih[1]
           g == client[ih]
<1>1. /\ UNCHANGED <<mode, layer, torrentFile, idInfos, client, waiter, pending>>
      /\ g # None /\ obj[g].have \in {"queued", "dirty"} /\ pending[g] = None
      /\ obj' = [obj EXCEPT ![g].have = PieceHash(ih)]
  BY DEF HashPiece, disk, Registered
<1>2. /\ id \in Ids /\ Started(id) /\ idInfos[id].v = ih[2] /\ InfoHashOf(id) = ih
      /\ ih = <<id, ih[2]>>
  BY <1>1, OpenIsStarted
<1>3. g \in Handles /\ obj[g] \in TorrentObject
  BY <1>2, StartedEntry
<1>14. PICK s \in {"queued", "dirty"} : s = obj[g].have
  BY <1>1
<1>4. EntryOf(id) = [v |-> ih[2], stage |-> s]
  BY <1>1, <1>2, <1>14, StartedEntry DEF StageOf
<1>5. /\ obj'[g].have = PieceHash(ih)
      /\ \A h \in Handles \ {g} : obj'[h] = obj[h]
  BY <1>1, <1>3 DEF IInv, TypeOK, TorrentObject
<1>6. EntryOf(id)' = [v |-> ih[2], stage |-> PieceHash(ih)]
  BY <1>1, <1>2, <1>5 DEF EntryOf, StageOf, Started, InfoHashOf, PieceHash
<1>7. ASSUME NEW j \in Ids \ {id} PROVE EntryOf(j)' = EntryOf(j)
  <2>1. Started(j) => client[InfoHashOf(j)] \in Handles \ {g}
    BY <1>2, <1>7, StartedEntry, DistinctObjects
  <2>. QED
    BY <1>1, <1>5, <2>1, EntryFrame
<1>8. Entries' = [Entries EXCEPT ![id].stage = PieceHash(ih)]
  BY <1>2, <1>4, <1>6, <1>7, EntryStep
<1>9. PieceHash(ih) = IF Service!Holds(id, Entries[id].v) THEN "complete" ELSE "missing"
  BY <1>2, <1>4 DEF PieceHash, Holds, Service!Holds, Entries
<1>10. Service!Started(id)
  BY <1>2, SameStarted
<1>11. Polls' = Polls
  BY <1>1, PollsFrame
<1>12. Stragglers' = Stragglers
  BY <1>1 DEF Stragglers, Straggles, IsOpen
<1>13. Entries[id].stage = s
  BY <1>2, <1>4 DEF Entries
<1>15. Service!Blamed(id) = Blamed(ih)
  <2>1. PieceHash(ih) = "missing" <=> ~Service!Holds(id, Entries[id].v)
    BY <1>9
  <2>2. Entries[id].stage = "dirty" <=> obj[g].have = "dirty"
    BY <1>13, <1>14
  <2>. QED
    BY <2>1, <2>2 DEF Blamed, Service!Blamed, Entries
<1>16. \E peers \in Service!Blamed(id) : banned' = banned \cup peers
  BY <1>15 DEF HashPiece
<1>. QED
  BY <1>1, <1>8, <1>9, <1>10, <1>11, <1>12, <1>13, <1>16
     DEF Service!HashPiece, Service!disk, Entries, Polls, Stragglers

\* A chunk lands in the file: that of an open torrent, or a straggler.
LEMMA WriteIsWrite ==
  ASSUME ServiceInv, IInv', NEW h \in Handles, WriteChunk(h)
  PROVE  \E id \in Ids, content \in Versions \cup {Junk} :
            Service!WriteChunk(id, content) \/ Service!StragglerWrite(id, content)
<1> USE DEF ServiceInv
<1>2. PICK id \in Ids, content \in Versions \cup {Junk} : pending[h] = <<id, content>>
  BY DEF WriteChunk, IInv, TypeOK, Chunk
<1>1. /\ UNCHANGED <<mode, torrentFile, idInfos, client, obj, waiter, banned>>
      /\ pending[h] # None /\ pending[h][1] = id /\ pending[h][2] = content
      /\ layer' = [layer EXCEPT ![id] = Overwritten(id, content)]
      /\ pending' = [pending EXCEPT ![h] = None]
  BY <1>2 DEF WriteChunk
<1>3. /\ pending'[h] = None /\ \A g \in Handles \ {h} : pending'[g] = pending[g]
      /\ obj[h] # None /\ obj[h].have = "dirty"
  BY <1>1 DEF IInv, TypeOK, WriterIsDirty
<1>4. Polls' = Polls
  BY <1>1, PollsFrame
<1>5. Overwritten(id, content) = Service!Overwritten(id, content)
  BY DEF Overwritten, Service!Overwritten
<1>6. CASE IsOpen(h)
  <2>1. PICK ih \in InfoHash : client[ih] = h
    BY <1>6 DEF IsOpen
  <2>2. h # None
    BY HandleAssumption
  <2>3. id = ih[1] /\ content \in {ih[2], Junk}
    BY <1>1, <1>2, <2>1, <2>2 DEF IInv, WriterIsDirty, ChunkIsOwn
  <2>4. /\ Started(id) /\ idInfos[id].v = ih[2] /\ InfoHashOf(id) = ih
        /\ ih = <<id, ih[2]>>
    BY <2>1, <2>2, <2>3, OpenIsStarted
  <2>5. EntryOf(id) = [v |-> ih[2], stage |-> "missing"]
    BY <1>1, <1>2, <1>3, <2>1, <2>4, StartedEntry DEF StageOf
  <2>6. EntryOf(id)' = [v |-> ih[2], stage |-> "dirty"]
    BY <1>1, <1>3, <2>1, <2>4 DEF EntryOf, StageOf, Started, InfoHashOf
  <2>7. ASSUME NEW j \in Ids \ {id} PROVE EntryOf(j)' = EntryOf(j)
    <3>1. Started(j) => client[InfoHashOf(j)] \in Handles \ {h}
      BY <1>2, <2>1, <2>4, <2>7, StartedEntry, DistinctObjects
    <3>. QED
      BY <1>1, <1>3, <3>1, EntryFrame
  <2>8. Entries' = [Entries EXCEPT ![id].stage = "dirty"]
    BY <2>5, <2>6, <2>7, EntryStep
  <2>9. Service!Started(id) /\ Entries[id] = [v |-> ih[2], stage |-> "missing"]
    BY <1>2, <2>4, <2>5, SameStarted DEF Entries
  <2>10. Stragglers' = Stragglers
    BY <1>1, <1>3, <1>6 DEF Stragglers, Straggles, IsOpen
  <2>11. Service!WriteChunk(id, content)
    BY <1>1, <1>4, <1>5, <2>3, <2>8, <2>9, <2>10
       DEF Service!WriteChunk, Entries, Polls, Stragglers
  <2>. QED
    BY <1>2, <2>11
<1>7. CASE ~IsOpen(h)
  <2>1. ASSUME NEW j \in Ids PROVE EntryOf(j)' = EntryOf(j)
    <3>1. Started(j) => client[InfoHashOf(j)] \in Handles \ {h}
      BY <1>7, StartedEntry DEF IsOpen
    <3>. QED
      BY <1>1, <1>3, <3>1, EntryFrame
  <2>2. Entries' = Entries
    BY <2>1 DEF Entries
  <2>3. id \in Stragglers
    BY <1>1, <1>7 DEF Stragglers, Straggles
  <2>4. Stragglers' \in {Stragglers, Stragglers \ {id}}
    BY <1>1, <1>2, <1>3 DEF Stragglers, Straggles, IsOpen
  <2>5. Service!StragglerWrite(id, content)
    BY <1>1, <1>4, <1>5, <2>2, <2>3, <2>4
       DEF Service!StragglerWrite, Entries, Polls, Stragglers
  <2>. QED
    BY <1>2, <2>5
<1>. QED
  BY <1>6, <1>7

\* A failed write: the chunk of an open torrent stays missing.
LEMMA FailedWriteIsSeen ==
  ASSUME IInv, IInv', NEW h \in Handles, WriteChunkFails(h)
  PROVE  UNCHANGED Service!vars \/ \E id \in Ids : Service!StragglerFails(id)
<1>2. PICK id \in Ids, content \in Versions \cup {Junk} : pending[h] = <<id, content>>
  BY DEF WriteChunkFails, IInv, TypeOK, Chunk
<1>1. /\ UNCHANGED <<mode, layer, torrentFile, idInfos, client, waiter, banned>>
      /\ pending[h] # None /\ pending[h][1] = id
      /\ obj' = [obj EXCEPT ![h].have = "missing"]
      /\ pending' = [pending EXCEPT ![h] = None]
  BY <1>2 DEF WriteChunkFails, disk
<1>3. /\ obj[h] \in TorrentObject /\ obj[h].have = "dirty"
      /\ pending'[h] = None /\ obj'[h].have = "missing"
      /\ \A g \in Handles \ {h} : pending'[g] = pending[g] /\ obj'[g] = obj[g]
  BY <1>1 DEF IInv, TypeOK, WriterIsDirty, TorrentObject
<1>4. \A i \in InfoHash : client[i] # None => StageOf(client[i])' = StageOf(client[i])
  BY <1>1, <1>3 DEF StageOf, IInv, TypeOK
<1>5. Entries' = Entries
  BY <1>1, <1>4, EntriesFrame DEF Started
<1>6. Polls' = Polls
  BY <1>1, PollsFrame
<1>7. Stragglers' \in {Stragglers, Stragglers \ {id}}
  BY <1>1, <1>3 DEF Stragglers, Straggles, IsOpen
<1>8. CASE Stragglers' = Stragglers
  BY <1>1, <1>5, <1>6, <1>8 DEF Service!vars, Entries, Polls, Stragglers
<1>9. CASE Stragglers' = Stragglers \ {id}
  BY <1>1, <1>5, <1>6, <1>9
     DEF Service!StragglerFails, Service!disk, Entries, Polls, Stragglers
<1>. QED
  BY <1>7, <1>8, <1>9

-----------------------------------------------------------------------------
(* Calls *)

LEMMA WaitDoneIsReturn ==
  ASSUME IInv, IInv', NEW p \in Calls, WaitDone(p)
  PROVE  Service!Return(p)
<1>1. /\ UNCHANGED <<mode, layer, torrentFile, idInfos, client, obj, pending,
                      banned>>
      /\ waiter[p] # None /\ waiter'[p] = None
      /\ \A q \in Calls \ {p} : waiter'[q] = waiter[q]
  BY DEF WaitDone, disk, tables, IInv, TypeOK
<1>2. Entries' = Entries
  BY <1>1, EntriesFrame DEF StageOf, Started
<1>3. Stragglers' = Stragglers
  BY <1>1 DEF Stragglers, Straggles, IsOpen
<1>4. \A q \in Calls \ {p} : PolledBy(q)' = PolledBy(q)
  BY <1>1, PolledFrame
<1>5. PolledBy(p)' = None
  BY <1>1 DEF PolledBy
<1>6. Polls' = [Polls EXCEPT ![p] = None]
  BY <1>4, <1>5 DEF Polls
<1>7. Polls[p] # None
  <2>1. CASE IsOpen(waiter[p])
    <3>1. PICK ih \in InfoHash : client[ih] = waiter[p]
      BY <2>1 DEF IsOpen
    <3>. QED
      BY <1>1, <3>1, PolledIsHome, OpenIsStarted, HandleAssumption DEF Polls
  <2>2. CASE ~IsOpen(waiter[p])
    BY <1>1, <2>2, HandleAssumption DEF Polls, PolledBy
  <2>. QED
    BY <2>1, <2>2
<1>. QED
  BY <1>1, <1>2, <1>3, <1>6, <1>7
     DEF Service!Return, Service!disk, Entries, Polls, Stragglers

LEMMA StopIsStop ==
  ASSUME IInv, IInv', NEW id \in Ids, StopTorrent(id)
  PROVE  Service!StopTorrent(id)
<1>1. PICK ih \in InfoHash : ih = InfoHashOf(id)
  BY StartedEntry DEF StopTorrent, StopCount
<1>2. PICK g \in Handles : g = client[ih]
  BY <1>1, StartedEntry DEF StopTorrent, StopCount
<1>3. /\ mode = "up" /\ Started(id) /\ idInfos[id] \in IdInfo
      /\ UNCHANGED <<mode, layer, torrentFile, obj, waiter, pending, banned>>
      /\ client' = [client EXCEPT ![ih] = None]
      /\ idInfos' = [idInfos EXCEPT ![id].count = idInfos[id].count - 1,
                                    ![id].started = FALSE]
  BY <1>1 DEF StopTorrent, StopCount, DropTorrent, disk, Started, IInv, TypeOK
<1>4. /\ ih[1] = id /\ ih = <<id, idInfos[id].v>>
      /\ EntryOf(id) = [v |-> idInfos[id].v, stage |-> StageOf(g)]
  BY <1>1, <1>2, <1>3, StartedEntry
<1>5. /\ idInfos'[id] # None /\ ~idInfos'[id].started /\ idInfos'[id].v = idInfos[id].v
      /\ \A j \in Ids \ {id} : idInfos'[j] = idInfos[j]
  <2>1. idInfos \in [Ids -> IdInfo \cup {None}]
    BY DEF IInv, TypeOK
  <2>2. idInfos[id].count - 1 \in Int
    BY <1>3 DEF IdInfo
  <2>3. idInfos' \in [Ids -> IdInfo \cup {None}]
    BY DEF IInv, TypeOK
  <2>. QED
    BY <1>3, <2>1, <2>2, <2>3, RecordAssumption DEF IdInfo
<1>6. client'[ih] = None /\ \A i \in InfoHash \ {ih} : client'[i] = client[i]
  BY <1>3 DEF IInv, TypeOK
<1>7. EntryOf(id)' = [v |-> idInfos[id].v, stage |-> "stopped"]
  BY <1>5 DEF EntryOf
<1>8. ASSUME NEW j \in Ids \ {id} PROVE EntryOf(j)' = EntryOf(j)
  <2>1. Started(j) => InfoHashOf(j) \in InfoHash \ {ih}
    BY <1>4, StartedEntry
  <2>. QED
    BY <1>3, <1>5, <1>6, <2>1, EntryFrame
<1>9. Entries' = [Entries EXCEPT ![id].stage = "stopped"]
  BY <1>4, <1>7, <1>8, EntryStep
<1>10. \A h \in Handles : IsOpen(h)' <=> IsOpen(h) /\ h # g
  BY <1>2, <1>6, HandleAssumption DEF IsOpen, IInv, ObjectsHaveOneHome
<1>11. pending[g] # None => pending[g][1] = id
  BY <1>2, <1>4, HandleAssumption DEF IInv, WriterIsDirty
<1>12. Stragglers' \in {Stragglers, Stragglers \cup {id}}
  <2>1. \A j \in Ids \ {id} : Straggles(j)' <=> Straggles(j)
    BY <1>3, <1>10, <1>11 DEF Straggles
  <2>2. Straggles(id) => Straggles(id)'
    BY <1>3, <1>10 DEF Straggles
  <2>. QED
    BY <2>1, <2>2 DEF Stragglers
<1>13. ASSUME NEW p \in Calls
       PROVE  PolledBy(p)' = IF PolledBy(p) = id THEN "closed" ELSE PolledBy(p)
  <2>1. CASE waiter[p] = None
    BY <1>3, <2>1, HandleAssumption DEF PolledBy
  <2>2. CASE waiter[p] # None /\ ~IsOpen(waiter[p])
    <3>1. waiter[p] \in Handles
      BY <2>2 DEF IInv, TypeOK
    <3>. QED
      BY <1>3, <1>10, <2>2, <3>1 DEF PolledBy
  <2>3. CASE waiter[p] = g
    <3>1. PolledBy(p) = id
      BY <1>2, <1>4, <2>3, PolledIsHome, HandleAssumption
    <3>2. ~IsOpen(waiter[p])'
      BY <1>3, <1>10, <2>3
    <3>. QED
      BY <1>3, <2>3, <3>1, <3>2, HandleAssumption DEF PolledBy
  <2>4. ASSUME NEW i \in InfoHash \ {ih}, waiter[p] # None, client[i] = waiter[p]
        PROVE  PolledBy(p)' = IF PolledBy(p) = id THEN "closed" ELSE PolledBy(p)
    <3>1. PolledBy(p) = i[1] /\ PolledBy(p)' = i[1]
      BY <1>3, <1>6, <2>4, PolledIsHome, PolledIsHomeNext
    <3>2. i[1] # id
      BY <1>1, <2>4, OpenIsStarted
    <3>. QED
      BY <3>1, <3>2
  <2>. QED
    BY <1>2, <2>1, <2>2, <2>3, <2>4 DEF IsOpen
<1>14. Polls' = [p \in Calls |-> IF Polls[p] = id THEN "closed" ELSE Polls[p]]
  BY <1>13 DEF Polls
<1>. QED
  BY <1>3, <1>9, <1>12, <1>14, SameStarted
     DEF Service!StopTorrent, Service!disk, Entries, Polls, Stragglers

LEMMA DeleteIsDelete ==
  ASSUME IInv, IInv', NEW id \in Ids, DeleteTorrent(id)
  PROVE  Service!DeleteTorrent(id)
<1>1. /\ mode = "up" /\ ~Started(id) /\ idInfos[id] \in IdInfo /\ idInfos[id] # None
      /\ UNCHANGED <<mode, obj, waiter, pending, banned>>
      /\ client' = [client EXCEPT ![InfoHashOf(id)] = None]
      /\ idInfos' = [idInfos EXCEPT ![id] = None]
  BY DEF DeleteTorrent, Deletable, DeleteEntries, DropTorrent, Started, IInv, TypeOK
<1>2. client' = client
  <2>1. InfoHashOf(id) \in InfoHash /\ client[InfoHashOf(id)] = None
    BY <1>1 DEF IInv, OpenIffStarted, Registered, InfoHashOf, InfoHash, IdInfo
  <2>. QED
    BY <1>1, <2>1 DEF IInv, TypeOK
<1>3. /\ idInfos'[id] = None /\ \A j \in Ids \ {id} : idInfos'[j] = idInfos[j]
  BY <1>1 DEF IInv, TypeOK
<1>4. \A j \in Ids \ {id} : EntryOf(j)' = EntryOf(j)
  BY <1>1, <1>2, <1>3, EntryFrame
<1>5. EntryOf(id)' = None
  BY <1>3 DEF EntryOf
<1>6. Entries' = [Entries EXCEPT ![id] = None]
  BY <1>4, <1>5 DEF Entries
<1>7. Entries[id] # None
  BY <1>1, RecordAssumption DEF Entries, EntryOf, Started, IdInfo
<1>8. Polls' = Polls
  BY <1>1, <1>2, PollsFrame
<1>9. Stragglers' = Stragglers
  BY <1>1, <1>2 DEF Stragglers, Straggles, IsOpen
<1>10. Service!Deletable(id)
  BY <1>1, <1>7, SameStarted DEF Service!Deletable, Entries
<1>11. \/ UNCHANGED disk
       \/ layer' = [layer EXCEPT ![id] = None] /\ UNCHANGED torrentFile
       \/ /\ layer' = [layer EXCEPT ![id] = None]
          /\ torrentFile' = [torrentFile EXCEPT ![id] = None]
  BY DEF DeleteTorrent
<1>. QED
  BY <1>1, <1>6, <1>8, <1>9, <1>10, <1>11
     DEF Service!DeleteTorrent, Service!disk, disk, Entries, Polls, Stragglers

\* A registration starts the id on a new object, which is to be hashed.
LEMMA RegisterView ==
  ASSUME IInv, IInv', NEW id \in Ids, NEW v \in Versions, NEW h \in Handles,
         ~Started(id), h \in AddTorrentResult(<<id, v>>), Register(id, v, h)
  PROVE  /\ Entries' = [Entries EXCEPT ![id] = [v |-> v, stage |-> "queued"]]
         /\ Stragglers' = Stragglers
         /\ \A p \in Calls : waiter'[p] = waiter[p] => PolledBy(p)' = PolledBy(p)
         /\ \A p \in Calls : waiter'[p] = ts'[<<id, v>>].tt
                              => PolledBy(p)' \in {id, "closed"}
         /\ banned' = banned
<1>1. PICK ih \in InfoHash : ih = <<id, v>> /\ ih[1] = id /\ ih[2] = v
  BY DEF InfoHash
<1>2. /\ client[ih] = None /\ obj[h] = None
      /\ client' = [client EXCEPT ![ih] = h]
      /\ obj' = [obj EXCEPT ![h] = [wanted |-> FALSE, have |-> "queued"]]
      /\ idInfos' = [idInfos EXCEPT ![id] = [v |-> v, started |-> TRUE, count |-> 0]]
      /\ UNCHANGED pending
  <2>1. client[ih] = None
    BY <1>1 DEF IInv, OpenIffStarted, Registered
  <2>. QED
    BY <1>1, <2>1 DEF Register, AddTorrentResult, AddTorrent, Registered
<1>3. /\ client'[ih] = h /\ \A i \in InfoHash \ {ih} : client'[i] = client[i]
      /\ obj'[h] = [wanted |-> FALSE, have |-> "queued"]
      /\ \A g \in Handles \ {h} : obj'[g] = obj[g]
      /\ idInfos'[id] = [v |-> v, started |-> TRUE, count |-> 0]
      /\ \A j \in Ids \ {id} : idInfos'[j] = idInfos[j]
      /\ pending[h] = None
  BY <1>2 DEF IInv, TypeOK, WriterIsDirty
<1>11. idInfos'[id] # None /\ InfoHashOf(id)' = ih
  <2>1. [v |-> v, started |-> TRUE, count |-> 0]
           \in [v : Versions, started : BOOLEAN, count : Int]
    OBVIOUS
  <2>2. idInfos'[id] # None
    BY <1>3, <2>1, RecordAssumption
  <2>3. idInfos'[id].v = v
    BY <1>3
  <2>. QED
    BY <1>1, <2>2, <2>3 DEF InfoHashOf
<1>4. EntryOf(id)' = [v |-> v, stage |-> "queued"]
  BY <1>2, <1>3, <1>11 DEF EntryOf, StageOf
<1>5. ASSUME NEW j \in Ids \ {id} PROVE EntryOf(j)' = EntryOf(j)
  <2>1. Started(j) => /\ InfoHashOf(j) \in InfoHash \ {ih}
                      /\ client[InfoHashOf(j)] \in Handles \ {h}
    <3>1. ASSUME Started(j)
          PROVE  /\ InfoHashOf(j) \in InfoHash /\ InfoHashOf(j) = <<j, idInfos[j].v>>
                 /\ client[InfoHashOf(j)] \in Handles
                 /\ obj[client[InfoHashOf(j)]] # None
      BY <3>1, StartedEntry, HandleAssumption DEF IInv, ObjectsExist
    <3>2. \A x : <<j, x>> # ih
      BY <1>1, <1>5
    <3>. QED
      BY <1>2, <3>1, <3>2
  <2>. QED
    BY <1>2, <1>3, <2>1, EntryFrame
<1>6. Entries' = [Entries EXCEPT ![id] = [v |-> v, stage |-> "queued"]]
  BY <1>4, <1>5 DEF Entries
<1>7. \A g \in Handles \ {h} : IsOpen(g)' <=> IsOpen(g)
  BY <1>2, <1>3, HandleAssumption DEF IsOpen
<1>8. Stragglers' = Stragglers
  <2>1. \A j \in Ids : Straggles(j)' <=> Straggles(j)
    BY <1>2, <1>3, <1>7 DEF Straggles
  <2>. QED
    BY <2>1 DEF Stragglers
<1>9. ASSUME NEW p \in Calls, waiter'[p] = waiter[p]
      PROVE  PolledBy(p)' = PolledBy(p)
  <2>1. waiter[p] # None => waiter[p] \in Handles \ {h}
    BY <1>2 DEF IInv, TypeOK, ObjectsExist
  <2>2. waiter[p] # None =>
          \A i \in InfoHash : client'[i] = waiter[p] <=> client[i] = waiter[p]
    BY <1>2, <1>3, <2>1
  <2>. QED
    BY <1>9, <2>2, PolledFrame
<1>10. ASSUME NEW p \in Calls, waiter'[p] = ts'[<<id, v>>].tt
       PROVE  PolledBy(p)' \in {id, "closed"}
  <2>1. ts'[ih] # None /\ ts'[ih].tt \in Handles
    <3>1. ts'[ih] # None
      BY <1>11 DEF IInv, EveryIdHasTorrent
    <3>. QED
      BY <3>1 DEF IInv, TypeOK, Torrent
  <2>2. waiter'[p] = ts'[ih].tt /\ waiter'[p] # None
    BY <1>1, <1>10, <2>1, HandleAssumption
  <2>3. ASSUME NEW i \in InfoHash, client'[i] = waiter'[p]
        PROVE  PolledBy(p)' = id
    <3>1. i = ih
      BY <2>1, <2>2, <2>3 DEF IInv, ObjectsHaveOneHome
    <3>. QED
      BY <1>1, <2>2, <2>3, <3>1, PolledIsHomeNext
  <2>4. CASE ~IsOpen(waiter[p])'
    BY <2>2, <2>4 DEF PolledBy
  <2>. QED
    BY <2>3, <2>4 DEF IsOpen
<1>. QED
  BY <1>6, <1>8, <1>9, <1>10 DEF Register

LEMMA StartSeedIsStart ==
  ASSUME IInv, IInv', NEW id \in Ids, NEW h \in Handles, StartSeed(id, h)
  PROVE  Service!StartSeed(id)
<1>1. PICK v \in Versions : /\ UseTorrentFile(id, v)
                           /\ h \in AddTorrentResult(<<id, v>>)
                           /\ Register(id, v, h)
  BY DEF StartSeed
<1>2. /\ mode = "up" /\ BtSeeder /\ ~Started(id)
      /\ UNCHANGED <<mode, layer, waiter>>
  BY DEF StartSeed
<1>3. /\ Entries' = [Entries EXCEPT ![id] = [v |-> v, stage |-> "queued"]]
      /\ Stragglers' = Stragglers /\ banned' = banned
      /\ \A p \in Calls : PolledBy(p)' = PolledBy(p)
  BY <1>1, <1>2, RegisterView
<1>4. Polls' = Polls
  BY <1>3 DEF Polls
<1>5. /\ IF torrentFile[id] = None THEN layer[id] = v ELSE torrentFile[id] = v
      /\ torrentFile' = [torrentFile EXCEPT ![id] = v]
  BY <1>1 DEF UseTorrentFile, IInv, TypeOK
<1>. QED
  BY <1>2, <1>3, <1>4, <1>5, SameStarted
     DEF Service!StartSeed, Service!Start, Entries, Polls, Stragglers

LEMMA StartLeecherIsStart ==
  ASSUME IInv, IInv', NEW id \in Ids, NEW v \in Versions, NEW h \in Handles,
         NEW p \in Calls \cup {None}, StartLeecher(id, v, h, p)
  PROVE  Service!StartLeecher(id, v, p)
<1>1. /\ mode = "up" /\ ~BtSeeder /\ ~Started(id)
      /\ UNCHANGED <<mode, layer, torrentFile>>
      /\ h \in AddTorrentResult(<<id, v>>) /\ Register(id, v, h)
  BY DEF StartLeecher, disk
<1>2. /\ Entries' = [Entries EXCEPT ![id] = [v |-> v, stage |-> "queued"]]
      /\ Stragglers' = Stragglers /\ banned' = banned
  BY <1>1, RegisterView
<1>3. IF p = None THEN Polls' = Polls
      ELSE /\ Polls[p] = None
           /\ \E t \in {id, "closed"} : Polls' = [Polls EXCEPT ![p] = t]
  <2>1. CASE p = None
    <3>1. \A q \in Calls : waiter'[q] = waiter[q]
      BY <2>1 DEF StartLeecher
    <3>2. \A q \in Calls : PolledBy(q)' = PolledBy(q)
      BY <1>1, <3>1, RegisterView
    <3>. QED
      BY <2>1, <3>2 DEF Polls
  <2>2. CASE p # None
    <3>1. /\ p \in Calls /\ waiter[p] = None /\ waiter'[p] = ts'[<<id, v>>].tt
          /\ \A q \in Calls \ {p} : waiter'[q] = waiter[q]
      BY <2>2 DEF StartLeecher, IInv, TypeOK
    <3>2. PolledBy(p)' \in {id, "closed"}
      BY <1>1, <3>1, RegisterView
    <3>3. \A q \in Calls \ {p} : PolledBy(q)' = PolledBy(q)
      BY <1>1, <3>1, RegisterView
    <3>4. PolledBy(p) = None
      BY <3>1 DEF PolledBy
    <3>. QED
      BY <2>2, <3>1, <3>2, <3>3, <3>4 DEF Polls
  <2>. QED
    BY <2>1, <2>2
<1>. QED
  BY <1>1, <1>2, <1>3, SameStarted
     DEF Service!StartLeecher, Service!Start, Service!disk, Entries, Polls, Stragglers

\* The torn torrent file and the daemon's own writes touch the disk alone.
LEMMA DiskStepsAreSeen ==
  ASSUME IInv, IInv', NEW id \in Ids
  PROVE  /\ StartSeedTorn(id) => Service!StartSeedTorn(id)
         /\ \A content \in Versions :
              WriteLayer(id, content) => Service!WriteLayer(id, content)
<1>1. ASSUME UNCHANGED <<mode, toSeed, tables, waiter>>
      PROVE  /\ Entries' = Entries /\ Polls' = Polls /\ Stragglers' = Stragglers
             /\ banned' = banned
  <2>1. UNCHANGED <<idInfos, client, obj, waiter, pending, banned>>
    BY <1>1 DEF tables
  <2>2. Entries' = Entries
    BY <2>1, EntriesFrame DEF StageOf, Started
  <2>. QED
    BY <2>1, <2>2, PollsFrame DEF Stragglers, Straggles, IsOpen
<1>2. StartSeedTorn(id) => Service!StartSeedTorn(id)
  BY <1>1, SameStarted
     DEF StartSeedTorn, Service!StartSeedTorn, Entries, Polls, Stragglers
<1>3. ASSUME NEW content \in Versions, WriteLayer(id, content)
      PROVE  Service!WriteLayer(id, content)
  BY <1>1, <1>3 DEF WriteLayer, Service!WriteLayer, Entries, Polls, Stragglers
<1>. QED
  BY <1>2, <1>3

-----------------------------------------------------------------------------
(* Start of the daemon, and its end *)

LEMMA BootIsBoot ==
  ASSUME ServiceInv, IInv', Boot
  PROVE  \/ UNCHANGED Service!vars
         \/ Service!RunBegin
         \/ Service!RunEnd
         \/ \E id \in Ids : Service!RunSeed(id)
<1> USE DEF ServiceInv
<1>1. ASSUME UNCHANGED <<disk, tables, waiter>>
      PROVE  /\ Entries' = Entries /\ Polls' = Polls /\ Stragglers' = Stragglers
             /\ UNCHANGED <<layer, torrentFile, banned>>
  <2>1. UNCHANGED <<layer, torrentFile, idInfos, client, obj, waiter, pending,
                    banned>>
    BY <1>1 DEF tables, disk
  <2>2. Entries' = Entries
    BY <2>1, EntriesFrame DEF StageOf, Started
  <2>. QED
    BY <2>1, <2>2, PollsFrame DEF Stragglers, Straggles, IsOpen
<1>2. CASE RunBegin
  <2>. Service!RunBegin
    BY <1>1, <1>2
       DEF RunBegin, Service!RunBegin, Service!disk, Entries, Polls, Stragglers
  <2>. QED
    OBVIOUS
<1>3. CASE RunEnd
  <2>1. \A id \in Ids :
          layer[id] # None /\ torrentFile[id] \in Versions => Service!Started(id)
    BY <1>3, SameStarted DEF RunEnd, BootSeedsAll
  <2>2. Service!RunEnd
    BY <1>1, <1>3, <2>1
       DEF RunEnd, Service!RunEnd, Service!disk, Entries, Polls, Stragglers
  <2>. QED
    BY <2>2
<1>4. ASSUME NEW id \in Ids, RunSkip(id)
      PROVE  UNCHANGED Service!vars
  BY <1>1, <1>4 DEF RunSkip, Service!vars, Entries, Polls, Stragglers
<1>5. ASSUME NEW id \in Ids, NEW h \in Handles, RunSeed(id, h)
      PROVE  Service!RunSeed(id)
  <2>1. PICK v \in Versions :
          /\ v = torrentFile[id]
          /\ h \in AddTorrentResult(<<id, v>>)
          /\ Register(id, v, h)
    BY <1>5 DEF RunSeed
  <2>2. /\ mode = "booting" /\ idInfos[id] = None /\ layer[id] # None
        /\ UNCHANGED <<mode, layer, torrentFile, waiter>>
    BY <1>5 DEF RunSeed, disk, IInv, TypeOK, Mode, BootIsFresh, BootSeedsAll
  <2>3. /\ Entries' = [Entries EXCEPT ![id] = [v |-> v, stage |-> "queued"]]
        /\ Stragglers' = Stragglers /\ banned' = banned
        /\ \A p \in Calls : PolledBy(p)' = PolledBy(p)
    BY <2>1, <2>2, RegisterView DEF Started
  <2>4. Polls' = Polls
    BY <2>3 DEF Polls
  <2>5. Entries[id] = None
    BY <2>2 DEF Entries, EntryOf
  <2>. QED
    BY <2>1, <2>2, <2>3, <2>4, <2>5
       DEF Service!RunSeed, Service!Start, Service!disk, Entries, Polls, Stragglers
<1>. QED
  BY <1>2, <1>3, <1>4, <1>5 DEF Boot

LEMMA FailureIsFailure ==
  ASSUME IInv, IInv', Failure
  PROVE  \/ Service!Crash
         \/ \E id \in Ids : Service!CrashInStartSeed(id) \/ Service!CrashInDelete(id)
<1>1. mode # "down"
  BY DEF Failure, Crash, CrashInStartSeed, CrashInDelete
<1>2. LoseMemory
  BY DEF Failure, Crash, CrashInStartSeed, CrashInDelete
<1>3. /\ mode' = "down"
      /\ \A id \in Ids : idInfos'[id] = None
      /\ \A p \in Calls : waiter'[p] = None
      /\ \A h \in Handles : pending'[h] = None
      /\ banned' = {}
  BY <1>2 DEF LoseMemory, NoEntries, NoWaiters, NoObjects
<1>4. Entries' = [id \in Ids |-> None]
  BY <1>3 DEF Entries, EntryOf
<1>5. Polls' = [p \in Calls |-> None]
  BY <1>3 DEF Polls, PolledBy
<1>6. Stragglers' = {}
  BY <1>3 DEF Stragglers, Straggles
<1>7. Service!LoseMemory
  BY <1>1, <1>3, <1>4, <1>5, <1>6
     DEF Service!LoseMemory, Entries, Polls, Stragglers
<1>8. CASE Crash
  BY <1>7, <1>8 DEF Crash, disk, Service!Crash, Service!disk
<1>9. ASSUME NEW id \in Ids, CrashInStartSeed(id)
      PROVE  Service!CrashInStartSeed(id)
  BY <1>7, <1>9, SameStarted DEF CrashInStartSeed, Service!CrashInStartSeed
<1>10. ASSUME NEW id \in Ids, CrashInDelete(id)
       PROVE  Service!CrashInDelete(id)
  <2>1. /\ mode = "up" /\ ~Started(id) /\ idInfos[id] \in IdInfo
        /\ idInfos[id] # None /\ ~idInfos[id].started
    BY <1>10 DEF CrashInDelete, Deletable, Started, IInv, TypeOK
  <2>2. Entries[id] # None
    BY <2>1, RecordAssumption DEF Entries, EntryOf, IdInfo
  <2>3. Service!Deletable(id)
    BY <2>1, <2>2, SameStarted DEF Service!Deletable, Entries
  <2>. QED
    BY <1>7, <1>10, <2>3 DEF CrashInDelete, Service!CrashInDelete
<1>. QED
  BY <1>8, <1>9, <1>10 DEF Failure

-----------------------------------------------------------------------------
(* What the refinement rests on is inductive *)

LEMMA BootSeedsStep ==
  ASSUME ServiceInv, IInv', Next
  PROVE  BootSeedsAll'
<1> USE DEF ServiceInv
<1>1. CASE RunBegin
  BY <1>1 DEF RunBegin, disk, tables, BootSeedsAll
<1>2. ASSUME NEW id \in Ids, RunSkip(id) PROVE BootSeedsAll'
  BY <1>2 DEF RunSkip, disk, tables, BootSeedsAll, Started, IsOpen
<1>3. ASSUME NEW id \in Ids, NEW h \in Handles, RunSeed(id, h)
      PROVE  BootSeedsAll'
  <2>1. PICK v \in Versions :
          /\ v = torrentFile[id]
          /\ h \in AddTorrentResult(<<id, v>>)
          /\ Register(id, v, h)
    BY <1>3 DEF RunSeed
  <2>2. /\ mode = "booting" /\ mode' = "booting" /\ idInfos[id] = None
        /\ toSeed' = toSeed \ {id}
        /\ UNCHANGED <<layer, torrentFile>>
    BY <1>3 DEF RunSeed, disk, IInv, TypeOK, Mode, BootIsFresh
  <2>3. PICK ih \in InfoHash : ih = <<id, v>> /\ ih[1] = id /\ ih[2] = v
    <3>. <<id, v>> \in InfoHash /\ <<id, v>>[1] = id /\ <<id, v>>[2] = v
      BY DEF InfoHash
    <3>. QED
      OBVIOUS
  <2>4. client[ih] = None
    BY <2>2, <2>3 DEF IInv, OpenIffStarted, Registered, Started
  <2>5. /\ client' = [client EXCEPT ![ih] = h]
        /\ obj' = [obj EXCEPT ![h] = [wanted |-> FALSE, have |-> "queued"]]
        /\ idInfos' = [idInfos EXCEPT ![id] = [v |-> v, started |-> TRUE, count |-> 0]]
    BY <2>1, <2>3, <2>4 DEF Register, AddTorrent, Registered
  <2>6. /\ client'[ih] = h /\ \A i \in InfoHash \ {ih} : client'[i] = client[i]
        /\ \A g \in Handles \ {h} : obj'[g] = obj[g]
        /\ idInfos'[id] = [v |-> v, started |-> TRUE, count |-> 0]
        /\ \A j \in Ids \ {id} : idInfos'[j] = idInfos[j]
    BY <2>5 DEF IInv, TypeOK
  <2>7. Started(id)' /\ \A j \in Ids \ {id} : Started(j)' <=> Started(j)
    <3>1. [v |-> v, started |-> TRUE, count |-> 0]
             \in [v : Versions, started : BOOLEAN, count : Int]
      OBVIOUS
    <3>. QED
      BY <2>6, <3>1, RecordAssumption DEF Started
  <2>8. ASSUME NEW g \in Handles, obj'[g] # None PROVE IsOpen(g)'
    <3>1. CASE g = h
      BY <2>6, <3>1 DEF IsOpen
    <3>2. CASE g # h
      <4>1. PICK i \in InfoHash : client[i] = g
        BY <2>2, <2>6, <2>8, <3>2 DEF BootSeedsAll, IsOpen
      <4>. QED
        BY <2>4, <2>6, <4>1, HandleAssumption DEF IsOpen
    <3>. QED
      BY <3>1, <3>2
  <2>. QED
    BY <2>2, <2>7, <2>8 DEF BootSeedsAll
<1>4. ASSUME UNCHANGED <<mode, toSeed, layer, torrentFile, idInfos, client>>,
             \A h \in Handles : obj[h] = None => obj'[h] = None
      PROVE  BootSeedsAll'
  BY <1>4 DEF BootSeedsAll, Started, IsOpen
<1>5. ASSUME NEW p \in Calls, WaitDone(p) PROVE BootSeedsAll'
  BY <1>4, <1>5 DEF WaitDone, disk, tables
<1>6. ASSUME NEW ih \in InfoHash, startTorrent(ih) \/ ClientStep(ih)
      PROVE  BootSeedsAll'
  <2>1. UNCHANGED <<mode, toSeed, layer, torrentFile, idInfos, client>>
    BY <1>6 DEF startTorrent, ClientStep, ReceiveChunk, HashPiece, disk
  <2>2. \A h \in Handles : obj[h] = None => obj'[h] = None
    <3>1. CASE startTorrent(ih) /\ ~StartFails(ih)
      BY <3>1 DEF startTorrent, StartFails, DownloadAll, IInv, TypeOK, ObjectsExist
    <3>2. CASE startTorrent(ih) /\ StartFails(ih)
      BY <3>2 DEF startTorrent
    <3>3. CASE ClientStep(ih)
      BY <3>3 DEF ClientStep, ReceiveChunk, HashPiece, Registered, IInv, TypeOK,
                  ObjectsExist
    <3>. QED
      BY <1>6, <3>1, <3>2, <3>3
  <2>. QED
    BY <1>4, <2>1, <2>2
<1>7. ASSUME NEW h \in Handles, WriteChunkFails(h) PROVE BootSeedsAll'
  BY <1>4, <1>7 DEF WriteChunkFails, disk, IInv, TypeOK, WriterIsDirty
<1>8. ASSUME NEW h \in Handles, WriteChunk(h) PROVE BootSeedsAll'
  <2>1. PICK id \in Ids, content \in Versions \cup {Junk} : pending[h] = <<id, content>>
    BY <1>8 DEF WriteChunk, IInv, TypeOK, Chunk
  <2>2. /\ UNCHANGED <<mode, toSeed, torrentFile, idInfos, client, obj>>
        /\ layer' = [layer EXCEPT ![id] = Overwritten(id, content)]
        /\ pending[h] # None /\ pending[h][1] = id
    BY <1>8, <2>1 DEF WriteChunk
  <2>3. Overwritten(id, content) # None
    BY FileAssumption DEF Overwritten
  <2>4. ASSUME mode = "booting" PROVE Started(id)
    <3>1. PICK i \in InfoHash : client[i] = h
      BY <2>2, <2>4 DEF IInv, WriterIsDirty, BootSeedsAll, IsOpen
    <3>2. client[i] # None
      BY <3>1, HandleAssumption
    <3>. QED
      BY <2>2, <3>1, <3>2, OpenIsStarted DEF IInv, WriterIsDirty
  <2>5. /\ layer'[id] # None /\ \A j \in Ids \ {id} : layer'[j] = layer[j]
    BY <2>2, <2>3 DEF IInv, TypeOK
  <2>. QED
    BY <2>2, <2>4, <2>5 DEF BootSeedsAll, Started, IsOpen
<1>9. CASE \/ RunEnd
           \/ \E id \in Ids : Call(id)
           \/ \E id \in Ids, content \in Versions : WriteLayer(id, content)
  <2>. mode' = "up"
    BY <1>9 DEF RunEnd, Call, CountStart, StartSeed, StartSeedTorn, StartLeecher,
       StopOneUser, StopRefused, StopTorrent, StopCount, DeleteTorrent, WriteLayer
  <2>. QED
    BY DEF BootSeedsAll
<1>10. CASE Failure
  BY <1>10 DEF Failure, Crash, CrashInStartSeed, CrashInDelete, LoseMemory,
               BootSeedsAll, NoObjects
<1>. QED
  BY <1>1, <1>2, <1>3, <1>5, <1>6, <1>7, <1>8, <1>9, <1>10 DEF Next, Boot

LEMMA ChunkIsOwnStep ==
  ASSUME ServiceInv, IInv', Next
  PROVE  ChunkIsOwn'
<1> USE DEF ServiceInv
<1>1. ASSUME \A ih \in InfoHash : client'[ih] \in {client[ih], None},
             \A h \in Handles : pending'[h] \in {pending[h], None}
      PROVE  ChunkIsOwn'
  BY <1>1, HandleAssumption DEF ChunkIsOwn, IInv, TypeOK
<1>2. ASSUME UNCHANGED <<client, pending>> PROVE ChunkIsOwn'
  BY <1>2 DEF ChunkIsOwn
<1>3. ASSUME NEW id \in Ids, NEW v \in Versions, NEW h \in Handles,
             ~Started(id), h \in AddTorrentResult(<<id, v>>), Register(id, v, h)
      PROVE  ChunkIsOwn'
  <2>1. PICK ih \in InfoHash : ih = <<id, v>> /\ ih[1] = id /\ ih[2] = v
    <3>. <<id, v>> \in InfoHash /\ <<id, v>>[1] = id /\ <<id, v>>[2] = v
      BY DEF InfoHash
    <3>. QED
      OBVIOUS
  <2>2. client[ih] = None
    BY <1>3, <2>1 DEF IInv, OpenIffStarted, Registered
  <2>3. /\ client' = [client EXCEPT ![ih] = h] /\ pending' = pending
        /\ obj[h] = None
    BY <1>3, <2>1, <2>2 DEF Register, AddTorrent, AddTorrentResult, Registered
  <2>4. pending[h] = None
    BY <2>3 DEF IInv, WriterIsDirty
  <2>. QED
    BY <2>3, <2>4 DEF ChunkIsOwn, IInv, TypeOK
<1>4. CASE Boot
  <2>1. ASSUME NEW id \in Ids, NEW h \in Handles, RunSeed(id, h)
        PROVE  ChunkIsOwn'
    <3>. ~Started(id)
      BY <2>1 DEF RunSeed, IInv, BootIsFresh, Started
    <3>. QED
      BY <1>3, <2>1 DEF RunSeed
  <2>2. CASE RunBegin \/ RunEnd \/ \E id \in Ids : RunSkip(id)
    BY <1>2, <2>2 DEF RunBegin, RunEnd, RunSkip, tables
  <2>. QED
    BY <1>4, <2>1, <2>2 DEF Boot
<1>5. ASSUME NEW id \in Ids, Call(id) PROVE ChunkIsOwn'
  <2>1. ASSUME NEW h \in Handles, StartSeed(id, h) PROVE ChunkIsOwn'
    BY <1>3, <2>1 DEF StartSeed
  <2>2. ASSUME NEW v \in Versions, NEW h \in Handles, NEW p \in Calls \cup {None},
               StartLeecher(id, v, h, p)
        PROVE  ChunkIsOwn'
    BY <1>3, <2>2 DEF StartLeecher
  <2>3. CASE CountStart(id) \/ StartSeedTorn(id) \/ StopOneUser(id) \/ StopRefused(id)
    BY <1>2, <2>3 DEF CountStart, StartSeedTorn, StopOneUser, StopRefused, tables
  <2>4. CASE StopTorrent(id) \/ DeleteTorrent(id)
    BY <1>1, <2>4 DEF StopTorrent, DeleteTorrent, DeleteEntries, DropTorrent, IInv, TypeOK
  <2>. QED
    BY <1>5, <2>1, <2>2, <2>3, <2>4 DEF Call
<1>6. ASSUME NEW ih \in InfoHash, NEW content \in Versions \cup {Junk},
             ReceiveChunk(ih, content)
      PROVE  ChunkIsOwn'
  <2>1. /\ client' = client /\ client[ih] # None /\ content \in {ih[2], Junk}
        /\ pending' = [pending EXCEPT ![client[ih]] = <<ih[1], content>>]
    BY <1>6 DEF ReceiveChunk, Registered
  <2>2. \A j \in InfoHash : client[j] = client[ih] => j = ih
    BY <2>1 DEF IInv, ObjectsHaveOneHome
  <2>. QED
    BY <2>1, <2>2 DEF ChunkIsOwn, IInv, TypeOK
<1>7. ASSUME NEW ih \in InfoHash, startTorrent(ih) \/ HashPiece(ih)
      PROVE  ChunkIsOwn'
  BY <1>2, <1>7 DEF startTorrent, HashPiece
<1>8. ASSUME NEW p \in Calls, WaitDone(p) PROVE ChunkIsOwn'
  BY <1>2, <1>8 DEF WaitDone, tables
<1>9. ASSUME NEW h \in Handles, WriteChunk(h) \/ WriteChunkFails(h)
      PROVE  ChunkIsOwn'
  BY <1>1, <1>9 DEF WriteChunk, WriteChunkFails, IInv, TypeOK
<1>10. CASE \E id \in Ids, content \in Versions : WriteLayer(id, content)
  BY <1>2, <1>10 DEF WriteLayer, tables
<1>11. CASE Failure
  BY <1>1, <1>11 DEF Failure, Crash, CrashInStartSeed, CrashInDelete, LoseMemory,
                     NoTorrents, NoObjects
<1>. QED
  BY <1>4, <1>5, <1>6, <1>7, <1>8, <1>9, <1>10, <1>11 DEF Next, ClientStep

\* The invariant of the refinement: IInv, that a booting daemon starts all that
\* is durable, and that an open torrent writes what it describes.
THEOREM ServiceInvariant == Spec => []ServiceInv
<1>1. Init => ServiceInv
  <2>1. Init => IInv
    BY InitInv
  <2>. QED
    BY <2>1 DEF Init, ServiceInv, BootSeedsAll, ChunkIsOwn, NoObjects, NoTorrents
<1>2. ServiceInv /\ [Next]_vars => ServiceInv'
  <2>. SUFFICES ASSUME ServiceInv, [Next]_vars PROVE ServiceInv'
    OBVIOUS
  <2>1. IInv'
    BY StepInv DEF ServiceInv
  <2>2. CASE Next
    BY <2>1, <2>2, BootSeedsStep, ChunkIsOwnStep DEF ServiceInv
  <2>3. CASE UNCHANGED vars
    BY <2>1, <2>3 DEF ServiceInv, vars, BootSeedsAll, ChunkIsOwn, Started, IsOpen
  <2>. QED
    BY <2>2, <2>3
<1>. QED
  BY <1>1, <1>2, PTL DEF Spec

\* Every step of the engine is a step of the service that a caller sees, or
\* one that no caller sees.
LEMMA StepIsServed ==
  ASSUME ServiceInv, IInv', [Next]_vars
  PROVE  [Service!Next]_(Service!vars)
<1> USE DEF ServiceInv
<1>1. CASE UNCHANGED vars
  <2>1. UNCHANGED <<mode, layer, torrentFile, idInfos, client, obj, waiter, pending,
                    banned>>
    BY <1>1 DEF vars
  <2>2. Entries' = Entries
    BY <2>1, EntriesFrame DEF StageOf, Started
  <2>. QED
    BY <2>1, <2>2, PollsFrame
       DEF Service!vars, Stragglers, Straggles, IsOpen, Entries, Polls
<1>2. CASE Boot
  BY <1>2, BootIsBoot DEF Service!Next, Service!Work
<1>3. ASSUME NEW id \in Ids, Call(id) PROVE [Service!Next]_(Service!vars)
  <2>1. CASE CountStart(id) \/ StopOneUser(id) \/ StopRefused(id)
    BY <2>1, CountIsUnseen
  <2>2. \/ Service!Call(id)
        \/ CountStart(id) \/ StopOneUser(id) \/ StopRefused(id)
    BY <1>3, StartSeedIsStart, DiskStepsAreSeen, StartLeecherIsStart, StopIsStop,
       DeleteIsDelete DEF Call, Service!Call
  <2>. QED
    BY <2>1, <2>2 DEF Service!Next
<1>4. ASSUME NEW p \in Calls, WaitDone(p) PROVE Service!Next
  BY <1>4, WaitDoneIsReturn DEF Service!Next
<1>5. ASSUME NEW ih \in InfoHash, startTorrent(ih) \/ ClientStep(ih)
      PROVE  [Service!Next]_(Service!vars)
  <2>1. CASE HashPiece(ih)
    <3>1. Service!HashPiece(ih[1]) /\ ih[1] \in Ids
      BY <2>1, HashIsHash DEF InfoHash
    <3>. QED
      BY <3>1 DEF Service!Next, Service!Work
  <2>2. CASE startTorrent(ih) \/ \E c \in Versions \cup {Junk} : ReceiveChunk(ih, c)
    BY <2>2, StarterIsUnseen, ReceiveIsUnseen
  <2>. QED
    BY <1>5, <2>1, <2>2 DEF ClientStep
<1>6. ASSUME NEW h \in Handles, WriteChunk(h) PROVE Service!Next
  BY <1>6, WriteIsWrite DEF Service!Next, Service!Work
<1>7. ASSUME NEW h \in Handles, WriteChunkFails(h)
      PROVE  [Service!Next]_(Service!vars)
  BY <1>7, FailedWriteIsSeen DEF Service!Next, Service!Work
<1>8. ASSUME NEW id \in Ids, NEW content \in Versions, WriteLayer(id, content)
      PROVE  Service!Next
  BY <1>8, DiskStepsAreSeen DEF Service!Next
<1>9. CASE Failure
  BY <1>9, FailureIsFailure DEF Service!Next
<1>. QED
  BY <1>1, <1>2, <1>3, <1>4, <1>5, <1>6, <1>7, <1>8, <1>9 DEF Next

\* The engine implements the service the daemon's requests are modelled on,
\* through cached wrappers, stale objects, races and crashes.
THEOREM ServiceRefinement == Spec => ImplementsService
<1>1. Init => Service!Init
  <2>. SUFFICES ASSUME Init PROVE Service!Init
    OBVIOUS
  <2>1. Entries = [id \in Ids |-> None]
    BY DEF Init, Entries, EntryOf, NoEntries
  <2>2. Polls = [p \in Calls |-> None]
    BY DEF Init, Polls, PolledBy, NoWaiters
  <2>3. Stragglers = {}
    BY DEF Init, Stragglers, Straggles, NoObjects
  <2>. QED
    BY <2>1, <2>2, <2>3 DEF Init, Service!Init, Entries, Polls, Stragglers
<1>2. ServiceInv /\ [Next]_vars => [Service!Next]_(Service!vars)
  <2>. SUFFICES ASSUME ServiceInv, [Next]_vars PROVE [Service!Next]_(Service!vars)
    OBVIOUS
  <2>1. IInv'
    BY StepInv DEF ServiceInv
  <2>. QED
    BY <2>1, StepIsServed
<1>. QED
  BY <1>1, <1>2, ServiceInvariant, PTL DEF Spec, ImplementsService, Service!Spec
=============================================================================
