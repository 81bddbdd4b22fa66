---------------------------- MODULE BtEngineProofs ----------------------------
(***************************************************************************)
(* Proofs about BtEngine for every value of its constants.                 *)
(***************************************************************************)
EXTENDS BtEngine, TLAPS


\* A daemon that has never run has nothing to break the invariant.
LEMMA InitInv == Init => IInv
<1> SUFFICES ASSUME Init PROVE IInv
  OBVIOUS
<1> USE DEF Init, NoEntries, NoTorrents, NoObjects, NoStarters, NoWaiters,
            NothingOwed
<1>1. TypeOK
  BY DEF TypeOK, Mode
<1>2. /\ BootIsFresh /\ ObjectsExist /\ ObjectsHaveOneHome /\ FreshIsWanted
      /\ WriterIsDirty
  BY DEF BootIsFresh, ObjectsExist, ObjectsHaveOneHome, FreshIsWanted,
         WriterIsDirty
<1>3. OwedCoversCount /\ EveryIdHasTorrent /\ OpenIffStarted /\ SettledIsStarted
  BY DEF OwedCoversCount, EveryIdHasTorrent, OpenIffStarted, SettledIsStarted,
         Started, Registered, InfoHash
<1>4. WaiterIsServed /\ SeedTorrentIsDurable /\ CompleteIsIntact
  BY DEF WaiterIsServed, SeedTorrentIsDurable, CompleteIsIntact, Holds, Started,
         Registered
<1>. QED
  BY <1>1, <1>2, <1>3, <1>4 DEF IInv

\* A process that starts over satisfies the invariant on any well-typed disk.
LEMMA LoseMemoryInv ==
  ASSUME LoseMemory,
         layer' \in [Ids -> Versions \cup {None, Junk}],
         torrentFile' \in [Ids -> Versions \cup {None, Torn}]
  PROVE  IInv'
<1> USE DEF LoseMemory, NoEntries, NoTorrents, NoObjects, NoStarters,
            NoWaiters, NothingOwed
<1>1. TypeOK'
  BY DEF TypeOK, Mode
<1>2. /\ (BootIsFresh /\ ObjectsExist /\ ObjectsHaveOneHome /\ FreshIsWanted)'
      /\ WriterIsDirty'
  BY DEF BootIsFresh, ObjectsExist, ObjectsHaveOneHome, FreshIsWanted,
         WriterIsDirty
<1>3. (OwedCoversCount /\ EveryIdHasTorrent /\ OpenIffStarted /\ SettledIsStarted)'
  BY DEF OwedCoversCount, EveryIdHasTorrent, OpenIffStarted, SettledIsStarted,
         Started, Registered, InfoHash
<1>4. (WaiterIsServed /\ SeedTorrentIsDurable /\ CompleteIsIntact)'
  BY DEF WaiterIsServed, SeedTorrentIsDurable, CompleteIsIntact, Holds, Started,
         Registered
<1>. QED
  BY <1>1, <1>2, <1>3, <1>4 DEF IInv

\* A crash, wherever it strikes, leaves a disk that satisfies it.
LEMMA FailureInv == IInv /\ Failure => IInv'
<1> SUFFICES ASSUME IInv, Failure PROVE IInv'
  OBVIOUS
<1> USE DEF IInv, TypeOK, disk
<1>1. CASE Crash
  BY <1>1, LoseMemoryInv DEF Crash
<1>2. ASSUME NEW id \in Ids, CrashInStartSeed(id) PROVE IInv'
  BY <1>2, LoseMemoryInv DEF CrashInStartSeed
<1>3. ASSUME NEW id \in Ids, CrashInDelete(id) PROVE IInv'
  BY <1>3, LoseMemoryInv DEF CrashInDelete
<1>. QED
  BY <1>1, <1>2, <1>3 DEF Failure
-----------------------------------------------------------------------------
(* Actions that leave the tables alone *)

\* Run lists the data directory, skips what it cannot seed, and returns.
LEMMA BootInv ==
  ASSUME IInv, RunBegin \/ RunEnd \/ \E id \in Ids : RunSkip(id)
  PROVE  IInv'
<1> USE DEF IInv, tables, disk
<1>1. UNCHANGED <<disk, tables, waiter>>
  BY DEF RunBegin, RunEnd, RunSkip
<1>2. TypeOK'
  BY <1>1 DEF TypeOK, Mode, RunBegin, RunEnd, RunSkip
<1>3. BootIsFresh'
  BY <1>1 DEF BootIsFresh, RunBegin, RunEnd, RunSkip
<1>4. (ObjectsExist /\ ObjectsHaveOneHome /\ FreshIsWanted /\ WriterIsDirty)'
  BY <1>1 DEF ObjectsExist, ObjectsHaveOneHome, FreshIsWanted, WriterIsDirty
<1>5. (OwedCoversCount /\ EveryIdHasTorrent /\ OpenIffStarted /\ SettledIsStarted)'
  BY <1>1 DEF OwedCoversCount, EveryIdHasTorrent, OpenIffStarted,
              SettledIsStarted, Started, Registered, InfoHashOf
<1>6. (WaiterIsServed /\ SeedTorrentIsDurable /\ CompleteIsIntact)'
  BY <1>1 DEF WaiterIsServed, SeedTorrentIsDurable, CompleteIsIntact, Holds, Started,
              Registered
<1>. QED
  BY <1>2, <1>3, <1>4, <1>5, <1>6

\* A seeder writes a layer file, or tears the torrent file of a stopped id.
LEMMA DiskInv ==
  ASSUME IInv, NEW id \in Ids,
         StartSeedTorn(id) \/ \E content \in Versions : WriteLayer(id, content)
  PROVE  IInv'
<1> USE DEF IInv, tables
<1>1. UNCHANGED <<mode, toSeed, tables, waiter>> /\ BtSeeder
  BY DEF StartSeedTorn, WriteLayer
<1>2. TypeOK'
  BY <1>1 DEF TypeOK, StartSeedTorn, WriteLayer
<1>3. /\ (BootIsFresh /\ ObjectsExist /\ ObjectsHaveOneHome /\ FreshIsWanted)'
      /\ WriterIsDirty'
  BY <1>1 DEF BootIsFresh, ObjectsExist, ObjectsHaveOneHome, FreshIsWanted,
              WriterIsDirty
<1>4. (OwedCoversCount /\ EveryIdHasTorrent /\ OpenIffStarted /\ SettledIsStarted)'
  BY <1>1 DEF OwedCoversCount, EveryIdHasTorrent, OpenIffStarted,
              SettledIsStarted, Started, Registered, InfoHashOf
<1>5. (WaiterIsServed /\ CompleteIsIntact)'
  BY <1>1 DEF WaiterIsServed, CompleteIsIntact, Holds
<1>6. SeedTorrentIsDurable'
  BY <1>1 DEF SeedTorrentIsDurable, Started, StartSeedTorn, WriteLayer, TypeOK
<1>. QED
  BY <1>2, <1>3, <1>4, <1>5, <1>6

\* A caller that stops polling only forgets its object.
LEMMA WaitDoneInv ==
  ASSUME IInv, NEW p \in Calls, WaitDone(p)
  PROVE  IInv'
<1> USE DEF IInv, disk, tables
<1>1. /\ UNCHANGED <<mode, toSeed, disk, tables>>
      /\ waiter' = [waiter EXCEPT ![p] = None]
  BY DEF WaitDone
<1>2. TypeOK'
  BY <1>1 DEF TypeOK
<1>3. /\ (BootIsFresh /\ ObjectsExist /\ ObjectsHaveOneHome /\ FreshIsWanted)'
      /\ WriterIsDirty'
  BY <1>1 DEF BootIsFresh, ObjectsExist, ObjectsHaveOneHome, FreshIsWanted,
              WriterIsDirty, TypeOK
<1>4. (OwedCoversCount /\ EveryIdHasTorrent /\ OpenIffStarted /\ SettledIsStarted)'
  BY <1>1 DEF OwedCoversCount, EveryIdHasTorrent, OpenIffStarted,
              SettledIsStarted, Started, Registered, InfoHashOf
<1>5. (WaiterIsServed /\ CompleteIsIntact /\ SeedTorrentIsDurable)'
  BY <1>1 DEF WaiterIsServed, CompleteIsIntact, Holds, SeedTorrentIsDurable, Started,
              Registered, TypeOK
<1>. QED
  BY <1>2, <1>3, <1>4, <1>5

-----------------------------------------------------------------------------
(* Actions that change the entry of one id *)

\* Counting a user up or down changes nothing else of the entry.
LEMMA CountInv ==
  ASSUME IInv, NEW id \in Ids,
         CountStart(id) \/ StopOneUser(id) \/ StopRefused(id)
  PROVE  IInv'
<1> USE DEF IInv
<1> USE DEF CountStart, StopOneUser, StopRefused, StopCount, disk
<1>2. Started(id) /\ idInfos[id] \in IdInfo
  BY DEF TypeOK, Started
<1>1. PICK n \in Int : idInfos' = [idInfos EXCEPT ![id].count = n]
  <2>1. idInfos[id].count + 1 \in Int /\ idInfos[id].count - 1 \in Int
    BY <1>2 DEF IdInfo
  <2>2. \/ idInfos' = [idInfos EXCEPT ![id].count = idInfos[id].count + 1]
        \/ idInfos' = [idInfos EXCEPT ![id].count = idInfos[id].count - 1]
    OBVIOUS
  <2>. QED
    BY <2>1, <2>2
<1>3. /\ idInfos' \in [Ids -> IdInfo \cup {None}]
      /\ \A i \in Ids : /\ idInfos'[i] # None <=> idInfos[i] # None
                        /\ Started(i)' <=> Started(i)
                        /\ idInfos[i] # None => idInfos'[i].v = idInfos[i].v
  BY <1>1, <1>2, RecordAssumption DEF TypeOK, IdInfo, Started
<1>4. UNCHANGED <<mode, toSeed, disk, ts, client, obj, starters, waiter, pending,
                  late>>
  OBVIOUS
<1>5. OwedCoversCount'
  BY <1>2, <1>3 DEF OwedCoversCount, TypeOK, IdInfo, OthersLeft, Started
<1>6. owed' \in [Ids -> Nat]
  BY <1>2 DEF OwedCoversCount, TypeOK, IdInfo
<1>7. TypeOK'
  BY <1>3, <1>4, <1>6 DEF TypeOK
<1>8. /\ (BootIsFresh /\ ObjectsExist /\ ObjectsHaveOneHome /\ FreshIsWanted)'
      /\ WriterIsDirty'
  BY <1>3, <1>4 DEF BootIsFresh, ObjectsExist, ObjectsHaveOneHome,
                    FreshIsWanted, WriterIsDirty, TypeOK
<1>9. (EveryIdHasTorrent /\ OpenIffStarted /\ SettledIsStarted)'
  BY <1>3, <1>4 DEF EveryIdHasTorrent, OpenIffStarted, SettledIsStarted,
                    Started, Registered, InfoHashOf, InfoHash
<1>10. (WaiterIsServed /\ CompleteIsIntact /\ SeedTorrentIsDurable)'
  BY <1>3, <1>4 DEF WaiterIsServed, CompleteIsIntact, Holds, SeedTorrentIsDurable,
                    Registered, Started
<1>. QED
  BY <1>5, <1>7, <1>8, <1>9, <1>10
\* A stop that drops closes the info hash's object, stale wrapper or not.
LEMMA StopInv ==
  ASSUME IInv, NEW id \in Ids, StopTorrent(id)
  PROVE  IInv'
<1> DEFINE ih == InfoHashOf(id)
<1> USE DEF IInv, disk
<1>1. /\ Started(id) /\ idInfos[id] \in IdInfo /\ ih \in InfoHash
      /\ ts[ih] \in Torrent /\ ih = <<id, idInfos[id].v>>
  BY DEF StopTorrent, StopCount, TypeOK, Started, IdInfo, InfoHash, InfoHashOf
<1>2. /\ UNCHANGED <<mode, toSeed, disk, obj, starters, waiter, pending, late,
                      banned>>
      /\ client' = [client EXCEPT ![ih] = None]
      /\ ts' = [ts EXCEPT ![ih].state = "Dropped"]
      /\ idInfos' = [idInfos EXCEPT ![id].count = idInfos[id].count - 1,
                                    ![id].started = FALSE]
      /\ owed' = [owed EXCEPT ![id] = 0]
  BY DEF StopTorrent, DropTorrent
<1>3. /\ idInfos' \in [Ids -> IdInfo \cup {None}]
      /\ idInfos'[id].v = idInfos[id].v /\ ~idInfos'[id].started
      /\ \A i \in Ids \ {id} : idInfos'[i] = idInfos[i]
      /\ idInfos[id] # None
  BY <1>1, <1>2, RecordAssumption DEF TypeOK, IdInfo, Started
<1>4. /\ ts' \in [InfoHash -> Torrent \cup {None}]
      /\ ts'[ih] # None /\ ts'[ih].tt = ts[ih].tt /\ ts'[ih].state = "Dropped"
      /\ ts[ih] # None
      /\ \A j \in InfoHash \ {ih} : ts'[j] = ts[j]
  BY <1>1, <1>2, RecordAssumption DEF TypeOK, Torrent, State
<1>5. /\ client'[ih] = None
      /\ \A j \in InfoHash \ {ih} : client'[j] = client[j]
  BY <1>1, <1>2 DEF TypeOK
<1> HIDE DEF ih
<1>6. TypeOK'
  BY <1>2, <1>3, <1>4 DEF TypeOK
<1>7. BootIsFresh'
  BY <1>1, <1>2, <1>3 DEF BootIsFresh, Started, TypeOK
<1>8. (ObjectsExist /\ ObjectsHaveOneHome)'
  BY <1>1, <1>2, <1>4, <1>5 DEF ObjectsExist, ObjectsHaveOneHome
<1>9. (FreshIsWanted /\ WriterIsDirty)'
  BY <1>1, <1>2, <1>4, <1>5 DEF FreshIsWanted, WriterIsDirty
<1>10. OwedCoversCount'
  BY <1>2, <1>3 DEF OwedCoversCount, Started, TypeOK
<1>11. EveryIdHasTorrent'
  BY <1>3, <1>4 DEF EveryIdHasTorrent, InfoHashOf, InfoHash, TypeOK, IdInfo
<1>12. OpenIffStarted'
  BY <1>1, <1>3, <1>5 DEF OpenIffStarted, Registered, Started, InfoHash
<1>13. SettledIsStarted'
  BY <1>1, <1>2, <1>3, <1>4 DEF SettledIsStarted, Started, InfoHashOf, InfoHash, TypeOK, IdInfo
<1>14. (WaiterIsServed /\ CompleteIsIntact)'
  BY <1>2, <1>5 DEF WaiterIsServed, CompleteIsIntact, Holds, Registered
<1>15. SeedTorrentIsDurable'
  BY <1>2, <1>3 DEF SeedTorrentIsDurable, Started
<1>. QED
  BY <1>6, <1>7, <1>8, <1>9, <1>10, <1>11, <1>12, <1>13, <1>14, <1>15

\* Deleting a stopped id: its info hash has no open object to close.
LEMMA DeleteInv ==
  ASSUME IInv, NEW id \in Ids, DeleteTorrent(id)
  PROVE  IInv'
<1> DEFINE ih == InfoHashOf(id)
<1> USE DEF IInv, disk
<1>1. /\ ~Started(id) /\ idInfos[id] \in IdInfo /\ ih \in InfoHash
      /\ ih = <<id, idInfos[id].v>> /\ mode = "up"
  BY DEF DeleteTorrent, Deletable, TypeOK, Started, IdInfo, InfoHash, InfoHashOf
<1>2. /\ UNCHANGED <<mode, toSeed, obj, starters, owed, waiter, pending, late,
                      banned>>
      /\ client' = [client EXCEPT ![ih] = None]
      /\ ts' = [ts EXCEPT ![ih] = None]
      /\ idInfos' = [idInfos EXCEPT ![id] = None]
  BY DEF DeleteTorrent, DeleteEntries, DropTorrent
<1>3. /\ layer' \in [Ids -> Versions \cup {None, Junk}]
      /\ torrentFile' \in [Ids -> Versions \cup {None, Torn}]
      /\ \A i \in Ids \ {id} : /\ layer'[i] = layer[i]
                               /\ torrentFile'[i] = torrentFile[i]
  BY DEF DeleteTorrent, TypeOK
<1>4. \A j \in InfoHash : j[1] = id => client[j] = None
  BY <1>1 DEF OpenIffStarted, Registered
<1>5. client' = client
  BY <1>1, <1>2, <1>4 DEF TypeOK
<1> HIDE DEF ih
<1>6. TypeOK'
  BY <1>2, <1>3, <1>5 DEF TypeOK
<1>7. BootIsFresh'
  BY <1>1, <1>2 DEF BootIsFresh, TypeOK
<1>8. (ObjectsExist /\ FreshIsWanted /\ WriterIsDirty)'
  BY <1>1, <1>2, <1>5 DEF ObjectsExist, FreshIsWanted, WriterIsDirty, TypeOK
<1>9. ObjectsHaveOneHome'
  BY <1>1, <1>2, <1>4, <1>5, HandleAssumption DEF ObjectsHaveOneHome, TypeOK
<1>10. OwedCoversCount'
  BY <1>2 DEF OwedCoversCount, Started, TypeOK
<1>11. EveryIdHasTorrent'
  BY <1>1, <1>2 DEF EveryIdHasTorrent, InfoHashOf, InfoHash, TypeOK, IdInfo
<1>12. OpenIffStarted'
  BY <1>1, <1>2, <1>5 DEF OpenIffStarted, Registered, Started, InfoHash, TypeOK
<1>13. SettledIsStarted'
  BY <1>1, <1>2 DEF SettledIsStarted, Started, InfoHashOf, InfoHash, TypeOK, IdInfo
<1>14. WaiterIsServed'
  BY <1>2, <1>5 DEF WaiterIsServed
<1>15. CompleteIsIntact'
  BY <1>2, <1>3, <1>4, <1>5 DEF CompleteIsIntact, Holds, Registered, InfoHash
<1>16. SeedTorrentIsDurable'
  BY <1>2, <1>3 DEF SeedTorrentIsDurable, Started, TypeOK
<1>. QED
  BY <1>6, <1>7, <1>8, <1>9, <1>10, <1>11, <1>12, <1>13, <1>14, <1>15, <1>16
-----------------------------------------------------------------------------
(* Actions that change the torrent of one info hash *)

\* The starter goroutine may run after any stop, restart or delete.
LEMMA StarterInv ==
  ASSUME IInv, NEW ih \in InfoHash, startTorrent(ih)
  PROVE  IInv'
<1> USE DEF IInv, disk
<1>1. /\ UNCHANGED <<mode, toSeed, disk, idInfos, client, waiter, owed, pending,
                      late, banned>>
      /\ starters' = [starters EXCEPT ![ih] = starters[ih] - 1]
      /\ starters[ih] > 0
  BY DEF startTorrent
\* The wrapper keeps its object and ends up Started; the object keeps its
\* pieces and ends up wanted.
<1>2. /\ ts' \in [InfoHash -> Torrent \cup {None}]
      /\ obj' \in [Handles -> TorrentObject \cup {None}]
      /\ \A i \in InfoHash : ts[i] # None => /\ ts'[i] # None
                                             /\ ts'[i].tt = ts[i].tt
      /\ \A i \in InfoHash \ {ih} : ts'[i] = ts[i]
      /\ ts[ih] = None => ts'[ih] = None
      /\ ts[ih] # None => ts'[ih].state = "Started"
      /\ \A h \in Handles : obj[h] # None => /\ obj'[h] # None
                                             /\ obj'[h].have = obj[h].have
                                             /\ obj[h].wanted => obj'[h].wanted
  <2>1. CASE StartFails(ih)
    BY <2>1 DEF startTorrent, StartFails, TypeOK
  <2>2. CASE ~StartFails(ih)
    <3>1. ts[ih] \in Torrent /\ obj[ts[ih].tt] \in TorrentObject
      BY <2>2 DEF StartFails, TypeOK, ObjectsExist, Torrent
    <3>2. /\ ts' = [ts EXCEPT ![ih].state = "Started"]
          /\ obj' = [obj EXCEPT ![ts[ih].tt].wanted = TRUE]
      BY <2>2 DEF startTorrent, DownloadAll
    <3>3. /\ ts' \in [InfoHash -> Torrent \cup {None}]
          /\ \A i \in InfoHash : ts[i] # None => /\ ts'[i] # None
                                                 /\ ts'[i].tt = ts[i].tt
          /\ \A i \in InfoHash \ {ih} : ts'[i] = ts[i]
          /\ ts[ih] # None /\ ts'[ih].state = "Started"
      BY <3>1, <3>2, RecordAssumption DEF TypeOK, Torrent, State
    <3>4. /\ obj' \in [Handles -> TorrentObject \cup {None}]
          /\ \A h \in Handles : obj[h] # None => /\ obj'[h] # None
                                                 /\ obj'[h].have = obj[h].have
                                                 /\ obj[h].wanted => obj'[h].wanted
      BY <3>1, <3>2, RecordAssumption DEF TypeOK, TorrentObject, Have, Torrent
    <3>. QED
      BY <3>3, <3>4
  <2>. QED
    BY <2>1, <2>2
\* If the object of the wrapper is open, it is wanted now.
<1>3. /\ ts[ih] # None /\ client[ih] # None /\ ts[ih].tt = client[ih]
      => obj'[client[ih]].wanted
  <2>1. CASE StartFails(ih)
    BY <2>1 DEF startTorrent, StartFails, FreshIsWanted
  <2>2. CASE ~StartFails(ih)
    BY <2>2 DEF startTorrent, DownloadAll, TypeOK, ObjectsExist, TorrentObject
  <2>. QED
    BY <2>1, <2>2
<1>4. /\ starters' \in [InfoHash -> Nat]
      /\ \A i \in InfoHash \ {ih} : starters'[i] = starters[i]
  BY <1>1 DEF TypeOK
<1>5. TypeOK'
  BY <1>1, <1>2, <1>4 DEF TypeOK
<1>6. (BootIsFresh /\ OwedCoversCount /\ SeedTorrentIsDurable)'
  BY <1>1 DEF BootIsFresh, OwedCoversCount, SeedTorrentIsDurable, Started
\* What refers to an object still refers to one that has what it had.
<1>20. /\ \A i \in InfoHash : client[i] # None =>
              client[i] \in Handles /\ obj[client[i]] # None
       /\ \A i \in InfoHash : ts[i] # None =>
              ts[i].tt \in Handles /\ obj[ts[i].tt] # None
       /\ \A p \in Calls : waiter[p] # None =>
              waiter[p] \in Handles /\ obj[waiter[p]] # None
  BY DEF ObjectsExist, TypeOK, Torrent
<1>7. ObjectsExist'
  <2>1. \A i \in InfoHash : ts'[i] # None => obj'[ts'[i].tt] # None
    BY <1>2, <1>20
  <2>2. \A i \in InfoHash : client[i] # None => obj'[client[i]] # None
    BY <1>2, <1>20
  <2>3. \A p \in Calls : waiter[p] # None => obj'[waiter[p]] # None
    BY <1>2, <1>20
  <2>. QED
    BY <1>1, <2>1, <2>2, <2>3 DEF ObjectsExist
<1>8. ObjectsHaveOneHome'
  BY <1>1, <1>2 DEF ObjectsHaveOneHome
<1>9. FreshIsWanted'
  <2>. SUFFICES ASSUME NEW i \in InfoHash, ts'[i] # None, client[i] # None,
                       ts'[i].tt = client[i], ts'[i].state = "Started"
                PROVE  obj'[client[i]].wanted
    BY <1>1 DEF FreshIsWanted
  <2>1. CASE i = ih
    BY <1>2, <1>3, <2>1
  <2>2. CASE i # ih
    BY <1>2, <1>20, <2>2 DEF FreshIsWanted
  <2>. QED
    BY <2>1, <2>2
<1>10. (EveryIdHasTorrent /\ OpenIffStarted)'
  BY <1>1, <1>2 DEF EveryIdHasTorrent, OpenIffStarted, Started, Registered,
                    InfoHashOf, InfoHash, TypeOK, IdInfo
<1>11. SettledIsStarted'
  <2>. SUFFICES ASSUME NEW id \in Ids, Started(id),
                       starters'[InfoHashOf(id)] = 0
                PROVE  ts'[InfoHashOf(id)].state = "Started"
    BY <1>1 DEF SettledIsStarted, Started, InfoHashOf
  <2>1. InfoHashOf(id) \in InfoHash /\ ts[InfoHashOf(id)] # None
    BY DEF EveryIdHasTorrent, Started, InfoHashOf, InfoHash, TypeOK, IdInfo
  <2>. QED
    BY <1>2, <1>4, <2>1 DEF SettledIsStarted
<1>12. WaiterIsServed'
  <2>. SUFFICES ASSUME NEW p \in Calls, NEW i \in InfoHash,
                       waiter[p] # None, waiter[p] = client[i]
                PROVE  obj'[waiter[p]].wanted \/ starters'[i] > 0
    BY <1>1 DEF WaiterIsServed
  <2>1. ts[i] # None /\ ts[i].tt = client[i]
    BY DEF ObjectsHaveOneHome
  <2>2. CASE i = ih
    BY <1>3, <2>1, <2>2
  <2>3. CASE i # ih
    BY <1>2, <1>4, <1>20, <2>3 DEF WaiterIsServed
  <2>. QED
    BY <2>2, <2>3
<1>13. CompleteIsIntact'
  <2>. SUFFICES ASSUME ~BtSeeder, NEW i \in InfoHash, client[i] # None,
                       obj'[client[i]].have = "complete", i[1] \notin late
                PROVE  Holds(i)
    BY <1>1 DEF CompleteIsIntact, Holds, Registered
  <2>. QED
    BY <1>2, <1>20 DEF CompleteIsIntact, Holds, Registered
<1>14. WriterIsDirty'
  BY <1>1, <1>2 DEF WriterIsDirty
<1>. QED
  BY <1>5, <1>6, <1>7, <1>8, <1>9, <1>10, <1>11, <1>12, <1>13, <1>14

\* The client receives or hashes the pieces of an open object.
LEMMA ClientInv ==
  ASSUME IInv, NEW ih \in InfoHash, ClientStep(ih)
  PROVE  IInv'
<1> USE DEF IInv, disk
<1> DEFINE h == client[ih]
<1>1. /\ UNCHANGED <<mode, toSeed, disk, idInfos, ts, client, starters, waiter,
                      owed, late>>
      /\ h # None /\ h \in Handles
      /\ \E have \in Have : obj' = [obj EXCEPT ![h].have = have]
  BY DEF ClientStep, ReceiveChunk, HashPiece, PieceHash, Registered, Have, TypeOK
<1>12. banned' \in SUBSET Peers
  BY DEF ClientStep, ReceiveChunk, HashPiece, Blamed, TypeOK
<1>2. obj[h] \in TorrentObject
  BY <1>1 DEF ObjectsExist, TypeOK
<1>3. /\ obj' \in [Handles -> TorrentObject \cup {None}]
      /\ \A g \in Handles \ {h} : obj'[g] = obj[g]
      /\ obj'[h] # None /\ obj'[h].wanted = obj[h].wanted
  BY <1>1, <1>2, RecordAssumption DEF TypeOK, TorrentObject, Have
\* A chunk that it received is of the id of the object, which is dirty now.
<1>4. /\ pending' \in [Handles -> Chunk \cup {None}]
      /\ \A g \in Handles \ {h} : pending'[g] = pending[g]
      /\ pending'[h] # None => obj'[h].have = "dirty" /\ pending'[h][1] = ih[1]
  <2>1. ASSUME NEW content \in Versions \cup {Junk}, ReceiveChunk(ih, content)
        PROVE  /\ pending' \in [Handles -> Chunk \cup {None}]
               /\ \A g \in Handles \ {h} : pending'[g] = pending[g]
               /\ pending'[h] # None => /\ obj'[h].have = "dirty"
                                        /\ pending'[h][1] = ih[1]
    <3>1. <<ih[1], content>> \in Chunk
      BY DEF Chunk, InfoHash
    <3>. QED
      BY <1>1, <1>2, <2>1, <3>1 DEF ReceiveChunk, TypeOK, TorrentObject
  <2>2. CASE HashPiece(ih)
    BY <1>1, <2>2 DEF HashPiece, TypeOK
  <2>. QED
    BY <2>1, <2>2 DEF ClientStep
<1>5. obj'[h].have = "complete" => Holds(ih)
  BY <1>1, <1>2 DEF ClientStep, ReceiveChunk, HashPiece, PieceHash, TypeOK,
                    TorrentObject
<1> HIDE DEF h
<1>6. TypeOK'
  BY <1>1, <1>3, <1>4, <1>12 DEF TypeOK
<1>7. (BootIsFresh /\ ObjectsHaveOneHome /\ OwedCoversCount)'
  BY <1>1 DEF BootIsFresh, ObjectsHaveOneHome, OwedCoversCount, Started
<1>8. (EveryIdHasTorrent /\ OpenIffStarted /\ SettledIsStarted /\ SeedTorrentIsDurable)'
  BY <1>1 DEF EveryIdHasTorrent, OpenIffStarted, SettledIsStarted,
              SeedTorrentIsDurable, Started, Registered, InfoHashOf
<1>9. (ObjectsExist /\ FreshIsWanted /\ WaiterIsServed)'
  BY <1>1, <1>3 DEF ObjectsExist, FreshIsWanted, WaiterIsServed, TypeOK, Torrent
<1>10. CompleteIsIntact'
  <2>. SUFFICES ASSUME ~BtSeeder, NEW j \in InfoHash, Registered(j),
                       obj'[client[j]].have = "complete", j[1] \notin late
                PROVE  Holds(j)
    BY <1>1 DEF CompleteIsIntact, Holds, Registered
  <2>1. CASE j = ih
    BY <1>5, <2>1 DEF h
  <2>2. CASE j # ih
    <3>1. client[j] # h /\ client[j] \in Handles
      BY <1>1, <2>2 DEF ObjectsHaveOneHome, h, Registered, TypeOK
    <3>. QED
      BY <1>3, <3>1 DEF CompleteIsIntact
  <2>. QED
    BY <2>1, <2>2
<1>11. WriterIsDirty'
  <2>1. \A g \in Handles :
          pending'[g] # None => obj'[g] # None /\ obj'[g].have = "dirty"
    BY <1>3, <1>4 DEF WriterIsDirty
  <2>2. ASSUME NEW j \in InfoHash, client[j] # None, pending'[client[j]] # None
        PROVE  pending'[client[j]][1] = j[1]
    <3>1. CASE j = ih
      BY <1>4, <2>2, <3>1 DEF h
    <3>2. CASE j # ih
      <4>1. client[j] \in Handles \ {h}
        BY <1>1, <2>2, <3>2 DEF ObjectsHaveOneHome, h, TypeOK
      <4>. QED
        BY <1>4, <2>2, <4>1 DEF WriterIsDirty
    <3>. QED
      BY <3>1, <3>2
  <2>. QED
    BY <1>1, <2>1, <2>2 DEF WriterIsDirty
<1>. QED
  BY <1>6, <1>7, <1>8, <1>9, <1>10, <1>11

\* A write that fails makes the object miss its chunk, open or dropped.
LEMMA WriteFailsInv ==
  ASSUME IInv, NEW h \in Handles, WriteChunkFails(h)
  PROVE  IInv'
<1> USE DEF IInv, disk
<1>1. /\ UNCHANGED <<mode, toSeed, disk, idInfos, ts, client, starters, waiter,
                      owed, late, banned>>
      /\ obj' = [obj EXCEPT ![h].have = "missing"]
      /\ pending' = [pending EXCEPT ![h] = None]
      /\ obj[h] # None
  BY DEF WriteChunkFails, WriterIsDirty
<1>2. obj[h] \in TorrentObject
  BY <1>1 DEF TypeOK
<1>3. /\ obj' \in [Handles -> TorrentObject \cup {None}]
      /\ \A g \in Handles \ {h} : obj'[g] = obj[g]
      /\ obj'[h] # None /\ obj'[h].wanted = obj[h].wanted
      /\ obj'[h].have = "missing"
  BY <1>1, <1>2, RecordAssumption DEF TypeOK, TorrentObject, Have
<1>4. /\ pending' \in [Handles -> Chunk \cup {None}]
      /\ pending'[h] = None
      /\ \A g \in Handles \ {h} : pending'[g] = pending[g]
  BY <1>1 DEF TypeOK
<1>6. TypeOK'
  BY <1>1, <1>3, <1>4 DEF TypeOK
<1>7. (BootIsFresh /\ ObjectsHaveOneHome /\ OwedCoversCount)'
  BY <1>1 DEF BootIsFresh, ObjectsHaveOneHome, OwedCoversCount, Started
<1>8. (EveryIdHasTorrent /\ OpenIffStarted /\ SettledIsStarted /\ SeedTorrentIsDurable)'
  BY <1>1 DEF EveryIdHasTorrent, OpenIffStarted, SettledIsStarted,
              SeedTorrentIsDurable, Started, Registered, InfoHashOf
<1>9. (ObjectsExist /\ FreshIsWanted /\ WaiterIsServed)'
  BY <1>1, <1>3 DEF ObjectsExist, FreshIsWanted, WaiterIsServed, TypeOK, Torrent
<1>10. CompleteIsIntact'
  <2>. SUFFICES ASSUME ~BtSeeder, NEW j \in InfoHash, Registered(j),
                       obj'[client[j]].have = "complete", j[1] \notin late
                PROVE  Holds(j)
    BY <1>1 DEF CompleteIsIntact, Holds, Registered
  <2>1. client[j] \in Handles \ {h}
    BY <1>3 DEF Registered, TypeOK
  <2>. QED
    BY <1>3, <2>1 DEF CompleteIsIntact
<1>11. WriterIsDirty'
  <2>1. \A j \in InfoHash : client[j] # None => client[j] \in Handles
    BY DEF TypeOK
  <2>. QED
    BY <1>1, <1>3, <1>4, <2>1 DEF WriterIsDirty
<1>. QED
  BY <1>6, <1>7, <1>8, <1>9, <1>10, <1>11

\* A chunk that is written changes the file of a torrent that is not complete,
\* or is the write of a dropped object.
LEMMA WriteInv ==
  ASSUME IInv, NEW h \in Handles, WriteChunk(h)
  PROVE  IInv'
<1> USE DEF IInv
<1> DEFINE id == pending[h][1]
<1>1. /\ UNCHANGED <<mode, toSeed, torrentFile, idInfos, ts, client, obj, starters,
                      waiter, owed, banned>>
      /\ pending[h] # None /\ pending[h] \in Chunk
      /\ layer' = [layer EXCEPT ![id] = Overwritten(id, pending[h][2])]
      /\ late' = IF IsOpen(h) THEN late ELSE late \cup {id}
      /\ pending' = [pending EXCEPT ![h] = None]
  BY DEF WriteChunk, TypeOK
<1>2. id \in Ids /\ pending[h][2] \in Versions \cup {Junk}
  BY <1>1 DEF Chunk
<1>3. Overwritten(id, pending[h][2]) \in Versions \cup {None, Junk}
  BY <1>2 DEF Overwritten, TypeOK
<1> HIDE DEF id
<1>4. /\ layer' \in [Ids -> Versions \cup {None, Junk}]
      /\ \A i \in Ids \ {id} : layer'[i] = layer[i]
      /\ late' \in SUBSET Ids /\ late \subseteq late'
  BY <1>1, <1>2, <1>3 DEF TypeOK
<1>5. /\ pending' \in [Handles -> Chunk \cup {None}]
      /\ pending'[h] = None
      /\ \A g \in Handles \ {h} : pending'[g] = pending[g]
  BY <1>1 DEF TypeOK
<1>6. TypeOK'
  BY <1>1, <1>4, <1>5 DEF TypeOK
<1>7. (BootIsFresh /\ ObjectsExist /\ ObjectsHaveOneHome /\ FreshIsWanted)'
  BY <1>1 DEF BootIsFresh, ObjectsExist, ObjectsHaveOneHome, FreshIsWanted
<1>8. (OwedCoversCount /\ EveryIdHasTorrent /\ OpenIffStarted /\ SettledIsStarted)'
  BY <1>1 DEF OwedCoversCount, EveryIdHasTorrent, OpenIffStarted,
              SettledIsStarted, Started, Registered, InfoHashOf
<1>9. (WaiterIsServed /\ SeedTorrentIsDurable)'
  BY <1>1 DEF WaiterIsServed, SeedTorrentIsDurable, Started
<1>10. CompleteIsIntact'
  <2>. SUFFICES ASSUME ~BtSeeder, NEW j \in InfoHash, Registered(j),
                       obj[client[j]].have = "complete", j[1] \notin late'
                PROVE  Holds(j)'
    BY <1>1 DEF CompleteIsIntact, Registered
  <2>1. Holds(j) /\ j[1] \in Ids
    BY <1>4 DEF CompleteIsIntact, InfoHash
  \* A torrent of the id other than j would be the open one of the id.
  <2>2. j[1] # id
    <3>. SUFFICES ASSUME j[1] = id PROVE FALSE
      OBVIOUS
    <3>1. PICK i \in InfoHash : client[i] = h
      BY <1>1 DEF IsOpen
    <3>2. client[i] # None /\ i[1] = id
      BY <1>1, <3>1, HandleAssumption DEF WriterIsDirty, id
    <3>3. i = j
      BY <3>2 DEF OpenIffStarted, Registered, InfoHash
    <3>. QED
      BY <1>1, <3>1, <3>3 DEF WriterIsDirty
  <2>. QED
    BY <1>4, <2>1, <2>2 DEF Holds
<1>11. WriterIsDirty'
  <2>1. \A j \in InfoHash : client[j] # None => client[j] \in Handles
    BY DEF TypeOK
  <2>. QED
    BY <1>1, <1>5, <2>1 DEF WriterIsDirty
<1>. QED
  BY <1>6, <1>7, <1>8, <1>9, <1>10, <1>11
-----------------------------------------------------------------------------
(* Actions that register a torrent *)

\* An id that is not started has no open torrent, so the object AddTorrent
\* returns for it is new and nothing refers to it yet.
LEMMA ObjectIsNew ==
  ASSUME IInv, NEW id \in Ids, NEW v \in Versions, ~Started(id),
         NEW h \in AddTorrentResult(<<id, v>>)
  PROVE  /\ h \in Handles /\ h # None /\ obj[h] = None
         /\ ~Registered(<<id, v>>)
         /\ \A ih \in InfoHash : ih[1] = id => client[ih] = None
         /\ \A ih \in InfoHash : client[ih] # h
         /\ \A ih \in InfoHash : ts[ih] # None => ts[ih].tt # h
         /\ \A p \in Calls : waiter[p] # h
         /\ pending[h] = None
<1>1. \A ih \in InfoHash : ih[1] = id => client[ih] = None
  BY DEF IInv, OpenIffStarted, Registered
<1>2. <<id, v>> \in InfoHash /\ ~Registered(<<id, v>>)
  BY <1>1 DEF InfoHash, Registered
<1>3. h \in Handles /\ h # None /\ obj[h] = None
  BY <1>2, HandleAssumption DEF AddTorrentResult
<1>. QED
  BY <1>1, <1>2, <1>3 DEF IInv, ObjectsExist, WriterIsDirty

\* Register on an id that is not started keeps the invariant, provided the
\* id leaves toSeed, no new caller waits for another torrent's object, and a
\* seeder has the torrent file.
LEMMA RegisterInv ==
  ASSUME IInv, NEW id \in Ids, NEW v \in Versions, ~Started(id),
         NEW h \in AddTorrentResult(<<id, v>>), Register(id, v, h),
         mode \in {"booting", "up"}, mode' = mode,
         toSeed' = toSeed \ {id}, layer' = layer,
         torrentFile' \in [Ids -> Versions \cup {None, Torn}],
         BtSeeder => torrentFile'[id] = v,
         \A i \in Ids : i # id => torrentFile'[i] = torrentFile[i],
         waiter' \in [Calls -> Handles \cup {None}],
         \A p \in Calls : \/ waiter'[p] = waiter[p]
                          \/ waiter'[p] = ts'[<<id, v>>].tt
  PROVE  IInv'
<1> DEFINE ih == <<id, v>>
<1> USE DEF IInv
<1>1. /\ ih \in InfoHash /\ ih[1] = id /\ ih[2] = v
      /\ \A i \in InfoHash : i # ih /\ i[1] = id => i[2] # v
      /\ \A i \in InfoHash : i[1] \in Ids
  BY DEF InfoHash
<1>2. /\ h \in Handles /\ h # None /\ obj[h] = None
      /\ ~Registered(ih)
      /\ \A i \in InfoHash : i[1] = id => client[i] = None
      /\ \A i \in InfoHash : client[i] # h
      /\ \A i \in InfoHash : ts[i] # None => ts[i].tt # h
      /\ \A p \in Calls : waiter[p] # h
      /\ pending[h] = None
  BY ObjectIsNew
<1>3. /\ client' = [client EXCEPT ![ih] = h]
      /\ starters' = [starters EXCEPT ![ih] = starters[ih] + 1]
      /\ idInfos' = [idInfos EXCEPT
                       ![id] = [v |-> v, started |-> TRUE, count |-> 0]]
      /\ owed' = [owed EXCEPT ![id] = 1]
      /\ late' = late \ {id} /\ pending' = pending /\ banned' = banned
      /\ ts' = IF ts[ih] # None THEN ts
               ELSE [ts EXCEPT ![ih] = [tt |-> h, state |-> "Unknown"]]
  BY DEF Register, AddTorrent, addTorrent
<1>4. obj' = [obj EXCEPT ![h] = [wanted |-> FALSE, have |-> "queued"]]
  BY <1>2 DEF Register, AddTorrent
<1>5. /\ obj' \in [Handles -> TorrentObject \cup {None}]
      /\ obj'[h] # None /\ obj'[h].have = "queued"
      /\ \A g \in Handles \ {h} : obj'[g] = obj[g]
  <2>1. [wanted |-> FALSE, have |-> "queued"] \in TorrentObject
    BY DEF TorrentObject, Have
  <2>. QED
    BY <1>2, <1>4, <2>1, RecordAssumption DEF TypeOK, TorrentObject, Have
<1>6. /\ ts' \in [InfoHash -> Torrent \cup {None}]
      /\ ts'[ih] # None
      /\ ts[ih] # None => ts'[ih] = ts[ih]
      /\ ts[ih] = None => ts'[ih].tt = h /\ ts'[ih].state = "Unknown"
      /\ \A i \in InfoHash \ {ih} : ts'[i] = ts[i]
  <2>1. [tt |-> h, state |-> "Unknown"] \in Torrent
    BY <1>2 DEF Torrent, State
  <2>. QED
    BY <1>1, <1>3, <2>1, RecordAssumption DEF TypeOK, Torrent, State
<1>7. /\ idInfos' \in [Ids -> IdInfo \cup {None}]
      /\ idInfos'[id] # None /\ idInfos'[id].started
      /\ idInfos'[id].v = v /\ idInfos'[id].count = 0
      /\ \A i \in Ids \ {id} : idInfos'[i] = idInfos[i]
  <2>1. [v |-> v, started |-> TRUE, count |-> 0] \in IdInfo
    BY DEF IdInfo
  <2>. QED
    BY <1>3, <2>1, RecordAssumption DEF TypeOK, IdInfo
<1>8. /\ client' \in [InfoHash -> Handles \cup {None}]
      /\ client'[ih] = h
      /\ \A i \in InfoHash \ {ih} : client'[i] = client[i]
      /\ starters' \in [InfoHash -> Nat] /\ starters'[ih] > 0
      /\ \A i \in InfoHash \ {ih} : starters'[i] = starters[i]
      /\ owed' \in [Ids -> Nat] /\ owed'[id] = 1
      /\ \A i \in Ids \ {id} : owed'[i] = owed[i]
  BY <1>1, <1>2, <1>3 DEF TypeOK
<1> HIDE DEF ih
<1>9. TypeOK'
  BY <1>3, <1>5, <1>6, <1>7, <1>8 DEF TypeOK
<1>10. BootIsFresh'
  BY <1>7 DEF BootIsFresh, TypeOK
<1>11. /\ \A i \in InfoHash : client[i] # None =>
              client[i] \in Handles \ {h} /\ obj[client[i]] # None
       /\ \A i \in InfoHash : ts[i] # None =>
              ts[i].tt \in Handles \ {h} /\ obj[ts[i].tt] # None
       /\ \A p \in Calls : waiter[p] # None =>
              waiter[p] \in Handles \ {h} /\ obj[waiter[p]] # None
  BY <1>2 DEF ObjectsExist, TypeOK, Torrent
<1>12. ObjectsExist'
  <2>1. \A i \in InfoHash : client'[i] # None => obj'[client'[i]] # None
    BY <1>5, <1>8, <1>11
  <2>2. \A i \in InfoHash : ts'[i] # None => obj'[ts'[i].tt] # None
    BY <1>5, <1>6, <1>11
  <2>3. \A p \in Calls : waiter'[p] # None => obj'[waiter'[p]] # None
    BY <1>1, <1>5, <1>6, <1>11, <2>2 DEF ih
  <2>. QED
    BY <2>1, <2>2, <2>3 DEF ObjectsExist
<1>13. ObjectsHaveOneHome'
  <2>1. \A i, j \in InfoHash : client'[i] # None /\ client'[i] = client'[j] => i = j
    BY <1>2, <1>8 DEF ObjectsHaveOneHome
  <2>2. \A i, j \in InfoHash :
          ts'[i] # None /\ client'[j] # None /\ ts'[i].tt = client'[j] => i = j
    BY <1>2, <1>6, <1>8 DEF ObjectsHaveOneHome
  <2>3. \A p \in Calls, i \in InfoHash :
          waiter'[p] # None /\ waiter'[p] = client'[i]
            => ts'[i] # None /\ ts'[i].tt = client'[i]
    <3>. SUFFICES ASSUME NEW p \in Calls, NEW i \in InfoHash,
                         waiter'[p] # None, waiter'[p] = client'[i]
                  PROVE  ts'[i] # None /\ ts'[i].tt = client'[i]
      OBVIOUS
    <3>1. CASE waiter'[p] = waiter[p]
      <4>1. i # ih /\ waiter[p] = client[i] /\ waiter[p] # None
        BY <1>2, <1>8, <3>1
      <4>2. ts[i] # None /\ ts[i].tt = client[i]
        BY <4>1 DEF ObjectsHaveOneHome
      <4>. QED
        BY <1>6, <1>8, <4>1, <4>2
    <3>2. CASE waiter'[p] = ts'[ih].tt
      <4>1. ts'[ih].tt = client'[i] /\ client'[i] # None
        BY <3>2
      <4>2. i = ih
        BY <1>1, <1>6, <2>2, <4>1
      <4>. QED
        BY <1>6, <4>1, <4>2
    <3>. QED
      BY <3>1, <3>2 DEF ih
  <2>. QED
    BY <2>1, <2>2, <2>3 DEF ObjectsHaveOneHome
<1>14. FreshIsWanted'
  BY <1>1, <1>2, <1>5, <1>6, <1>8, <1>11 DEF FreshIsWanted
<1>15. OwedCoversCount'
  BY <1>7, <1>8 DEF OwedCoversCount, Started
<1>16. EveryIdHasTorrent'
  <2>. SUFFICES ASSUME NEW i \in Ids, idInfos'[i] # None
                PROVE  ts'[<<i, idInfos'[i].v>>] # None
    BY DEF EveryIdHasTorrent, InfoHashOf
  <2>1. CASE i = id
    BY <1>6, <1>7, <2>1 DEF ih
  <2>2. CASE i # id
    <3>1. <<i, idInfos[i].v>> \in InfoHash \ {ih}
      BY <1>7, <2>2 DEF InfoHash, ih, TypeOK, IdInfo
    <3>. QED
      BY <1>6, <1>7, <2>2, <3>1 DEF EveryIdHasTorrent, InfoHashOf
  <2>. QED
    BY <2>1, <2>2
<1>17. OpenIffStarted'
  <2>. SUFFICES ASSUME NEW i \in InfoHash
                PROVE  (client'[i] # None) <=>
                         /\ idInfos'[i[1]] # None /\ idInfos'[i[1]].started
                         /\ idInfos'[i[1]].v = i[2]
    BY DEF OpenIffStarted, Registered, Started
  <2>1. CASE i = ih
    BY <1>1, <1>2, <1>7, <1>8, <2>1
  <2>2. CASE i # ih /\ i[1] = id
    BY <1>1, <1>2, <1>7, <1>8, <2>2
  <2>3. CASE i[1] # id
    BY <1>1, <1>7, <1>8, <2>3 DEF OpenIffStarted, Registered, Started
  <2>. QED
    BY <2>1, <2>2, <2>3
<1>18. SettledIsStarted'
  <2>. SUFFICES ASSUME NEW i \in Ids, idInfos'[i] # None, idInfos'[i].started,
                       starters'[<<i, idInfos'[i].v>>] = 0
                PROVE  ts'[<<i, idInfos'[i].v>>].state = "Started"
    BY DEF SettledIsStarted, Started, InfoHashOf
  <2>1. i # id
    BY <1>7, <1>8 DEF ih
  <2>2. <<i, idInfos[i].v>> \in InfoHash \ {ih}
    BY <1>7, <2>1 DEF InfoHash, ih, TypeOK, IdInfo
  <2>. QED
    BY <1>6, <1>7, <1>8, <2>1, <2>2 DEF SettledIsStarted, Started, InfoHashOf
<1>19. WaiterIsServed'
  <2>. SUFFICES ASSUME NEW p \in Calls, NEW i \in InfoHash, i # ih,
                       waiter'[p] # None, waiter'[p] = client'[i]
                PROVE  obj'[waiter'[p]].wanted \/ starters'[i] > 0
    BY <1>8 DEF WaiterIsServed
  <2>1. ts'[ih].tt # client[i]
    BY <1>1, <1>2, <1>6, <1>8, <1>11 DEF ObjectsHaveOneHome
  <2>2. waiter'[p] = waiter[p]
    BY <1>8, <2>1 DEF ih
  <2>. QED
    <3>1. waiter[p] # None /\ waiter[p] = client[i]
      BY <1>8, <2>2
    <3>2. obj'[waiter[p]] = obj[waiter[p]] /\ starters'[i] = starters[i]
      BY <1>5, <1>8, <1>11, <3>1
    <3>. QED
      BY <2>2, <3>1, <3>2 DEF WaiterIsServed
<1>20. SeedTorrentIsDurable'
  BY <1>7 DEF SeedTorrentIsDurable, Started
<1>21. CompleteIsIntact'
  <2>. SUFFICES ASSUME ~BtSeeder, NEW i \in InfoHash, client'[i] # None,
                       obj'[client'[i]].have = "complete",
                       i[1] \notin late'
                PROVE  Holds(i)
    BY DEF CompleteIsIntact, Holds, Registered
  <2>1. CASE i = ih
    BY <1>1, <1>5, <1>8, <2>1
  <2>2. CASE i # ih
    <3>1. i[1] # id
      BY <1>2, <1>8, <2>2
    <3>. QED
      BY <1>3, <1>5, <1>8, <1>11, <2>2, <3>1 DEF CompleteIsIntact, Registered
  <2>. QED
    BY <2>1, <2>2
<1>22. WriterIsDirty'
  <2>1. \A g \in Handles : pending[g] # None => obj'[g] # None /\ obj'[g].have = "dirty"
    BY <1>2, <1>5 DEF WriterIsDirty
  <2>2. \A i \in InfoHash : client'[i] # None /\ pending[client'[i]] # None
          => pending[client'[i]][1] = i[1]
    BY <1>2, <1>8 DEF WriterIsDirty
  <2>. QED
    BY <1>3, <2>1, <2>2 DEF WriterIsDirty
<1>. QED
  BY <1>9, <1>10, <1>12, <1>13, <1>14, <1>15, <1>16, <1>17, <1>18, <1>19, <1>20,
     <1>21, <1>22
\* Run's StartSeed of a layer with a torrent file that decodes.
LEMMA RunSeedInv ==
  ASSUME IInv, NEW id \in Ids, NEW h \in Handles, RunSeed(id, h)
  PROVE  IInv'
<1>1. mode = "booting" /\ ~Started(id)
  BY DEF RunSeed, IInv, BootIsFresh, TypeOK, Mode, Started
<1>. QED
  BY <1>1, RegisterInv DEF RunSeed, IInv, TypeOK, disk

\* StartSeed writes the torrent file only of an id that is not started.
LEMMA StartSeedInv ==
  ASSUME IInv, NEW id \in Ids, NEW h \in Handles, StartSeed(id, h)
  PROVE  IInv'
<1>1. PICK v \in Versions : /\ UseTorrentFile(id, v)
                           /\ h \in AddTorrentResult(<<id, v>>)
                           /\ Register(id, v, h)
  BY DEF StartSeed
<1>2. /\ torrentFile' \in [Ids -> Versions \cup {None, Torn}]
      /\ torrentFile'[id] = v
      /\ \A i \in Ids : i # id => torrentFile'[i] = torrentFile[i]
  BY <1>1 DEF UseTorrentFile, IInv, TypeOK
<1>3. /\ mode = "up" /\ mode' = mode /\ ~Started(id)
      /\ toSeed' = toSeed \ {id} /\ layer' = layer
      /\ waiter' = waiter /\ waiter \in [Calls -> Handles \cup {None}]
  BY DEF StartSeed, IInv, BootIsFresh, TypeOK
<1>. QED
  BY <1>1, <1>2, <1>3, RegisterInv

\* StartLeecher, whose caller polls the object the cache now holds.
LEMMA StartLeecherInv ==
  ASSUME IInv, NEW id \in Ids, NEW v \in Versions, NEW h \in Handles,
         NEW p \in Calls \cup {None}, StartLeecher(id, v, h, p)
  PROVE  IInv'
<1>1. /\ mode = "up" /\ mode' = mode /\ ~Started(id) /\ ~BtSeeder
      /\ toSeed' = toSeed \ {id} /\ layer' = layer /\ torrentFile' = torrentFile
      /\ torrentFile \in [Ids -> Versions \cup {None, Torn}]
      /\ h \in AddTorrentResult(<<id, v>>) /\ Register(id, v, h)
  BY DEF StartLeecher, IInv, BootIsFresh, TypeOK, disk
<1>2. ts'[<<id, v>>].tt \in Handles
  <2>1. <<id, v>> \in InfoHash
    BY DEF InfoHash
  <2>2. CASE ts[<<id, v>>] # None
    BY <1>1, <2>1, <2>2 DEF Register, addTorrent, IInv, TypeOK, Torrent
  <2>3. CASE ts[<<id, v>>] = None
    BY <1>1, <2>1, <2>3 DEF Register, addTorrent, IInv, TypeOK
  <2>. QED
    BY <2>2, <2>3
<1>3. /\ waiter' \in [Calls -> Handles \cup {None}]
      /\ \A q \in Calls : waiter'[q] = waiter[q] \/ waiter'[q] = ts'[<<id, v>>].tt
  BY <1>2 DEF StartLeecher, IInv, TypeOK
<1>. QED
  BY <1>1, <1>3, RegisterInv

-----------------------------------------------------------------------------

\* Every call served under e.mut.
LEMMA CallInv ==
  ASSUME IInv, NEW id \in Ids, Call(id)
  PROVE  IInv'
<1>1. CASE CountStart(id) \/ StopOneUser(id) \/ StopRefused(id)
  BY <1>1, CountInv
<1>2. CASE \E h \in Handles : StartSeed(id, h)
  BY <1>2, StartSeedInv
<1>3. CASE StartSeedTorn(id)
  BY <1>3, DiskInv
<1>4. CASE \E v \in Versions, h \in Handles, p \in Calls \cup {None} :
             StartLeecher(id, v, h, p)
  BY <1>4, StartLeecherInv
<1>5. CASE StopTorrent(id)
  BY <1>5, StopInv
<1>6. CASE DeleteTorrent(id)
  BY <1>6, DeleteInv
<1>. QED
  BY <1>1, <1>2, <1>3, <1>4, <1>5, <1>6 DEF Call

\* Every step preserves the invariant.
LEMMA StepInv == IInv /\ [Next]_vars => IInv'
<1> SUFFICES ASSUME IInv, [Next]_vars PROVE IInv'
  OBVIOUS
<1>1. CASE Boot
  BY <1>1, BootInv, RunSeedInv DEF Boot
<1>2. CASE \E id \in Ids : Call(id)
  BY <1>2, CallInv
<1>3. CASE \E p \in Calls : WaitDone(p)
  BY <1>3, WaitDoneInv
<1>4. CASE \E ih \in InfoHash : startTorrent(ih) \/ ClientStep(ih)
  BY <1>4, StarterInv, ClientInv
<1>5. CASE \E id \in Ids, content \in Versions : WriteLayer(id, content)
  BY <1>5, DiskInv
<1>6. CASE Failure
  BY <1>6, FailureInv
<1>8. CASE \E h \in Handles : WriteChunk(h) \/ WriteChunkFails(h)
  BY <1>8, WriteInv, WriteFailsInv
<1>7. CASE UNCHANGED vars
  BY <1>7 DEF vars, IInv, TypeOK, BootIsFresh, ObjectsExist, ObjectsHaveOneHome,
     FreshIsWanted, OwedCoversCount, EveryIdHasTorrent, OpenIffStarted,
     SettledIsStarted, WaiterIsServed, SeedTorrentIsDurable, CompleteIsIntact, Holds,
     WriterIsDirty, Started, Registered, InfoHashOf
<1>. QED
  BY <1>1, <1>2, <1>3, <1>4, <1>5, <1>6, <1>7, <1>8 DEF Next

\* The strengthened invariant holds in every reachable state.
THEOREM InductiveInvariant == Spec => []IInv
<1>. QED
  BY InitInv, StepInv, PTL DEF Spec

\* Type correctness: every table, file and object keeps its shape.
THEOREM TypeCorrect == Spec => []TypeOK
<1>1. IInv => TypeOK
  BY DEF IInv
<1>. QED
  BY <1>1, InductiveInvariant, PTL

\* The lookups that stopTorrent, deleteTorrent and GetAllStatus do under e.mut
\* never miss.
THEOREM LookupsSucceed == Spec => []EveryIdHasTorrent
<1>1. IInv => EveryIdHasTorrent
  BY DEF IInv
<1>. QED
  BY <1>1, InductiveInvariant, PTL

\* The client's open torrents are those of the entries that say Started, for
\* any number of restarts of an id and any stale handles they leave.
THEOREM StartedMeansOpen == Spec => []OpenIffStarted
<1>1. IInv => OpenIffStarted
  BY DEF IInv
<1>. QED
  BY <1>1, InductiveInvariant, PTL

\* When the starters of a started torrent have run, its wrapper says Started.
THEOREM StartedSettles == Spec => []SettledIsStarted
<1>1. IInv => SettledIsStarted
  BY DEF IInv
<1>. QED
  BY <1>1, InductiveInvariant, PTL

\* A caller of StartLeecher never polls an open torrent nobody will download.
THEOREM NoVainWaiter == Spec => []WaiterIsServed
<1>1. IInv => WaiterIsServed
  BY DEF IInv
<1>. QED
  BY <1>1, InductiveInvariant, PTL

\* An id that is started is owed a stop, refused stops and the off-by-one of
\* Count notwithstanding.
THEOREM StartsDoNotLeak == Spec => []NoStartLeaks
<1>1. IInv => NoStartLeaks
  BY DEF IInv, OwedCoversCount, NoStartLeaks
<1>. QED
  BY <1>1, InductiveInvariant, PTL

\* A seeder's started ids are those a restart registers with the same torrent.
THEOREM SeedsAreDurable == Spec => []SeedTorrentIsDurable
<1>1. IInv => SeedTorrentIsDurable
  BY DEF IInv
<1>. QED
  BY <1>1, InductiveInvariant, PTL

\* On a leecher, complete pieces of an open torrent are in the layer file.
THEOREM CompleteIsOnDisk == Spec => []CompleteIsIntact
<1>1. IInv => CompleteIsIntact
  BY DEF IInv
<1>. QED
  BY <1>1, InductiveInvariant, PTL

\* The files of an id with an open torrent survive every step.
THEOREM OpenFilesSurvive == Spec => FilesOutliveTorrent
<1> DEFINE Keep == \A id \in Ids :
                     (\E v \in Versions : Registered(<<id, v>>))
                       => /\ layer[id] # None => layer'[id] # None
                          /\ torrentFile'[id] = torrentFile[id]
<1>1. IInv /\ [Next]_vars => [Keep]_vars
  <2>. SUFFICES ASSUME IInv, Next, NEW id \in Ids, NEW v \in Versions,
                       Registered(<<id, v>>)
                PROVE  /\ layer[id] # None => layer'[id] # None
                       /\ torrentFile'[id] = torrentFile[id]
    BY DEF Keep
  <2>1. Started(id) /\ <<id, v>> \in InfoHash
    BY DEF IInv, OpenIffStarted, InfoHash
  <2>2. CASE Boot
    BY <2>2 DEF Boot, RunBegin, RunSkip, RunSeed, RunEnd, disk
  <2>3. ASSUME NEW i \in Ids, Call(i)
        PROVE  /\ layer[id] # None => layer'[id] # None
               /\ torrentFile'[id] = torrentFile[id]
    <3>1. CASE CountStart(i) \/ StopOneUser(i) \/ StopRefused(i) \/ StopTorrent(i)
      BY <3>1 DEF CountStart, StopOneUser, StopRefused, StopTorrent, disk
    <3>2. ASSUME NEW h \in Handles, StartSeed(i, h)
          PROVE  layer' = layer /\ torrentFile'[id] = torrentFile[id]
      BY <2>1, <3>2 DEF StartSeed, UseTorrentFile, IInv, TypeOK
    <3>3. CASE StartSeedTorn(i)
      BY <2>1, <3>3 DEF StartSeedTorn, IInv, TypeOK
    <3>4. CASE \E u \in Versions, h \in Handles, p \in Calls \cup {None} :
                 StartLeecher(i, u, h, p)
      BY <3>4 DEF StartLeecher, disk
    <3>5. CASE DeleteTorrent(i)
      BY <2>1, <3>5 DEF DeleteTorrent, Deletable, Started, IInv, TypeOK, disk
    <3>. QED
      BY <2>3, <3>1, <3>2, <3>3, <3>4, <3>5 DEF Call
  <2>4. CASE \E p \in Calls : WaitDone(p)
    BY <2>4 DEF WaitDone, disk
  <2>5. ASSUME NEW ih \in InfoHash, startTorrent(ih) \/ ClientStep(ih)
        PROVE  /\ layer[id] # None => layer'[id] # None
               /\ torrentFile'[id] = torrentFile[id]
    BY <2>5, FileAssumption
       DEF startTorrent, ClientStep, ReceiveChunk, HashPiece, disk, IInv, TypeOK,
           InfoHash
  <2>6. CASE \E i \in Ids, content \in Versions : WriteLayer(i, content)
    BY <2>6, FileAssumption DEF WriteLayer, IInv, TypeOK
  <2>7. CASE Failure
    BY <2>1, <2>7 DEF Failure, Crash, CrashInStartSeed, CrashInDelete, Deletable,
                      Started, IInv, TypeOK, disk
  <2>8. ASSUME NEW h \in Handles, WriteChunk(h)
        PROVE  /\ layer[id] # None => layer'[id] # None
               /\ torrentFile'[id] = torrentFile[id]
    <3>1. pending[h] \in Chunk
      BY <2>8 DEF WriteChunk, IInv, TypeOK
    <3>. QED
      BY <2>8, <3>1, FileAssumption DEF WriteChunk, Overwritten, Chunk, IInv, TypeOK
  <2>9. CASE \E h \in Handles : WriteChunkFails(h)
    BY <2>9 DEF WriteChunkFails, disk
  <2>. QED
    BY <2>2, <2>3, <2>4, <2>5, <2>6, <2>7, <2>8, <2>9 DEF Next
<1>2. Spec => [][Keep]_vars
  BY InductiveInvariant, <1>1, PTL DEF Spec
<1>. QED
  BY <1>2 DEF FilesOutliveTorrent, Keep
=============================================================================
