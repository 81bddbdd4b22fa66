--------------------------- MODULE DaemonSeedProofs ---------------------------
(***************************************************************************)
(* Proofs about what the daemons seed and what their layouts hold.         *)
(***************************************************************************)
EXTENDS DaemonProofs

\* Where a request may be after a step, and by which step.
LEMMA StepsTo ==
  ASSUME TypeOK, [Next]_vars, NEW c \in Calls, req'[c] # None
  PROVE  \/ req'[c] = req[c]
         \/ /\ req[c] = None /\ req'[c].at = "exist" /\ mode = "up" /\ mode' = "up"
            /\ UNCHANGED <<layer, entry, torrentFile, straggler, blobs, copier, spoiled>>
         \/ /\ req[c] # None
            /\ SkipLayer(c) \/ Seed(c) \/ CopyToLayout(c) \/ LinkToLayout(c)
            /\ req'[c].at = "exist" \/ (~BtSeeder /\ req'[c].at = "config")
         \/ /\ req[c] # None /\ Img(c)' = Img(c) /\ req'[c].k = req[c].k
            /\ \/ MissLayer(c) /\ req'[c].at = "fetch"
               \/ CopyLayer(c) /\ req'[c].at = "file"
               \/ LinkLayer(c) /\ req'[c].at = "seed"
               \/ CreateLayer(c) /\ req'[c].at = "fill"
               \/ FillLayer(c) /\ req'[c].at = "seed"
               \/ (StartLeecher(c) \/ Return(c)) /\ req'[c].at \in {"wait", "copy"}
               \/ PutConfig(c) /\ req'[c].at = "manifest"
               \/ PutManifest(c) /\ req'[c].at = "check"
               \/ CheckReference(c) /\ req'[c].at = "write"
         \/ Stop(c) /\ req'[c].at \in {"stop", "delete"}
<1>0. {"exist", "fetch", "wait", "copy", "config", "manifest", "check", "write",
       "file", "fill", "seed", "stop", "delete"} \subseteq Step
  BY DEF Step
<1>1. CASE req'[c] = req[c]
  BY <1>1
<1>2. ASSUME NEW d \in Calls \ {c}, Download(d) \/ Stop(d) \/ Fail(d)
      PROVE  req'[c] = req[c]
  BY <1>2 DEF Download, StartDownload, SkipLayer, MissLayer, CopyLayer, LinkLayer,
     CreateLayer, FillLayer, Seed, StartLeecher, Return, CopyToLayout, LinkToLayout,
     PutConfig, PutManifest, CheckReference, WriteReference, Stop, StopDownload,
     StopLayer, DeleteLayer, Fail, LayerDone, LayerStopped, Succeed, Goto, NextLayer,
     End, TypeOK
<1>3. CASE \E img \in Images : StartDownload(c, img)
  BY <1>3 DEF StartDownload, TypeOK, engine, layout
<1>4. CASE SkipLayer(c) \/ Seed(c) \/ CopyToLayout(c) \/ LinkToLayout(c)
  <2>1. req[c] # None /\ LayerDone(c)
    BY <1>4 DEF SkipLayer, Seed, CopyToLayout, LinkToLayout, At
  <2>. QED
    BY <1>0, <1>4, <2>1, GotoType DEF LayerDone, Succeed
<1>5. CASE \/ MissLayer(c) \/ CopyLayer(c) \/ LinkLayer(c) \/ CreateLayer(c)
           \/ FillLayer(c) \/ StartLeecher(c) \/ Return(c)
           \/ PutConfig(c) \/ PutManifest(c) \/ CheckReference(c) \/ WriteReference(c)
  <2>1. req[c] # None
    BY <1>5 DEF MissLayer, CopyLayer, LinkLayer, CreateLayer, FillLayer, StartLeecher,
                Return, PutConfig, PutManifest, CheckReference, WriteReference, At
  <2>2. ~Succeed(c)
    BY <1>0, <2>1, GotoType DEF Succeed
  <2>. QED
    BY <1>0, <1>5, <2>1, <2>2, GotoType
       DEF MissLayer, CopyLayer, LinkLayer, CreateLayer, FillLayer, StartLeecher,
           Return, PutConfig, PutManifest, CheckReference, WriteReference
<1>6. CASE Stop(c)
  <2>1. CASE \E name \in Names, clean \in BOOLEAN : StopDownload(c, name, clean)
    BY <1>6, <2>1 DEF StopDownload, TypeOK
  <2>2. CASE StopLayer(c) \/ DeleteLayer(c)
    BY <1>0, <1>6, <2>2, GotoType DEF StopLayer, DeleteLayer, LayerStopped, At
  <2>. QED
    BY <1>6, <2>1, <2>2 DEF Stop
<1>7. ~Fail(c) /\ ~Crash
  BY <1>0, GotoType DEF Fail, Crash
<1>8. CASE EngineStep \/ UNCHANGED vars
  BY <1>8 DEF EngineStep, vars
<1>. QED
  BY <1>2, <1>3, <1>4, <1>5, <1>6, <1>7, <1>8 DEF Next, Download

-----------------------------------------------------------------------------
(* Copied blobs *)

LEMMA CopiesStep ==
  ASSUME TypeOK, BlobsAreCopies, [Next]_vars
  PROVE  BlobsAreCopies'
<1>1. CASE UseHardlink
  <2>1. \A c \in Calls : ~CreateLayer(c)
    BY <1>1 DEF CreateLayer
  <2>2. clashed' = clashed
    BY <2>1 DEF Next, Download, StartDownload, SkipLayer, MissLayer, CopyLayer,
       LinkLayer, FillLayer, Seed, StartLeecher, Return, CopyToLayout, LinkToLayout,
       PutConfig, PutManifest, CheckReference, WriteReference, Stop, StopDownload,
       StopLayer, DeleteLayer, Fail, Crash, EngineStep, vars
  <2>3. \A c \in Calls : ~At(c, "fill")'
    BY <1>1, <2>1, StepsTo DEF At, BlobsAreCopies
  <2>. QED
    BY <1>1, <2>2, <2>3 DEF BlobsAreCopies
<1>2. CASE ~UseHardlink
  <2>. SUFFICES ASSUME NEW s \in Spots PROVE blobs'[s] \in {None, Whole}
    BY <1>2 DEF BlobsAreCopies
  <2>1. blobs[s] \in {None, Whole} /\ blobs \in [Spots -> Versions \cup {None, Junk, Linked}]
    BY <1>2 DEF BlobsAreCopies, TypeOK
  <2>2. ASSUME NEW c \in Calls, Download(c) PROVE blobs'[s] \in {None, Whole}
    BY <1>2, <2>1, <2>2
       DEF Download, StartDownload, SkipLayer, MissLayer, CopyLayer, LinkLayer,
           CreateLayer, FillLayer, Seed, StartLeecher, Return, CopyToLayout,
           LinkToLayout, PutConfig, PutManifest, CheckReference, WriteReference, layout
  <2>3. ASSUME NEW id \in Ids, KeepLinked(id) PROVE blobs'[s] \in {None, Whole}
    <3>1. Content(s) \in {None, Whole}
      BY <2>1, ContentAssumption DEF Content
    <3>. QED
      BY <2>1, <2>3, <3>1 DEF KeepLinked
  <2>4. ASSUME NEW c \in Calls, Stop(c) \/ Fail(c) PROVE blobs'[s] \in {None, Whole}
    <3>1. CASE UNCHANGED blobs
      BY <2>1, <3>1
    <3>2. CASE KeepLinked(Layer(c)) /\ DeleteLayer(c)
      BY <2>3, <3>2, RequestPoints DEF DeleteLayer, At
    <3>. QED
      BY <2>4, <3>1, <3>2 DEF Stop, StopDownload, StopLayer, DeleteLayer, Fail, layout
  <2>5. CASE Crash
    BY <2>1, <2>3, <2>5, RequestPoints DEF Crash, At
  <2>6. CASE EngineStep \/ UNCHANGED vars
    BY <2>1, <2>6 DEF EngineStep, vars, layout
  <2>. QED
    BY <2>2, <2>4, <2>5, <2>6 DEF Next
<1>. QED
  BY <1>1, <1>2

LEMMA CopiesInvariant == Spec => [](TypeOK /\ BlobsAreCopies)
<1>1. Init => BlobsAreCopies
  BY DEF Init, BlobsAreCopies, At
<1>. QED
  BY <1>1, CopiesStep, TypeCorrect, PTL DEF Spec

LEMMA CopyContent ==
  ASSUME ~UseHardlink, BlobsAreCopies, NEW s \in Spots
  PROVE  Content(s) = blobs[s] /\ blobs[s] \in {None, Whole}
  BY ContentAssumption DEF BlobsAreCopies, Content

\* Where blobs are copied, Status is right about a layer the engine forgot.
THEOREM StatusTellsTruth ==
  ASSUME ~UseHardlink
  PROVE  Spec => []StatusIsTrue
<1>1. IInv /\ BlobsAreCopies => StatusIsTrue
  <2>. SUFFICES ASSUME IInv, BlobsAreCopies, NEW n \in Names, refs[n] # None,
                       NEW k \in DOMAIN Layers[refs[n]]
                PROVE  Content(<<n[1], Layers[refs[n]][k]>>) = Whole
    BY DEF StatusIsTrue
  <2>1. refs[n] \in Images /\ n[1] \in Repos
    BY ImageAssumption DEF IInv, TypeOK, Names
  <2>2. <<n[1], Layers[refs[n]][k]>> \in Spots
    BY <2>1, ImageAssumption, LenProperties, ElementOfSeq DEF Spots
  <2>3. blobs[<<n[1], Layers[refs[n]][k]>>] # None
    BY DEF IInv, ReferenceIsPresent
  <2>. QED
    BY <2>2, <2>3, CopyContent
<1>. QED
  BY <1>1, CopiesInvariant, RequestInvariant, PTL

-----------------------------------------------------------------------------
(* Seeders *)

\* What the engine does of its own accord on a seeder.
LEMMA SeederEngine ==
  ASSUME BtSeeder, TypeOK, SeederOnlySeeds, EngineStep
  PROVE  /\ straggler' = {} /\ torrentFile' = torrentFile
         /\ \A id \in Ids :
              /\ layer[id] # None => layer'[id] # None
              /\ entry[id] # None => entry'[id] # None
              /\ entry'[id] # None => /\ entry'[id].stage # "stopped"
                                     /\ layer'[id] # None
                                     /\ torrentFile'[id] = entry'[id].v
<1>1. /\ straggler = {}
      /\ \A id \in Ids : entry[id] # None =>
            /\ entry[id].stage # "stopped" /\ layer[id] # None
            /\ torrentFile[id] = entry[id].v
      /\ entry \in [Ids -> Entry \cup {None}]
  BY DEF SeederOnlySeeds, TypeOK
<1>2. \A id \in Ids : layer[id] # None => layer'[id] # None
  BY FilesStay
<1>3. torrentFile' = torrentFile /\ straggler' = {}
  BY <1>1 DEF EngineStep, Engine!RunBegin, Engine!RunEnd, Engine!Work, Engine!RunSeed,
     Engine!HashPiece, Engine!WriteChunk, Engine!StragglerWrite, Engine!StragglerFails,
     Engine!disk
<1>4. CASE UNCHANGED entry
  BY <1>1, <1>2, <1>3, <1>4
<1>5. ASSUME NEW id \in Ids, Engine!RunSeed(id)
      PROVE  \A j \in Ids :
              /\ entry[j] # None => entry'[j] # None
              /\ entry'[j] # None => /\ entry'[j].stage # "stopped"
                                    /\ layer'[j] # None
                                    /\ torrentFile'[j] = entry'[j].v
  <2>1. /\ entry' = [entry EXCEPT ![id] = [v |-> torrentFile[id], stage |-> "queued"]]
        /\ layer[id] # None /\ torrentFile[id] \in Versions
    BY <1>5 DEF Engine!RunSeed, Engine!Start
  <2>2. [v |-> torrentFile[id], stage |-> "queued"] \in Entry
    BY <2>1 DEF Entry, Engine!Stage
  <2>. QED
    BY <1>1, <1>2, <1>3, <2>1, <2>2, RecordAssumption
<1>6. ASSUME NEW id \in Ids, entry[id] # None,
             NEW t \in {"queued", "dirty", "missing", "complete"},
             entry' = [entry EXCEPT ![id].stage = t]
      PROVE  \A j \in Ids :
              /\ entry[j] # None => entry'[j] # None
              /\ entry'[j] # None => /\ entry'[j].stage # "stopped"
                                    /\ layer'[j] # None
                                    /\ torrentFile'[j] = entry'[j].v
  <2>1. /\ entry[id] \in Entry /\ entry'[id] = [entry[id] EXCEPT !.stage = t]
        /\ \A j \in Ids \ {id} : entry'[j] = entry[j]
    BY <1>1, <1>6
  <2>2. entry'[id] \in Entry /\ entry'[id].v = entry[id].v /\ entry'[id].stage = t
    BY <2>1 DEF Entry, Engine!Stage
  <2>. QED
    BY <1>1, <1>2, <1>3, <1>6, <2>1, <2>2, RecordAssumption
<1>7. CASE \E id \in Ids : Engine!HashPiece(id)
  BY <1>2, <1>3, <1>6, <1>7 DEF Engine!HashPiece, Engine!Started
<1>8. CASE \E id \in Ids, c \in Versions \cup {Junk} : Engine!WriteChunk(id, c)
  BY <1>2, <1>3, <1>6, <1>8 DEF Engine!WriteChunk, Engine!Started
<1>. QED
  BY <1>2, <1>3, <1>4, <1>5, <1>7, <1>8
     DEF EngineStep, Engine!RunBegin, Engine!RunEnd, Engine!Work,
         Engine!StragglerWrite, Engine!StragglerFails

\* What a seeder has, it keeps, and it can start again what it has started.
SeederKeeps ==
    /\ straggler' = {} /\ refs' = refs
    /\ \A id \in Ids :
         /\ layer[id] # None => layer'[id] # None
         /\ torrentFile[id] \in Versions => torrentFile'[id] = torrentFile[id]
         /\ entry[id] # None /\ mode' # "down" => entry'[id] # None
         /\ entry'[id] # None => /\ entry'[id].stage # "stopped"
                                /\ layer'[id] # None
                                /\ torrentFile'[id] = entry'[id].v

\* A seeder has no request that leeches or stops.
LEMMA SeederSteps ==
  ASSUME BtSeeder, TypeOK, SeederOnlySeeds, NEW c \in Calls
  PROVE  /\ ~Stop(c)
         /\ ~(\/ StartLeecher(c) \/ Return(c) \/ CopyToLayout(c) \/ LinkToLayout(c)
              \/ PutConfig(c) \/ PutManifest(c) \/ CheckReference(c)
              \/ WriteReference(c))
<1>1. \A n \in Names : refs[n] = None
  BY DEF SeederOnlySeeds
<1>2. req[c] # None => req[c].at \in {"exist", "fetch", "file", "fill", "seed"}
  BY DEF SeederOnlySeeds
<1>3. ~Stop(c)
  BY <1>1, <1>2 DEF Stop, StopDownload, StopLayer, DeleteLayer, At
<1>. QED
  BY <1>2, <1>3 DEF StartLeecher, Return, CopyToLayout, LinkToLayout,
                    PutConfig, PutManifest, CheckReference, WriteReference, At

LEMMA SeederKeepsStep ==
  ASSUME BtSeeder, TypeOK, SeederOnlySeeds, [Next]_vars
  PROVE  SeederKeeps
<1>1. /\ straggler = {}
      /\ \A id \in Ids : entry[id] # None =>
            /\ entry[id].stage # "stopped" /\ layer[id] # None
            /\ torrentFile[id] = entry[id].v
      /\ entry \in [Ids -> Entry \cup {None}]
      /\ layer \in [Ids -> Versions \cup {None, Junk}]
      /\ torrentFile \in [Ids -> Versions \cup {None, Torn}]
  BY DEF SeederOnlySeeds, TypeOK
<1>2. ASSUME UNCHANGED <<straggler, refs, entry, torrentFile>>,
             \A id \in Ids : layer[id] # None => layer'[id] # None
      PROVE  SeederKeeps
  BY <1>1, <1>2 DEF SeederKeeps
<1>3. ASSUME NEW c \in Calls, Download(c) \/ Stop(c) \/ Fail(c) PROVE SeederKeeps
  <2>1. CASE \/ \E img \in Images : StartDownload(c, img)
             \/ SkipLayer(c) \/ MissLayer(c) \/ CopyLayer(c) \/ Fail(c)
    <3>1. UNCHANGED <<straggler, refs, entry, torrentFile, layer>>
      BY <2>1 DEF StartDownload, SkipLayer, MissLayer, CopyLayer, Fail, layout, engine
    <3>. QED
      BY <1>2, <3>1
  <2>2. CASE LinkLayer(c) \/ CreateLayer(c)
    <3>1. Layer(c) \in Ids /\ {Whole, Prefix, Holed} \subseteq Versions
      BY <2>2, RequestPoints, ContentAssumption DEF LinkLayer, CreateLayer, At
    <3>2. \A id \in Ids : layer[id] # None => layer'[id] # None
      BY <2>2, <3>1, FilesStay DEF LinkLayer, CreateLayer
    <3>. QED
      BY <1>2, <2>2, <3>2 DEF LinkLayer, CreateLayer, Engine!WriteLayer, layout
  <2>3. CASE FillLayer(c)
    <3>1. \A id \in Ids : layer[id] # None => layer'[id] # None
      BY <1>1, <2>3, ContentAssumption DEF FillLayer
    <3>. QED
      BY <1>2, <2>3, <3>1 DEF FillLayer, layout
  <2>4. CASE Seed(c)
    <3>1. PICK id \in Ids : id = Layer(c) /\ layer[id] # None
      BY <2>4, RequestPoints DEF Seed, At, SeederOnlySeeds
    <3>2. CASE UNCHANGED engine
      BY <1>2, <2>4, <3>2 DEF Seed, engine, layout
    <3>3. CASE Engine!StartSeedTorn(id)
      <4>1. torrentFile[id] = None /\ None \notin Versions /\ entry[id] = None
        BY <1>1, <3>3, ContentAssumption DEF Engine!StartSeedTorn, Engine!Started
      <4>. QED
        BY <1>1, <2>4, <3>3, <4>1 DEF Seed, Engine!StartSeedTorn, SeederKeeps, layout
    <3>4. CASE Engine!StartSeed(id)
      <4>1. PICK v \in Versions :
              /\ IF torrentFile[id] = None THEN layer[id] = v ELSE torrentFile[id] = v
              /\ torrentFile' = [torrentFile EXCEPT ![id] = v]
              /\ entry' = [entry EXCEPT ![id] = [v |-> v, stage |-> "queued"]]
              /\ UNCHANGED <<layer, straggler>>
        BY <3>4 DEF Engine!StartSeed, Engine!Start
      <4>2. [v |-> v, stage |-> "queued"] \in Entry
        BY DEF Entry, Engine!Stage
      <4>. QED
        BY <1>1, <2>4, <3>1, <4>1, <4>2, RecordAssumption, ContentAssumption
           DEF Seed, SeederKeeps, layout
    <3>. QED
      BY <2>4, <3>1, <3>2, <3>3, <3>4 DEF Seed
  <2>. QED
    BY <1>3, <2>1, <2>2, <2>3, <2>4, SeederSteps DEF Download
<1>4. CASE EngineStep
  BY <1>4, SeederEngine DEF SeederKeeps, EngineStep, layout
<1>5. CASE Crash
  <2>1. /\ mode' = "down" /\ straggler' = {} /\ refs' = refs
        /\ entry' = [id \in Ids |-> None]
    BY <1>5 DEF Crash, Engine!Crash, Engine!CrashInStartSeed, Engine!CrashInDelete,
                Engine!LoseMemory
  <2>2. ASSUME NEW id \in Ids
        PROVE  /\ layer[id] # None => layer'[id] # None
               /\ torrentFile[id] \in Versions => torrentFile'[id] = torrentFile[id]
    <3>1. \A c \in Calls : ~At(c, "delete")
      BY DEF SeederOnlySeeds, At
    <3>. QED
      BY <1>1, <1>5, <3>1, ContentAssumption
         DEF Crash, Engine!Crash, Engine!CrashInStartSeed, Engine!disk
  <2>. QED
    BY <2>1, <2>2 DEF SeederKeeps
<1>6. CASE UNCHANGED vars
  BY <1>2, <1>6 DEF vars, engine, layout
<1>. QED
  BY <1>3, <1>4, <1>5, <1>6 DEF Next

\* Requests are served by a daemon that is up.
LEMMA CallsAreServedStep ==
  ASSUME TypeOK, CallsAreServed, [Next]_vars
  PROVE  CallsAreServed'
<1> SUFFICES ASSUME NEW c \in Calls, req'[c] # None PROVE mode' = "up"
  BY DEF CallsAreServed
<1>1. CASE Crash
  BY <1>1 DEF Crash
<1>2. CASE EngineStep
  BY <1>2 DEF CallsAreServed, EngineStep, Engine!RunBegin, Engine!RunEnd, Engine!Work,
     Engine!RunSeed, Engine!HashPiece, Engine!WriteChunk, Engine!StragglerWrite,
     Engine!StragglerFails
<1>3. ASSUME NEW d \in Calls, Download(d) \/ Stop(d) \/ Fail(d) PROVE mode' = "up"
  <2>1. mode' = mode
    BY <1>3 DEF Download, StartDownload, SkipLayer, MissLayer, CopyLayer, LinkLayer,
       CreateLayer, FillLayer, Seed, StartLeecher, Return, CopyToLayout, LinkToLayout,
       PutConfig, PutManifest, CheckReference, WriteReference, Stop, StopDownload,
       StopLayer, DeleteLayer, Fail, engine, Engine!WriteLayer, Engine!StartSeed,
       Engine!StartSeedTorn, Engine!StartLeecher, Engine!Return, Engine!StopTorrent,
       Engine!DeleteTorrent
  <2>2. mode = "up"
    <3>1. CASE req[d] # None
      BY <3>1 DEF CallsAreServed
    <3>2. CASE req[d] = None
      BY <1>3, <3>2
         DEF Download, StartDownload, SkipLayer, MissLayer, CopyLayer, LinkLayer,
             CreateLayer, FillLayer, Seed, StartLeecher, Return, CopyToLayout,
             LinkToLayout, PutConfig, PutManifest, CheckReference, WriteReference,
             Stop, StopDownload, StopLayer, DeleteLayer, Fail, At
    <3>. QED
      BY <3>1, <3>2
  <2>. QED
    BY <2>1, <2>2
<1>4. CASE UNCHANGED vars
  BY <1>4 DEF vars, engine, CallsAreServed
<1>. QED
  BY <1>1, <1>2, <1>3, <1>4 DEF Next

LEMMA SeederOnlySeedsStep ==
  ASSUME TypeOK, SeederOnlySeeds, [Next]_vars
  PROVE  SeederOnlySeeds'
<1> SUFFICES ASSUME BtSeeder PROVE SeederOnlySeeds'
  BY DEF SeederOnlySeeds
<1>1. SeederKeeps
  BY SeederKeepsStep
<1>2. ASSUME NEW c \in Calls, req'[c] # None
      PROVE  /\ req'[c].at \in {"exist", "fetch", "file", "fill", "seed"}
             /\ req'[c].at \in {"fill", "seed"} => layer'[Layer(c)'] # None
  <2>1. CASE req'[c] = req[c]
    <3>1. Layer(c)' = Layer(c) /\ Layer(c) \in Ids
      BY <1>2, <2>1, RequestPoints DEF Layer, Img
    <3>. QED
      BY <1>1, <1>2, <2>1, <3>1 DEF SeederOnlySeeds, SeederKeeps
  <2>2. ASSUME LinkLayer(c) \/ CreateLayer(c) \/ FillLayer(c),
               Img(c)' = Img(c), req'[c].k = req[c].k
        PROVE  layer'[Layer(c)'] # None
    <3>1. Layer(c)' = Layer(c) /\ Layer(c) \in Ids
      BY <2>2, RequestPoints DEF Layer, LinkLayer, CreateLayer, FillLayer, At
    <3>2. CASE LinkLayer(c) \/ CreateLayer(c)
      BY <3>1, <3>2, ContentAssumption
         DEF LinkLayer, CreateLayer, Engine!WriteLayer, TypeOK
    <3>3. CASE FillLayer(c)
      BY <1>1, <3>1, <3>3 DEF FillLayer, At, SeederOnlySeeds, SeederKeeps
    <3>. QED
      BY <2>2, <3>1, <3>2, <3>3
  <2>. QED
    BY <1>2, <2>1, <2>2, StepsTo, SeederSteps
<1>. QED
  BY <1>1, <1>2 DEF SeederKeeps, SeederOnlySeeds

-----------------------------------------------------------------------------
(* What is stored is seeded *)

\* A layer in hand stays so until it is started, or spoiled.
LEMMA InHandStep ==
  ASSUME BtSeeder, TypeOK, SeederOnlySeeds, [Next]_vars, NEW id \in InHand
  PROVE  id \in InHand' \/ (entry'[id] # None /\ mode' = mode) \/ id \in spoiled'
<1>1. PICK c \in Calls : Seeding(c) /\ id = Layer(c)
  BY DEF InHand
<1>2. req[c] # None /\ req[c].at \in {"file", "fill", "seed"} /\ id \in Ids
  BY <1>1, RequestPoints DEF Seeding, At
<1>3. ASSUME req'[c] # None, Img(c)' = Img(c), req'[c].k = req[c].k,
             req'[c].at \in {"file", "fill", "seed"}
      PROVE  id \in InHand'
  BY <1>1, <1>3 DEF InHand, Seeding, At, Layer
<1>4. CASE req'[c] = req[c]
  BY <1>2, <1>3, <1>4 DEF Img
<1>5. CASE Crash
  BY <1>5 DEF Crash
<1>6. CASE Fail(c)
  BY <1>1, <1>6 DEF Fail
<1>7. CASE Seed(c)
  BY <1>1, <1>2, <1>7 DEF Seed, engine, Engine!StartSeed, Engine!StartSeedTorn
<1>8. CASE LinkLayer(c) \/ CreateLayer(c) \/ FillLayer(c)
  <2>. {"fill", "seed"} \subseteq Step
    BY DEF Step
  <2>. QED
    BY <1>2, <1>3, <1>8, GotoType DEF LinkLayer, CreateLayer, FillLayer
<1>9. ASSUME NEW d \in Calls \ {c}, Download(d) \/ Stop(d) \/ Fail(d)
      PROVE  req'[c] = req[c]
  BY <1>9 DEF Download, StartDownload, SkipLayer, MissLayer, CopyLayer, LinkLayer,
     CreateLayer, FillLayer, Seed, StartLeecher, Return, CopyToLayout, LinkToLayout,
     PutConfig, PutManifest, CheckReference, WriteReference, Stop, StopDownload,
     StopLayer, DeleteLayer, Fail, LayerDone, LayerStopped, Succeed, Goto, NextLayer,
     End, TypeOK
<1>10. EngineStep \/ UNCHANGED vars => req'[c] = req[c]
  BY DEF EngineStep, vars
<1>11. ~(StartDownload(c, Img(c)) \/ SkipLayer(c) \/ MissLayer(c) \/ CopyLayer(c))
  BY <1>2 DEF StartDownload, SkipLayer, MissLayer, CopyLayer, At
<1>12. ~\E img \in Images : StartDownload(c, img)
  BY <1>2 DEF StartDownload
<1>. QED
  BY <1>4, <1>5, <1>6, <1>7, <1>8, <1>9, <1>10, <1>11, <1>12, SeederSteps
     DEF Next, Download

\* A layer that is new in a seeder's layout is in hand.
LEMMA NewBlobs ==
  ASSUME BtSeeder, TypeOK, SeederOnlySeeds, [Next]_vars,
         NEW s \in Spots, blobs'[s] # None
  PROVE  blobs[s] # None \/ s[2] \in InHand'
<1>1. CASE blobs'[s] = blobs[s]
  BY <1>1
<1>2. ASSUME NEW c \in Calls, CopyLayer(c) \/ LinkLayer(c), s = Spot(c)
      PROVE  s[2] \in InHand'
  <2>. {"file", "seed"} \subseteq Step
    BY DEF Step
  <2>1. s[2] = Layer(c) /\ req[c] # None
    BY <1>2, RequestPoints DEF CopyLayer, LinkLayer, At
  <2>2. Layer(c)' = Layer(c) /\ Seeding(c)'
    BY <1>2, <2>1, GotoType DEF CopyLayer, LinkLayer, Layer, Seeding, At
  <2>. QED
    BY <2>1, <2>2 DEF InHand
<1>3. ASSUME NEW c \in Calls, CopyLayer(c) \/ LinkLayer(c), s # Spot(c)
      PROVE  blobs'[s] = blobs[s]
  BY <1>3 DEF CopyLayer, LinkLayer, TypeOK
<1>4. ASSUME NEW c \in Calls, Download(c), ~CopyLayer(c), ~LinkLayer(c)
      PROVE  blobs'[s] = blobs[s]
  BY <1>4, SeederSteps
     DEF Download, StartDownload, SkipLayer, MissLayer, CreateLayer, FillLayer, Seed, layout
<1>5. Crash => blobs'[s] = blobs[s]
  BY DEF Crash, SeederOnlySeeds, At
<1>. QED
  BY <1>1, <1>2, <1>3, <1>4, <1>5, SeederSteps DEF Next, Fail, EngineStep, vars, layout

LEMMA SeederInvStep == SeederInv /\ [Next]_vars => SeederInv'
<1> SUFFICES ASSUME SeederInv, [Next]_vars PROVE SeederInv'
  OBVIOUS
<1> USE DEF SeederInv
<1>1. TypeOK' /\ CallsAreServed' /\ SeederOnlySeeds'
  BY TypeStep, CallsAreServedStep, SeederOnlySeedsStep
<1>2. spoiled \subseteq spoiled'
  BY DEF Next, Download, StartDownload, SkipLayer, MissLayer, CopyLayer, LinkLayer,
     CreateLayer, FillLayer, Seed, StartLeecher, Return, CopyToLayout, LinkToLayout,
     PutConfig, PutManifest, CheckReference, WriteReference, Stop, StopDownload,
     StopLayer, DeleteLayer, Fail, Crash, EngineStep, vars
<1>3. ASSUME BtSeeder, NEW id \in Ids, entry'[id] # None
      PROVE  Engine!Started(id)' /\ layer'[id] # None /\ torrentFile'[id] \in Versions
  BY <1>1, <1>3 DEF SeederOnlySeeds, TypeOK, Entry, Engine!Started
<1>4. ASSUME BtSeeder, NEW id \in Ids, id \in InHand
      PROVE  id \in InHand' \/ (entry'[id] # None /\ mode' = mode) \/ id \in spoiled'
  BY <1>4, InHandStep
<1>5. StoredIsSeedable'
  <2> SUFFICES ASSUME BtSeeder, NEW s \in Spots, blobs'[s] # None
               PROVE  \/ layer'[s[2]] # None /\ torrentFile'[s[2]] \in Versions
                      \/ s[2] \in InHand'
                      \/ s[2] \in spoiled'
    BY DEF StoredIsSeedable
  <2>1. s[2] \in Ids /\ SeederKeeps
    BY SeederKeepsStep DEF Spots
  <2>2. CASE blobs[s] = None
    BY <2>2, NewBlobs
  <2>3. CASE layer[s[2]] # None /\ torrentFile[s[2]] \in Versions
    BY <2>1, <2>3 DEF SeederKeeps
  <2>4. CASE s[2] \in InHand
    BY <1>3, <1>4, <2>1, <2>4
  <2>. QED
    BY <1>2, <2>2, <2>3, <2>4 DEF StoredIsSeedable
<1>6. StoredIsSeeded'
  <2> SUFFICES ASSUME BtSeeder, mode' = "up", NEW s \in Spots, blobs'[s] # None
               PROVE  Engine!Started(s[2])' \/ s[2] \in InHand' \/ s[2] \in spoiled'
    BY DEF StoredIsSeeded
  <2>1. s[2] \in Ids /\ SeederKeeps
    BY SeederKeepsStep DEF Spots
  <2>2. CASE blobs[s] = None
    BY <2>2, NewBlobs
  <2>3. CASE mode = "up" /\ blobs[s] # None
    <3>1. Engine!Started(s[2]) => entry[s[2]] # None
      BY DEF Engine!Started
    <3>. QED
      BY <1>2, <1>3, <1>4, <2>1, <2>3, <3>1 DEF StoredIsSeeded, SeederKeeps
  <2>4. CASE mode # "up" /\ blobs[s] # None
    <3>1. s[2] \notin InHand
      BY <2>4 DEF InHand, Seeding, At, CallsAreServed
    <3>2. \A c \in Calls : ~Download(c) /\ ~Stop(c) /\ ~Fail(c)
      BY <2>4 DEF CallsAreServed, Download, StartDownload, SkipLayer, MissLayer,
         CopyLayer, LinkLayer, CreateLayer, FillLayer, Seed, StartLeecher, Return,
         CopyToLayout, LinkToLayout, PutConfig, PutManifest, CheckReference,
         WriteReference, Stop, StopDownload, StopLayer, DeleteLayer, At, Fail
    <3>3. ~Crash
      BY DEF Crash, Engine!Crash, Engine!CrashInStartSeed, Engine!CrashInDelete,
             Engine!LoseMemory
    <3>4. Engine!RunEnd
      BY <2>4, <3>2, <3>3 DEF Next, EngineStep, vars, engine, Engine!RunBegin,
         Engine!Work, Engine!RunSeed, Engine!HashPiece, Engine!WriteChunk,
         Engine!StragglerWrite, Engine!StragglerFails
    <3>5. Engine!Started(s[2]) => Engine!Started(s[2])'
      BY <3>4 DEF Engine!RunEnd, Engine!Started
    <3>. QED
      BY <1>2, <2>1, <2>4, <3>1, <3>4, <3>5 DEF StoredIsSeedable, Engine!RunEnd
  <2>. QED
    BY <2>2, <2>3, <2>4
<1>. QED
  BY <1>1, <1>5, <1>6

\* A layer in a seeder's layout is being seeded, or a request is about to seed
\* it, unless an error or a crash came between the two.
THEOREM StoredLayersAreSeeded == Spec => []StoredIsSeeded
<1>1. Init => SeederInv
  <2>1. Init => TypeOK
    BY DEF Init, Engine!Init, TypeOK
  <2>2. Init => CallsAreServed /\ SeederOnlySeeds /\ StoredIsSeedable /\ StoredIsSeeded
    BY DEF Init, Engine!Init, CallsAreServed, SeederOnlySeeds, StoredIsSeedable,
           StoredIsSeeded
  <2>. QED
    BY <2>1, <2>2 DEF SeederInv
<1>2. SeederInv => StoredIsSeeded
  BY DEF SeederInv
<1>. QED
  BY <1>1, <1>2, SeederInvStep, PTL DEF Spec

-----------------------------------------------------------------------------
(* What is seeded is the layer itself *)

WholeSeedInv ==
    /\ TypeOK /\ SeederOnlySeeds /\ BlobsAreCopies
    /\ JunkHasTorrent /\ SeedIsWhole /\ LinksAreWhole

LEMMA ClashedGrows == [Next]_vars => clashed \subseteq clashed'
  BY DEF Next, Download, StartDownload, SkipLayer, MissLayer, CopyLayer, LinkLayer,
     CreateLayer, FillLayer, Seed, StartLeecher, Return, CopyToLayout, LinkToLayout,
     PutConfig, PutManifest, CheckReference, WriteReference, Stop, StopDownload,
     StopLayer, DeleteLayer, Fail, Crash, EngineStep, vars

\* How the layer file and the torrent of an undisturbed id change on a seeder.
LayerChanges(id) ==
    /\ layer'[id] # Holed
    /\ \/ layer'[id] \in {layer[id], Whole}
       \/ layer'[id] = Junk /\ ~UseHardlink
       \/ \E c \in Calls : CreateLayer(c) /\ id = Layer(c)
    /\ torrentFile'[id] \in {None, Torn, Whole}
    /\ UseHardlink /\ entry'[id] # None => entry'[id].stage # "missing"

LEMMA SeedChanges ==
  ASSUME BtSeeder, WholeSeedInv, [Next]_vars, NEW id \in Ids, id \notin clashed'
  PROVE  LayerChanges(id)
<1> USE DEF WholeSeedInv
<1>1. /\ straggler = {}
      /\ entry \in [Ids -> Entry \cup {None}]
      /\ layer \in [Ids -> Versions \cup {None, Junk}]
      /\ torrentFile \in [Ids -> Versions \cup {None, Torn}]
      /\ layer[id] # Holed /\ Whole # Holed /\ Junk # Holed
      /\ layer[id] = Junk => torrentFile[id] # None
      /\ torrentFile[id] \in {None, Torn, Whole}
      /\ UseHardlink =>
           /\ layer[id] \in {None, Whole}
           /\ entry[id] # None => entry[id].stage # "missing"
      /\ \A j \in Ids : entry[j] # None => entry[j] \in Entry
      /\ entry[id] # None => entry[id].v = Whole /\ layer[id] # None
  <2>1. \A j \in Ids : entry[j] # None =>
          /\ layer[j] # None /\ torrentFile[j] = entry[j].v
    BY DEF SeederOnlySeeds
  <2>2. \A j \in Ids : entry[j] # None => entry[j] \in Entry /\ entry[j].v \in Versions
    BY DEF TypeOK, Entry
  <2>3. id \notin clashed
    BY ClashedGrows
  <2>4. torrentFile[id] \in {None, Torn, Whole} /\ layer[id] # Holed
    BY <2>3 DEF SeedIsWhole, TorrentIsWhole
  <2>. QED
    BY <2>1, <2>2, <2>4, ContentAssumption
       DEF TypeOK, SeederOnlySeeds, LinksAreWhole, JunkHasTorrent
<1>2. CASE UNCHANGED <<layer, entry, torrentFile>>
  BY <1>1, <1>2 DEF LayerChanges
<1>3. ASSUME NEW c \in Calls, Download(c) \/ Stop(c) \/ Fail(c) PROVE LayerChanges(id)
  <2>1. CASE \/ \E img \in Images : StartDownload(c, img)
             \/ SkipLayer(c) \/ MissLayer(c) \/ CopyLayer(c) \/ Fail(c)
    BY <1>2, <2>1 DEF StartDownload, SkipLayer, MissLayer, CopyLayer, Fail, engine
  <2>2. CASE LinkLayer(c)
    BY <1>1, <2>2 DEF LinkLayer, Engine!WriteLayer, LayerChanges
  <2>3. CASE CreateLayer(c)
    <3>1. Layer(c) \in Ids
      BY <2>3, RequestPoints DEF CreateLayer, At
    <3>2. CASE id = Layer(c)
      <4>1. layer' = [layer EXCEPT ![Layer(c)] = Prefix] /\ UNCHANGED <<entry, torrentFile>>
        BY <2>3, <3>2 DEF CreateLayer, Engine!WriteLayer
      <4>. QED
        BY <1>1, <2>3, <3>2, <4>1, ContentAssumption DEF LayerChanges
    <3>3. CASE id # Layer(c)
      BY <1>1, <2>3, <3>1, <3>3 DEF CreateLayer, Engine!WriteLayer, LayerChanges
    <3>. QED
      BY <3>2, <3>3
  <2>4. CASE FillLayer(c)
    <3>1. ~UseHardlink /\ UNCHANGED <<entry, torrentFile>>
      BY <2>4 DEF FillLayer, BlobsAreCopies
    <3>2. Layer(c) \in Ids
      BY <2>4, RequestPoints DEF FillLayer, At
    <3>3. id = Layer(c) => copier[id] = c
      BY <2>4 DEF FillLayer, SeedIsWhole
    <3>. QED
      BY <1>1, <2>4, <3>1, <3>2, <3>3 DEF FillLayer, LayerChanges
  <2>5. CASE Seed(c)
    <3>1. PICK j \in Ids : j = Layer(c) /\ (j = id => layer[j] \in {Whole, Junk})
      BY <2>5, RequestPoints DEF Seed, At, SeedIsWhole
    <3>2. CASE UNCHANGED engine
      BY <1>2, <3>2 DEF engine
    <3>3. CASE Engine!StartSeedTorn(j)
      BY <1>1, <3>3 DEF Engine!StartSeedTorn, LayerChanges
    <3>4. CASE Engine!StartSeed(j)
      <4>1. PICK v \in Versions :
              /\ IF torrentFile[j] = None THEN layer[j] = v ELSE torrentFile[j] = v
              /\ torrentFile' = [torrentFile EXCEPT ![j] = v]
              /\ entry' = [entry EXCEPT ![j] = [v |-> v, stage |-> "queued"]]
              /\ UNCHANGED layer
        BY <3>4 DEF Engine!StartSeed, Engine!Start
      <4>2. j = id => v = Whole
        BY <1>1, <3>1, <4>1, ContentAssumption
      <4>. QED
        BY <1>1, <4>1, <4>2 DEF LayerChanges
    <3>. QED
      BY <2>5, <3>1, <3>2, <3>3, <3>4 DEF Seed
  <2>. QED
    BY <1>3, <2>1, <2>2, <2>3, <2>4, <2>5, SeederSteps DEF Download
<1>4. CASE EngineStep
  <2>1. CASE Engine!RunBegin \/ Engine!RunEnd \/ \E j \in Ids : Engine!StragglerFails(j)
    BY <1>2, <2>1 DEF Engine!RunBegin, Engine!RunEnd, Engine!StragglerFails, Engine!disk
  <2>2. ASSUME NEW j \in Ids, Engine!RunSeed(j)
        PROVE  /\ UNCHANGED <<layer, torrentFile>>
               /\ entry'[id] # None => \/ entry'[id] = entry[id]
                                      \/ entry'[id].stage = "queued"
    BY <1>1, <2>2 DEF Engine!RunSeed, Engine!Start, Engine!disk
  <2>3. ASSUME NEW j \in Ids, Engine!HashPiece(j)
        PROVE  /\ UNCHANGED <<layer, torrentFile>>
               /\ entry'[id] # None /\ UseHardlink => entry'[id].stage # "missing"
    <3>1. /\ UNCHANGED <<layer, torrentFile>> /\ entry[j] # None
          /\ entry' = [entry EXCEPT ![j].stage =
                         IF Engine!Holds(j, entry[j].v) THEN "complete" ELSE "missing"]
      BY <2>3 DEF Engine!HashPiece, Engine!Started, Engine!disk
    <3>2. UseHardlink /\ j = id => Engine!Holds(j, entry[j].v)
      BY <1>1, <3>1 DEF Engine!Holds
    <3>3. UseHardlink /\ j = id => entry'[j].stage = "complete"
      BY <1>1, <3>1, <3>2 DEF Entry
    <3>. QED
      BY <1>1, <3>1, <3>3
  <2>4. ASSUME NEW j \in Ids, NEW content \in Versions \cup {Junk},
               Engine!WriteChunk(j, content)
        PROVE  LayerChanges(id)
    <3>1. /\ entry[j] # None /\ entry[j].stage = "missing"
          /\ content \in {entry[j].v, Junk} /\ UNCHANGED torrentFile
          /\ entry' = [entry EXCEPT ![j].stage = "dirty"]
          /\ layer' = [layer EXCEPT ![j] = Engine!Overwritten(j, content)]
      BY <2>4 DEF Engine!WriteChunk, Engine!Started
    <3>2. CASE j = id
      <4>1. ~UseHardlink /\ content \in {Whole, Junk}
        BY <1>1, <3>1, <3>2
      <4>2. layer'[id] \in {layer[id], content}
        BY <1>1, <3>1, <3>2 DEF Engine!Overwritten
      <4>. QED
        BY <1>1, <3>1, <4>1, <4>2 DEF LayerChanges
    <3>3. CASE j # id
      BY <1>1, <3>1, <3>3 DEF LayerChanges
    <3>. QED
      BY <3>2, <3>3
  <2>5. \A j \in Ids, content \in Versions \cup {Junk} : ~Engine!StragglerWrite(j, content)
    BY <1>1 DEF Engine!StragglerWrite
  <2>. QED
    BY <1>1, <1>4, <2>1, <2>2, <2>3, <2>4, <2>5 DEF EngineStep, Engine!Work, LayerChanges
<1>5. CASE Crash
  <2>1. \A c \in Calls : ~At(c, "delete")
    BY DEF SeederOnlySeeds, At
  <2>2. entry' = [j \in Ids |-> None] /\ UNCHANGED layer
    BY <1>5, <2>1 DEF Crash, Engine!Crash, Engine!CrashInStartSeed, Engine!LoseMemory,
                      Engine!disk
  <2>3. torrentFile'[id] \in {None, Torn, Whole}
    BY <1>1, <1>5, <2>1, RequestPoints
       DEF Crash, Engine!Crash, Engine!CrashInStartSeed, Engine!disk
  <2>. QED
    BY <1>1, <2>2, <2>3 DEF LayerChanges
<1>6. CASE UNCHANGED vars
  BY <1>2, <1>6 DEF vars, engine
<1>. QED
  BY <1>3, <1>4, <1>5, <1>6 DEF Next

\* A layer file that turns bad has a torrent, for which the chunk came.
LEMMA JunkHasTorrentStep ==
  ASSUME BtSeeder, TypeOK, SeederOnlySeeds, JunkHasTorrent, [Next]_vars
  PROVE  JunkHasTorrent'
<1> SUFFICES ASSUME NEW id \in Ids, layer'[id] = Junk
             PROVE  layer[id] = Junk \/ torrentFile[id] \in Versions
  BY SeederKeepsStep DEF SeederKeeps, JunkHasTorrent
<1>1. /\ straggler = {}
      /\ layer \in [Ids -> Versions \cup {None, Junk}]
      /\ \A j \in Ids : entry[j] # None =>
            torrentFile[j] = entry[j].v /\ entry[j].v \in Versions
      /\ Junk \notin {None, Whole, Prefix, Holed}
  BY ContentAssumption DEF SeederOnlySeeds, TypeOK, Entry
<1>2. ASSUME NEW c \in Calls, Download(c) \/ Stop(c) \/ Fail(c) PROVE layer[id] = Junk
  <2>1. CASE \/ \E img \in Images : StartDownload(c, img)
             \/ SkipLayer(c) \/ MissLayer(c) \/ CopyLayer(c) \/ Fail(c)
    BY <2>1 DEF StartDownload, SkipLayer, MissLayer, CopyLayer, Fail, engine
  <2>2. CASE LinkLayer(c) \/ CreateLayer(c)
    BY <1>1, <2>2 DEF LinkLayer, CreateLayer, Engine!WriteLayer
  <2>3. CASE FillLayer(c)
    BY <1>1, <2>3 DEF FillLayer
  <2>4. CASE Seed(c)
    BY <2>4 DEF Seed, Engine!StartSeed, Engine!StartSeedTorn, engine
  <2>. QED
    BY <1>2, <2>1, <2>2, <2>3, <2>4, SeederSteps DEF Download
<1>3. CASE EngineStep
  <2>1. ASSUME NEW j \in Ids, NEW content \in Versions \cup {Junk},
               Engine!WriteChunk(j, content)
        PROVE  layer[id] = Junk \/ torrentFile[id] \in Versions
    BY <1>1, <2>1 DEF Engine!WriteChunk, Engine!Started
  <2>2. \A j \in Ids, content \in Versions \cup {Junk} : ~Engine!StragglerWrite(j, content)
    BY <1>1 DEF Engine!StragglerWrite
  <2>. QED
    BY <1>3, <2>1, <2>2
       DEF EngineStep, Engine!RunBegin, Engine!RunEnd, Engine!Work, Engine!RunSeed,
           Engine!HashPiece, Engine!StragglerFails, Engine!disk
<1>4. CASE Crash
  <2>1. \A c \in Calls : ~At(c, "delete")
    BY DEF SeederOnlySeeds, At
  <2>. QED
    BY <1>4, <2>1 DEF Crash, Engine!Crash, Engine!CrashInStartSeed, Engine!LoseMemory,
                      Engine!disk
<1>5. CASE UNCHANGED vars
  BY <1>5 DEF vars, engine
<1>. QED
  BY <1>2, <1>3, <1>4, <1>5 DEF Next

\* A request that has a layer file to itself fills it and finds it whole.
LEMMA SeedIsWholeStep ==
  ASSUME BtSeeder, WholeSeedInv, [Next]_vars
  PROVE  SeedIsWhole'
<1> USE DEF WholeSeedInv
<1>0. \A id \in Ids \ clashed' : LayerChanges(id)
  BY SeedChanges
<1> SUFFICES ASSUME NEW c \in Calls, req'[c] # None, Layer(c)' \notin clashed'
             PROVE  /\ req'[c].at = "seed" => layer'[Layer(c)'] \in {Whole, Junk}
                    /\ req'[c].at = "fill" => copier'[Layer(c)'] = c
  BY <1>0 DEF SeedIsWhole, TorrentIsWhole, At, LayerChanges
<1>1. CASE req'[c] = req[c] /\ req[c].at \in {"seed", "fill"}
  <2>1. Layer(c)' = Layer(c) /\ Layer(c) \in Ids /\ Layer(c) \notin clashed
    BY <1>1, ClashedGrows, RequestPoints DEF Layer, Img
  <2>2. ASSUME NEW d \in Calls, CreateLayer(d) \/ FillLayer(d) \/ Fail(d)
        PROVE  d # c
    <3>1. SUFFICES ASSUME d = c PROVE FALSE
      OBVIOUS
    <3>2. {"fill", "seed"} \subseteq Step
      BY DEF Step
    <3>. QED
      BY <1>1, <2>2, <3>1, <3>2, GotoType DEF CreateLayer, FillLayer, Fail, At
  <2>3. ASSUME NEW d \in Calls, CreateLayer(d) PROVE Layer(d) # Layer(c)
    BY <1>1, <2>1, <2>2, <2>3 DEF CreateLayer, Overlaps, At
  <2>4. CASE req[c].at = "seed"
    <3>1. layer[Layer(c)] \in {Whole, Junk}
      BY <1>1, <2>1, <2>4 DEF SeedIsWhole, At
    <3>. QED
      BY <1>0, <1>1, <2>1, <2>3, <2>4, <3>1 DEF LayerChanges
  <2>5. CASE req[c].at = "fill"
    <3>1. copier[Layer(c)] = c /\ copier \in [Ids -> Calls \cup {None}]
      BY <1>1, <2>1, <2>5 DEF SeedIsWhole, At, TypeOK
    <3>2. ~Crash
      BY <1>1 DEF Crash
    <3>3. ASSUME NEW d \in Calls, Download(d) \/ Fail(d) PROVE copier'[Layer(c)] = c
      <4>1. CASE CreateLayer(d)
        BY <2>1, <2>3, <3>1, <4>1 DEF CreateLayer
      <4>2. CASE FillLayer(d)
        BY <2>1, <2>2, <3>1, <4>2 DEF FillLayer
      <4>3. CASE Fail(d)
        BY <2>1, <2>2, <3>1, <4>3 DEF Fail
      <4>. QED
        BY <3>1, <3>3, <4>1, <4>2, <4>3, SeederSteps
           DEF Download, StartDownload, SkipLayer, MissLayer, CopyLayer, LinkLayer, Seed
    <3>. QED
      BY <1>1, <2>1, <2>5, <3>1, <3>2, <3>3, SeederSteps DEF Next, EngineStep, vars
  <2>. QED
    BY <1>1, <2>4, <2>5
<1>2. ASSUME LinkLayer(c) \/ CreateLayer(c) \/ FillLayer(c),
             Img(c)' = Img(c), req'[c].k = req[c].k
      PROVE  Layer(c)' = Layer(c) /\ Layer(c) \in Ids /\ Layer(c) \notin clashed
  BY <1>2, ClashedGrows, RequestPoints DEF Layer, LinkLayer, CreateLayer, FillLayer, At
<1>3. ASSUME LinkLayer(c), Img(c)' = Img(c), req'[c].k = req[c].k, req'[c].at = "seed"
      PROVE  layer'[Layer(c)'] = Whole
  BY <1>2, <1>3 DEF LinkLayer, Engine!WriteLayer, TypeOK
<1>4. ASSUME CreateLayer(c), Img(c)' = Img(c), req'[c].k = req[c].k, req'[c].at = "fill"
      PROVE  copier'[Layer(c)'] = c
  BY <1>2, <1>4 DEF CreateLayer, TypeOK
<1>5. ASSUME FillLayer(c), Img(c)' = Img(c), req'[c].k = req[c].k, req'[c].at = "seed"
      PROVE  layer'[Layer(c)'] \in {Whole, Junk}
  <2>1. copier[Layer(c)] = c /\ layer[Layer(c)] # Holed
    BY <1>2, <1>5 DEF FillLayer, SeedIsWhole
  <2>. QED
    BY <1>2, <1>5, <2>1 DEF FillLayer, TypeOK
<1>. QED
  BY <1>1, <1>3, <1>4, <1>5, StepsTo, SeederSteps

LEMMA LinksAreWholeStep ==
  ASSUME BtSeeder, WholeSeedInv, [Next]_vars
  PROVE  LinksAreWhole'
<1> SUFFICES ASSUME UseHardlink PROVE LinksAreWhole'
  BY DEF LinksAreWhole
<1> USE DEF WholeSeedInv
<1>1. clashed' = {} /\ \A c \in Calls : ~CreateLayer(c)
  BY CopiesStep DEF CreateLayer, BlobsAreCopies
<1>2. ASSUME NEW s \in Spots PROVE blobs'[s] \in {None, Whole, Linked}
  <2>1. blobs[s] \in {None, Whole, Linked} /\ blobs \in [Spots -> Versions \cup {None, Junk, Linked}]
    BY DEF LinksAreWhole, TypeOK
  <2>2. \A c \in Calls : ~At(c, "delete")
    BY DEF SeederOnlySeeds, At
  <2>. QED
    BY <1>1, <2>1, <2>2, SeederSteps
       DEF Next, Download, StartDownload, SkipLayer, MissLayer, CopyLayer, LinkLayer,
           FillLayer, Seed, Fail, EngineStep, Crash, vars, layout
<1>3. ASSUME NEW id \in Ids
      PROVE  /\ layer'[id] \in {None, Whole}
             /\ entry'[id] # None => entry'[id].stage # "missing"
  BY <1>1, SeedChanges DEF LinksAreWhole, LayerChanges
<1>. QED
  BY <1>2, <1>3 DEF LinksAreWhole

LEMMA WholeSeedInvStep ==
  ASSUME BtSeeder, WholeSeedInv, [Next]_vars
  PROVE  WholeSeedInv'
  BY TypeStep, SeederOnlySeedsStep, CopiesStep, JunkHasTorrentStep, SeedIsWholeStep,
     LinksAreWholeStep
     DEF WholeSeedInv

LEMMA SeedInvariant ==
  ASSUME BtSeeder
  PROVE  Spec => []WholeSeedInv
<1>1. Init => WholeSeedInv
  <2>1. Init => TypeOK
    BY DEF Init, Engine!Init, TypeOK
  <2>2. Init => /\ SeederOnlySeeds /\ BlobsAreCopies /\ JunkHasTorrent
                /\ SeedIsWhole /\ LinksAreWhole
    BY ContentAssumption
       DEF Init, Engine!Init, SeederOnlySeeds, BlobsAreCopies, JunkHasTorrent,
           SeedIsWhole, TorrentIsWhole, LinksAreWhole, At
  <2>. QED
    BY <2>1, <2>2 DEF WholeSeedInv
<1>2. WholeSeedInv /\ [Next]_vars => WholeSeedInv'
  BY WholeSeedInvStep
<1>. QED
  BY <1>1, <1>2, PTL DEF Spec

\* A leecher writes no torrent files.
LeecherHasNoTorrents == ~BtSeeder => \A id \in Ids : torrentFile[id] = None

LEMMA NoTorrentsStep ==
  ASSUME TypeOK, LeecherHasNoTorrents, [Next]_vars
  PROVE  LeecherHasNoTorrents'
<1> SUFFICES ASSUME ~BtSeeder, NEW id \in Ids PROVE torrentFile'[id] = None
  BY DEF LeecherHasNoTorrents
<1>1. torrentFile[id] = None /\ torrentFile \in [Ids -> Versions \cup {None, Torn}]
  BY DEF LeecherHasNoTorrents, TypeOK
<1>2. ASSUME NEW c \in Calls, Download(c) \/ Stop(c) \/ Fail(c)
      PROVE  torrentFile'[id] = None
  BY <1>1, <1>2
     DEF Download, StartDownload, SkipLayer, MissLayer, CopyLayer, LinkLayer,
         CreateLayer, FillLayer, Seed, StartLeecher, Return, CopyToLayout,
         LinkToLayout, PutConfig, PutManifest, CheckReference, WriteReference,
         Stop, StopDownload, StopLayer, DeleteLayer, Fail, engine, Engine!disk,
         Engine!WriteLayer, Engine!StartSeed, Engine!StartSeedTorn,
         Engine!StartLeecher, Engine!Return, Engine!StopTorrent,
         Engine!DeleteTorrent
<1>3. CASE Crash
  BY <1>1, <1>3 DEF Crash, Engine!Crash, Engine!CrashInStartSeed,
                    Engine!CrashInDelete, Engine!disk
<1>4. CASE EngineStep \/ UNCHANGED vars
  BY <1>1, <1>4 DEF EngineStep, vars, engine, Engine!RunBegin, Engine!RunEnd,
     Engine!Work, Engine!RunSeed, Engine!HashPiece, Engine!WriteChunk,
     Engine!StragglerWrite, Engine!StragglerFails, Engine!disk
<1>. QED
  BY <1>2, <1>3, <1>4 DEF Next

\* A seeder seeds nothing but the layer itself, unless one request truncates the
\* file that another has written and not seeded; a leecher has no torrent files.
THEOREM TorrentsAreWhole == Spec => []TorrentIsWhole
<1>1. CASE BtSeeder
  <2>1. WholeSeedInv => TorrentIsWhole
    BY <1>1 DEF WholeSeedInv, SeedIsWhole
  <2>2. Spec => []WholeSeedInv
    BY <1>1, SeedInvariant
  <2>. QED
    BY <2>1, <2>2, PTL
<1>2. CASE ~BtSeeder
  <2>1. Init => LeecherHasNoTorrents
    BY DEF Init, Engine!Init, LeecherHasNoTorrents
  <2>2. LeecherHasNoTorrents => TorrentIsWhole
    BY <1>2 DEF LeecherHasNoTorrents, TorrentIsWhole
  <2>. QED
    BY <2>1, <2>2, NoTorrentsStep, TypeCorrect, PTL DEF Spec
<1>. QED
  BY <1>1, <1>2

\* With hard links, or for one request at a time, nothing clashes: a seeder seeds
\* nothing but whole layers through any errors, crashes, restarts and bad chunks.
THEOREM LoneTorrentsAreWhole ==
  ASSUME UseHardlink \/ \A c, d \in Calls : c = d
  PROVE  Spec => []EveryTorrentIsWhole
<1>1. Init => clashed = {}
  BY DEF Init
<1>2. clashed = {} /\ [Next]_vars => (clashed = {})'
  <2> SUFFICES ASSUME clashed = {}, [Next]_vars PROVE clashed' = {}
    OBVIOUS
  <2>1. ASSUME NEW c \in Calls, CreateLayer(c) PROVE clashed' = {}
    <3>1. \A at : ~Overlaps(c, at)
      BY <2>1 DEF CreateLayer, Overlaps
    <3>. QED
      BY <2>1, <3>1 DEF CreateLayer
  <2>. QED
    BY <2>1 DEF Next, Download, StartDownload, SkipLayer, MissLayer, CopyLayer,
       LinkLayer, FillLayer, Seed, StartLeecher, Return, CopyToLayout, LinkToLayout,
       PutConfig, PutManifest, CheckReference, WriteReference, Stop, StopDownload,
       StopLayer, DeleteLayer, Fail, Crash, EngineStep, vars
<1>3. clashed = {} /\ TorrentIsWhole => EveryTorrentIsWhole
  BY DEF TorrentIsWhole, EveryTorrentIsWhole
<1>. QED
  BY <1>1, <1>2, <1>3, TorrentsAreWhole, PTL DEF Spec

\* The layouts of a seeder that links are whole too.
THEOREM LinkedLayoutIsWhole ==
  ASSUME BtSeeder, UseHardlink
  PROVE  Spec => []LayoutIsWhole
<1>1. WholeSeedInv => LayoutIsWhole
  <2> SUFFICES ASSUME WholeSeedInv, NEW s \in Spots PROVE Content(s) \in {None, Whole}
    BY DEF LayoutIsWhole
  <2>1. s[2] \in Ids
    BY DEF Spots
  <2>. QED
    BY <2>1 DEF WholeSeedInv, LinksAreWhole, Content
<1>2. Spec => []WholeSeedInv
  BY SeedInvariant
<1>. QED
  BY <1>1, <1>2, PTL

-----------------------------------------------------------------------------
(* Links and downloads *)

\* A seeder that has the torrent of the layer has none that would spoil it.  One
\* seeder keeps to one torrent of an id (TorrentsAreKept).
OffersAgree ==
    \A id \in Ids : Whole \in Offered[id] => Offered[id] \subseteq {Whole, Prefix}

FetchInv == WholeSeedInv /\ LeecherHasNoTorrents /\ FetchIsOffered /\ FetchIsNeeded

LEMMA SpoiledGrows == [Next]_vars => spoiled \subseteq spoiled'
  BY DEF Next, Download, StartDownload, SkipLayer, MissLayer, CopyLayer, LinkLayer,
     CreateLayer, FillLayer, Seed, StartLeecher, Return, CopyToLayout, LinkToLayout,
     PutConfig, PutManifest, CheckReference, WriteReference, Stop, StopDownload,
     StopLayer, DeleteLayer, Fail, Crash, EngineStep, vars

LEMMA StragglersAreSpoiled ==
  ASSUME FetchInv, [Next]_vars
  PROVE  straggler' \subseteq spoiled'
<1>1. straggler \subseteq spoiled
  BY DEF FetchInv, FetchIsNeeded
<1>2. straggler' \subseteq straggler => straggler' \subseteq spoiled'
  BY <1>1, SpoiledGrows
<1>3. ASSUME NEW c \in Calls, Download(c) \/ Fail(c) PROVE straggler' = straggler
  BY <1>3 DEF Download, StartDownload, SkipLayer, MissLayer, CopyLayer, LinkLayer,
     CreateLayer, FillLayer, Seed, StartLeecher, Return, CopyToLayout, LinkToLayout,
     PutConfig, PutManifest, CheckReference, WriteReference, Fail, engine,
     Engine!WriteLayer, Engine!StartSeed, Engine!StartSeedTorn, Engine!StartLeecher,
     Engine!Return
<1>4. ASSUME NEW c \in Calls, Stop(c) PROVE straggler' \subseteq spoiled'
  <2>1. CASE StopLayer(c)
    BY <1>1, <2>1 DEF StopLayer
  <2>2. CASE ~StopLayer(c)
    BY <1>2, <1>4, <2>2 DEF Stop, StopDownload, DeleteLayer, engine, Engine!DeleteTorrent
  <2>. QED
    BY <2>1, <2>2
<1>5. CASE Crash
  BY <1>5 DEF Crash, Engine!Crash, Engine!CrashInStartSeed, Engine!CrashInDelete,
              Engine!LoseMemory
<1>6. CASE EngineStep
  BY <1>2, <1>6 DEF EngineStep, Engine!RunBegin, Engine!RunEnd, Engine!Work,
     Engine!RunSeed, Engine!HashPiece, Engine!WriteChunk, Engine!StragglerWrite,
     Engine!StragglerFails
<1>7. CASE UNCHANGED vars
  BY <1>2, <1>7 DEF vars, engine
<1>. QED
  BY <1>2, <1>3, <1>4, <1>5, <1>6, <1>7 DEF Next

\* What a leecher fetches is offered, however it got to its entry.
LEMMA FetchIsOfferedStep ==
  ASSUME FetchInv, [Next]_vars
  PROVE  FetchIsOffered'
<1> SUFFICES ASSUME ~BtSeeder, NEW id \in Ids
             PROVE  /\ entry'[id] # None => entry'[id].v \in Offered[id]
                    /\ UseHardlink /\ id \notin spoiled' =>
                         layer'[id] \in Offered[id] \cup {None, Junk}
  BY DEF FetchIsOffered
<1> DEFINE Entered == entry[id] # None => entry[id].v \in Offered[id]
           Held == UseHardlink /\ id \notin spoiled =>
                     layer[id] \in Offered[id] \cup {None, Junk}
<1>1. /\ TypeOK
      /\ entry \in [Ids -> Entry \cup {None}]
      /\ layer \in [Ids -> Versions \cup {None, Junk}]
      /\ \A j \in Ids : entry[j] # None => entry[j] \in Entry
      /\ id \in straggler => id \in spoiled
      /\ torrentFile[id] \notin Versions
      /\ Entered /\ Held
  BY ContentAssumption
     DEF FetchInv, WholeSeedInv, TypeOK, LeecherHasNoTorrents, FetchIsOffered,
         FetchIsNeeded
<1>2. layer'[id] \in {layer[id], None} => Held'
  BY <1>1, SpoiledGrows
<1>3. ASSUME NEW j \in Ids, NEW t, t \in Engine!Stage,
             entry[j] # None, entry' = [entry EXCEPT ![j].stage = t]
      PROVE  Entered'
  BY <1>1, <1>3 DEF Entry
<1>4. ASSUME NEW c \in Calls, Download(c) \/ Stop(c) \/ Fail(c) PROVE Entered' /\ Held'
  <2>1. CASE StartLeecher(c)
    <3>1. PICK j \in Ids : j = Layer(c)
      BY <1>1, <2>1, RequestPoints DEF StartLeecher, At
    <3>2. UNCHANGED layer
      BY <2>1 DEF StartLeecher, Engine!StartLeecher, Engine!disk, engine
    <3>3. \/ UNCHANGED entry
          \/ \E v \in Offered[j] : entry' = [entry EXCEPT ![j] = [v |-> v, stage |-> "queued"]]
      BY <2>1, <3>1 DEF StartLeecher, Engine!StartLeecher, Engine!Start, engine
    <3>. QED
      BY <1>1, <1>2, <3>2, <3>3
  <2>2. CASE StopLayer(c)
    <3>1. Layer(c) \in Ids
      BY <1>1, <2>2, RequestPoints DEF StopLayer, At
    <3>2. CASE UNCHANGED engine
      BY <1>1, <1>2, <3>2 DEF engine
    <3>3. CASE Engine!StopTorrent(Layer(c))
      BY <1>1, <1>2, <1>3, <3>1, <3>3
         DEF Engine!StopTorrent, Engine!Started, Engine!Stage, Engine!disk
    <3>. QED
      BY <2>2, <3>2, <3>3 DEF StopLayer
  <2>3. CASE DeleteLayer(c)
    <3>1. Layer(c) \in Ids
      BY <1>1, <2>3, RequestPoints DEF DeleteLayer, At
    <3>. QED
      BY <1>1, <1>2, <2>3, <3>1 DEF DeleteLayer, Engine!DeleteTorrent, Engine!disk, engine
  <2>4. CASE FillLayer(c)
    <3>1. ~UseHardlink /\ UNCHANGED entry
      BY <2>4 DEF FillLayer, FetchInv, WholeSeedInv, BlobsAreCopies
    <3>. QED
      BY <1>1, <3>1
  <2>5. ~LinkLayer(c) /\ ~CreateLayer(c)
    BY DEF LinkLayer, CreateLayer, Engine!WriteLayer
  <2>6. UNCHANGED <<entry, layer>> \/ FillLayer(c) \/ DeleteLayer(c) \/ StopLayer(c)
        \/ StartLeecher(c)
    BY <1>4, <2>5
       DEF Download, StartDownload, SkipLayer, MissLayer, CopyLayer, Seed, Return,
           CopyToLayout, LinkToLayout, PutConfig, PutManifest, CheckReference,
           WriteReference, Stop, StopDownload, Fail, engine, Engine!disk, Engine!StartSeed,
           Engine!StartSeedTorn, Engine!Return
  <2>. QED
    BY <1>1, <1>2, <2>1, <2>2, <2>3, <2>4, <2>6
<1>5. CASE Crash
  <2>1. entry' = [j \in Ids |-> None]
    BY <1>5 DEF Crash, Engine!Crash, Engine!CrashInStartSeed, Engine!CrashInDelete,
                Engine!LoseMemory
  <2>2. layer'[id] \in {layer[id], None}
    BY <1>1, <1>5 DEF Crash, Engine!Crash, Engine!CrashInStartSeed,
                      Engine!CrashInDelete, Engine!disk
  <2>. QED
    BY <1>2, <2>1, <2>2
<1>6. CASE EngineStep
  <2>1. CASE Engine!RunBegin \/ Engine!RunEnd \/ \E j \in Ids : Engine!StragglerFails(j)
    BY <1>1, <1>2, <2>1 DEF Engine!RunBegin, Engine!RunEnd, Engine!StragglerFails, Engine!disk
  <2>2. ASSUME NEW j \in Ids, Engine!RunSeed(j) PROVE Entered' /\ Held'
    BY <1>1, <1>2, <2>2 DEF Engine!RunSeed, Engine!Start, Engine!disk
  <2>3. ASSUME NEW j \in Ids, Engine!HashPiece(j) PROVE Entered' /\ Held'
    BY <1>1, <1>2, <1>3, <2>3
       DEF Engine!HashPiece, Engine!Started, Engine!Stage, Engine!disk
  <2>4. ASSUME NEW j \in Ids, NEW content \in Versions \cup {Junk},
               Engine!WriteChunk(j, content)
        PROVE  Entered' /\ Held'
    <3>1. /\ entry[j] # None /\ content \in {entry[j].v, Junk}
          /\ entry' = [entry EXCEPT ![j].stage = "dirty"]
          /\ layer' = [layer EXCEPT ![j] = Engine!Overwritten(j, content)]
      BY <2>4 DEF Engine!WriteChunk, Engine!Started
    <3>2. Entered'
      BY <1>3, <3>1 DEF Engine!Stage
    <3>3. layer'[id] = layer[id] \/ layer'[id] \in Offered[id] \cup {Junk}
      BY <1>1, <3>1 DEF Engine!Overwritten
    <3>. QED
      BY <1>2, <3>2, <3>3
  <2>5. ASSUME NEW j \in Ids, NEW content \in Versions \cup {Junk},
               Engine!StragglerWrite(j, content)
        PROVE  Entered' /\ Held'
    BY <1>1, <1>2, <2>5, SpoiledGrows DEF Engine!StragglerWrite
  <2>. QED
    BY <1>6, <2>1, <2>2, <2>3, <2>4, <2>5 DEF EngineStep, Engine!Work
<1>7. CASE UNCHANGED vars
  BY <1>1, <1>2, <1>7 DEF vars, engine
<1>. QED
  BY <1>4, <1>5, <1>6, <1>7 DEF Next

\* With hard links, a file that is whole has whatever an unspoiled torrent of it
\* wants.
LEMMA WholeIsHeld ==
  ASSUME UseHardlink, OffersAgree, FetchInv, NEW id \in Ids, id \notin spoiled,
         entry[id] # None, layer[id] = Whole
  PROVE  Engine!Holds(id, entry[id].v)
<1>1. Whole \in Versions \ {Junk} /\ Whole # None
  BY ContentAssumption
<1>2. CASE BtSeeder
  <2>1. torrentFile[id] = entry[id].v /\ torrentFile[id] \in {None, Torn, Whole}
    BY <1>2 DEF FetchInv, WholeSeedInv, SeederOnlySeeds, SeedIsWhole, TorrentIsWhole,
                BlobsAreCopies
  <2>2. entry[id].v \in Versions
    BY DEF FetchInv, WholeSeedInv, TypeOK, Entry
  <2>. QED
    BY <2>1, <2>2, ContentAssumption DEF Engine!Holds
<1>3. CASE ~BtSeeder
  <2>1. Whole \in Offered[id] /\ entry[id].v \in Offered[id]
    BY <1>1, <1>3 DEF FetchInv, FetchIsOffered
  <2>. QED
    BY <1>1, <2>1 DEF OffersAgree, Engine!Holds
<1>. QED
  BY <1>2, <1>3

\* How the layer file and the stage of an unspoiled id change, with hard links:
\* the file that is whole stays so or is removed, and the torrent of a file that
\* is whole does not come to miss a piece.
LEMMA LinkedChanges ==
  ASSUME UseHardlink, OffersAgree, FetchInv, [Next]_vars,
         NEW id \in Ids, id \notin spoiled
  PROVE  /\ layer[id] = Whole /\ layer'[id] # Whole =>
              layer'[id] = None /\ (Crash \/ \E c \in Calls : DeleteLayer(c))
         /\ layer'[id] = Whole /\ entry'[id] # None => entry'[id].stage # "missing"
<1> DEFINE Missing == entry[id] # None /\ entry[id].stage = "missing"
<1>1. /\ entry \in [Ids -> Entry \cup {None}]
      /\ layer \in [Ids -> Versions \cup {None, Junk}]
      /\ id \notin straggler
      /\ Missing => layer[id] # Whole
      /\ BtSeeder => /\ straggler = {}
                     /\ \A j \in Ids : entry[j] # None => layer[j] # None
      /\ \A j \in Ids : entry[j] # None => entry[j] \in Entry
  BY DEF FetchInv, WholeSeedInv, TypeOK, FetchIsNeeded, SeederOnlySeeds
<1>2. ASSUME layer'[id] = layer[id], Missing' => Missing
      PROVE  /\ layer[id] = Whole => layer'[id] = Whole
             /\ layer'[id] = Whole /\ entry'[id] # None => entry'[id].stage # "missing"
  BY <1>1, <1>2
<1>3. ASSUME NEW j \in Ids, NEW v \in Versions, Engine!Start(j, v)
      PROVE  Missing' => Missing
  BY <1>1, <1>3 DEF Engine!Start
<1>4. ASSUME NEW c \in Calls, Download(c) \/ Fail(c), ~LinkLayer(c)
      PROVE  layer'[id] = layer[id] /\ (Missing' => Missing)
  <2>1. ~CreateLayer(c) /\ ~FillLayer(c)
    BY DEF CreateLayer, FillLayer, FetchInv, WholeSeedInv, BlobsAreCopies
  <2>2. CASE Seed(c)
    <3>1. PICK j \in Ids : j = Layer(c)
      BY <2>2, RequestPoints DEF FetchInv, WholeSeedInv, Seed, At
    <3>2. CASE Engine!StartSeed(j)
      BY <1>3, <3>2 DEF Engine!StartSeed
    <3>. QED
      BY <2>2, <3>1, <3>2 DEF Seed, engine, Engine!StartSeedTorn
  <2>3. CASE StartLeecher(c)
    <3>1. PICK j \in Ids : j = Layer(c)
      BY <2>3, RequestPoints DEF FetchInv, WholeSeedInv, StartLeecher, At
    <3>2. ASSUME NEW v \in Offered[j], NEW p, Engine!StartLeecher(j, v, p)
          PROVE  layer'[id] = layer[id] /\ (Missing' => Missing)
      BY <1>3, <3>2, ContentAssumption DEF Engine!StartLeecher, Engine!disk
    <3>. QED
      BY <2>3, <3>1, <3>2 DEF StartLeecher, engine
  <2>4. CASE ~Seed(c) /\ ~StartLeecher(c)
    BY <1>4, <2>1, <2>4 DEF Download, StartDownload, SkipLayer, MissLayer, CopyLayer,
       Return, CopyToLayout, LinkToLayout, PutConfig, PutManifest, CheckReference,
       WriteReference, Fail, engine, Engine!Return, Engine!disk
  <2>. QED
    BY <2>2, <2>3, <2>4
<1>5. ASSUME NEW c \in Calls, LinkLayer(c)
      PROVE  /\ layer[id] = Whole => layer'[id] = Whole
             /\ layer'[id] = Whole /\ entry'[id] # None => entry'[id].stage # "missing"
  <2>1. /\ BtSeeder /\ layer[Layer(c)] = None /\ UNCHANGED entry
        /\ layer' = [layer EXCEPT ![Layer(c)] = Whole]
    BY <1>5 DEF LinkLayer, Engine!WriteLayer
  <2>. QED
    BY <1>1, <2>1, ContentAssumption
<1>6. ASSUME NEW c \in Calls, Stop(c), ~DeleteLayer(c)
      PROVE  layer'[id] = layer[id] /\ (Missing' => Missing)
  <2>1. CASE \E name \in Names, clean \in BOOLEAN : StopDownload(c, name, clean)
    BY <2>1 DEF StopDownload, engine
  <2>2. CASE StopLayer(c)
    <3>1. PICK j \in Ids : j = Layer(c)
      BY <2>2, RequestPoints DEF FetchInv, WholeSeedInv, StopLayer, At
    <3>2. CASE Engine!StopTorrent(j)
      <4>1. /\ entry[j] \in Entry
            /\ entry' = [entry EXCEPT ![j].stage = "stopped"] /\ UNCHANGED layer
        BY <1>1, <3>2 DEF Engine!StopTorrent, Engine!Started, Engine!disk
      <4>2. entry'[j].stage = "stopped"
        BY <1>1, <4>1 DEF Entry
      <4>. QED
        BY <1>1, <4>1, <4>2
    <3>. QED
      BY <2>2, <3>1, <3>2 DEF StopLayer, engine
  <2>. QED
    BY <1>6, <2>1, <2>2 DEF Stop
<1>7. ASSUME NEW j \in Ids, Engine!DeleteTorrent(j)
      PROVE  layer'[id] \in {layer[id], None} /\ (Missing' => Missing)
  BY <1>1, <1>7 DEF Engine!DeleteTorrent, Engine!disk
<1>8. ASSUME NEW c \in Calls, DeleteLayer(c)
      PROVE  layer'[id] \in {layer[id], None} /\ (Missing' => Missing)
  <2>1. Layer(c) \in Ids
    BY <1>8, RequestPoints DEF FetchInv, WholeSeedInv, DeleteLayer, At
  <2>. QED
    BY <1>7, <1>8, <2>1 DEF DeleteLayer, engine
<1>9. CASE Crash
  <2>1. entry' = [j \in Ids |-> None]
    BY <1>9 DEF Crash, Engine!Crash, Engine!CrashInStartSeed, Engine!CrashInDelete,
                Engine!LoseMemory
  <2>2. layer'[id] \in {layer[id], None}
    BY <1>1, <1>9 DEF Crash, Engine!Crash, Engine!CrashInStartSeed,
                      Engine!CrashInDelete, Engine!disk
  <2>. QED
    BY <1>9, <2>1, <2>2, ContentAssumption
<1>10. CASE EngineStep
  <2>1. CASE Engine!RunBegin \/ Engine!RunEnd \/ \E j \in Ids : Engine!StragglerFails(j)
    BY <1>2, <2>1, ContentAssumption
       DEF Engine!RunBegin, Engine!RunEnd, Engine!StragglerFails, Engine!disk
  <2>2. ASSUME NEW j \in Ids, Engine!RunSeed(j)
        PROVE  layer'[id] = layer[id] /\ (Missing' => Missing)
    BY <1>3, <2>2 DEF Engine!RunSeed, Engine!disk
  <2>3. ASSUME NEW j \in Ids, Engine!HashPiece(j)
        PROVE  /\ layer'[id] = layer[id]
               /\ layer[id] = Whole /\ entry'[id] # None =>
                    entry'[id].stage # "missing"
    <3>1. /\ UNCHANGED layer /\ entry[j] \in Entry
          /\ entry' = [entry EXCEPT ![j].stage =
                         IF Engine!Holds(j, entry[j].v) THEN "complete" ELSE "missing"]
      BY <1>1, <2>3 DEF Engine!HashPiece, Engine!Started, Engine!disk
    <3>2. j = id /\ layer[j] = Whole => Engine!Holds(j, entry[j].v)
      BY <2>3, WholeIsHeld DEF Engine!HashPiece, Engine!Started
    <3>3. j = id /\ layer[j] = Whole => entry'[j].stage = "complete"
      BY <1>1, <3>1, <3>2 DEF Entry
    <3>. QED
      BY <1>1, <3>1, <3>3
  <2>4. ASSUME NEW j \in Ids, NEW content \in Versions \cup {Junk},
               Engine!WriteChunk(j, content)
        PROVE  /\ layer[id] = Whole => layer'[id] = Whole
               /\ Missing' => Missing /\ layer'[id] = layer[id]
    <3>1. /\ entry[j] \in Entry /\ entry[j].stage = "missing"
          /\ entry' = [entry EXCEPT ![j].stage = "dirty"]
          /\ layer' = [layer EXCEPT ![j] = Engine!Overwritten(j, content)]
      BY <1>1, <2>4 DEF Engine!WriteChunk, Engine!Started
    <3>2. entry'[j].stage = "dirty"
      BY <1>1, <3>1 DEF Entry, Engine!Stage
    <3>. QED
      BY <1>1, <3>1, <3>2, RecordAssumption
  <2>5. ASSUME NEW j \in Ids, NEW content \in Versions \cup {Junk},
               Engine!StragglerWrite(j, content)
        PROVE  layer'[id] = layer[id] /\ UNCHANGED entry
    BY <1>1, <2>5 DEF Engine!StragglerWrite
  <2>. QED
    BY <1>1, <1>2, <1>10, <2>1, <2>2, <2>3, <2>4, <2>5, ContentAssumption
       DEF EngineStep, Engine!Work
<1>11. CASE UNCHANGED vars
  BY <1>2, <1>11, ContentAssumption DEF vars, engine
<1>. QED
  BY <1>1, <1>2, <1>4, <1>5, <1>6, <1>8, <1>9, <1>10, <1>11, ContentAssumption DEF Next

LEMMA FetchInvStep ==
  ASSUME OffersAgree, FetchInv, [Next]_vars
  PROVE  FetchInv'
<1>1. WholeSeedInv'
  <2>1. TypeOK' /\ SeederOnlySeeds' /\ BlobsAreCopies'
    BY TypeStep, SeederOnlySeedsStep, CopiesStep DEF FetchInv, WholeSeedInv
  <2>2. ~BtSeeder => JunkHasTorrent' /\ SeedIsWhole' /\ LinksAreWhole'
    BY DEF JunkHasTorrent, SeedIsWhole, LinksAreWhole
  <2>. QED
    BY <2>1, <2>2, WholeSeedInvStep DEF FetchInv, WholeSeedInv
<1>2. UseHardlink => \A id \in Ids \ spoiled' :
        entry'[id] # None /\ entry'[id].stage = "missing" => layer'[id] # Whole
  BY SpoiledGrows, LinkedChanges
<1>3. LeecherHasNoTorrents'
  BY NoTorrentsStep DEF FetchInv, WholeSeedInv
<1>. QED
  BY <1>1, <1>2, <1>3, FetchIsOfferedStep, StragglersAreSpoiled DEF FetchInv, FetchIsNeeded

\* A blob that is whole stays whole: a download that links its file writes only
\* to files that are not, and removing a file leaves the link its content.
THEOREM WholeBlobsStay ==
  ASSUME OffersAgree
  PROVE  Spec => WholeStaysWhole
<1>1. Init => FetchInv
  <2>1. Init => TypeOK
    BY DEF Init, Engine!Init, TypeOK
  <2>2. Init => /\ SeederOnlySeeds /\ BlobsAreCopies
                /\ JunkHasTorrent /\ SeedIsWhole /\ LinksAreWhole
                /\ LeecherHasNoTorrents /\ FetchIsOffered /\ FetchIsNeeded
    BY ContentAssumption
       DEF Init, Engine!Init, SeederOnlySeeds, BlobsAreCopies, JunkHasTorrent,
           SeedIsWhole, TorrentIsWhole, LinksAreWhole, LeecherHasNoTorrents,
           FetchIsOffered, FetchIsNeeded, At
  <2>. QED
    BY <2>1, <2>2 DEF FetchInv, WholeSeedInv
<1>2. FetchInv /\ [Next]_vars => FetchInv'
  BY FetchInvStep
<1>3. FetchInv /\ [Next]_vars =>
        [\A s \in Spots :
           Content(s) = Whole /\ s[2] \notin spoiled => Content(s)' = Whole]_vars
  <2> SUFFICES ASSUME FetchInv, [Next]_vars,
                      NEW s \in Spots, Content(s) = Whole, s[2] \notin spoiled
               PROVE  Content(s)' = Whole
    OBVIOUS
  <2>1. /\ s[2] \in Ids
        /\ blobs \in [Spots -> Versions \cup {None, Junk, Linked}]
        /\ blobs[s] = Whole \/ (blobs[s] = Linked /\ layer[s[2]] = Whole /\ UseHardlink)
    BY ContentAssumption DEF FetchInv, WholeSeedInv, TypeOK, BlobsAreCopies, Content, Spots
  <2>2. ASSUME blobs'[s] = blobs[s], layer'[s[2]] = Whole \/ blobs[s] = Whole
        PROVE  Content(s)' = Whole
    BY <2>1, <2>2, ContentAssumption DEF Content
  <2>3. ASSUME NEW id \in Ids, KeepLinked(id),
               layer'[s[2]] = Whole \/ (s[2] = id /\ layer'[id] = None) \/ blobs[s] = Whole
        PROVE  Content(s)' = Whole
    <3>1. blobs'[s] = IF s[2] = id /\ layer'[id] = None THEN Whole ELSE blobs[s]
      BY <2>3 DEF KeepLinked
    <3>. QED
      BY <2>1, <2>3, <3>1, ContentAssumption DEF Content
  <2>4. CASE blobs'[s] = blobs[s]
    <3>1. CASE blobs[s] = Whole
      BY <2>2, <2>4, <3>1
    <3>2. CASE blobs[s] = Linked /\ layer'[s[2]] = Whole
      BY <2>2, <2>4, <3>2
    <3>3. CASE blobs[s] = Linked /\ layer'[s[2]] # Whole
      <4>1. layer'[s[2]] = None /\ (Crash \/ \E c \in Calls : DeleteLayer(c))
        BY <2>1, <3>3, LinkedChanges, ContentAssumption
      <4>2. layer[s[2]] # layer'[s[2]]
        BY <2>1, <3>3, ContentAssumption
      <4>3. PICK c \in Calls : At(c, "delete") /\ KeepLinked(Layer(c))
                               /\ (s[2] # Layer(c) => layer'[s[2]] = layer[s[2]])
        <5>1. layer \in [Ids -> Versions \cup {None, Junk}]
          BY DEF FetchInv, WholeSeedInv, TypeOK
        <5>2. ASSUME NEW c \in Calls, DeleteLayer(c)
              PROVE  /\ At(c, "delete") /\ KeepLinked(Layer(c))
                     /\ s[2] # Layer(c) => layer'[s[2]] = layer[s[2]]
          BY <2>1, <4>2, <5>1, <5>2
             DEF DeleteLayer, Engine!DeleteTorrent, Engine!disk, engine
        <5>3. ASSUME Crash
              PROVE  \E c \in Calls :
                       /\ At(c, "delete") /\ KeepLinked(Layer(c))
                       /\ s[2] # Layer(c) => layer'[s[2]] = layer[s[2]]
          BY <2>1, <4>2, <5>1, <5>3
             DEF Crash, Engine!Crash, Engine!CrashInStartSeed, Engine!CrashInDelete,
                 Engine!disk
        <5>. QED
          BY <4>1, <5>2, <5>3
      <4>4. Layer(c) \in Ids
        BY <4>3, RequestPoints DEF At, FetchInv, WholeSeedInv
      <4>. QED
        BY <2>3, <4>1, <4>2, <4>3, <4>4
    <3>. QED
      BY <2>1, <3>1, <3>2, <3>3
  <2>5. CASE blobs'[s] # blobs[s]
    <3>1. ASSUME NEW c \in Calls, Download(c) PROVE Content(s)' = Whole
      <4>1. CASE CopyLayer(c) \/ CopyToLayout(c)
        <5>1. blobs'[s] = Whole
          BY <2>1, <2>5, <4>1 DEF CopyLayer, CopyToLayout
        <5>. QED
          BY <5>1, ContentAssumption DEF Content
      <4>2. CASE LinkLayer(c)
        <5>1. s = Spot(c) /\ blobs'[s] = Linked /\ Layer(c) \in Ids /\ s[2] = Layer(c)
          BY <2>1, <2>5, <4>2, RequestPoints DEF LinkLayer, At, FetchInv, WholeSeedInv
        <5>2. layer'[s[2]] = Whole
          BY <4>2, <5>1 DEF LinkLayer, Engine!WriteLayer, FetchInv, WholeSeedInv, TypeOK
        <5>. QED
          BY <5>1, <5>2 DEF Content
      <4>3. CASE LinkToLayout(c)
        BY <2>1, <2>5, <4>3, ContentAssumption DEF LinkToLayout
      <4>. QED
        BY <2>5, <3>1, <4>1, <4>2, <4>3
           DEF Download, StartDownload, SkipLayer, MissLayer, CreateLayer, FillLayer,
               Seed, StartLeecher, Return, PutConfig, PutManifest, CheckReference,
               WriteReference, layout
    <3>2. ASSUME NEW c \in Calls, At(c, "delete"), KeepLinked(Layer(c))
          PROVE  Content(s)' = Whole
      <4>1. Layer(c) \in Ids
        BY <3>2, RequestPoints DEF At, FetchInv, WholeSeedInv
      <4>2. s[2] = Layer(c) /\ layer'[Layer(c)] = None
        BY <2>5, <3>2 DEF KeepLinked
      <4>. QED
        BY <2>3, <3>2, <4>1, <4>2
    <3>. QED
      BY <2>5, <3>1, <3>2
         DEF Next, Stop, StopDownload, StopLayer, DeleteLayer, Fail, Crash, EngineStep,
             vars, layout
  <2>. QED
    BY <2>4, <2>5
<1>. QED
  BY <1>1, <1>2, <1>3, PTL DEF Spec, WholeStaysWhole
=============================================================================
