-------------------------- MODULE DaemonStoreProofs ---------------------------
(***************************************************************************)
(* Proofs that a daemon implements what its clients, the readers of its    *)
(* layouts and its engine see of it.                                       *)
(***************************************************************************)
EXTENDS DaemonSeedProofs

-----------------------------------------------------------------------------
(* A seeder keeps its torrents *)

\* A torrent that a seeder has made it keeps: no error, crash, start or other
\* request replaces it, so all leechers of a layer get the same torrent.
THEOREM TorrentsAreKept == Spec => TorrentIsKept
<1> DEFINE Inv == TypeOK /\ SeederOnlySeeds
<1>1. Init => Inv
  BY DEF Init, Engine!Init, TypeOK, SeederOnlySeeds
<1>2. Inv /\ [Next]_vars => Inv'
  BY TypeStep, SeederOnlySeedsStep
<1>3. Inv /\ [Next]_vars =>
        [BtSeeder => \A id \in Ids :
           torrentFile[id] \in Versions => torrentFile'[id] = torrentFile[id]]_vars
  BY SeederKeepsStep DEF SeederKeeps
<1>. QED
  BY <1>1, <1>2, <1>3, PTL DEF Spec, TorrentIsKept

-----------------------------------------------------------------------------
(* The image store *)

Held == {s \in Spots : blobs[s] # None} \cup stored
LayersOf == [i \in Images |-> {<<Name[i][1], Layers[i][k]>> : k \in DOMAIN Layers[i]}]
DocsOf == [i \in Images |-> {<<Name[i][1], i, doc>> : doc \in Documents}]

\* The blob and the documents of a request are blobs of its image.
LEMMA BlobsOfRequest ==
  ASSUME TypeOK, NEW c \in Calls, req[c] # None
  PROVE  /\ Spot(c) \in Store!Blobs
         /\ \A doc \in Documents : Document(c, doc) \in Store!Blobs
<1>1. /\ Img(c) \in Images
      /\ req[c].k \in DOMAIN Layers[Img(c)]
  BY RequestPoints, LenProperties
<1>2. Spot(c) \in LayersOf[Img(c)]
  BY <1>1 DEF Spot, Layer, LayersOf
<1>3. \A doc \in Documents : Document(c, doc) \in DocsOf[Img(c)]
  BY <1>1 DEF Document, DocsOf
<1>. QED
  BY <1>1, <1>2, <1>3 DEF Store!Blobs, LayersOf, DocsOf

\* What HasLayers says of all layers is what the store wants of an image.
LEMMA AllLayersAreHeld ==
  ASSUME TypeOK, NEW img \in Images, HasLayers(img, Len(Layers[img]))
  PROVE  LayersOf[img] \subseteq Held
<1>1. Layers[img] \in Seq(Ids) /\ Name[img][1] \in Repos
  BY ImageAssumption
<1>2. ASSUME NEW k \in DOMAIN Layers[img]
      PROVE  <<Name[img][1], Layers[img][k]>> \in Held
  <2>1. k \in 1..Len(Layers[img]) /\ Layers[img][k] \in Ids
    BY <1>1, LenProperties, ElementOfSeq
  <2>. QED
    BY <1>1, <2>1 DEF HasLayers, Held, Spots
<1>. QED
  BY <1>2 DEF LayersOf

\* The end of a loop's body reports the image only on a seeder that has it all.
LEMMA LayerDoneReports ==
  ASSUME TypeOK, NEW c \in Calls, req[c] # None, LayerDone(c), UNCHANGED refs,
         HasLayers(Img(c), req[c].k), Held' = Held
  PROVE  [Store!Next]_(Store!vars)
<1>1. /\ Img(c) \in Images
      /\ req[c].k \in 1..Len(Layers[Img(c)]) /\ Len(Layers[Img(c)]) \in Nat
  BY RequestPoints
<1>2. CASE UNCHANGED done
  BY <1>2 DEF Store!vars, Held
<1>3. CASE ~MoreLayers(c) /\ BtSeeder /\ Succeed(c)
  <2>1. req[c].k = Len(Layers[Img(c)])
    BY <1>1, <1>3 DEF MoreLayers
  <2>2. LayersOf[Img(c)] \subseteq Held
    BY <1>1, <2>1, AllLayersAreHeld
  <2>3. Store!Report(Img(c))
    BY <1>3, <2>2 DEF Store!Report, LayersOf, Held, Succeed
  <2>. QED
    BY <1>1, <2>3 DEF Store!Next
<1>. QED
  BY <1>2, <1>3 DEF LayerDone

\* A step of a download, but for its last, stores a blob or nothing.
LEMMA StoresOne ==
  ASSUME TypeOK, NEW b \in Store!Blobs, Held' \in {Held, Held \cup {b}},
         UNCHANGED <<refs, done>>
  PROVE  [Store!Next]_(Store!vars)
<1>1. CASE Held' = Held
  BY <1>1 DEF Store!vars, Held
<1>2. CASE Held' = Held \cup {b}
  <2>1. Store!Store(b)
    BY <1>2 DEF Store!Store, Held
  <2>. QED
    BY <2>1 DEF Store!Next
<1>. QED
  BY <1>1, <1>2

LEMMA HeldStays ==
  ASSUME UNCHANGED <<blobs, stored>>
  PROVE  Held' = Held
BY DEF Held

LEMMA BlobIsHeld ==
  ASSUME TypeOK, NEW s \in Spots, NEW v, v # None, blobs' = [blobs EXCEPT ![s] = v],
         UNCHANGED stored
  PROVE  Held' = Held \cup {s}
<1>1. \A t \in Spots : blobs'[t] # None <=> blobs[t] # None \/ t = s
  BY DEF TypeOK
<1>. QED
  BY <1>1 DEF Held

LEMMA DeletedIsHeld ==
  ASSUME TypeOK, LinkedHasFile, NEW id \in Ids, KeepLinked(id), UNCHANGED stored,
         Engine!DeleteTorrent(id) \/ Engine!CrashInDelete(id)
  PROVE  Held' = Held
<1>1. \A j \in Ids \ {id} : layer'[j] = layer[j]
  BY DEF Engine!DeleteTorrent, Engine!CrashInDelete, Engine!disk, TypeOK
<1>2. \A s \in Spots : blobs[s] # None => blobs'[s] # None
  BY <1>1, KeepLinkedKeeps
<1>3. \A s \in Spots : blobs[s] = None => blobs'[s] = None
  BY ContentAssumption DEF KeepLinked, Content
<1>. QED
  BY <1>2, <1>3 DEF Held

LEMMA DownloadStores ==
  ASSUME IInv, SeederOnlySeeds, NEW c \in Calls, Download(c)
  PROVE  [Store!Next]_(Store!vars)
<1> USE DEF IInv
<1>1. CASE \/ \E img \in Images : StartDownload(c, img)
           \/ MissLayer(c) \/ CreateLayer(c) \/ FillLayer(c)
           \/ StartLeecher(c) \/ Return(c)
  <2>1. UNCHANGED <<blobs, stored, refs, done>>
    BY <1>1 DEF StartDownload, MissLayer, CreateLayer, FillLayer, StartLeecher, Return,
                layout
  <2>. QED
    BY <2>1 DEF Store!vars
<1>2. CASE SkipLayer(c) \/ Seed(c)
  <2>1. /\ req[c] # None /\ LayerDone(c)
        /\ UNCHANGED <<blobs, stored, refs>>
        /\ req[c].at \in {"exist", "seed"}
        /\ req[c].at = "exist" => blobs[Spot(c)] # None
    BY <1>2 DEF SkipLayer, Seed, At, layout
  <2>2. LeftBehind(c)
    BY <2>1 DEF Progress
  <2>3. Img(c) \in Images /\ req[c].k \in 1..Len(Layers[Img(c)])
        /\ Len(Layers[Img(c)]) \in Nat
    BY <2>1, RequestPoints
  <2>4. HasLayers(Img(c), req[c].k)
    BY <2>1, <2>2, <2>3 DEF LeftBehind, HasLayers, Spot, Layer
  <2>. QED
    BY <2>1, <2>4, HeldStays, LayerDoneReports
<1>3. CASE CopyLayer(c) \/ LinkLayer(c) \/ CopyToLayout(c) \/ LinkToLayout(c)
  <2>1. PICK v \in {Whole, Linked} :
          /\ blobs' = [blobs EXCEPT ![Spot(c)] = v]
          /\ req[c] # None
          /\ UNCHANGED <<stored, refs>>
    BY <1>3 DEF CopyLayer, LinkLayer, CopyToLayout, LinkToLayout, At
  <2>2. Spot(c) \in Spots /\ Spot(c) \in Store!Blobs /\ v # None
    BY <2>1, RequestPoints, BlobsOfRequest, ContentAssumption
  <2>3. UNCHANGED done
    BY <1>3, SeederSteps
       DEF CopyLayer, LinkLayer, CopyToLayout, LinkToLayout, LayerDone
  <2>. QED
    BY <2>1, <2>2, <2>3, BlobIsHeld, StoresOne
<1>4. CASE PutConfig(c) \/ PutManifest(c)
  <2>1. PICK doc \in Documents :
          /\ stored' \in {stored, stored \cup {Document(c, doc)}}
          /\ req[c] # None
          /\ UNCHANGED <<blobs, refs, done>>
    BY <1>4 DEF PutConfig, PutManifest, At, Documents
  <2>2. Held' \in {Held, Held \cup {Document(c, doc)}}
    BY <2>1 DEF Held
  <2>. QED
    BY <2>1, <2>2, BlobsOfRequest, StoresOne
<1>5. CASE CheckReference(c) \/ WriteReference(c)
  <2>1. CASE UNCHANGED done /\ CheckReference(c)
    BY <2>1 DEF CheckReference, Store!vars, layout
  <2>2. CASE done' # done \/ WriteReference(c)
    <3>1. /\ req[c] # None /\ req[c].at \in {"check", "write"}
          /\ UNCHANGED <<blobs, stored>>
          /\ done' = done \cup {Img(c)}
          /\ refs' = [refs EXCEPT ![Name[Img(c)]] = Img(c)]
      BY <1>5, <2>2 DEF CheckReference, WriteReference, Succeed, At, layout, TypeOK
    <3>2. Img(c) \in Images /\ LeftBehind(c) /\ ~BtSeeder
      BY <1>5, <3>1, RequestPoints, SeederSteps, RoleAssumption DEF Progress
    <3>3. LayersOf[Img(c)] \subseteq Held
      BY <3>1, <3>2, AllLayersAreHeld DEF LeftBehind
    <3>4. DocsOf[Img(c)] \subseteq Held
      BY <3>1, <3>2 DEF LeftBehind, DocsOf, Document, Documents, Held
    <3>5. Store!Publish(Img(c))
      BY <3>1, <3>2, <3>3, <3>4, HeldStays
         DEF Store!Publish, LayersOf, DocsOf, Held
    <3>. QED
      BY <3>2, <3>5 DEF Store!Next
  <2>. QED
    BY <1>5, <2>1, <2>2
<1>. QED
  BY <1>1, <1>2, <1>3, <1>4, <1>5 DEF Download

LEMMA StoreStep ==
  ASSUME IInv, SeederOnlySeeds, [Next]_vars
  PROVE  [Store!Next]_(Store!vars)
<1> USE DEF IInv
<1>1. ASSUME Held' = Held, UNCHANGED <<refs, done>>
      PROVE  UNCHANGED Store!vars
  BY <1>1 DEF Store!vars, Held
<1>2. CASE UNCHANGED <<blobs, stored, refs, done>>
  BY <1>1, <1>2, HeldStays
<1>3. ASSUME NEW c \in Calls, Stop(c) PROVE UNCHANGED Store!vars
  <2>1. CASE DeleteLayer(c) /\ Engine!DeleteTorrent(Layer(c)) /\ KeepLinked(Layer(c))
    <3>1. Layer(c) \in Ids /\ UNCHANGED <<stored, refs, done>>
      BY <2>1, RequestPoints DEF DeleteLayer, At
    <3>. QED
      BY <1>1, <2>1, <3>1, DeletedIsHeld
  <2>2. CASE UNCHANGED <<blobs, stored, refs, done>>
    BY <1>1, <2>2, HeldStays
  <2>. QED
    BY <1>3, <2>1, <2>2
       DEF Stop, StopDownload, StopLayer, DeleteLayer, layout
<1>4. CASE Crash
  <2>1. UNCHANGED <<stored, refs, done>>
    BY <1>4 DEF Crash
  <2>2. CASE UNCHANGED blobs
    BY <1>1, <2>1, <2>2, HeldStays
  <2>3. ASSUME NEW c \in Calls, At(c, "delete"), Engine!CrashInDelete(Layer(c)),
               KeepLinked(Layer(c))
        PROVE  UNCHANGED Store!vars
    <3>1. Layer(c) \in Ids
      BY <2>3, RequestPoints DEF At
    <3>. QED
      BY <1>1, <2>1, <2>3, <3>1, DeletedIsHeld
  <2>. QED
    BY <1>4, <2>2, <2>3 DEF Crash
<1>5. CASE EngineStep \/ (\E c \in Calls : Fail(c)) \/ UNCHANGED vars
  BY <1>2, <1>5 DEF EngineStep, Fail, vars, layout
<1>. QED
  BY <1>3, <1>4, <1>5, DownloadStores DEF Next

\* To its clients a daemon is a store of images: its layouts lose nothing, a
\* reference appears when the image is there, and success means it is.
THEOREM DaemonImplementsImageStore == Spec => ImplementsImageStore
<1>1. Init => Store!Init
  <2> SUFFICES ASSUME Init PROVE Store!Init
    OBVIOUS
  <2>1. Held = {}
    BY DEF Init, Held
  <2>. QED
    BY <2>1 DEF Init, Store!Init, Held, Names
<1>2. Init => SeederOnlySeeds
  BY DEF Init, Engine!Init, SeederOnlySeeds
<1>3. IInv /\ SeederOnlySeeds /\ [Next]_vars => SeederOnlySeeds'
  BY SeederOnlySeedsStep DEF IInv
<1>4. IInv /\ SeederOnlySeeds /\ [Next]_vars => [Store!Next]_(Store!vars)
  BY StoreStep
<1>. QED
  BY <1>1, <1>2, <1>3, <1>4, RequestInvariant, PTL
     DEF Spec, ImplementsImageStore, Store!Spec

-----------------------------------------------------------------------------
(* The engine *)

\* Only a seeder has requests that seed.
LeecherSeedsNothing == ~BtSeeder => \A c \in Calls : ~Seeding(c)

LEMMA LeecherSeedsNothingStep ==
  ASSUME TypeOK, LeecherSeedsNothing, [Next]_vars
  PROVE  LeecherSeedsNothing'
<1> SUFFICES ASSUME ~BtSeeder, NEW c \in Calls, Seeding(c)' PROVE FALSE
  BY DEF LeecherSeedsNothing
<1>1. req'[c] # None /\ req'[c].at \in {"file", "fill", "seed"}
  BY DEF Seeding, At
<1>2. req'[c] # req[c] /\ (req[c] # None => req[c].at \notin {"file", "fill", "seed"})
  BY <1>1 DEF LeecherSeedsNothing, Seeding, At
<1>. QED
  BY <1>1, <1>2, StepsTo DEF CopyLayer, LinkLayer, CreateLayer, FillLayer, At

\* A step that writes a layer file, or a copy that ends, writes it for a seeder.
LEMMA FillIsWrite ==
  ASSUME TypeOK, CallsAreServed, LeecherSeedsNothing, NEW c \in Calls, FillLayer(c)
  PROVE  \/ UNCHANGED engine
         \/ \E id \in Ids, content \in Versions : Engine!WriteLayer(id, content)
<1>1. /\ req[c] # None /\ mode = "up" /\ BtSeeder /\ Layer(c) \in Ids
      /\ UNCHANGED <<mode, entry, torrentFile, straggler, polling, banned>>
  BY RequestPoints, RoleAssumption
     DEF FillLayer, At, CallsAreServed, LeecherSeedsNothing, Seeding
<1>2. PICK content \in {Whole, Holed, layer[Layer(c)]} :
        layer' = [layer EXCEPT ![Layer(c)] = content]
  <2>1. layer = [layer EXCEPT ![Layer(c)] = layer[Layer(c)]]
    BY <1>1 DEF TypeOK
  <2>. QED
    BY <2>1 DEF FillLayer
<1>3. CASE content = layer[Layer(c)]
  BY <1>1, <1>2, <1>3 DEF TypeOK, engine
<1>4. CASE content \in {Whole, Holed}
  BY <1>1, <1>2, <1>4, ContentAssumption DEF Engine!WriteLayer
<1>. QED
  BY <1>2, <1>3, <1>4

LEMMA EngineIsUsed ==
  ASSUME TypeOK, CallsAreServed, LeecherSeedsNothing, [Next]_vars
  PROVE  [Engine!Next]_(Engine!vars)
<1>1. CASE UNCHANGED engine
  BY <1>1 DEF engine, Engine!vars
<1>2. ASSUME NEW id \in Ids,
             Engine!Work(id) \/ Engine!Call(id)
               \/ \E content \in Versions : Engine!WriteLayer(id, content)
      PROVE  Engine!Next
  BY <1>2 DEF Engine!Next
<1>3. ASSUME NEW c \in Calls, Download(c) PROVE [Engine!Next]_(Engine!vars)
  <2>1. CASE \/ \E img \in Images : StartDownload(c, img)
             \/ SkipLayer(c) \/ MissLayer(c) \/ CopyLayer(c)
             \/ CopyToLayout(c) \/ LinkToLayout(c) \/ PutConfig(c) \/ PutManifest(c)
             \/ CheckReference(c) \/ WriteReference(c)
    BY <1>1, <2>1
       DEF StartDownload, SkipLayer, MissLayer, CopyLayer, CopyToLayout, LinkToLayout,
           PutConfig, PutManifest, CheckReference, WriteReference
  <2>2. CASE LinkLayer(c) \/ CreateLayer(c)
    <3>1. Layer(c) \in Ids /\ {Whole, Prefix, Holed} \subseteq Versions
      BY <2>2, RequestPoints, ContentAssumption DEF LinkLayer, CreateLayer, At
    <3>. QED
      BY <1>2, <2>2, <3>1 DEF LinkLayer, CreateLayer
  <2>3. CASE FillLayer(c)
    BY <1>1, <1>2, <2>3, FillIsWrite
  <2>4. CASE Seed(c)
    <3>1. Layer(c) \in Ids
      BY <2>4, RequestPoints DEF Seed, At
    <3>. QED
      BY <1>1, <1>2, <2>4, <3>1 DEF Seed, Engine!Call
  <2>5. CASE StartLeecher(c)
    <3>1. Layer(c) \in Ids /\ Offered[Layer(c)] \subseteq Versions
      BY <2>5, RequestPoints, ContentAssumption DEF StartLeecher, At
    <3>. QED
      BY <1>1, <1>2, <2>5, <3>1 DEF StartLeecher, Engine!Call
  <2>6. CASE Return(c)
    BY <2>6 DEF Return, Engine!Next
  <2>. QED
    BY <1>3, <2>1, <2>2, <2>3, <2>4, <2>5, <2>6 DEF Download
<1>4. ASSUME NEW c \in Calls, Stop(c) PROVE [Engine!Next]_(Engine!vars)
  <2>1. CASE \E name \in Names, clean \in BOOLEAN : StopDownload(c, name, clean)
    BY <1>1, <2>1 DEF StopDownload
  <2>2. CASE StopLayer(c) \/ DeleteLayer(c)
    <3>1. Layer(c) \in Ids
      BY <2>2, RequestPoints DEF StopLayer, DeleteLayer, At
    <3>. QED
      BY <1>1, <1>2, <2>2, <3>1 DEF StopLayer, DeleteLayer, Engine!Call
  <2>. QED
    BY <1>4, <2>1, <2>2 DEF Stop
<1>5. CASE Crash
  <2>1. ASSUME NEW c \in Calls, At(c, "seed") \/ At(c, "delete") PROVE Layer(c) \in Ids
    BY <2>1, RequestPoints DEF At
  <2>. QED
    BY <1>5, <2>1 DEF Crash, Engine!Next
<1>6. CASE EngineStep
  BY <1>6 DEF EngineStep, Engine!Next
<1>7. CASE (\E c \in Calls : Fail(c)) \/ UNCHANGED vars
  BY <1>1, <1>7 DEF Fail, vars
<1>. QED
  BY <1>3, <1>4, <1>5, <1>6, <1>7 DEF Next

\* The composition is sound: of its engine a daemon, its own writes to the layer
\* files included, asks and sees nothing but what EngineService says.
THEOREM DaemonUsesEngineService == Spec => UsesEngineService
<1> DEFINE Inv == TypeOK /\ CallsAreServed /\ LeecherSeedsNothing
<1>1. Init => Inv /\ Engine!Init
  <2> SUFFICES ASSUME Init PROVE Inv /\ Engine!Init
    OBVIOUS
  <2>1. TypeOK /\ Engine!Init
    BY InitInv DEF IInv, Init
  <2>2. CallsAreServed /\ LeecherSeedsNothing
    BY DEF Init, CallsAreServed, LeecherSeedsNothing, Seeding, At
  <2>. QED
    BY <2>1, <2>2
<1>2. Inv /\ [Next]_vars => Inv'
  BY TypeStep, CallsAreServedStep, LeecherSeedsNothingStep
<1>3. Inv /\ [Next]_vars => [Engine!Next]_(Engine!vars)
  BY EngineIsUsed
<1>. QED
  BY <1>1, <1>2, <1>3, PTL DEF Spec, UsesEngineService, Engine!Spec

-----------------------------------------------------------------------------
(* The layouts *)

WholeItems == {s \in Spots : Content(s) = Whole} \cup stored
Table(items) == [d \in Items |-> IF d \in items THEN d ELSE None]
Descriptors ==
    [n \in Names |-> IF refs[n] = None THEN None ELSE <<n[1], refs[n], "manifest">>]

\* Where blobs are copied, a whole one is one that is there.
LEMMA WholeItemsAreHeld ==
  ASSUME ~UseHardlink
  PROVE  /\ BlobsAreCopies => WholeItems = Held
         /\ BlobsAreCopies' => WholeItems' = Held'
<1>1. BlobsAreCopies => \A s \in Spots : Content(s) = Whole <=> blobs[s] # None
  BY ContentAssumption DEF BlobsAreCopies, Content
<1>2. BlobsAreCopies' => \A s \in Spots : Content(s)' = Whole <=> blobs'[s] # None
  BY ContentAssumption DEF BlobsAreCopies, Content
<1>. QED
  BY <1>1, <1>2 DEF WholeItems, Held

\* Its table and its descriptors are all that a layout shows.
LEMMA LayoutShows ==
  ASSUME UNCHANGED <<WholeItems, refs>>
  PROVE  UNCHANGED Layouts!vars
<1>1. Table(WholeItems)' = Table(WholeItems) /\ Descriptors' = Descriptors
  BY DEF Table, Descriptors
<1>. QED
  BY <1>1 DEF Layouts!vars, Table, WholeItems, Descriptors

LEMMA ItemIsPut ==
  ASSUME NEW d \in Items, WholeItems' = WholeItems \cup {d}, UNCHANGED refs
  PROVE  Layouts!PutBlob(d)
<1>1. Table(WholeItems)' = [Table(WholeItems) EXCEPT ![d] = d]
  BY DEF Table
<1>2. Descriptors' = Descriptors
  BY DEF Descriptors
<1>. QED
  BY <1>1, <1>2 DEF Layouts!PutBlob, Table, WholeItems, Descriptors

LEMMA ReferenceIsPut ==
  ASSUME TypeOK, NEW c \in Calls, WriteReference(c), WholeItems' = WholeItems
  PROVE  \E n \in Names, d \in Items :
           /\ Layouts!OverwriteReference(n, d)
           /\ refs[Name[Img(c)]] = None => Layouts!PutReference(n, d)
<1>1. PICK n \in Names, img \in Images :
        n = Name[img] /\ img = Img(c) /\ n[1] \in Repos
  BY RequestPoints DEF WriteReference, At
<1>2. PICK d \in Items : d = <<n[1], img, "manifest">>
  BY <1>1 DEF Items, Documents
<1>3. refs' = [refs EXCEPT ![n] = img]
  BY <1>1 DEF WriteReference
<1>4. Descriptors' = [Descriptors EXCEPT ![n] = d]
  BY <1>1, <1>2, <1>3, ContentAssumption DEF Descriptors, TypeOK
<1>5. Table(WholeItems)' = Table(WholeItems)
  BY DEF Table
<1>6. refs[n] = None => Descriptors[n] = None
  BY <1>1 DEF Descriptors
<1>7. Layouts!OverwriteReference(n, d)
  BY <1>4, <1>5 DEF Layouts!OverwriteReference, Table, WholeItems, Descriptors
<1>8. refs[n] = None => Layouts!PutReference(n, d)
  BY <1>4, <1>5, <1>6 DEF Layouts!PutReference, Table, WholeItems, Descriptors
<1>. QED
  BY <1>1, <1>7, <1>8

\* What a step does to the layouts.
LEMMA LayoutStep ==
  ASSUME ~UseHardlink, IInv, BlobsAreCopies, [Next]_vars
  PROVE  \/ UNCHANGED Layouts!vars
         \/ \E d \in Items : Layouts!PutBlob(d)
         \/ \E c \in Calls : WriteReference(c) /\ WholeItems' = WholeItems
<1> USE DEF IInv
<1>1. WholeItems = Held /\ WholeItems' = Held'
  BY WholeItemsAreHeld, CopiesStep
<1>2. ASSUME Held' = Held, UNCHANGED refs PROVE UNCHANGED Layouts!vars
  BY <1>1, <1>2, LayoutShows
<1>3. ASSUME UNCHANGED <<blobs, stored, refs>> PROVE UNCHANGED Layouts!vars
  BY <1>2, <1>3, HeldStays
<1>4. ASSUME NEW c \in Calls, Download(c), ~WriteReference(c)
      PROVE  UNCHANGED Layouts!vars \/ \E d \in Items : Layouts!PutBlob(d)
  <2>1. CASE CopyLayer(c) \/ LinkLayer(c) \/ CopyToLayout(c) \/ LinkToLayout(c)
    <3>1. PICK v \in {Whole, Linked} :
            /\ blobs' = [blobs EXCEPT ![Spot(c)] = v]
            /\ req[c] # None
            /\ UNCHANGED <<stored, refs>>
      BY <2>1 DEF CopyLayer, LinkLayer, CopyToLayout, LinkToLayout, At
    <3>2. Spot(c) \in Spots /\ v # None
      BY <3>1, RequestPoints, ContentAssumption
    <3>3. Held' = Held \cup {Spot(c)}
      BY <3>1, <3>2, BlobIsHeld
    <3>. QED
      BY <1>1, <3>1, <3>2, <3>3, ItemIsPut DEF Items
  <2>2. CASE PutConfig(c) \/ PutManifest(c)
    <3>1. PICK doc \in Documents :
            /\ stored' \in {stored, stored \cup {Document(c, doc)}}
            /\ req[c] # None
            /\ UNCHANGED <<blobs, refs>>
      BY <2>2 DEF PutConfig, PutManifest, At, Documents
    <3>2. Held' \in {Held, Held \cup {Document(c, doc)}}
      BY <3>1 DEF Held
    <3>. QED
      BY <1>1, <1>2, <3>1, <3>2, RequestPoints, ItemIsPut DEF Items
  <2>. QED
    BY <1>3, <1>4, <2>1, <2>2
       DEF Download, StartDownload, SkipLayer, MissLayer, CreateLayer, FillLayer, Seed,
           StartLeecher, Return, CheckReference, layout
<1>5. ASSUME NEW c \in Calls, WriteReference(c) PROVE WholeItems' = WholeItems
  BY <1>1, <1>5, HeldStays DEF WriteReference
<1>6. ASSUME NEW id \in Ids, KeepLinked(id), UNCHANGED <<stored, refs>>,
             Engine!DeleteTorrent(id) \/ Engine!CrashInDelete(id)
      PROVE  UNCHANGED Layouts!vars
  BY <1>2, <1>6, DeletedIsHeld
<1>7. ASSUME NEW c \in Calls, At(c, "delete"), KeepLinked(Layer(c)),
             UNCHANGED <<stored, refs>>,
             Engine!DeleteTorrent(Layer(c)) \/ Engine!CrashInDelete(Layer(c))
      PROVE  UNCHANGED Layouts!vars
  BY <1>6, <1>7, RequestPoints DEF At
<1>8. CASE \/ EngineStep \/ Crash \/ UNCHANGED vars
           \/ \E c \in Calls : Stop(c) \/ Fail(c)
  BY <1>3, <1>7, <1>8
     DEF EngineStep, Crash, vars, layout, Stop, StopDownload, StopLayer, DeleteLayer, Fail
<1>. QED
  BY <1>4, <1>5, <1>8 DEF Next

LEMMA LayoutInit == Init => Layouts!Init
<1> SUFFICES ASSUME Init PROVE Layouts!Init
  OBVIOUS
<1>1. \A s \in Spots : Content(s) # Whole
  BY ContentAssumption DEF Init, Content
<1>2. WholeItems = {}
  BY <1>1 DEF Init, WholeItems
<1>. QED
  BY <1>2 DEF Init, Layouts!Init, WholeItems

\* Where blobs are copied, a daemon uses its layouts as the store they are for
\* concurrent callers: every blob appears whole and at once and none goes.
THEOREM DaemonUsesLayoutStore ==
  ASSUME ~UseHardlink
  PROVE  Spec => UsesLayoutStore
<1>1. ASSUME IInv, BlobsAreCopies, [Next]_vars
      PROVE  [Layouts!WeakNext]_(Layouts!vars)
  <2>1. ASSUME NEW c \in Calls, WriteReference(c), WholeItems' = WholeItems
        PROVE  Layouts!WeakNext
    BY <1>1, <2>1, ReferenceIsPut DEF Layouts!WeakNext, IInv
  <2>. QED
    BY <1>1, <2>1, LayoutStep DEF Layouts!WeakNext, Layouts!Next
<1>. QED
  BY <1>1, LayoutInit, RequestInvariant, CopiesInvariant, PTL
     DEF Spec, UsesLayoutStore, Layouts!WeakSpec

\* A lone request finds the name still free when it writes its reference.
NameIsFree == \A c \in Calls : At(c, "write") => refs[Name[Img(c)]] = None

LEMMA NameIsFreeStep ==
  ASSUME \A c, d \in Calls : c = d, TypeOK, NameIsFree, [Next]_vars
  PROVE  NameIsFree'
<1> SUFFICES ASSUME NEW c \in Calls, req'[c] # None, req'[c].at = "write"
             PROVE  refs'[Name[Img(c)']] = None
  BY DEF NameIsFree, At
<1>1. CASE req'[c] = req[c]
  <2>1. refs[Name[Img(c)]] = None /\ Img(c)' = Img(c)
    BY <1>1 DEF NameIsFree, At, Img
  <2>2. ASSUME NEW d \in Calls, WriteReference(d) PROVE FALSE
    <3>1. d = c /\ req'[c] = None
      BY <2>2 DEF WriteReference, Succeed, End, TypeOK
    <3>. QED
      BY <3>1
  <2>. QED
    BY <2>1, <2>2, ReferenceSteps
<1>2. CASE CheckReference(c) /\ Img(c)' = Img(c)
  <2>1. refs[Name[Img(c)]] = None
    <3>1. ~Succeed(c)
      BY <1>2 DEF Succeed, End, TypeOK
    <3>. QED
      BY <1>2, <3>1 DEF CheckReference
  <2>. QED
    BY <1>2, <2>1 DEF CheckReference, layout
<1>. QED
  BY <1>1, <1>2, StepsTo

\* For one request at a time they are the documented store: no reference that
\* names one image is ever made to name another.
THEOREM LoneDaemonUsesDocumentedStore ==
  ASSUME ~UseHardlink, \A c, d \in Calls : c = d
  PROVE  Spec => UsesDocumentedStore
<1>1. Init => NameIsFree
  BY DEF Init, NameIsFree, At
<1>2. ASSUME IInv, BlobsAreCopies, NameIsFree, [Next]_vars
      PROVE  [Layouts!Next]_(Layouts!vars)
  <2>1. ASSUME NEW c \in Calls, WriteReference(c), WholeItems' = WholeItems
        PROVE  Layouts!Next
    BY <1>2, <2>1, ReferenceIsPut DEF NameIsFree, WriteReference, Layouts!Next, IInv
  <2>. QED
    BY <1>2, <2>1, LayoutStep DEF Layouts!Next
<1>3. IInv /\ NameIsFree /\ [Next]_vars => NameIsFree'
  BY NameIsFreeStep DEF IInv
<1>. QED
  BY <1>1, <1>2, <1>3, LayoutInit, RequestInvariant, CopiesInvariant, PTL
     DEF Spec, UsesDocumentedStore, Layouts!Spec
=============================================================================
